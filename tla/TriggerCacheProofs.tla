------------------------- MODULE TriggerCacheProofs -------------------------
(***************************************************************************)
(* The trigger cache is coherent, for any number of instances, triggers,   *)
(* lookups and writers: a load that raced a write is never kept beyond the *)
(* write's invalidation.                                                   *)
(***************************************************************************)
EXTENDS TriggerCache, TLAPS

\* A set is right for an instance, or about to be thrown away, or beyond what
\* the handlers know.
Sound(i, S) == S = Active(i) \/ Pending(i) \/ i \in lost

\* A load has its result from the table as it is, short of a pending write:
\* the mutex keeps every invalidation out until it is stored.
LoadedIsSound ==
  \A c \in Callers :
    call[c].pc = "store" => Sound(call[c].inst, call[c].result)

\* Whoever works on an instance names it.
InstancesNamed ==
  /\ \A c \in Callers : call[c].pc # "idle" => call[c].inst \in Instances
  /\ \A t \in Triggers : state[t] # "NONE" => scope[t] \in Instances

\* A writer has read the scope of a trigger that is there.
ScopesAgree ==
  \A w \in Writers :
    write[w].pc # "idle" =>
      /\ write[w].trg \in Triggers
      /\ state[write[w].trg] # "NONE"
      /\ scope[write[w].trg] = write[w].inst

CacheInv == TypeOK /\ InstancesNamed /\ ScopesAgree /\ Coherent /\ LoadedIsSound

-----------------------------------------------------------------------------
(* What a set holds.                                                       *)

\* The set the table gives an instance is one of candidates.
LEMMA ActiveTyped == ASSUME TypeOK, NEW i PROVE Active(i) \subseteq Candidate
<1> SUFFICES ASSUME NEW x \in Active(i) PROVE x \in Candidate
  OBVIOUS
<1>1. PICK t \in LiveIn(i) : x = [trg |-> t, version |-> version[t]]
  BY DEF Active
<1>2. t \in Triggers /\ version[t] \in Nat
  BY DEF LiveIn, TypeOK
<1> QED
  BY <1>1, <1>2 DEF Candidate

\* Nothing but the table goes into the set of an instance.
LEMMA ActiveStays ==
  ASSUME UNCHANGED table, NEW i
  PROVE  Active(i)' = Active(i)
BY DEF table, Active, LiveIn

\* A write of one trigger, which was of instance i or nowhere before and is of
\* instance i after, leaves the other instances alone.
LEMMA ActiveElsewhere ==
  ASSUME TypeOK, NEW t \in Triggers, NEW i, NEW j, i # j,
         state[t] = "LIVE" => scope[t] = i,
         scope'[t] = i,
         \A u \in Triggers \ {t} : /\ state'[u] = state[u]
                                   /\ scope'[u] = scope[u]
                                   /\ version'[u] = version[u]
  PROVE  Active(j)' = Active(j)
<1>1. LiveIn(j)' = LiveIn(j)
  BY DEF LiveIn
<1>2. t \notin LiveIn(j)
  BY DEF LiveIn
<1>3. \A u \in LiveIn(j) : version'[u] = version[u]
  BY <1>2 DEF LiveIn
<1> QED
  BY <1>1, <1>3 DEF Active

-----------------------------------------------------------------------------
(* A step that writes nothing to the table and forgets no write keeps      *)
(* whatever was sound.                                                     *)

\* Excuses are not withdrawn and the table is as it was.
LEMMA SoundStays ==
  ASSUME NEW i, NEW S, Sound(i, S), UNCHANGED table,
         Pending(i) => Pending(i)', i \in lost => i \in lost'
  PROVE  Sound(i, S)'
BY ActiveStays DEF Sound

\* A write that was applied keeps it too: its instance is excused, the others'
\* sets are what they were.
LEMMA AppliedIsSound ==
  ASSUME TypeOK, NEW w \in Writers, NEW t \in Triggers, NEW i \in Instances,
         Applied(w, t, i), write[w].pc # "invalidate",
         state[t] = "LIVE" => scope[t] = i,
         scope'[t] = i,
         \A u \in Triggers \ {t} : /\ state'[u] = state[u]
                                   /\ scope'[u] = scope[u]
                                   /\ version'[u] = version[u],
         NEW j, NEW S, Sound(j, S)
  PROVE  Sound(j, S)'
<1>1. CASE j = i
  <2>1. CASE write' = [write EXCEPT ![w] = [pc |-> "invalidate", trg |-> t,
                                            inst |-> i]]
    <3>1. write'[w].pc = "invalidate" /\ write'[w].inst = i
      BY <2>1 DEF TypeOK
    <3> QED
      BY <1>1, <3>1 DEF Sound, Pending
  <2>2. CASE lost' = lost \cup {i}
    BY <1>1, <2>2 DEF Sound
  <2> QED
    BY <2>1, <2>2 DEF Applied
<1>2. CASE j # i
  <2>1. Active(j)' = Active(j)
    BY <1>2, ActiveElsewhere
  <2>2. Pending(j) => Pending(j)'
    <3> SUFFICES ASSUME NEW v \in Writers, write[v].pc = "invalidate",
                        write[v].inst = j
                 PROVE  Pending(j)'
      BY DEF Pending
    <3>1. v # w
      OBVIOUS
    <3>2. write'[v] = write[v]
      BY <3>1 DEF Applied, TypeOK
    <3> QED
      BY <3>2 DEF Pending
  <2>3. j \in lost => j \in lost'
    BY DEF Applied
  <2> QED
    BY <2>1, <2>2, <2>3 DEF Sound
<1> QED
  BY <1>1, <1>2

-----------------------------------------------------------------------------
(* The invariant holds at first and through every step.                    *)

\* Nothing is cached, nobody is at work.
LEMMA InitEstablishes == Init => CacheInv
<1> SUFFICES ASSUME Init PROVE CacheInv
  OBVIOUS
<1>1. TypeOK
  BY NoneAssumption DEF Init, TypeOK, Call, NoCall, Write, NoWrite
<1>2. InstancesNamed /\ ScopesAgree /\ Coherent /\ LoadedIsSound
  BY DEF Init, InstancesNamed, ScopesAgree, Coherent, LoadedIsSound, NoCall,
         NoWrite
<1> QED
  BY <1>1, <1>2 DEF CacheInv

\* A lookup's step: only the cache and the caller's own state change.
LEMMA LookupPreserves ==
  ASSUME CacheInv, NEW c \in Callers, Lookup(c)
  PROVE  CacheInv'
<1> USE DEF CacheInv
<1>1. UNCHANGED <<table, write, lost>>
  BY DEF Lookup, Begin, Hit, Miss, Load, LoadFails, Store, Finish, table, cache
<1>2. ScopesAgree'
  BY <1>1 DEF ScopesAgree, table
<1>3. ASSUME NEW i, NEW S, Sound(i, S) PROVE Sound(i, S)'
  BY <1>1, <1>3, SoundStays DEF Pending
<1>4. CASE \E i \in Instances : Begin(c, i)
  <2>1. PICK i \in Instances : Begin(c, i)
    BY <1>4
  <2>2. call' = [call EXCEPT ![c] = [pc |-> "lookup", inst |-> i, result |-> {}]]
    BY <2>1 DEF Begin
  <2>3. Active(i) \subseteq Candidate
    BY ActiveTyped
  <2>4. TypeOK'
    <3>1. call' \in [Callers -> Call]
      BY <2>2 DEF TypeOK, Call
    <3>2. (\A d \in Callers : call[d].pc \in {"load", "store"} <=> lock = d)'
      BY <2>1, <2>2 DEF TypeOK, Begin, cache
    <3>3. seen' \in [Callers -> SUBSET SUBSET Candidate]
      BY <2>1, <2>3 DEF TypeOK, Begin
    <3>4. excused' \subseteq Callers
      BY <2>1 DEF TypeOK, Begin
    <3> QED
      BY <2>1, <3>1, <3>2, <3>3, <3>4 DEF TypeOK, Begin, table, cache
  <2>5. InstancesNamed'
    BY <2>2, <1>1 DEF InstancesNamed, table, TypeOK
  <2>6. Coherent'
    BY <2>1, <1>3 DEF Coherent, Begin, cache, Sound
  <2>7. LoadedIsSound'
    BY <2>2, <1>3 DEF LoadedIsSound, TypeOK
  <2> QED
    BY <1>2, <2>4, <2>5, <2>6, <2>7
<1>5. CASE Hit(c)
  <2>1. call' = [call EXCEPT ![c].pc = "done", ![c].result = set[call[c].inst]]
    BY <1>5 DEF Hit
  <2>2. call[c].inst \in Instances /\ call[c].pc = "lookup"
    BY <1>5 DEF Hit, InstancesNamed
  <2>3. TypeOK'
    <3>1. call' \in [Callers -> Call]
      <4>1. call[c] \in Call /\ set[call[c].inst] \in SUBSET Candidate
        BY <2>2 DEF TypeOK
      <4>2. [call[c] EXCEPT !.pc = "done", !.result = set[call[c].inst]] \in Call
        BY <4>1 DEF Call
      <4> QED
        BY <2>1, <4>2 DEF TypeOK
    <3>2. (\A d \in Callers : call[d].pc \in {"load", "store"} <=> lock = d)'
      BY <1>5, <2>1, <2>2 DEF TypeOK, Hit, cache
    <3> QED
      BY <1>5, <3>1, <3>2 DEF TypeOK, Hit, table, cache
  <2>4. InstancesNamed'
    BY <2>1, <2>2, <1>1 DEF InstancesNamed, table, TypeOK
  <2>5. Coherent'
    BY <1>5, <1>3 DEF Coherent, Hit, cache, Sound
  <2>6. LoadedIsSound'
    BY <2>1, <1>3 DEF LoadedIsSound, TypeOK
  <2> QED
    BY <1>2, <2>3, <2>4, <2>5, <2>6
<1>6. CASE Miss(c)
  <2>1. call' = [call EXCEPT ![c].pc = "load"]
    BY <1>6 DEF Miss
  <2>2. call[c].pc = "lookup"
    BY <1>6 DEF Miss
  <2>3. TypeOK'
    <3>1. call' \in [Callers -> Call]
      BY <2>1 DEF TypeOK, Call
    <3>2. (\A d \in Callers : call[d].pc \in {"load", "store"} <=> lock = d)'
      BY <1>6, <2>1, NoneAssumption DEF TypeOK, Miss
    <3> QED
      BY <1>6, <3>1, <3>2 DEF TypeOK, Miss, table
  <2>4. InstancesNamed'
    BY <2>1, <2>2, <1>1 DEF InstancesNamed, table, TypeOK
  <2>5. Coherent'
    BY <1>6, <1>3 DEF Coherent, Miss, Sound
  <2>6. LoadedIsSound'
    BY <2>1, <1>3 DEF LoadedIsSound, TypeOK
  <2> QED
    BY <1>2, <2>3, <2>4, <2>5, <2>6
<1>7. CASE Load(c)
  <2>1. call' = [call EXCEPT ![c].pc = "store",
                             ![c].result = Active(call[c].inst)]
    BY <1>7 DEF Load
  <2>2. call[c].pc = "load"
    BY <1>7 DEF Load
  <2>3. TypeOK'
    <3>1. Active(call[c].inst) \subseteq Candidate
      BY ActiveTyped
    <3>2. call' \in [Callers -> Call]
      <4>1. call[c] \in Call /\ Active(call[c].inst) \in SUBSET Candidate
        BY <3>1 DEF TypeOK
      <4>2. [call[c] EXCEPT !.pc = "store", !.result = Active(call[c].inst)] \in Call
        BY <4>1 DEF Call
      <4> QED
        BY <2>1, <4>2 DEF TypeOK
    <3>3. (\A d \in Callers : call[d].pc \in {"load", "store"} <=> lock = d)'
      BY <1>7, <2>1, <2>2 DEF TypeOK, Load, cache
    <3> QED
      BY <1>7, <3>2, <3>3 DEF TypeOK, Load, table, cache
  <2>4. InstancesNamed'
    BY <2>1, <2>2, <1>1 DEF InstancesNamed, table, TypeOK
  <2>5. Coherent'
    BY <1>7, <1>3 DEF Coherent, Load, cache, Sound
  <2>6. LoadedIsSound'
    <3>1. call'[c].inst = call[c].inst /\ call'[c].result = Active(call[c].inst)
      BY <2>1 DEF TypeOK, Call
    <3>2. Sound(call'[c].inst, call'[c].result)
      BY <3>1 DEF Sound
    <3>3. \A d \in Callers \ {c} : call'[d] = call[d]
      BY <2>1 DEF TypeOK
    <3>4. \A i, S : Sound(i, S) => Sound(i, S)'
      BY <1>3
    <3> QED
      BY <3>2, <3>3, <1>1, ActiveStays DEF LoadedIsSound, Sound, Pending
  <2> QED
    BY <1>2, <2>3, <2>4, <2>5, <2>6
<1>8. CASE LoadFails(c) \/ Finish(c)
  <2>1. call' = [call EXCEPT ![c] = NoCall]
    BY <1>8 DEF LoadFails, Finish
  <2>2. TypeOK'
    <3>1. call' \in [Callers -> Call]
      BY <2>1, NoneAssumption DEF TypeOK, Call, NoCall
    <3>2. (\A d \in Callers : call[d].pc \in {"load", "store"} <=> lock = d)'
      BY <1>8, <2>1, NoneAssumption
         DEF TypeOK, LoadFails, Finish, cache, NoCall
    <3> QED
      BY <1>8, <3>1, <3>2 DEF TypeOK, LoadFails, Finish, table, cache
  <2>3. InstancesNamed'
    BY <2>1, <1>1 DEF InstancesNamed, table, TypeOK, NoCall
  <2>4. Coherent'
    BY <1>8, <1>3 DEF Coherent, LoadFails, Finish, cache, Sound
  <2>5. LoadedIsSound'
    BY <2>1, <1>3 DEF LoadedIsSound, TypeOK, NoCall
  <2> QED
    BY <1>2, <2>2, <2>3, <2>4, <2>5
<1>9. CASE Store(c)
  <2>1. call' = [call EXCEPT ![c].pc = "done"]
    BY <1>9 DEF Store
  <2>2. call[c].inst \in Instances /\ call[c].pc = "store"
    BY <1>9 DEF Store, InstancesNamed
  <2>3. TypeOK'
    <3>1. call' \in [Callers -> Call]
      BY <2>1 DEF TypeOK, Call
    <3>2. (\A d \in Callers : call[d].pc \in {"load", "store"} <=> lock = d)'
      BY <1>9, <2>1, <2>2, NoneAssumption DEF TypeOK, Store
    <3>3. call[c].result \subseteq Candidate
      BY DEF TypeOK, Call
    <3> QED
      BY <1>9, <2>2, <3>1, <3>2, <3>3 DEF TypeOK, Store, table
  <2>4. InstancesNamed'
    BY <2>1, <2>2, <1>1 DEF InstancesNamed, table, TypeOK
  <2>5. Coherent'
    <3>1. Sound(call[c].inst, call[c].result)
      BY <2>2 DEF LoadedIsSound
    <3> QED
      BY <1>9, <2>2, <3>1, <1>1, ActiveStays
         DEF Coherent, Store, Sound, TypeOK, Pending
  <2>6. LoadedIsSound'
    BY <2>1, <1>3 DEF LoadedIsSound, TypeOK
  <2> QED
    BY <1>2, <2>3, <2>4, <2>5, <2>6
<1> QED
  BY <1>4, <1>5, <1>6, <1>7, <1>8, <1>9 DEF Lookup

\* Applying a write: what CreateTrigger, UpdateTrigger and DeleteTrigger share.
LEMMA AppliedPreserves ==
  ASSUME CacheInv, NEW w \in Writers, NEW t \in Triggers, NEW i \in Instances,
         Applied(w, t, i), write[w].pc # "invalidate",
         state' \in [Triggers -> {"NONE", "LIVE", "DELETED"}],
         scope' \in [Triggers -> Instances \cup {None}],
         version' \in [Triggers -> Nat],
         state[t] # "NONE" => scope[t] = i,
         state'[t] # "NONE", scope'[t] = i,
         \A u \in Triggers \ {t} : /\ state'[u] = state[u]
                                   /\ scope'[u] = scope[u]
                                   /\ version'[u] = version[u]
  PROVE  CacheInv'
<1> USE DEF CacheInv
<1>1. ASSUME NEW j, NEW S, Sound(j, S) PROVE Sound(j, S)'
  BY <1>1, AppliedIsSound
<1>2. UNCHANGED <<cache, call, excused>>
  BY DEF Applied
<1>3. write' \in [Writers -> Write]
  BY DEF Applied, TypeOK, Write, NoWrite
<1>4. TypeOK'
  <2>1. ASSUME NEW j PROVE Active(j)' \subseteq Candidate
    <3> SUFFICES ASSUME NEW x \in Active(j)' PROVE x \in Candidate
      OBVIOUS
    <3>1. PICK u \in LiveIn(j)' : x = [trg |-> u, version |-> version'[u]]
      BY DEF Active
    <3>2. u \in Triggers /\ version'[u] \in Nat
      BY DEF LiveIn
    <3> QED
      BY <3>1, <3>2 DEF Candidate
  <2>2. seen' \in [Callers -> SUBSET SUBSET Candidate]
    <3>1. ASSUME NEW c \in Callers
          PROVE  seen[c] \cup {Active(j)' : j \in {call[c].inst}}
                   \in SUBSET SUBSET Candidate
      BY <2>1 DEF TypeOK
    <3> QED
      BY <3>1 DEF Applied, Seeing, TypeOK
  <2>3. lost' \subseteq Instances
    BY DEF Applied, TypeOK
  <2> QED
    BY <1>2, <1>3, <2>2, <2>3 DEF TypeOK, cache
<1>5. InstancesNamed'
  <2>1. \A u \in Triggers : state'[u] # "NONE" => scope'[u] \in Instances
    BY DEF InstancesNamed
  <2> QED
    BY <1>2, <2>1 DEF InstancesNamed
<1>6. ScopesAgree'
  <2> SUFFICES ASSUME NEW v \in Writers, write'[v].pc # "idle"
               PROVE  /\ write'[v].trg \in Triggers
                      /\ state'[write'[v].trg] # "NONE"
                      /\ scope'[write'[v].trg] = write'[v].inst
    BY DEF ScopesAgree
  <2>1. CASE v = w
    <3>1. write'[w] = [pc |-> "invalidate", trg |-> t, inst |-> i]
      BY <2>1 DEF Applied, TypeOK, NoWrite
    <3> QED
      BY <2>1, <3>1
  <2>2. CASE v # w
    <3>1. write'[v] = write[v]
      BY <2>2 DEF Applied, TypeOK
    <3>2. /\ write[v].trg \in Triggers
          /\ state[write[v].trg] # "NONE"
          /\ scope[write[v].trg] = write[v].inst
      BY <3>1 DEF ScopesAgree
    <3>3. CASE write[v].trg = t
      BY <3>1, <3>2, <3>3
    <3>4. CASE write[v].trg # t
      BY <3>1, <3>2, <3>4
    <3> QED
      BY <3>3, <3>4
  <2> QED
    BY <2>1, <2>2
<1>7. Coherent'
  BY <1>1, <1>2 DEF Coherent, cache, Sound
<1>8. LoadedIsSound'
  BY <1>1, <1>2 DEF LoadedIsSound
<1> QED
  BY <1>4, <1>5, <1>6, <1>7, <1>8

\* A writer's step.
LEMMA WritingPreserves ==
  ASSUME CacheInv, NEW w \in Writers, Writing(w)
  PROVE  CacheInv'
<1> USE DEF CacheInv
<1>1. CASE \E t \in Triggers, i \in Instances : CreateTrigger(w, t, i)
  <2>1. PICK t \in Triggers, i \in Instances : CreateTrigger(w, t, i)
    BY <1>1
  <2>2. /\ state' = [state EXCEPT ![t] = "LIVE"]
        /\ scope' = [scope EXCEPT ![t] = i]
        /\ UNCHANGED version
        /\ state[t] = "NONE" /\ write[w].pc = "idle"
        /\ Applied(w, t, i)
    BY <2>1 DEF CreateTrigger
  <2>3. /\ state' \in [Triggers -> {"NONE", "LIVE", "DELETED"}]
        /\ scope' \in [Triggers -> Instances \cup {None}]
        /\ version' \in [Triggers -> Nat]
        /\ state'[t] # "NONE" /\ scope'[t] = i
        /\ \A u \in Triggers \ {t} : /\ state'[u] = state[u]
                                      /\ scope'[u] = scope[u]
                                      /\ version'[u] = version[u]
    BY <2>2 DEF TypeOK
  <2> QED
    BY <2>2, <2>3, AppliedPreserves
<1>2. CASE UpdateTrigger(w) \/ DeleteTrigger(w)
  <2> DEFINE t == write[w].trg
             i == write[w].inst
  <2>1. /\ write[w].pc \in {"update", "delete"}
        /\ state[t] = "LIVE"
        /\ UNCHANGED scope
        /\ Applied(w, t, i)
    BY <1>2 DEF UpdateTrigger, DeleteTrigger
  <2>2. t \in Triggers /\ scope[t] = i
    BY <2>1 DEF ScopesAgree
  <2>3. i \in Instances
    BY <2>1, <2>2 DEF InstancesNamed
  <2>4. /\ state' \in [Triggers -> {"NONE", "LIVE", "DELETED"}]
        /\ version' \in [Triggers -> Nat]
        /\ state'[t] # "NONE"
        /\ \A u \in Triggers \ {t} : /\ state'[u] = state[u]
                                      /\ version'[u] = version[u]
    <3>1. CASE UpdateTrigger(w)
      BY <2>1, <2>2, <3>1 DEF UpdateTrigger, TypeOK
    <3>2. CASE DeleteTrigger(w)
      BY <2>1, <2>2, <3>2 DEF DeleteTrigger, TypeOK
    <3> QED
      BY <1>2, <3>1, <3>2
  <2>5. scope' \in [Triggers -> Instances \cup {None}]
    BY <2>1 DEF TypeOK
  <2> HIDE DEF t, i
  <2> QED
    BY <2>1, <2>2, <2>3, <2>4, <2>5, AppliedPreserves
<1>3. CASE (\E t \in Triggers : ReadScope(w, t)) \/ WriteRefused(w)
  <2>1. /\ UNCHANGED <<table, cache, call, lost, seen, excused>>
        /\ write[w].pc # "invalidate"
    BY <1>3 DEF ReadScope, WriteRefused
  <2>2. PICK x \in Write : /\ write' = [write EXCEPT ![w] = x]
                           /\ \/ x = NoWrite
                              \/ /\ x.trg \in Triggers
                                 /\ state[x.trg] # "NONE"
                                 /\ x.inst = scope[x.trg]
    <3>1. CASE WriteRefused(w)
      BY <3>1 DEF WriteRefused, Write, NoWrite
    <3>2. ASSUME NEW t \in Triggers, ReadScope(w, t)
          PROVE  \E x \in Write : /\ write' = [write EXCEPT ![w] = x]
                                  /\ x.trg \in Triggers
                                  /\ state[x.trg] # "NONE"
                                  /\ x.inst = scope[x.trg]
      <4>1. PICK op \in {"update", "delete"} :
              write' = [write EXCEPT ![w] =
                          [pc |-> op, trg |-> t, inst |-> scope[t]]]
        BY <3>2 DEF ReadScope
      <4>2. [pc |-> op, trg |-> t, inst |-> scope[t]] \in Write
        BY DEF Write, TypeOK
      <4> QED
        BY <3>2, <4>1, <4>2 DEF ReadScope
    <3> QED
      BY <1>3, <3>1, <3>2
  <2>3. ASSUME NEW j, Pending(j) PROVE Pending(j)'
    <3>1. PICK v \in Writers : write[v].pc = "invalidate" /\ write[v].inst = j
      BY <2>3 DEF Pending
    <3>2. write'[v] = write[v]
      BY <2>1, <2>2, <3>1 DEF TypeOK
    <3> QED
      BY <3>1, <3>2 DEF Pending
  <2>4. ASSUME NEW j, NEW S, Sound(j, S) PROVE Sound(j, S)'
    BY <2>1, <2>3, <2>4, SoundStays
  <2>5. TypeOK'
    BY <2>1, <2>2 DEF TypeOK, table, cache
  <2>6. InstancesNamed'
    BY <2>1 DEF InstancesNamed, table
  <2>7. ScopesAgree'
    BY <2>1, <2>2 DEF ScopesAgree, TypeOK, NoWrite, table
  <2>8. Coherent'
    BY <2>1, <2>4 DEF Coherent, Sound, cache
  <2>9. LoadedIsSound'
    BY <2>1, <2>4 DEF LoadedIsSound
  <2> QED
    BY <2>5, <2>6, <2>7, <2>8, <2>9
<1>4. CASE Invalidate(w)
  <2> DEFINE i == write[w].inst
  <2>1. /\ lock = None
        /\ cached' = cached \ {i}
        /\ set' = [set EXCEPT ![i] = {}]
        /\ lost' = lost \ {i}
        /\ write' = [write EXCEPT ![w] = NoWrite]
        /\ UNCHANGED <<table, lock, call, seen, excused>>
    BY <1>4 DEF Invalidate
  <2>2. ASSUME NEW j, j # i, NEW S, Sound(j, S) PROVE Sound(j, S)'
    <3>1. Pending(j) => Pending(j)'
      BY <2>1, <2>2 DEF Pending, TypeOK
    <3> QED
      BY <2>1, <2>2, <3>1, SoundStays
  <2>3. TypeOK'
    BY <2>1, NoneAssumption DEF TypeOK, table, Write, NoWrite
  <2>4. InstancesNamed'
    BY <2>1 DEF InstancesNamed, table
  <2>5. ScopesAgree'
    BY <2>1 DEF ScopesAgree, table, TypeOK, NoWrite
  <2>6. Coherent'
    <3> SUFFICES ASSUME NEW j \in Instances, j \in cached'
                 PROVE  Sound(j, set[j])'
      BY <2>3 DEF Coherent, Sound, TypeOK
    <3>1. j \in cached /\ j # i
      BY <2>1
    <3>2. set'[j] = set[j]
      BY <2>1, <3>1 DEF TypeOK
    <3>3. \A S : Sound(j, S) => Sound(j, S)'
      BY <2>2, <3>1
    <3>4. Sound(j, set[j])
      BY <3>1 DEF Coherent, Sound
    <3> QED
      BY <3>2, <3>3, <3>4 DEF Sound
  <2>7. \A c \in Callers : call'[c].pc # "store"
    BY <2>1, NoneAssumption DEF TypeOK
  <2>8. LoadedIsSound'
    BY <2>7 DEF LoadedIsSound
  <2> QED
    BY <2>3, <2>4, <2>5, <2>6, <2>8
<1> QED
  BY <1>1, <1>2, <1>3, <1>4 DEF Writing

\* A crash leaves an empty cache and no handler.
LEMMA CrashPreserves == ASSUME CacheInv, ServerCrash PROVE CacheInv'
<1> USE DEF CacheInv
<1>1. TypeOK'
  BY NoneAssumption DEF TypeOK, ServerCrash, table, Call, NoCall, Write, NoWrite
<1>2. InstancesNamed' /\ ScopesAgree'
  BY DEF ServerCrash, InstancesNamed, ScopesAgree, table, NoCall, NoWrite
<1>3. Coherent' /\ LoadedIsSound'
  BY DEF ServerCrash, Coherent, LoadedIsSound, NoCall
<1> QED
  BY <1>1, <1>2, <1>3

\* Nothing changes.
LEMMA StutterPreserves == ASSUME CacheInv, UNCHANGED vars PROVE CacheInv'
<1>1. UNCHANGED table
  BY DEF vars
<1>2. \A i : Active(i)' = Active(i)
  BY <1>1, ActiveStays
<1> QED
  BY <1>2 DEF CacheInv, TypeOK, InstancesNamed, ScopesAgree, Coherent,
              LoadedIsSound, Sound, Pending, vars, table, cache

\* A load is made and kept under the mutex, so a cached set, and one about to be
\* cached, is right until a write that has yet to invalidate it.
THEOREM CacheInvCorrect == Spec => []CacheInv
<1>1. Init => CacheInv
  BY InitEstablishes
<1>2. CacheInv /\ [Next]_vars => CacheInv'
  BY LookupPreserves, WritingPreserves, CrashPreserves, StutterPreserves DEF Next
<1> QED
  BY <1>1, <1>2, PTL DEF Spec

-----------------------------------------------------------------------------
(* A lookup is current.  While it is under way it has seen what the table  *)
(* says, what the cache holds and what anyone is about to store there: a   *)
(* load still in flight from before it began is sound, so with no write    *)
(* pending or lost it has what the table says.                             *)

Current(c) ==
  /\ call[c].pc \in {"lookup", "load", "store"} =>
       /\ Active(call[c].inst) \in seen[c]
       /\ call[c].inst \in cached => set[call[c].inst] \in seen[c]
       /\ \A d \in Callers :
            call[d].pc = "store" /\ call[d].inst = call[c].inst =>
              call[d].result \in seen[c]
  /\ call[c].pc = "done" => call[c].result \in seen[c]

AllCurrent == \A c \in Callers \ excused : Current(c)

\* One lookup's step leaves every lookup current, its own included.
LEMMA LookupKeepsCurrent ==
  ASSUME CacheInv, AllCurrent, NEW c \in Callers, Lookup(c)
  PROVE  AllCurrent'
<1> USE DEF CacheInv
<1> SUFFICES ASSUME NEW b \in Callers, b \notin excused'
             PROVE  Current(b)'
  BY DEF AllCurrent
<1>1. \A i : Active(i)' = Active(i)
  <2>1. UNCHANGED table
    BY DEF Lookup, Begin, Hit, Miss, Load, LoadFails, Store, Finish
  <2> QED
    BY <2>1, ActiveStays
<1>2. CASE \E i \in Instances : Begin(c, i)
  <2>1. PICK i \in Instances : Begin(c, i)
    BY <1>2
  <2>2. /\ call' = [call EXCEPT ![c] = [pc |-> "lookup", inst |-> i,
                                        result |-> {}]]
        /\ seen' = [seen EXCEPT ![c] = {Active(i)}]
        /\ UNCHANGED <<cached, set>>
    BY <2>1 DEF Begin, cache
  <2>3. CASE b = c
    <3>1. ~ Pending(i) /\ i \notin lost
      BY <2>1, <2>3 DEF Begin
    <3>2. i \in cached => set[i] = Active(i)
      BY <3>1 DEF Coherent
    <3>3. \A d \in Callers :
            call[d].pc = "store" /\ call[d].inst = i =>
              call[d].result = Active(i)
      BY <3>1 DEF LoadedIsSound, Sound
    <3>4. \A d \in Callers : call'[d].pc = "store" => call'[d] = call[d]
      BY <2>2 DEF TypeOK
    <3>5. call'[b].pc = "lookup" /\ call'[b].inst = i /\ seen'[b] = {Active(i)}
      BY <2>2, <2>3 DEF TypeOK
    <3> QED
      BY <2>2, <1>1, <3>2, <3>3, <3>4, <3>5 DEF Current
  <2>4. CASE b # c
    <3>1. Current(b)
      BY <2>1, <2>4 DEF Begin, AllCurrent
    <3>2. call'[b] = call[b] /\ seen'[b] = seen[b]
      BY <2>2, <2>4 DEF TypeOK
    <3>3. \A d \in Callers : call'[d].pc = "store" => call'[d] = call[d]
      BY <2>2 DEF TypeOK
    <3> QED
      BY <2>2, <1>1, <3>1, <3>2, <3>3 DEF Current
  <2> QED
    BY <2>3, <2>4
<1>3. CASE Hit(c) \/ Miss(c)
  <2>1. UNCHANGED <<cached, set, seen, excused>> /\ call[c].pc = "lookup"
    BY <1>3 DEF Hit, Miss, cache
  <2>2. Current(b)
    BY <2>1 DEF AllCurrent
  <2>3. \A d \in Callers \ {c} : call'[d] = call[d]
    BY <1>3 DEF Hit, Miss, TypeOK
  <2>4. \/ call'[c].pc = "load" /\ call'[c].inst = call[c].inst
        \/ /\ call'[c].pc = "done" /\ call'[c].result = set[call[c].inst]
           /\ call[c].inst \in cached
    <3>1. CASE Hit(c)
      BY <3>1 DEF Hit, TypeOK, Call
    <3>2. CASE Miss(c)
      BY <3>2 DEF Miss, TypeOK, Call
    <3> QED
      BY <1>3, <3>1, <3>2
  <2>5. CASE b = c
    BY <2>1, <2>2, <2>3, <2>4, <2>5, <1>1 DEF Current
  <2>6. CASE b # c
    BY <2>1, <2>2, <2>3, <2>4, <2>6, <1>1 DEF Current
  <2> QED
    BY <2>5, <2>6
<1>4. CASE Load(c)
  <2>1. /\ UNCHANGED <<cached, set, seen, excused>>
        /\ call[c].pc = "load"
        /\ call' = [call EXCEPT ![c].pc = "store",
                                ![c].result = Active(call[c].inst)]
    BY <1>4 DEF Load, cache
  <2>2. Current(b)
    BY <2>1 DEF AllCurrent
  <2>3. /\ \A d \in Callers \ {c} : call'[d] = call[d]
        /\ call'[c].pc = "store" /\ call'[c].inst = call[c].inst
        /\ call'[c].result = Active(call[c].inst)
    BY <2>1 DEF TypeOK, Call
  <2>4. /\ call'[b].inst = call[b].inst
        /\ call'[b].pc = "done" =>
             call[b].pc = "done" /\ call'[b].result = call[b].result
        /\ call'[b].pc \in {"lookup", "load", "store"} =>
             call[b].pc \in {"lookup", "load", "store"}
    BY <2>1, <2>3
  <2>5. ASSUME call[b].pc \in {"lookup", "load", "store"},
               NEW d \in Callers,
               call'[d].pc = "store", call'[d].inst = call[b].inst
        PROVE  call'[d].result \in seen[b]
    <3>1. CASE d = c
      <4>1. call'[d].result = Active(call[b].inst)
        BY <2>3, <2>5, <3>1
      <4> QED
        BY <2>2, <2>5, <4>1 DEF Current
    <3>2. CASE d # c
      BY <2>2, <2>3, <2>5, <3>2 DEF Current
    <3> QED
      BY <3>1, <3>2
  <2>6. CASE call'[b].pc \in {"lookup", "load", "store"}
    <3>1. Active(call[b].inst) \in seen[b]
      BY <2>2, <2>4, <2>6 DEF Current
    <3>2. Active(call[b].inst)' \in seen'[b]
      BY <1>1, <2>1, <2>4, <3>1
    <3>3. call'[b].inst \in cached' => set'[call'[b].inst] \in seen'[b]
      BY <2>1, <2>2, <2>4, <2>6 DEF Current
    <3> QED
      BY <2>1, <2>4, <2>5, <2>6, <3>2, <3>3 DEF Current
  <2>7. CASE call'[b].pc \notin {"lookup", "load", "store"}
    BY <2>1, <2>2, <2>4, <2>7 DEF Current
  <2> QED
    BY <2>6, <2>7
<1>5. CASE LoadFails(c) \/ Finish(c)
  <2>1. /\ UNCHANGED <<cached, set>>
        /\ call' = [call EXCEPT ![c] = NoCall]
        /\ seen' = [seen EXCEPT ![c] = {}]
        /\ excused' = excused \ {c}
    BY <1>5 DEF LoadFails, Finish, cache
  <2>2. call'[c].pc = "idle"
    BY <2>1 DEF TypeOK, NoCall
  <2>3. \A d \in Callers \ {c} : call'[d] = call[d] /\ seen'[d] = seen[d]
    BY <2>1 DEF TypeOK
  <2>4. CASE b = c
    BY <2>2, <2>4 DEF Current
  <2>5. CASE b # c
    <3>1. Current(b)
      BY <2>1, <2>5 DEF AllCurrent
    <3> QED
      BY <2>1, <2>2, <2>3, <2>5, <3>1, <1>1 DEF Current
  <2> QED
    BY <2>4, <2>5
<1>6. CASE Store(c)
  <2>1. /\ UNCHANGED <<seen, excused>>
        /\ call[c].pc = "store" /\ call[c].inst \in Instances
        /\ cached' = cached \cup {call[c].inst}
        /\ set' = [set EXCEPT ![call[c].inst] = call[c].result]
        /\ call' = [call EXCEPT ![c].pc = "done"]
    BY <1>6 DEF Store, InstancesNamed
  <2>2. Current(b)
    BY <2>1 DEF AllCurrent
  <2>3. /\ \A d \in Callers \ {c} : call'[d] = call[d]
        /\ call'[c].pc = "done" /\ call'[c].result = call[c].result
    BY <2>1 DEF TypeOK, Call
  <2>4. CASE b = c
    BY <2>1, <2>2, <2>3, <2>4 DEF Current
  <2>5. CASE b # c
    <3>1. CASE call[b].inst = call[c].inst
      BY <2>1, <2>2, <2>3, <2>5, <3>1, <1>1 DEF Current, TypeOK
    <3>2. CASE call[b].inst # call[c].inst
      <4>1. /\ call[b].inst \in cached' => call[b].inst \in cached
            /\ call[b].inst \in cached =>
                 set'[call[b].inst] = set[call[b].inst]
        BY <2>1, <3>2 DEF TypeOK
      <4> QED
        BY <2>1, <2>2, <2>3, <2>5, <4>1, <1>1 DEF Current
    <3> QED
      BY <3>1, <3>2
  <2> QED
    BY <2>4, <2>5
<1> QED
  BY <1>2, <1>3, <1>4, <1>5, <1>6 DEF Lookup

\* What is written to the table is seen by the lookups under way; invalidating
\* only takes from the cache.
LEMMA WritingKeepsCurrent ==
  ASSUME CacheInv, AllCurrent, NEW w \in Writers, Writing(w)
  PROVE  AllCurrent'
<1> USE DEF CacheInv
<1>1. UNCHANGED <<call, excused>>
  BY DEF Writing, CreateTrigger, ReadScope, UpdateTrigger, DeleteTrigger,
         WriteRefused, Invalidate, Applied
<1> SUFFICES ASSUME NEW b \in Callers, b \notin excused'
             PROVE  Current(b)'
  BY DEF AllCurrent
<1>2. Current(b)
  BY <1>1 DEF AllCurrent
<1>3. CASE UNCHANGED cache /\ Seeing
  <2>1. CASE call[b].pc \in {"lookup", "load", "store"}
    <3>1. seen'[b] = seen[b] \cup {Active(i)' : i \in {call[b].inst}}
      BY <1>3, <2>1 DEF Seeing, TypeOK
    <3>2. seen[b] \subseteq seen'[b]
      BY <3>1
    <3>3. Active(call[b].inst)' \in seen'[b]
      BY <1>1, <3>1
    <3> QED
      BY <1>1, <1>2, <1>3, <2>1, <3>2, <3>3 DEF Current, cache
  <2>2. CASE call[b].pc \notin {"lookup", "load", "store"}
    <3>1. seen'[b] = seen[b]
      BY <1>3, <2>2 DEF Seeing, TypeOK
    <3> QED
      BY <1>1, <1>2, <2>2, <3>1 DEF Current
  <2> QED
    BY <2>1, <2>2
<1>4. CASE UNCHANGED <<table, cache, seen>>
  <2>1. \A i : Active(i)' = Active(i)
    BY <1>4, ActiveStays
  <2> QED
    BY <1>1, <1>2, <1>4, <2>1 DEF Current, cache
<1>5. CASE Invalidate(w)
  <2>1. \A i : Active(i)' = Active(i)
    BY <1>5, ActiveStays DEF Invalidate
  <2>2. /\ cached' = cached \ {write[w].inst}
        /\ set' = [set EXCEPT ![write[w].inst] = {}]
        /\ UNCHANGED seen
    BY <1>5 DEF Invalidate
  <2>3. \A i \in cached' : i \in cached /\ set'[i] = set[i]
    BY <2>2 DEF TypeOK
  <2> QED
    BY <1>1, <1>2, <2>1, <2>2, <2>3 DEF Current
<1> QED
  BY <1>3, <1>4, <1>5 DEF Writing, CreateTrigger, ReadScope, UpdateTrigger,
     DeleteTrigger, WriteRefused, Applied

\* Every lookup that began undisturbed has seen all it can be given.
THEOREM AllCurrentCorrect == Spec => []AllCurrent
<1>1. Init => AllCurrent
  BY DEF Init, AllCurrent, Current, NoCall
<1>2. CacheInv /\ AllCurrent /\ ServerCrash => AllCurrent'
  BY DEF ServerCrash, AllCurrent, Current, NoCall
<1>3. CacheInv /\ AllCurrent /\ UNCHANGED vars => AllCurrent'
  <2> SUFFICES ASSUME CacheInv, AllCurrent, UNCHANGED vars PROVE AllCurrent'
    OBVIOUS
  <2>1. \A i : Active(i)' = Active(i)
    BY ActiveStays DEF vars
  <2> QED
    BY <2>1 DEF AllCurrent, Current, vars, cache
<1>4. CacheInv /\ AllCurrent /\ [Next]_vars => AllCurrent'
  BY <1>2, <1>3, LookupKeepsCurrent, WritingKeepsCurrent DEF Next
<1> QED
  BY <1>1, <1>4, CacheInvCorrect, PTL DEF Spec

-----------------------------------------------------------------------------
(* What the cache promises.                                                *)

\* The variables keep their types, and the mutex belongs to the lookup that is
\* loading or storing and to nobody else.
THEOREM CacheTypeCorrect == Spec => []TypeOK
BY CacheInvCorrect, PTL DEF CacheInv

\* A cached set is what the table says, unless a write of its instance waits to
\* invalidate it or was applied and reported as failed.
THEOREM CoherentCorrect == Spec => []Coherent
BY CacheInvCorrect, PTL DEF CacheInv

\* A lookup that begins with no write of its instance pending or lost gets a set
\* that was right at some instant of the lookup.
THEOREM LookupIsCurrentCorrect == Spec => []LookupIsCurrent
<1>1. AllCurrent => LookupIsCurrent
  BY DEF AllCurrent, Current, LookupIsCurrent
<1> QED
  BY <1>1, AllCurrentCorrect, PTL

=============================================================================
