---------------------------- MODULE TriggerCache ----------------------------
(***************************************************************************)
(* The compiled trigger sets the server keeps per instance, so that a      *)
(* message that matches nothing costs no query: a read-through cache in    *)
(* front of the trigger table.  TryTrigger and ExecTrigger look sets up;   *)
(* CreateTrigger, UpdateTrigger and DeleteTrigger write the table and then *)
(* invalidate.  One mutex guards the cache and is held across a load.      *)
(***************************************************************************)
EXTENDS Integers, FiniteSets

CONSTANTS
  Instances,      \* guilds and rooms
  Triggers,       \* trigger ids, in the order they are made
  Callers,        \* concurrent lookups
  Writers,        \* concurrent writes
  None,           \* no instance, no trigger, nobody
  MaxCandidates,  \* triggers one set holds
  MaxVersion      \* bound: edits of one trigger

ASSUME TriggersAssumption == Triggers \subseteq Nat
ASSUME NoneAssumption     == None \notin Instances \cup Callers \cup Nat
ASSUME BoundsAssumption   == MaxCandidates \in Nat /\ MaxVersion \in Nat

VARIABLES
  \* The trigger table: per trigger,
  state,    \*   is it there, or soft deleted
  scope,    \*   the instance it belongs to; never changes
  version,  \*   its phrase, chance and mode, told apart by a number
  \* The cache:
  cached,   \* instances it has a set for
  set,      \* the sets
  lock,     \* who holds the mutex during a load
  \* The handlers:
  call,     \* lookups
  write,    \* writes
  \* History, not in the program:
  lost,     \* instances with a write that was applied and reported as failed
  seen,     \* per lookup: the sets that were right at some time since it began
  excused   \* lookups that began while their instance had a pending or lost write

table == <<state, scope, version>>
cache == <<cached, set, lock>>
vars  == <<table, cache, call, write, lost, seen, excused>>

-----------------------------------------------------------------------------
Candidate == [trg : Triggers, version : Nat]

Call == [pc : {"idle", "lookup", "load", "store", "done"},
         inst : Instances \cup {None}, result : SUBSET Candidate]

Write == [pc : {"idle", "update", "delete", "invalidate"},
          trg : Triggers \cup {None}, inst : Instances \cup {None}]

NoCall  == [pc |-> "idle", inst |-> None, result |-> {}]
NoWrite == [pc |-> "idle", trg |-> None, inst |-> None]

TypeOK ==
  /\ state \in [Triggers -> {"NONE", "LIVE", "DELETED"}]
  /\ scope \in [Triggers -> Instances \cup {None}]
  /\ version \in [Triggers -> Nat]
  /\ cached \subseteq Instances
  /\ set \in [Instances -> SUBSET Candidate]
  /\ lock \in Callers \cup {None}
  /\ call \in [Callers -> Call]
  /\ \A c \in Callers : call[c].pc \in {"load", "store"} <=> lock = c
  /\ write \in [Writers -> Write]
  /\ lost \subseteq Instances
  /\ seen \in [Callers -> SUBSET SUBSET Candidate]
  /\ excused \subseteq Callers

Init ==
  /\ state = [t \in Triggers |-> "NONE"]
  /\ scope = [t \in Triggers |-> None]
  /\ version = [t \in Triggers |-> 0]
  /\ cached = {}
  /\ set = [i \in Instances |-> {}]
  /\ lock = None
  /\ call = [c \in Callers |-> NoCall]
  /\ write = [w \in Writers |-> NoWrite]
  /\ lost = {}
  /\ seen = [c \in Callers |-> {}]
  /\ excused = {}

\* ListActiveTriggersByInstance: the first MaxCandidates of the live ones.
LiveIn(i) == {t \in Triggers : state[t] = "LIVE" /\ scope[t] = i}

Active(i) ==
  {[trg |-> t, version |-> version[t]] :
     t \in {u \in LiveIn(i) :
              Cardinality({v \in LiveIn(i) : v < u}) < MaxCandidates}}

\* A write of i is applied and not yet followed by its invalidation.
Pending(i) == \E w \in Writers : write[w].pc = "invalidate" /\ write[w].inst = i

-----------------------------------------------------------------------------
(* Lookups: Cache.Candidates.                                              *)

Begin(c, i) ==
  /\ call[c].pc = "idle"
  /\ call' = [call EXCEPT ![c] = [pc |-> "lookup", inst |-> i, result |-> {}]]
  /\ seen' = [seen EXCEPT ![c] = {Active(i)}]
  /\ excused' = IF Pending(i) \/ i \in lost THEN excused \cup {c} ELSE excused
  /\ UNCHANGED <<table, cache, write, lost>>

Hit(c) ==
  /\ call[c].pc = "lookup"
  /\ lock = None
  /\ call[c].inst \in cached
  /\ call' = [call EXCEPT ![c].pc = "done", ![c].result = set[call[c].inst]]
  /\ UNCHANGED <<table, cache, write, lost, seen, excused>>

Miss(c) ==
  /\ call[c].pc = "lookup"
  /\ lock = None
  /\ call[c].inst \notin cached
  /\ lock' = c
  /\ call' = [call EXCEPT ![c].pc = "load"]
  /\ UNCHANGED <<table, cached, set, write, lost, seen, excused>>

\* Mutant of Load: the mutex is let go once the query is answered.
LoadUnlocking(c) ==
  /\ call[c].pc = "load"
  /\ lock' = None
  /\ call' = [call EXCEPT ![c].pc = "store", ![c].result = Active(call[c].inst)]
  /\ UNCHANGED <<table, cached, set, write, lost, seen, excused>>

Load(c) ==
  /\ call[c].pc = "load"
  /\ call' = [call EXCEPT ![c].pc = "store", ![c].result = Active(call[c].inst)]
  /\ UNCHANGED <<table, cache, write, lost, seen, excused>>

\* Mutant of LoadFails: an early return without the unlock.
LoadFailsLocked(c) ==
  /\ call[c].pc = "load"
  /\ call' = [call EXCEPT ![c] = NoCall]
  /\ seen' = [seen EXCEPT ![c] = {}]
  /\ excused' = excused \ {c}
  /\ UNCHANGED <<table, cache, write, lost>>

LoadFails(c) ==
  /\ call[c].pc = "load"
  /\ lock' = None
  /\ call' = [call EXCEPT ![c] = NoCall]
  /\ seen' = [seen EXCEPT ![c] = {}]
  /\ excused' = excused \ {c}
  /\ UNCHANGED <<table, cached, set, write, lost>>

\* An empty set is cached like any other.
Store(c) ==
  /\ call[c].pc = "store"
  /\ cached' = cached \cup {call[c].inst}
  /\ set' = [set EXCEPT ![call[c].inst] = call[c].result]
  /\ lock' = None
  /\ call' = [call EXCEPT ![c].pc = "done"]
  /\ UNCHANGED <<table, write, lost, seen, excused>>

\* The handler picks a candidate of the result, reads its row again and
\* replies; the cache plays no part in that.
Finish(c) ==
  /\ call[c].pc = "done"
  /\ call' = [call EXCEPT ![c] = NoCall]
  /\ seen' = [seen EXCEPT ![c] = {}]
  /\ excused' = excused \ {c}
  /\ UNCHANGED <<table, cache, write, lost>>

-----------------------------------------------------------------------------
(* Writes.                                                                 *)

\* Lookups under way have seen the table change.
Seeing == seen' = [c \in Callers |->
                     IF call[c].pc \in {"lookup", "load", "store"}
                       THEN seen[c] \cup {Active(i)' : i \in {call[c].inst}}
                       ELSE seen[c]]

\* The table is written.  Either the handler goes on to invalidate, or the
\* commit's answer is an error although it took effect, and it returns.
Applied(w, t, i) ==
  /\ \/ /\ write' = [write EXCEPT ![w] = [pc |-> "invalidate", trg |-> t,
                                           inst |-> i]]
        /\ UNCHANGED lost
     \/ /\ write' = [write EXCEPT ![w] = NoWrite]
        /\ lost' = lost \cup {i}
  /\ Seeing
  /\ UNCHANGED <<cache, call, excused>>

CreateTrigger(w, t, i) ==
  /\ write[w].pc = "idle"
  /\ state[t] = "NONE"
  /\ \A u \in Triggers : u < t => state[u] # "NONE"
  /\ state' = [state EXCEPT ![t] = "LIVE"]
  /\ scope' = [scope EXCEPT ![t] = i]
  /\ UNCHANGED version
  /\ Applied(w, t, i)

\* UpdateTrigger and DeleteTrigger read the scope before they write; an update
\* has found the trigger live.
ReadScope(w, t) ==
  /\ write[w].pc = "idle"
  /\ state[t] # "NONE"
  /\ \E op \in {"update", "delete"} :
       /\ op = "update" => state[t] = "LIVE" /\ version[t] < MaxVersion
       /\ write' = [write EXCEPT ![w] = [pc |-> op, trg |-> t, inst |-> scope[t]]]
  /\ UNCHANGED <<table, cache, call, lost, seen, excused>>

\* Mutant of UpdateTrigger: what the cache holds is taken not to change.
UpdateTriggerQuietly(w) ==
  LET t == write[w].trg IN
  /\ write[w].pc = "update"
  /\ state[t] = "LIVE"
  /\ version[t] < MaxVersion
  /\ version' = [version EXCEPT ![t] = @ + 1]
  /\ write' = [write EXCEPT ![w] = NoWrite]
  /\ UNCHANGED <<state, scope, cache, call, lost, excused>>
  /\ Seeing

UpdateTrigger(w) ==
  LET t == write[w].trg IN
  /\ write[w].pc = "update"
  /\ state[t] = "LIVE"
  /\ version[t] < MaxVersion
  /\ version' = [version EXCEPT ![t] = @ + 1]
  /\ UNCHANGED <<state, scope>>
  /\ Applied(w, t, write[w].inst)

DeleteTrigger(w) ==
  LET t == write[w].trg IN
  /\ write[w].pc = "delete"
  /\ state[t] = "LIVE"
  /\ state' = [state EXCEPT ![t] = "DELETED"]
  /\ UNCHANGED <<scope, version>>
  /\ Applied(w, t, write[w].inst)

\* The row is gone by now, or the statement fails: nothing is written and the
\* cache is left alone.
WriteRefused(w) ==
  /\ write[w].pc \in {"update", "delete"}
  /\ write' = [write EXCEPT ![w] = NoWrite]
  /\ UNCHANGED <<table, cache, call, lost, seen, excused>>

Invalidate(w) ==
  /\ write[w].pc = "invalidate"
  /\ lock = None
  /\ cached' = cached \ {write[w].inst}
  /\ set' = [set EXCEPT ![write[w].inst] = {}]
  /\ lost' = lost \ {write[w].inst}
  /\ write' = [write EXCEPT ![w] = NoWrite]
  /\ UNCHANGED <<table, lock, call, seen, excused>>

-----------------------------------------------------------------------------
\* The table survives; cache and handlers do not.
ServerCrash ==
  /\ cached' = {}
  /\ set' = [i \in Instances |-> {}]
  /\ lock' = None
  /\ call' = [c \in Callers |-> NoCall]
  /\ write' = [w \in Writers |-> NoWrite]
  /\ lost' = {}
  /\ seen' = [c \in Callers |-> {}]
  /\ excused' = {}
  /\ UNCHANGED table

Lookup(c) == \/ \E i \in Instances : Begin(c, i)
             \/ Hit(c)
             \/ Miss(c)
             \/ Load(c)
             \/ LoadFails(c)
             \/ Store(c)
             \/ Finish(c)

Writing(w) == \/ \E t \in Triggers, i \in Instances : CreateTrigger(w, t, i)
              \/ \E t \in Triggers : ReadScope(w, t)
              \/ UpdateTrigger(w)
              \/ DeleteTrigger(w)
              \/ WriteRefused(w)
              \/ Invalidate(w)

Next == \/ \E c \in Callers : Lookup(c)
        \/ \E w \in Writers : Writing(w)
        \/ ServerCrash

Spec == Init /\ [][Next]_vars

-----------------------------------------------------------------------------
(* Safety.                                                                 *)

\* A cached set is what the table says now, unless a write of the instance is
\* about to be invalidated or was reported as failed after it was applied: a
\* load that raced a write never outlives the write's invalidation.
Coherent ==
  \A i \in cached : set[i] = Active(i) \/ Pending(i) \/ i \in lost

\* A lookup that begins once every write has returned gets a set that was
\* right at some instant of the lookup, however long it waited for the mutex
\* and whatever was written, loaded and invalidated meanwhile.
LookupIsCurrent ==
  \A c \in Callers \ excused :
    call[c].pc = "done" => call[c].result \in seen[c]

-----------------------------------------------------------------------------
(* Liveness.  Handlers keep running, and each waiter gets the mutex in the  *)
(* end if it is let go again and again (sync.Mutex does not starve).       *)

Fairness == /\ \A c \in Callers : /\ SF_vars(Hit(c) \/ Miss(c))
                                  /\ WF_vars(Load(c) \/ LoadFails(c))
                                  /\ WF_vars(Store(c))
            /\ \A w \in Writers : SF_vars(Invalidate(w))

FairSpec == Spec /\ Fairness

\* Every lookup and every write gets past the mutex, load errors included.
NobodyWaitsForEver ==
  /\ \A c \in Callers : (call[c].pc = "lookup") ~> (call[c].pc # "lookup")
  /\ \A w \in Writers :
       (write[w].pc = "invalidate") ~> (write[w].pc # "invalidate")

=============================================================================
