---------------------------- MODULE ImportProofs ----------------------------
(***************************************************************************)
(* Proofs about the rows of reminders and the import that adds to them.    *)
(*                                                                         *)
(* Of ReminderQuota: the cap and the numbers, by QuotaInv, which adds to   *)
(* them the lock a create holds and the room it has counted.               *)
(* Of ReminderNumbers: a number means what was shown, by NumbersInv: the   *)
(* numbers of an owner's rows are distinct, and what was shown or looked   *)
(* up still bears the number it had.                                       *)
(* Of Import with Directory: by ImportInv, that an import beside the       *)
(* server is a behaviour of ReminderQuota, that legacy rows are imported   *)
(* once, that bytes follow files and that the cache of places is true.     *)
(***************************************************************************)
EXTENDS Import, ReminderNumbers, FiniteSetTheorems, TLAPS

-----------------------------------------------------------------------------
(* Creates, their cap and their numbers.                                   *)

\* What holds of a create: the lock is its own for the time of its transaction,
\* its row is seen by nobody before it commits, the room it counted is still
\* there, and no create of its owner has reached its number.
CallOK(c) ==
  /\ call[c] # "idle" => owner[c] \in Owners
  /\ call[c] \in InTx => lock[owner[c]] = c
  /\ status[c] = "held" <=> call[c] = "commit"
  /\ call[c] \in {"idle", "lock"} \cup InTx => ~Committed(c)
  /\ call[c] \in {"number", "insert", "commit"} =>
       Cardinality(FreshOf(owner[c])) < MaxActive
  /\ call[c] \in {"insert", "commit"} =>
       \A j \in Creates : Committed(j) /\ owner[j] = owner[c] => ref[j] < ref[c]

FreshOK == \A c \in fresh : status[c] = "PENDING" /\ owner[c] \in Owners

QuotaInv ==
  /\ QuotaTypeOK
  /\ \A c \in Creates : CallOK(c)
  /\ FreshOK
  /\ CreatesWithinCap
  /\ CreatesNeverCollide

-----------------------------------------------------------------------------
(* Counting.                                                               *)

\* The fresh rows of an owner can be counted.
LEMMA FreshCounted ==
  ASSUME QuotaTypeOK, NEW o
  PROVE  IsFiniteSet(FreshOf(o)) /\ Cardinality(FreshOf(o)) \in Nat
<1>1. FreshOf(o) \subseteq Creates
  BY DEF FreshOf, QuotaTypeOK
<1>2. IsFiniteSet(FreshOf(o))
  BY <1>1, RowsAssumption, FS_Subset
<1> QED
  BY <1>2, FS_CardinalityType

\* Fresh rows are active ones, so the count of the active ones bounds them.
LEMMA FreshAreActive ==
  ASSUME QuotaTypeOK, FreshOK, NEW o
  PROVE  /\ Cardinality(FreshOf(o)) <= Cardinality(Active(o))
         /\ Cardinality(Active(o)) \in Nat
<1>1. FreshOf(o) \subseteq Active(o)
  BY DEF FreshOf, Active, RowsOf, FreshOK, Committed, QuotaTypeOK, Rows
<1>2. Active(o) \subseteq Rows
  BY DEF Active, RowsOf
<1>3. IsFiniteSet(Rows)
  BY RowsAssumption, FS_Union DEF Rows
<1>4. IsFiniteSet(Active(o))
  BY <1>2, <1>3, FS_Subset
<1>5. Cardinality(FreshOf(o)) <= Cardinality(Active(o))
  BY <1>1, <1>4, FS_Subset
<1> QED
  BY <1>4, <1>5, FS_CardinalityType

\* Rows that stop being fresh only make room.
LEMMA FewerFresh ==
  ASSUME QuotaTypeOK, fresh' \subseteq fresh,
         \A c \in fresh : owner'[c] = owner[c], NEW o
  PROVE  /\ Cardinality(FreshOf(o)') <= Cardinality(FreshOf(o))
         /\ Cardinality(FreshOf(o)') \in Nat
<1>1. FreshOf(o)' \subseteq FreshOf(o)
  BY DEF FreshOf
<1>2. IsFiniteSet(FreshOf(o))
  BY FreshCounted
<1>3. IsFiniteSet(FreshOf(o)') /\ Cardinality(FreshOf(o)') <= Cardinality(FreshOf(o))
  BY <1>1, <1>2, FS_Subset
<1> QED
  BY <1>3, FS_CardinalityType

-----------------------------------------------------------------------------
(* Steps seen from a call that does not take them.                         *)

\* A call keeps what holds of it through a step that leaves it, its lock and its
\* row alone, takes no room of its owner and commits no row of its owner's.
LEMMA Untouched ==
  ASSUME QuotaInv, NEW d \in Creates,
         call'[d] = call[d],
         owner'[d] = owner[d],
         ref'[d] = ref[d],
         ~Committed(d) => status'[d] = status[d],
         Committed(d) => status'[d] \notin {"none", "held"},
         call[d] \in InTx => lock'[owner[d]] = d,
         \A o \in Owners : call[d] \in InTx /\ owner[d] = o =>
           /\ Cardinality(FreshOf(o)') \in Nat
           /\ Cardinality(FreshOf(o)') <= Cardinality(FreshOf(o)),
         \A j \in Creates :
           call[d] \in InTx /\ status'[j] \notin {"none", "held"} /\ owner'[j] = owner[d]
             => Committed(j) /\ owner[j] = owner[d] /\ ref'[j] = ref[j]
  PROVE  CallOK(d)'
<1> USE DEF InTx
<1>0. CallOK(d) /\ QuotaTypeOK
  BY DEF QuotaInv
<1>1. (call[d] # "idle" => owner[d] \in Owners)'
  BY <1>0 DEF CallOK
<1>2. (call[d] \in InTx => lock[owner[d]] = d)'
  BY <1>0 DEF CallOK
<1>3. (status[d] = "held" <=> call[d] = "commit")'
  BY <1>0 DEF CallOK, Committed
<1>4. (call[d] \in {"idle", "lock"} \cup InTx => ~Committed(d))'
  BY <1>0 DEF CallOK, Committed
<1>5. (call[d] \in {"number", "insert", "commit"} =>
         Cardinality(FreshOf(owner[d])) < MaxActive)'
  <2> SUFFICES ASSUME call[d] \in {"number", "insert", "commit"}
               PROVE  Cardinality(FreshOf(owner[d]))' < MaxActive
    OBVIOUS
  <2>1. owner[d] \in Owners /\ Cardinality(FreshOf(owner[d])) < MaxActive
    BY <1>0 DEF CallOK
  <2>2. PICK o \in Owners : o = owner[d]
    BY <2>1
  <2>3. Cardinality(FreshOf(o)) \in Nat
    BY <1>0, FreshCounted
  <2>4. /\ Cardinality(FreshOf(o)') \in Nat
        /\ Cardinality(FreshOf(o)') <= Cardinality(FreshOf(o))
    BY <2>2
  <2>5. Cardinality(FreshOf(o)') < MaxActive
    BY <2>1, <2>2, <2>3, <2>4, QuotaAssumption
  <2>6. FreshOf(o)' = FreshOf(owner[d])'
    BY <2>2 DEF FreshOf
  <2> QED
    BY <2>5, <2>6
<1>6. (call[d] \in {"insert", "commit"} =>
         \A j \in Creates : Committed(j) /\ owner[j] = owner[d] => ref[j] < ref[d])'
  BY <1>0 DEF CallOK, Committed
<1> QED
  BY <1>1, <1>2, <1>3, <1>4, <1>5, <1>6 DEF CallOK

\* Two calls are never in the transactions of one owner at once.
LEMMA OneInTx ==
  ASSUME QuotaInv, NEW c \in Creates, NEW d \in Creates,
         call[c] \in InTx, call[d] \in InTx, owner[c] = owner[d]
  PROVE  c = d
BY DEF QuotaInv, CallOK

\* A create that was refused stays explained by a row of the import: committed
\* rows keep their owner and number, and a refused call stays as it is.
LEMMA CollisionsStay ==
  ASSUME QuotaInv,
         \A i \in Imports : Committed(i) =>
           Committed(i)' /\ owner'[i] = owner[i] /\ ref'[i] = ref[i],
         \A c \in Creates : call'[c] = "collided" =>
           call[c] = "collided" /\ owner'[c] = owner[c] /\ ref'[c] = ref[c]
  PROVE  CreatesNeverCollide'
<1> SUFFICES ASSUME NEW c \in Creates, call'[c] = "collided"
             PROVE  \E i \in Imports :
                      Committed(i)' /\ owner'[i] = owner'[c] /\ ref'[i] = ref'[c]
  BY DEF CreatesNeverCollide
<1>1. PICK i \in Imports : Committed(i) /\ owner[i] = owner[c] /\ ref[i] = ref[c]
  BY DEF QuotaInv, CreatesNeverCollide
<1> QED
  BY <1>1

\* The cap survives a step that adds no fresh row.
LEMMA CapStays ==
  ASSUME QuotaInv, fresh' \subseteq fresh,
         \A c \in fresh : owner'[c] = owner[c]
  PROVE  CreatesWithinCap'
<1> SUFFICES ASSUME NEW o \in Owners
             PROVE  Cardinality(FreshOf(o)') <= MaxActive
  BY DEF CreatesWithinCap
<1>1. /\ Cardinality(FreshOf(o)') <= Cardinality(FreshOf(o))
      /\ Cardinality(FreshOf(o)') \in Nat
  BY FewerFresh DEF QuotaInv
<1>2. Cardinality(FreshOf(o)) <= MaxActive
  BY DEF QuotaInv, CreatesWithinCap
<1>3. Cardinality(FreshOf(o)) \in Nat
  BY FreshCounted DEF QuotaInv
<1> QED
  BY <1>1, <1>2, <1>3, QuotaAssumption

-----------------------------------------------------------------------------
(* The steps.                                                              *)

\* Every step of the quota keeps the types.
LEMMA QuotaTyped == QuotaTypeOK /\ [QuotaNext]_quotaVars => QuotaTypeOK'
<1> SUFFICES ASSUME QuotaTypeOK, [QuotaNext]_quotaVars PROVE QuotaTypeOK'
  OBVIOUS
<1> USE DEF QuotaTypeOK, Status, CallState
<1>1. ASSUME NEW c \in Creates, NEW o \in Owners, Enter(c, o) PROVE QuotaTypeOK'
  BY <1>1 DEF Enter, Rows
<1>2. ASSUME NEW c \in Creates, Create(c) PROVE QuotaTypeOK'
  <2>1. CASE Lock(c)
    BY <2>1 DEF Lock, rowVars
  <2>2. CASE Count(c)
    BY <2>2 DEF Count, Leave, rowVars
  <2>3. ASSUME NEW n \in 1..(Cardinality(Rows) + 1), Number(c, n) PROVE QuotaTypeOK'
    BY <2>3 DEF Number, NextRef
  <2>4. CASE Insert(c)
    BY <2>4 DEF Insert, Leave
  <2>5. CASE Commit(c)
    BY <2>5 DEF Commit, Leave
  <2>6. CASE Fail(c)
    BY <2>6 DEF Fail, Leave
  <2> QED
    BY <1>2, <2>1, <2>2, <2>3, <2>4, <2>5, <2>6 DEF Create
<1>3. ASSUME NEW i \in Imports, NEW o \in Owners,
             NEW n \in 1..(Cardinality(Rows) + 1), ImportNumber(i, o, n)
      PROVE  QuotaTypeOK'
  BY <1>3 DEF ImportNumber, NextRef, Rows
<1>4. ASSUME NEW i \in Imports, ImportInsert(i) PROVE QuotaTypeOK'
  BY <1>4 DEF ImportInsert
<1>5. ASSUME NEW result \in {"PENDING", "none"}, ImportEnd(result) PROVE QuotaTypeOK'
  BY <1>5 DEF ImportEnd
<1>6. ASSUME NEW i \in Rows, Move(i) PROVE QuotaTypeOK'
  <2>1. PICK to \in Status : status' = [status EXCEPT ![i] = to]
    BY <1>6 DEF Move
  <2> QED
    BY <1>6, <2>1 DEF Move
<1>7. CASE UNCHANGED quotaVars
  BY <1>7 DEF quotaVars, rowVars
<1> QED
  BY <1>1, <1>2, <1>3, <1>4, <1>5, <1>6, <1>7 DEF QuotaNext

\* The steps of a create other than its commit leave the other calls, the fresh
\* rows and the committed ones alone.
LEMMA CreateStep ==
  ASSUME QuotaInv, QuotaTypeOK', NEW c \in Creates,
         UNCHANGED fresh,
         ~Committed(c), status'[c] \in {"none", "held"},
         \A i \in Rows \ {c} : status'[i] = status[i],
         \A i \in Rows \ {c} : owner'[i] = owner[i] /\ ref'[i] = ref[i],
         \A d \in Creates \ {c} : call'[d] = call[d],
         \A d \in Creates \ {c} : call[d] \in InTx => lock'[owner[d]] = d,
         call[c] # "collided",
         CallOK(c)',
         call'[c] = "collided" => \E i \in Imports :
           Committed(i) /\ owner[i] = owner[c] /\ ref[i] = ref[c],
         call'[c] = "collided" => owner'[c] = owner[c] /\ ref'[c] = ref[c]
  PROVE  QuotaInv'
<1>0. QuotaTypeOK /\ FreshOK /\ c \in Rows /\ c \notin fresh
  BY DEF QuotaInv, FreshOK, Committed, Rows
<1>1. \A d \in fresh : owner'[d] = owner[d]
  BY <1>0 DEF QuotaTypeOK, Rows
<1>2. ASSUME NEW d \in Creates PROVE CallOK(d)'
  <2>1. CASE d = c
    BY <2>1
  <2>2. CASE d # c
    <3>1. d \in Rows \ {c}
      BY <2>2 DEF Rows
    <3>2. \A o \in Owners : /\ Cardinality(FreshOf(o)') \in Nat
                           /\ Cardinality(FreshOf(o)') <= Cardinality(FreshOf(o))
      BY <1>0, <1>1, FewerFresh
    <3>3. \A j \in Creates :
            status'[j] \notin {"none", "held"} /\ owner'[j] = owner[d]
              => Committed(j) /\ owner[j] = owner[d] /\ ref'[j] = ref[j]
      BY DEF Committed, Rows
    <3> QED
      BY <2>2, <3>1, <3>2, <3>3, Untouched DEF Committed
  <2> QED
    BY <2>1, <2>2
<1>3. FreshOK'
  BY <1>0, <1>1 DEF FreshOK, QuotaTypeOK, Rows
<1>4. CreatesWithinCap'
  BY <1>1, CapStays
<1>5. CreatesNeverCollide'
  <2> SUFFICES ASSUME NEW d \in Creates, call'[d] = "collided"
               PROVE  \E i \in Imports :
                        Committed(i)' /\ owner'[i] = owner'[d] /\ ref'[i] = ref'[d]
    BY DEF CreatesNeverCollide
  <2>1. \E i \in Imports : Committed(i) /\ owner[i] = owner'[d] /\ ref[i] = ref'[d]
    <3>1. CASE d = c
      BY <3>1
    <3>2. CASE d # c
      BY <3>2 DEF QuotaInv, CreatesNeverCollide, Rows
    <3> QED
      BY <3>1, <3>2
  <2>2. \A i \in Imports : i \in Rows \ {c}
    BY RowsAssumption DEF Rows
  <2> QED
    BY <2>1, <2>2 DEF Committed
<1> QED
  BY <1>2, <1>3, <1>4, <1>5 DEF QuotaInv

\* A create that enters the queue for its owner's lock.
LEMMA EnterKeeps ==
  ASSUME QuotaInv, QuotaTypeOK', NEW c \in Creates, NEW o \in Owners, Enter(c, o)
  PROVE  QuotaInv'
<1>1. CallOK(c) /\ call[c] = "idle" /\ c \in Rows /\ QuotaTypeOK
  BY DEF QuotaInv, Enter, Rows
<1>2. ~Committed(c) /\ status[c] # "held"
  BY <1>1 DEF CallOK, InTx
<1>3. CallOK(c)'
  <2>1. call'[c] = "lock" /\ owner'[c] = o /\ status'[c] = status[c]
    BY <1>1 DEF Enter, QuotaTypeOK, Rows
  <2> QED
    BY <1>2, <2>1 DEF CallOK, Committed, InTx
<1>4. /\ status'[c] \in {"none", "held"}
      /\ \A i \in Rows \ {c} : /\ status'[i] = status[i]
                              /\ owner'[i] = owner[i]
                              /\ ref'[i] = ref[i]
      /\ \A d \in Creates \ {c} : call'[d] = call[d]
      /\ UNCHANGED <<fresh, lock>>
      /\ call'[c] = "lock"
  BY <1>1, <1>2 DEF Enter, QuotaTypeOK, Rows, Committed
<1>5. \A d \in Creates \ {c} : call[d] \in InTx => lock'[owner[d]] = d
  BY <1>4 DEF QuotaInv, CallOK
<1> QED
  BY <1>1, <1>2, <1>3, <1>4, <1>5, CreateStep

\* A call that gets the lock of its owner is the only one of them inside.
LEMMA LockKeeps ==
  ASSUME QuotaInv, QuotaTypeOK', NEW c \in Creates, Lock(c)
  PROVE  QuotaInv'
<1>1. CallOK(c) /\ call[c] = "lock" /\ c \in Rows /\ QuotaTypeOK
  BY DEF QuotaInv, Lock, Rows
<1>2. owner[c] \in Owners /\ ~Committed(c) /\ status[c] # "held"
  BY <1>1 DEF CallOK, InTx
<1>3. /\ UNCHANGED <<status, owner, ref, fresh>>
      /\ call'[c] = "count"
      /\ lock'[owner[c]] = c
      /\ \A d \in Creates \ {c} : call'[d] = call[d]
      /\ \A o \in Owners : o # owner[c] => lock'[o] = lock[o]
  BY <1>1, <1>2 DEF Lock, rowVars, QuotaTypeOK
<1>4. CallOK(c)'
  BY <1>2, <1>3 DEF CallOK, Committed, InTx
<1>5. \A d \in Creates \ {c} : call[d] \in InTx => lock'[owner[d]] = d
  <2> SUFFICES ASSUME NEW d \in Creates \ {c}, call[d] \in InTx
               PROVE  lock'[owner[d]] = d
    OBVIOUS
  <2>1. owner[d] \in Owners /\ lock[owner[d]] = d
    BY DEF QuotaInv, CallOK, InTx
  <2>2. owner[d] # owner[c]
    BY <2>1, NobodyAssumption DEF Lock
  <2> QED
    BY <1>3, <2>1, <2>2
<1>6. status'[c] \in {"none", "held"}
  BY <1>2, <1>3 DEF Committed
<1> QED
  BY <1>1, <1>2, <1>3, <1>4, <1>5, <1>6, CreateStep

\* The end of a transaction gives back the lock of its owner and no other's.
LEMMA LockGivenBack ==
  ASSUME QuotaInv, NEW c \in Creates, call[c] \in {"lock"} \cup InTx,
         lock' = [lock EXCEPT ![owner[c]] = IF @ = c THEN Nobody ELSE @]
  PROVE  \A d \in Creates \ {c} : call[d] \in InTx => lock'[owner[d]] = d
<1> SUFFICES ASSUME NEW d \in Creates \ {c}, call[d] \in InTx
             PROVE  lock'[owner[d]] = d
  OBVIOUS
<1>1. owner[d] \in Owners /\ lock[owner[d]] = d
  BY DEF QuotaInv, CallOK, InTx
<1>2. owner[c] \in Owners
  BY DEF QuotaInv, CallOK, InTx
<1>3. lock \in [Owners -> Creates \cup {Nobody}]
  BY DEF QuotaInv, QuotaTypeOK
<1>4. CASE owner[d] = owner[c]
  BY <1>1, <1>2, <1>3, <1>4
<1>5. CASE owner[d] # owner[c]
  BY <1>1, <1>2, <1>3, <1>5
<1> QED
  BY <1>4, <1>5

\* A call that counts goes on only if there is room, and else is over.
LEMMA CountKeeps ==
  ASSUME QuotaInv, QuotaTypeOK', NEW c \in Creates, Count(c)
  PROVE  QuotaInv'
<1>1. /\ CallOK(c) /\ call[c] = "count" /\ c \in Rows
      /\ QuotaTypeOK /\ FreshOK
  BY DEF QuotaInv, Count, Rows
<1>2. /\ owner[c] \in Owners /\ ~Committed(c)
      /\ status[c] # "held" /\ lock[owner[c]] = c
  BY <1>1 DEF CallOK, InTx
<1>3. /\ UNCHANGED <<status, owner, ref, fresh>>
      /\ \A d \in Creates \ {c} : call'[d] = call[d]
      /\ call'[c] \in {"over", "number"}
  BY <1>1 DEF Count, Leave, rowVars, QuotaTypeOK
<1>4. CallOK(c)'
  <2>1. CASE Cardinality(Active(owner[c])) >= MaxActive
    <3>1. call'[c] = "over"
      BY <1>1, <2>1 DEF Count, Leave, QuotaTypeOK
    <3> QED
      BY <1>2, <1>3, <3>1 DEF CallOK, Committed, InTx
  <2>2. CASE ~(Cardinality(Active(owner[c])) >= MaxActive)
    <3>1. call'[c] = "number" /\ UNCHANGED lock
      BY <1>1, <2>2 DEF Count, QuotaTypeOK
    <3>2. PICK o \in Owners : o = owner[c]
      BY <1>2
    <3>3. /\ Cardinality(FreshOf(o)) <= Cardinality(Active(o))
          /\ Cardinality(Active(o)) \in Nat
      BY <1>1, FreshAreActive
    <3>4. Cardinality(FreshOf(o)) \in Nat
      BY <1>1, FreshCounted
    <3>5. Cardinality(FreshOf(o)) < MaxActive
      BY <2>2, <3>2, <3>3, <3>4, QuotaAssumption
    <3>6. FreshOf(owner[c])' = FreshOf(o)
      BY <1>3, <3>2 DEF FreshOf
    <3> QED
      BY <1>2, <1>3, <3>1, <3>5, <3>6 DEF CallOK, Committed, InTx
  <2> QED
    BY <2>1, <2>2
<1>5. \A d \in Creates \ {c} : call[d] \in InTx => lock'[owner[d]] = d
  <2>1. CASE UNCHANGED lock
    BY <2>1 DEF QuotaInv, CallOK
  <2>2. CASE lock' = [lock EXCEPT ![owner[c]] = IF @ = c THEN Nobody ELSE @]
    BY <1>1, <2>2, LockGivenBack DEF InTx
  <2> QED
    BY <2>1, <2>2 DEF Count, Leave
<1>6. status'[c] \in {"none", "held"}
  BY <1>2, <1>3 DEF Committed
<1> QED
  BY <1>1, <1>2, <1>3, <1>4, <1>5, <1>6, CreateStep

\* The number a call takes is above those of all the rows it may meet.
LEMMA NumberKeeps ==
  ASSUME QuotaInv, QuotaTypeOK', NEW c \in Creates, NEW n, Number(c, n)
  PROVE  QuotaInv'
<1>1. CallOK(c) /\ call[c] = "number" /\ c \in Rows /\ QuotaTypeOK
  BY DEF QuotaInv, Number, Rows
<1>2. /\ owner[c] \in Owners /\ ~Committed(c)
      /\ status[c] # "held" /\ lock[owner[c]] = c
      /\ Cardinality(FreshOf(owner[c])) < MaxActive
  BY <1>1 DEF CallOK, InTx
<1>3. /\ UNCHANGED <<status, owner, lock, fresh>>
      /\ \A d \in Creates \ {c} : call'[d] = call[d]
      /\ call'[c] = "insert"
      /\ ref'[c] = n
      /\ \A i \in Rows \ {c} : ref'[i] = ref[i]
  BY <1>1 DEF Number, QuotaTypeOK
<1>4. CallOK(c)'
  <2>1. FreshOf(owner[c])' = FreshOf(owner[c])
    BY <1>3 DEF FreshOf
  <2>2. \A j \in Creates : Committed(j) /\ owner[j] = owner[c] => ref[j] < n /\ j # c
    BY <1>2 DEF Number, NextRef, RowsOf, Rows
  <2>3. \A j \in Creates : Committed(j)' /\ owner'[j] = owner'[c] => ref'[j] < ref'[c]
    BY <1>3, <2>2 DEF Committed, Rows
  <2> QED
    BY <1>2, <1>3, <2>1, <2>3 DEF CallOK, Committed, InTx
<1>5. \A d \in Creates \ {c} : call[d] \in InTx => lock'[owner[d]] = d
  BY <1>3 DEF QuotaInv, CallOK
<1>6. status'[c] \in {"none", "held"}
  BY <1>2, <1>3 DEF Committed
<1> QED
  BY <1>1, <1>2, <1>3, <1>4, <1>5, <1>6, CreateStep

\* A number that is taken was taken by the import.
LEMMA InsertKeeps ==
  ASSUME QuotaInv, QuotaTypeOK', NEW c \in Creates, Insert(c)
  PROVE  QuotaInv'
<1>1. CallOK(c) /\ call[c] = "insert" /\ c \in Rows /\ QuotaTypeOK
  BY DEF QuotaInv, Insert, Rows
<1>2. /\ owner[c] \in Owners /\ ~Committed(c)
      /\ status[c] # "held" /\ lock[owner[c]] = c
      /\ Cardinality(FreshOf(owner[c])) < MaxActive
      /\ \A j \in Creates : Committed(j) /\ owner[j] = owner[c] => ref[j] < ref[c]
  BY <1>1 DEF CallOK, InTx
<1>3. /\ UNCHANGED <<owner, ref, fresh>>
      /\ \A d \in Creates \ {c} : call'[d] = call[d]
      /\ \A i \in Rows \ {c} : status'[i] = status[i]
  BY <1>1 DEF Insert, Leave, QuotaTypeOK
<1>4. CASE Taken(c)
  <2>1. /\ call'[c] = "collided" /\ UNCHANGED status
        /\ lock' = [lock EXCEPT ![owner[c]] = IF @ = c THEN Nobody ELSE @]
    BY <1>1, <1>4 DEF Insert, Leave, QuotaTypeOK
  <2>2. \A d \in Creates \ {c} : call[d] \in InTx => lock'[owner[d]] = d
    BY <1>1, <2>1, LockGivenBack DEF InTx
  <2>3. PICK j \in Rows : Committed(j) /\ owner[j] = owner[c] /\ ref[j] = ref[c]
    BY <1>4 DEF Taken, Clash
  <2>4. j \notin Creates
    <3>1. ref[j] \in Nat
      BY <2>3 DEF QuotaInv, QuotaTypeOK
    <3> QED
      BY <1>2, <2>3, <3>1
  <2>5. j \in Imports
    BY <2>4 DEF Rows
  <2>6. CallOK(c)' /\ status'[c] \in {"none", "held"}
    BY <1>2, <1>3, <2>1 DEF CallOK, Committed, InTx
  <2> QED
    BY <1>1, <1>2, <1>3, <2>1, <2>2, <2>3, <2>5, <2>6, CreateStep
<1>5. CASE ~Taken(c)
  <2>1. /\ call'[c] = "commit" /\ status'[c] = "held" /\ UNCHANGED lock
    BY <1>1, <1>5 DEF Insert, QuotaTypeOK
  <2>2. \A d \in Creates \ {c} : call[d] \in InTx => lock'[owner[d]] = d
    BY <2>1 DEF QuotaInv, CallOK
  <2>3. FreshOf(owner[c])' = FreshOf(owner[c])
    BY <1>3 DEF FreshOf
  <2>4. \A j \in Creates : Committed(j)' /\ owner'[j] = owner'[c] => ref'[j] < ref'[c]
    BY <1>2, <1>3, <2>1 DEF Committed, Rows
  <2>5. CallOK(c)'
    BY <1>2, <1>3, <2>1, <2>3, <2>4 DEF CallOK, Committed, InTx
  <2> QED
    BY <1>1, <1>2, <1>3, <2>1, <2>2, <2>5, CreateStep
<1> QED
  BY <1>4, <1>5

\* A rollback adds no row and gives back only a lock the call has.
LEMMA FailKeeps ==
  ASSUME QuotaInv, QuotaTypeOK', NEW c \in Creates, Fail(c)
  PROVE  QuotaInv'
<1>1. /\ CallOK(c) /\ call[c] \in {"lock"} \cup InTx
      /\ c \in Rows /\ QuotaTypeOK
  BY DEF QuotaInv, Fail, Rows
<1>2. ~Committed(c) /\ owner[c] \in Owners /\ call[c] # "collided"
  BY <1>1 DEF CallOK, InTx
<1>3. /\ UNCHANGED <<owner, ref, fresh>>
      /\ \A d \in Creates \ {c} : call'[d] = call[d]
      /\ \A i \in Rows \ {c} : status'[i] = status[i]
      /\ call'[c] = "over" /\ status'[c] = "none"
      /\ lock' = [lock EXCEPT ![owner[c]] = IF @ = c THEN Nobody ELSE @]
  BY <1>1 DEF Fail, Leave, QuotaTypeOK
<1>4. \A d \in Creates \ {c} : call[d] \in InTx => lock'[owner[d]] = d
  BY <1>1, <1>3, LockGivenBack
<1>5. CallOK(c)'
  BY <1>2, <1>3 DEF CallOK, Committed, InTx
<1> QED
  BY <1>1, <1>2, <1>3, <1>4, <1>5, CreateStep

\* An element more counts for one at most.
LEMMA OneMore ==
  ASSUME NEW S, NEW x, IsFiniteSet(S)
  PROVE  /\ Cardinality(S \cup {x}) \in Nat
         /\ Cardinality(S \cup {x}) <= Cardinality(S) + 1
<1>1. Cardinality(S) \in Nat /\ IsFiniteSet(S \cup {x})
  BY FS_CardinalityType, FS_AddElement
<1>2. Cardinality(S \cup {x}) \in Nat
  BY <1>1, FS_CardinalityType
<1>3. \/ Cardinality(S \cup {x}) = Cardinality(S)
      \/ Cardinality(S \cup {x}) = Cardinality(S) + 1
  BY FS_AddElement
<1> QED
  BY <1>1, <1>2, <1>3

\* The commit takes the room that was counted: nobody else of the owner has been
\* inside in between.
LEMMA CommitKeeps ==
  ASSUME QuotaInv, QuotaTypeOK', NEW c \in Creates, Commit(c)
  PROVE  QuotaInv'
<1>1. /\ CallOK(c) /\ call[c] = "commit" /\ c \in Rows
      /\ QuotaTypeOK /\ FreshOK
  BY DEF QuotaInv, Commit, Rows
<1>2. /\ owner[c] \in Owners /\ status[c] = "held"
      /\ Cardinality(FreshOf(owner[c])) < MaxActive
  BY <1>1 DEF CallOK, InTx
<1>3. /\ UNCHANGED <<owner, ref>>
      /\ fresh' = fresh \cup {c}
      /\ \A d \in Creates \ {c} : call'[d] = call[d]
      /\ \A i \in Rows \ {c} : status'[i] = status[i]
      /\ call'[c] = "over" /\ status'[c] = "PENDING"
      /\ lock' = [lock EXCEPT ![owner[c]] = IF @ = c THEN Nobody ELSE @]
  BY <1>1 DEF Commit, Leave, QuotaTypeOK
<1>4. ASSUME NEW o \in Owners
      PROVE  /\ o = owner[c] => FreshOf(o)' = FreshOf(o) \cup {c}
             /\ o # owner[c] => FreshOf(o)' = FreshOf(o)
  BY <1>3 DEF FreshOf
<1>5. CreatesWithinCap'
  <2> SUFFICES ASSUME NEW o \in Owners PROVE Cardinality(FreshOf(o)') <= MaxActive
    BY DEF CreatesWithinCap
  <2>1. IsFiniteSet(FreshOf(o)) /\ Cardinality(FreshOf(o)) \in Nat
    BY <1>1, FreshCounted
  <2>2. CASE o = owner[c]
    <3>1. FreshOf(o)' = FreshOf(o) \cup {c}
      BY <1>4, <2>2
    <3>2. /\ Cardinality(FreshOf(o) \cup {c}) \in Nat
          /\ Cardinality(FreshOf(o) \cup {c}) <= Cardinality(FreshOf(o)) + 1
      BY <2>1, OneMore
    <3> QED
      BY <1>2, <2>1, <2>2, <3>1, <3>2, QuotaAssumption
  <2>3. CASE o # owner[c]
    BY <1>4, <2>3 DEF QuotaInv, CreatesWithinCap
  <2> QED
    BY <2>2, <2>3
<1>6. ASSUME NEW d \in Creates PROVE CallOK(d)'
  <2>1. CASE d = c
    BY <1>2, <1>3, <2>1 DEF CallOK, Committed, InTx
  <2>2. CASE d # c
    <3>1. call[d] \in InTx => owner[d] \in Owners /\ owner[d] # owner[c]
      BY <1>1, <2>2, OneInTx DEF QuotaInv, CallOK, InTx
    <3>2. call[d] \in InTx => lock'[owner[d]] = d
      BY <1>1, <1>3, <2>2, LockGivenBack DEF InTx
    <3>3. \A o \in Owners : call[d] \in InTx /\ owner[d] = o =>
            /\ Cardinality(FreshOf(o)') \in Nat
            /\ Cardinality(FreshOf(o)') <= Cardinality(FreshOf(o))
      <4> SUFFICES ASSUME NEW o \in Owners, call[d] \in InTx, owner[d] = o
                   PROVE  /\ Cardinality(FreshOf(o)') \in Nat
                          /\ Cardinality(FreshOf(o)') <= Cardinality(FreshOf(o))
        OBVIOUS
      <4>1. FreshOf(o)' = FreshOf(o)
        BY <1>4, <3>1
      <4>2. Cardinality(FreshOf(o)) \in Nat
        BY <1>1, FreshCounted
      <4> QED
        BY <4>1, <4>2
    <3>4. \A j \in Creates :
            call[d] \in InTx /\ status'[j] \notin {"none", "held"} /\ owner'[j] = owner[d]
              => Committed(j) /\ owner[j] = owner[d] /\ ref'[j] = ref[j]
      BY <1>3, <3>1 DEF Committed, Rows
    <3>5. d \in Rows \ {c}
      BY <2>2 DEF Rows
    <3> QED
      BY <1>3, <2>2, <3>2, <3>3, <3>4, <3>5, Untouched DEF Committed
  <2> QED
    BY <2>1, <2>2
<1>7. FreshOK'
  BY <1>1, <1>2, <1>3 DEF FreshOK, QuotaTypeOK, Rows
<1>8. CreatesNeverCollide'
  <2>1. \A i \in Imports : i \in Rows \ {c}
    BY RowsAssumption DEF Rows
  <2> QED
    BY <1>3, <2>1, CollisionsStay DEF Committed
<1> QED
  BY <1>5, <1>6, <1>7, <1>8 DEF QuotaInv

\* The steps of the import and the moves of rows: no call takes them.
LEMMA RowStep ==
  ASSUME QuotaInv, QuotaTypeOK', UNCHANGED <<call, lock>>,
         fresh' \subseteq fresh,
         \A c \in fresh' : status'[c] = status[c],
         \A c \in Creates : owner'[c] = owner[c] /\ ref'[c] = ref[c],
         \A c \in Creates : ~Committed(c) => status'[c] = status[c],
         \A i \in Rows : Committed(i) =>
           status'[i] \notin {"none", "held"} /\ owner'[i] = owner[i] /\ ref'[i] = ref[i]
  PROVE  QuotaInv'
<1>0. QuotaTypeOK /\ FreshOK /\ fresh \subseteq Creates
  BY DEF QuotaInv, QuotaTypeOK
<1>1. \A d \in fresh : owner'[d] = owner[d]
  BY <1>0
<1>2. ASSUME NEW d \in Creates PROVE CallOK(d)'
  <2>1. \A o \in Owners : /\ Cardinality(FreshOf(o)') \in Nat
                         /\ Cardinality(FreshOf(o)') <= Cardinality(FreshOf(o))
    BY <1>0, <1>1, FewerFresh
  <2>2. \A j \in Creates :
          status'[j] \notin {"none", "held"} /\ owner'[j] = owner[d]
            => Committed(j) /\ owner[j] = owner[d] /\ ref'[j] = ref[j]
    BY DEF Committed
  <2>3. call[d] \in InTx => lock'[owner[d]] = d
    BY DEF QuotaInv, CallOK
  <2>4. d \in Rows
    BY DEF Rows
  <2> QED
    BY <2>1, <2>2, <2>3, <2>4, Untouched
<1>3. FreshOK'
  BY <1>0, <1>1 DEF FreshOK
<1>4. CreatesWithinCap'
  BY <1>1, CapStays
<1>5. CreatesNeverCollide'
  <2>1. \A i \in Imports : i \in Rows
    BY DEF Rows
  <2> QED
    BY <2>1, CollisionsStay DEF Committed
<1> QED
  BY <1>2, <1>3, <1>4, <1>5 DEF QuotaInv

\* Every step of the quota, of a create, the import or a move, keeps QuotaInv.
LEMMA QuotaStep ==
  ASSUME QuotaInv, [QuotaNext]_quotaVars
  PROVE  QuotaInv'
<1>0. QuotaTypeOK' /\ QuotaTypeOK
  BY QuotaTyped DEF QuotaInv
<1>1. ASSUME NEW c \in Creates, NEW o \in Owners, Enter(c, o) PROVE QuotaInv'
  BY <1>0, <1>1, EnterKeeps
<1>2. ASSUME NEW c \in Creates, Create(c) PROVE QuotaInv'
  <2>1. ASSUME NEW n, Number(c, n) PROVE QuotaInv'
    BY <1>0, <2>1, NumberKeeps
  <2> QED
    BY <1>0, <1>2, <2>1, LockKeeps, CountKeeps, InsertKeeps, CommitKeeps, FailKeeps
       DEF Create
<1>3. ASSUME NEW i \in Imports, NEW o, NEW n, ImportNumber(i, o, n) PROVE QuotaInv'
  <2>1. i \notin Creates /\ i \in Rows /\ ~Committed(i)
    BY <1>3, RowsAssumption DEF Rows, ImportNumber, Committed
  <2>2. \A j \in Rows \ {i} : owner'[j] = owner[j] /\ ref'[j] = ref[j]
    BY <1>0, <1>3 DEF ImportNumber, QuotaTypeOK
  <2>3. UNCHANGED <<call, lock, fresh, status>>
    BY <1>3 DEF ImportNumber
  <2>4. \A c \in Creates : c \in Rows \ {i}
    BY <2>1 DEF Rows
  <2> QED
    BY <1>0, <2>1, <2>2, <2>3, <2>4, RowStep DEF Committed
<1>4. ASSUME NEW i \in Imports, ImportInsert(i) PROVE QuotaInv'
  <2>1. i \notin Creates /\ i \in Rows /\ ~Committed(i)
    BY <1>4, RowsAssumption DEF Rows, ImportInsert, Committed
  <2>2. \A j \in Rows \ {i} : status'[j] = status[j]
    BY <1>0, <1>4 DEF ImportInsert, QuotaTypeOK
  <2>3. UNCHANGED <<call, lock, fresh, owner, ref>>
    BY <1>4 DEF ImportInsert
  <2>4. \A c \in Creates : c \in Rows \ {i}
    BY <2>1 DEF Rows
  <2>5. fresh \subseteq Creates
    BY <1>0 DEF QuotaTypeOK
  <2> QED
    BY <1>0, <2>1, <2>2, <2>3, <2>4, <2>5, RowStep DEF Committed
<1>5. ASSUME NEW result \in {"PENDING", "none"}, ImportEnd(result) PROVE QuotaInv'
  <2>1. \A j \in Rows : j \notin Imports \/ ~Held(j) => status'[j] = status[j]
    BY <1>5 DEF ImportEnd
  <2>2. UNCHANGED <<call, lock, fresh, owner, ref>>
    BY <1>5 DEF ImportEnd
  <2>3. \A c \in Creates : c \in Rows /\ c \notin Imports
    BY RowsAssumption DEF Rows
  <2>4. fresh \subseteq Creates
    BY <1>0 DEF QuotaTypeOK
  <2> QED
    BY <1>0, <2>1, <2>2, <2>3, <2>4, RowStep DEF Committed, Held
<1>6. ASSUME NEW i \in Rows, Move(i) PROVE QuotaInv'
  <2>1. /\ UNCHANGED <<call, lock, owner, ref>> /\ fresh' = fresh \ {i}
        /\ \E to \in {"PENDING", "SENT", "settled", "deleted"} :
             status' = [status EXCEPT ![i] = to]
        /\ Committed(i)
    BY <1>6 DEF Move, Committed
  <2>2. \A j \in Rows \ {i} : status'[j] = status[j]
    BY <1>0, <2>1 DEF QuotaTypeOK
  <2>3. status'[i] \notin {"none", "held"}
    BY <1>0, <2>1 DEF QuotaTypeOK
  <2>4. fresh \subseteq Creates /\ Creates \subseteq Rows
    BY <1>0 DEF QuotaTypeOK, Rows
  <2> QED
    BY <1>0, <2>1, <2>2, <2>3, <2>4, RowStep DEF Committed
<1>7. CASE UNCHANGED quotaVars
  BY <1>0, <1>7 DEF quotaVars, rowVars, QuotaInv, CallOK, FreshOK, CreatesWithinCap,
     CreatesNeverCollide, FreshOf, Committed
<1> QED
  BY <1>1, <1>2, <1>3, <1>4, <1>5, <1>6, <1>7 DEF QuotaNext

\* Before any create there is no row, no lock and nobody in a transaction.
LEMMA QuotaStart == QuotaInit => QuotaInv
<1> SUFFICES ASSUME QuotaInit PROVE QuotaInv
  OBVIOUS
<1>1. QuotaTypeOK
  BY DEF QuotaInit, QuotaTypeOK, Status, CallState
<1>2. ASSUME NEW o PROVE FreshOf(o) = {}
  BY DEF QuotaInit, FreshOf
<1>3. CreatesWithinCap
  BY <1>2, FS_EmptySet, QuotaAssumption DEF CreatesWithinCap
<1>4. \A c \in Creates : CallOK(c)
  BY DEF QuotaInit, CallOK, Committed, InTx, Rows
<1>5. FreshOK /\ CreatesNeverCollide
  BY DEF QuotaInit, FreshOK, CreatesNeverCollide
<1> QED
  BY <1>1, <1>3, <1>4, <1>5 DEF QuotaInv

-----------------------------------------------------------------------------
\* QuotaInv, the cap and the numbers with the lock and the counts they rest
\* on, holds of every behaviour of the quota.
THEOREM QuotaInvariant == QuotaSpec => []QuotaInv
BY QuotaStart, QuotaStep, PTL DEF QuotaSpec

\* However many creates of an owner run at once, those that are still as they
\* were made never exceed the cap.
THEOREM CapCorrect == QuotaSpec => []CreatesWithinCap
<1>1. QuotaInv => CreatesWithinCap
  BY DEF QuotaInv
<1> QED
  BY <1>1, QuotaInvariant, PTL

\* A create that is refused for its number has met a row of the import.
THEOREM CollisionCorrect == QuotaSpec => []CreatesNeverCollide
<1>1. QuotaInv => CreatesNeverCollide
  BY DEF QuotaInv
<1> QED
  BY <1>1, QuotaInvariant, PTL

-----------------------------------------------------------------------------
(* Reminders by their numbers.                                             *)

\* The rows of an owner, held ones as well, have numbers of their own.
NumbersUnique ==
  \A i, j \in Rows :
    status[i] # "none" /\ status[j] # "none" /\ owner[i] = owner[j] /\ ref[i] = ref[j]
      => i = j

\* A row is committed, o's, and has the number n.
Bears(i, o, n) == i \in Rows /\ Committed(i) /\ owner[i] = o /\ ref[i] = n

ShownInv == \A s \in shown : Bears(s[3], s[1], s[2])

\* What a call means are rows that bear the number it gives, and so does the row it
\* has found.
AskOK(a) ==
  ask[a].at # "idle" =>
    /\ ask[a].name.by = "ref" => \A i \in ask[a].meant : Bears(i, ask[a].who, ask[a].name.ref)
    /\ ask[a].name.by # "ref" => ask[a].meant = {}
    /\ ask[a].at = "act" => ask[a].row \in Rows
    /\ ask[a].at = "act" /\ ask[a].name.by = "ref" =>
         Bears(ask[a].row, ask[a].who, ask[a].name.ref)
    /\ ask[a].at = "ok" => /\ ask[a].row \in Rows /\ Committed(ask[a].row)
                           /\ owner[ask[a].row] = ask[a].who
                           /\ ask[a].meant \subseteq {ask[a].row}
    /\ ask[a].at = "not_found" => \A i \in ask[a].meant : status[i] = "deleted"

\* A call that has been made.
Asked == [who : Owners, verb : Verbs, name : Names,
          at : {"resolve", "act", "ok", "not_found", "internal"},
          meant : SUBSET Rows, row : Rows \cup {Nobody}]

AskTypes == ask \in [Asks -> Asked \cup {[at |-> "idle"]}]

NumbersInv ==
  /\ QuotaInv
  /\ NumbersUnique
  /\ shown \subseteq Owners \X Nat \X Rows
  /\ ShownInv
  /\ AskTypes
  /\ \A a \in Asks : AskOK(a)

\* What no step takes from a row: its owner and number while it is there, that it
\* is committed, that it is deleted.
RowsStay ==
  \A i \in Rows :
    /\ status[i] # "none" => owner'[i] = owner[i] /\ ref'[i] = ref[i]
    /\ Committed(i) => status'[i] \notin {"none", "held"}
    /\ status[i] = "deleted" => status'[i] = "deleted"

\* A row that becomes one has just taken its number past those that are there.
RowsAppear ==
  \A i \in Rows :
    status[i] = "none" /\ status'[i] # "none" =>
      /\ owner'[i] = owner[i] /\ ref'[i] = ref[i]
      /\ \A j \in Rows \ {i} :
           /\ status'[j] = status[j] /\ owner'[j] = owner[j] /\ ref'[j] = ref[j]
           /\ status[j] # "none" => ~(owner[j] = owner[i] /\ ref[j] = ref[i])

\* The steps of the quota.
LEMMA QuotaRows ==
  ASSUME QuotaInv, [QuotaNext]_quotaVars
  PROVE  RowsStay /\ RowsAppear
<1>0. QuotaTypeOK
  BY DEF QuotaInv
<1>1. CASE UNCHANGED quotaVars
  BY <1>1 DEF quotaVars, rowVars, RowsStay, RowsAppear, Committed
<1>2. ASSUME NEW c \in Creates, NEW o \in Owners, Enter(c, o)
      PROVE  RowsStay /\ RowsAppear
  <2>1. c \in Rows /\ status[c] = "none"
    BY <1>2 DEF QuotaInv, CallOK, Enter, Committed, Rows
  <2>2. UNCHANGED <<status, ref>> /\ owner' = [owner EXCEPT ![c] = o]
    BY <1>2 DEF Enter
  <2> QED
    BY <1>0, <2>1, <2>2 DEF RowsStay, RowsAppear, Committed, QuotaTypeOK
<1>3. ASSUME NEW c \in Creates, Lock(c) \/ Count(c)
      PROVE  RowsStay /\ RowsAppear
  <2>1. UNCHANGED rowVars
    BY <1>3 DEF Lock, Count
  <2> QED
    BY <2>1 DEF rowVars, RowsStay, RowsAppear, Committed
<1>4. ASSUME NEW c \in Creates, NEW n, Number(c, n)
      PROVE  RowsStay /\ RowsAppear
  <2>1. c \in Rows /\ status[c] = "none"
    BY <1>4 DEF QuotaInv, CallOK, Number, Committed, Rows, InTx
  <2>2. UNCHANGED <<status, owner>> /\ ref' = [ref EXCEPT ![c] = n]
    BY <1>4 DEF Number
  <2> QED
    BY <1>0, <2>1, <2>2 DEF RowsStay, RowsAppear, Committed, QuotaTypeOK
<1>5. ASSUME NEW i \in Rows, MayInsert(i), ~Taken(i), status[i] = "none",
             UNCHANGED <<owner, ref>>, status' = [status EXCEPT ![i] = "held"]
      PROVE  RowsStay /\ RowsAppear
  <2>1. \A j \in Rows \ {i} : status[j] # "none" => ~(owner[j] = owner[i] /\ ref[j] = ref[i])
    BY <1>5 DEF MayInsert, Taken, Clash, Held, Committed
  <2>2. /\ status'[i] = "held" /\ \A j \in Rows \ {i} : status'[j] = status[j]
    BY <1>0, <1>5 DEF QuotaTypeOK
  <2> QED
    BY <1>5, <2>1, <2>2 DEF RowsStay, RowsAppear, Committed
<1>6. ASSUME NEW c \in Creates, Insert(c)
      PROVE  RowsStay /\ RowsAppear
  <2>1. c \in Rows /\ status[c] = "none" /\ MayInsert(c) /\ UNCHANGED <<owner, ref>>
    BY <1>6 DEF QuotaInv, CallOK, Insert, Committed, Rows, InTx
  <2>2. CASE Taken(c)
    <3>1. status' = status
      BY <1>6, <2>2 DEF Insert
    <3> QED
      BY <2>1, <3>1 DEF RowsStay, RowsAppear, Committed
  <2>3. CASE ~Taken(c)
    <3>1. status' = [status EXCEPT ![c] = "held"]
      BY <1>6, <2>3 DEF Insert
    <3> QED
      BY <1>5, <2>1, <2>3, <3>1
  <2> QED
    BY <2>2, <2>3
<1>7. ASSUME NEW c \in Creates, Commit(c) \/ Fail(c)
      PROVE  RowsStay /\ RowsAppear
  <2>1. c \in Rows /\ ~Committed(c) /\ UNCHANGED <<owner, ref>>
        /\ (status[c] = "none" => status'[c] = "none")
        /\ \A j \in Rows \ {c} : status'[j] = status[j]
    BY <1>0, <1>7 DEF QuotaInv, CallOK, Commit, Fail, Committed, Rows, InTx, QuotaTypeOK
  <2> QED
    BY <2>1 DEF RowsStay, RowsAppear, Committed
<1>8. ASSUME NEW i \in Imports, NEW o, NEW n, ImportNumber(i, o, n)
      PROVE  RowsStay /\ RowsAppear
  <2>1. /\ i \in Rows /\ status[i] = "none" /\ status' = status
        /\ \A j \in Rows \ {i} : owner'[j] = owner[j] /\ ref'[j] = ref[j]
    BY <1>0, <1>8 DEF ImportNumber, Rows, QuotaTypeOK
  <2> QED
    BY <2>1 DEF RowsStay, RowsAppear, Committed
<1>9. ASSUME NEW i \in Imports, ImportInsert(i)
      PROVE  RowsStay /\ RowsAppear
  BY <1>5, <1>9 DEF ImportInsert, Rows
<1>10. ASSUME NEW result, ImportEnd(result)
       PROVE  RowsStay /\ RowsAppear
  <2>1. UNCHANGED <<owner, ref>>
        /\ \A i \in Rows : ~Held(i) => status'[i] = status[i]
    BY <1>10 DEF ImportEnd
  <2> QED
    BY <2>1 DEF RowsStay, RowsAppear, Committed, Held
<1>11. ASSUME NEW i \in Rows, Move(i)
       PROVE  RowsStay /\ RowsAppear
  <2>1. /\ UNCHANGED <<owner, ref>> /\ Committed(i) /\ status[i] # "deleted"
        /\ \E to \in {"PENDING", "SENT", "settled", "deleted"} :
             status' = [status EXCEPT ![i] = to]
    BY <1>11 DEF Move, Committed
  <2>2. /\ status'[i] \notin {"none", "held"}
        /\ \A j \in Rows \ {i} : status'[j] = status[j]
    BY <1>0, <2>1 DEF QuotaTypeOK
  <2> QED
    BY <2>1, <2>2 DEF RowsStay, RowsAppear, Committed
<1> QED
  BY <1>1, <1>2, <1>3, <1>4, <1>6, <1>7, <1>8, <1>9, <1>10, <1>11 DEF QuotaNext, Create

\* An edit or a deletion is one of the caller's own rows.
LEMMA OverwriteKeeps ==
  ASSUME QuotaInv, NEW a, NEW verb, NEW to \in {"PENDING", "deleted"}, Overwrite(a, verb, to)
  PROVE  QuotaInv' /\ RowsStay /\ RowsAppear
<1>0. QuotaTypeOK
  BY DEF QuotaInv
<1>1. CASE ~StillTheirs(a)
  <2>1. UNCHANGED quotaVars
    BY <1>1 DEF Overwrite, quotaVars, rowVars
  <2> QED
    BY <2>1, QuotaStep, QuotaRows
<1>2. CASE StillTheirs(a)
  <2>1. PICK i : i = ask[a].row
    OBVIOUS
  <2>2. /\ i \in Rows /\ Committed(i) /\ status[i] # "deleted"
        /\ status' = [status EXCEPT ![i] = to] /\ fresh' = fresh \ {i}
        /\ UNCHANGED <<owner, ref, call, lock, moves>>
    BY <1>2, <2>1 DEF Overwrite, StillTheirs, LiveOf, RowsOf
  <2>3. /\ status'[i] = to /\ \A j \in Rows \ {i} : status'[j] = status[j]
    BY <1>0, <2>2 DEF QuotaTypeOK
  <2>4. RowsStay /\ RowsAppear
    BY <2>2, <2>3 DEF RowsStay, RowsAppear, Committed
  <2>5. QuotaTypeOK'
    BY <1>0, <2>2 DEF QuotaTypeOK, Status
  <2>6. fresh \subseteq Creates /\ Creates \subseteq Rows
    BY <1>0 DEF QuotaTypeOK, Rows
  <2>7. QuotaInv'
    BY <2>2, <2>3, <2>5, <2>6, RowStep DEF Committed
  <2> QED
    BY <2>4, <2>7
<1> QED
  BY <1>1, <1>2

\* What a step does to the rows keeps the numbers unique and what was shown true.
LEMMA RowsKeep ==
  ASSUME NumbersUnique, RowsStay, RowsAppear
  PROVE  /\ NumbersUnique'
         /\ \A i, o, n : Bears(i, o, n) => Bears(i, o, n)'
<1>1. NumbersUnique'
  <2> SUFFICES ASSUME NEW i \in Rows, NEW j \in Rows, i # j,
                      status'[i] # "none", status'[j] # "none"
               PROVE  ~(owner'[i] = owner'[j] /\ ref'[i] = ref'[j])
    BY DEF NumbersUnique
  <2>1. CASE status[i] = "none"
    BY <2>1 DEF RowsAppear
  <2>2. CASE status[j] = "none"
    BY <2>2 DEF RowsAppear
  <2>3. CASE status[i] # "none" /\ status[j] # "none"
    BY <2>3 DEF RowsStay, NumbersUnique
  <2> QED
    BY <2>1, <2>2, <2>3
<1>2. ASSUME NEW i, NEW o, NEW n, Bears(i, o, n)
      PROVE  Bears(i, o, n)'
  BY <1>2 DEF Bears, RowsStay, Committed
<1> QED
  BY <1>1, <1>2

\* What the calls are told stays true through the steps of others.
LEMMA AskStays ==
  ASSUME NumbersUnique, RowsStay, RowsAppear, NEW a, AskOK(a), ask'[a] = ask[a]
  PROVE  AskOK(a)'
<1>1. \A i, o, n : Bears(i, o, n) => Bears(i, o, n)'
  BY RowsKeep
<1>2. CASE ask[a].at = "idle"
  BY <1>2 DEF AskOK
<1>3. CASE ask[a].at # "idle"
  <2>1. ask[a].name.by = "ref" => \A i \in ask[a].meant : Bears(i, ask[a].who, ask[a].name.ref)'
    BY <1>1, <1>3 DEF AskOK
  <2>2. ask[a].at = "act" /\ ask[a].name.by = "ref" =>
          Bears(ask[a].row, ask[a].who, ask[a].name.ref)'
    BY <1>1, <1>3 DEF AskOK
  <2>3. ask[a].at = "ok" => /\ ask[a].row \in Rows /\ Committed(ask[a].row)'
                            /\ owner'[ask[a].row] = ask[a].who
                            /\ ask[a].meant \subseteq {ask[a].row}
    BY <1>3 DEF AskOK, RowsStay, Committed
  <2>4. ask[a].at = "not_found" => \A i \in ask[a].meant : status'[i] = "deleted"
    <3> SUFFICES ASSUME ask[a].at = "not_found", NEW i \in ask[a].meant
                 PROVE  status'[i] = "deleted"
      OBVIOUS
    <3>1. status[i] = "deleted" /\ i \in Rows
      BY <1>3 DEF AskOK, Bears
    <3> QED
      BY <3>1 DEF RowsStay
  <2> QED
    BY <1>3, <2>1, <2>2, <2>3, <2>4 DEF AskOK, Bears, Committed
<1> QED
  BY <1>2, <1>3

\* A call goes on with what it was.
LEMMA AskedOn ==
  ASSUME NEW r \in Asked, NEW at \in {"resolve", "act", "ok", "not_found", "internal"}
  PROVE  /\ [r EXCEPT !.at = at] \in Asked
         /\ [r EXCEPT !.at = at].who = r.who /\ [r EXCEPT !.at = at].name = r.name
         /\ [r EXCEPT !.at = at].meant = r.meant /\ [r EXCEPT !.at = at].row = r.row
         /\ [r EXCEPT !.at = at].at = at
BY DEF Asked

\* A call has not been made, or has.
LEMMA AskedOrIdle ==
  ASSUME AskTypes, NEW a \in Asks, ask[a].at # "idle"
  PROVE  ask[a] \in Asked
<1>1. ask[a] \in Asked \/ ask[a] = [at |-> "idle"]
  BY DEF AskTypes
<1> QED
  BY <1>1

\* A step of one call, whatever it does to the rows.
LEMMA AskMoves ==
  ASSUME NumbersInv, NEW a \in Asks, NEW r \in Asked, ask' = [ask EXCEPT ![a] = r],
         QuotaInv', RowsStay, RowsAppear, shown' = shown, AskOK(a)'
  PROVE  NumbersInv'
<1>1. NumbersUnique' /\ ShownInv'
  <2>1. \A i, o, n : Bears(i, o, n) => Bears(i, o, n)'
    BY RowsKeep DEF NumbersInv
  <2>2. NumbersUnique'
    BY RowsKeep DEF NumbersInv
  <2>3. ShownInv'
    BY <2>1 DEF NumbersInv, ShownInv
  <2> QED
    BY <2>2, <2>3
<1>2. AskTypes'
  BY DEF NumbersInv, AskTypes
<1>3. ASSUME NEW b \in Asks PROVE AskOK(b)'
  <2>1. b # a => ask'[b] = ask[b]
    BY DEF NumbersInv, AskTypes
  <2> QED
    BY <2>1, AskStays DEF NumbersInv
<1> QED
  BY <1>1, <1>2, <1>3 DEF NumbersInv

\* A call that gets its answer keeps who asked, what was meant and the row.
LEMMA AnswerKeeps ==
  ASSUME NumbersInv, NEW a \in Asks, ask[a].at # "idle",
         NEW answer \in {"ok", "not_found", "internal"}, Replied(a, answer),
         QuotaInv', RowsStay, RowsAppear, shown' = shown,
         answer = "ok" => ask[a].at = "act" /\ StillTheirs(a),
         answer = "not_found" => \/ ask[a].at = "act" /\ ~StillTheirs(a)
                                 \/ \A i \in ask[a].meant : status[i] = "deleted"
  PROVE  NumbersInv'
<1>1. PICK q \in Asked : q = ask[a]
  BY AskedOrIdle DEF NumbersInv
<1>2. PICK r : r = [q EXCEPT !.at = answer]
  OBVIOUS
<1>3. /\ r \in Asked /\ r.who = ask[a].who /\ r.name = ask[a].name
      /\ r.meant = ask[a].meant /\ r.row = ask[a].row /\ r.at = answer
  <2>1. answer \in {"resolve", "act", "ok", "not_found", "internal"}
    OBVIOUS
  <2>2. /\ r \in Asked /\ r.who = q.who /\ r.name = q.name
        /\ r.meant = q.meant /\ r.row = q.row /\ r.at = answer
    BY <1>2, <2>1, AskedOn
  <2> QED
    BY <1>1, <2>2
<1>4. ask' = [ask EXCEPT ![a] = r]
  BY <1>1, <1>2 DEF Replied
<1>5. ask'[a] = r
  BY <1>4 DEF NumbersInv, AskTypes
<1>6. \A i, o, n : Bears(i, o, n) => Bears(i, o, n)'
  BY RowsKeep DEF NumbersInv
<1>7. AskOK(a) /\ NumbersUnique
  BY DEF NumbersInv
<1>8. r.name.by = "ref" => \A i \in r.meant : Bears(i, r.who, r.name.ref)
  BY <1>3, <1>7 DEF AskOK
<1>9. r.name.by # "ref" => r.meant = {}
  BY <1>3, <1>7 DEF AskOK
<1>10. ask[a].at = "act" => /\ r.row \in Rows
                            /\ r.name.by = "ref" => Bears(r.row, r.who, r.name.ref)
                            /\ r.meant \subseteq {r.row}
  <2> SUFFICES ASSUME ask[a].at = "act"
               PROVE  /\ r.row \in Rows
                      /\ r.name.by = "ref" => Bears(r.row, r.who, r.name.ref)
                      /\ r.meant \subseteq {r.row}
    OBVIOUS
  <2>1. r.row \in Rows /\ (r.name.by = "ref" => Bears(r.row, r.who, r.name.ref))
    BY <1>3, <1>7 DEF AskOK
  <2>2. CASE r.name.by = "ref"
    <3>1. ASSUME NEW i \in r.meant PROVE i = r.row
      <4>1. Bears(i, r.who, r.name.ref) /\ Bears(r.row, r.who, r.name.ref)
        BY <1>8, <2>1, <2>2
      <4> QED
        BY <1>7, <4>1 DEF Bears, NumbersUnique, Committed
    <3> QED
      BY <2>1, <3>1
  <2> QED
    BY <1>9, <2>1, <2>2
<1>11. answer = "ok" => /\ r.row \in Rows /\ Committed(r.row)' /\ owner'[r.row] = r.who
                        /\ r.meant \subseteq {r.row}
  <2> SUFFICES ASSUME answer = "ok"
               PROVE  /\ r.row \in Rows /\ Committed(r.row)' /\ owner'[r.row] = r.who
                      /\ r.meant \subseteq {r.row}
    OBVIOUS
  <2>1. /\ r.row \in Rows /\ Committed(r.row) /\ owner[r.row] = r.who
        /\ r.meant \subseteq {r.row}
    BY <1>3, <1>10 DEF StillTheirs, LiveOf, RowsOf
  <2> QED
    BY <2>1 DEF RowsStay, Committed
<1>12. answer = "not_found" => \A i \in r.meant : status'[i] = "deleted"
  <2> SUFFICES ASSUME answer = "not_found", NEW i \in r.meant
               PROVE  status'[i] = "deleted"
    OBVIOUS
  <2>1. Bears(i, r.who, r.name.ref) /\ r.name.by = "ref"
    BY <1>8, <1>9
  <2>2. CASE \A j \in ask[a].meant : status[j] = "deleted"
    BY <1>3, <2>1, <2>2 DEF Bears, RowsStay
  <2>3. CASE ask[a].at = "act" /\ ~StillTheirs(a)
    <3>1. i = r.row
      BY <1>10, <2>3
    <3>2. status[i] = "deleted"
      BY <1>3, <2>1, <2>3, <3>1 DEF StillTheirs, LiveOf, RowsOf, Bears
    <3> QED
      BY <2>1, <3>2 DEF Bears, RowsStay
  <2> QED
    BY <2>2, <2>3
<1>13. AskOK(a)'
  <2>1. r.name.by = "ref" => \A i \in r.meant : Bears(i, r.who, r.name.ref)'
    BY <1>6, <1>8
  <2> QED
    BY <1>3, <1>5, <1>9, <1>11, <1>12, <2>1 DEF AskOK, Bears, Committed
<1> QED
  BY <1>3, <1>4, <1>13, AskMoves

\* A call is made.
LEMMA AskKeeps ==
  ASSUME NumbersInv, NEW a \in Asks, Ask(a)
  PROVE  NumbersInv'
<1>1. PICK who \in Owners, verb \in Verbs, name \in Names :
        ask' = [ask EXCEPT ![a] =
                 [who |-> who, verb |-> verb, name |-> name,
                  at |-> IF name.by = "ref" THEN "resolve" ELSE "act",
                  meant |-> IF name.by = "ref" THEN Shown(who, name.ref) ELSE {},
                  row |-> IF name.by = "ref" THEN Nobody ELSE name.id]]
  BY DEF Ask
<1>2. PICK r : r = [who |-> who, verb |-> verb, name |-> name,
                    at |-> IF name.by = "ref" THEN "resolve" ELSE "act",
                    meant |-> IF name.by = "ref" THEN Shown(who, name.ref) ELSE {},
                    row |-> IF name.by = "ref" THEN Nobody ELSE name.id]
  OBVIOUS
<1>3. /\ r.who = who /\ r.name = name
      /\ r.at = IF name.by = "ref" THEN "resolve" ELSE "act"
      /\ r.meant = IF name.by = "ref" THEN Shown(who, name.ref) ELSE {}
      /\ r.row = IF name.by = "ref" THEN Nobody ELSE name.id
  BY <1>2
<1>4. \A i \in Shown(who, name.ref) : Bears(i, who, name.ref)
  BY DEF NumbersInv, ShownInv, Shown
<1>5. Shown(who, name.ref) \subseteq Rows
  BY <1>4 DEF Bears
<1>6. name.by # "ref" => name.id \in Rows
  BY DEF Names
<1>7. r \in Asked
  BY <1>2, <1>5, <1>6 DEF Asked
<1>8. ask' = [ask EXCEPT ![a] = r]
  BY <1>1, <1>2
<1>9. ask'[a] = r
  BY <1>8 DEF NumbersInv, AskTypes
<1>10. UNCHANGED quotaVars /\ shown' = shown
  BY DEF Ask
<1>11. QuotaInv' /\ RowsStay /\ RowsAppear
  BY <1>10, QuotaStep, QuotaRows DEF NumbersInv
<1>12. \A i, o, n : Bears(i, o, n) => Bears(i, o, n)'
  BY <1>11, RowsKeep DEF NumbersInv
<1>13. AskOK(a)'
  BY <1>3, <1>4, <1>6, <1>9, <1>12 DEF AskOK
<1> QED
  BY <1>7, <1>8, <1>10, <1>11, <1>13, AskMoves

\* A number is looked up.
LEMMA ResolveKeeps ==
  ASSUME NumbersInv, NEW a \in Asks, ResolveRef(a)
  PROVE  NumbersInv'
<1>1. UNCHANGED quotaVars /\ shown' = shown /\ ask[a].at = "resolve"
  BY DEF ResolveRef
<1>2. QuotaInv' /\ RowsStay /\ RowsAppear
  BY <1>1, QuotaStep, QuotaRows DEF NumbersInv
<1>3. ask[a] \in Asked /\ AskOK(a)
  BY <1>1, AskedOrIdle DEF NumbersInv
<1>4. CASE ByRef(ask[a].who, ask[a].name.ref) = {}
  <2>1. Replied(a, "not_found")
    BY <1>4 DEF ResolveRef
  <2>2. ASSUME NEW i \in ask[a].meant PROVE status[i] = "deleted"
    <3>1. Bears(i, ask[a].who, ask[a].name.ref)
      BY <1>1, <1>3 DEF AskOK
    <3> QED
      BY <1>4, <3>1 DEF ByRef, LiveOf, RowsOf, Bears
  <2> QED
    BY <1>1, <1>2, <2>1, <2>2, AnswerKeeps
<1>5. CASE ByRef(ask[a].who, ask[a].name.ref) # {}
  <2>1. PICK i \in ByRef(ask[a].who, ask[a].name.ref) :
          ask' = [ask EXCEPT ![a].row = i, ![a].at = "act"]
    BY <1>5 DEF ResolveRef
  <2>2. i \in Rows /\ Bears(i, ask[a].who, ask[a].name.ref)
    BY DEF ByRef, LiveOf, RowsOf, Bears
  <2>3. PICK r : r = [[ask[a] EXCEPT !.row = i] EXCEPT !.at = "act"]
    OBVIOUS
  <2>4. /\ r \in Asked /\ r.who = ask[a].who /\ r.name = ask[a].name
        /\ r.meant = ask[a].meant /\ r.row = i /\ r.at = "act"
    BY <1>3, <2>2, <2>3 DEF Asked
  <2>5. ask' = [ask EXCEPT ![a] = r]
    BY <2>1, <2>3 DEF NumbersInv, AskTypes
  <2>6. ask'[a] = r
    BY <2>5 DEF NumbersInv, AskTypes
  <2>7. \A j, o, n : Bears(j, o, n) => Bears(j, o, n)'
    BY <1>2, RowsKeep DEF NumbersInv
  <2>8. AskOK(a)'
    BY <1>1, <1>3, <2>2, <2>4, <2>6, <2>7 DEF AskOK
  <2> QED
    BY <1>1, <1>2, <2>4, <2>5, <2>8, AskMoves
<1> QED
  BY <1>4, <1>5

\* A reminder is read, or written.
LEMMA ActKeeps ==
  ASSUME NumbersInv, NEW a \in Asks,
         GetReminder(a) \/ UpdateReminder(a) \/ DeleteReminder(a)
  PROVE  NumbersInv'
<1>1. CASE GetReminder(a)
  <2>1. /\ UNCHANGED quotaVars /\ shown' = shown /\ ask[a].at = "act"
        /\ Replied(a, IF StillTheirs(a) THEN "ok" ELSE "not_found")
    BY <1>1 DEF GetReminder
  <2>2. QuotaInv' /\ RowsStay /\ RowsAppear
    BY <2>1, QuotaStep, QuotaRows DEF NumbersInv
  <2>3. PICK answer \in {"ok", "not_found"} :
          answer = IF StillTheirs(a) THEN "ok" ELSE "not_found"
    OBVIOUS
  <2>4. /\ Replied(a, answer)
        /\ answer = "ok" => StillTheirs(a)
        /\ answer = "not_found" => ~StillTheirs(a)
    BY <2>1, <2>3
  <2> QED
    BY <2>1, <2>2, <2>4, AnswerKeeps
<1>2. ASSUME NEW verb, NEW to \in {"PENDING", "deleted"}, Overwrite(a, verb, to)
      PROVE  NumbersInv'
  <2>1. QuotaInv' /\ RowsStay /\ RowsAppear
    BY <1>2, OverwriteKeeps DEF NumbersInv
  <2>2. /\ ask[a].at = "act" /\ shown' = shown
        /\ \/ StillTheirs(a) /\ \E answer \in {"ok", "internal"} : Replied(a, answer)
           \/ ~StillTheirs(a) /\ Replied(a, "not_found")
    BY <1>2 DEF Overwrite
  <2>3. CASE StillTheirs(a) /\ \E answer \in {"ok", "internal"} : Replied(a, answer)
    <3>1. PICK answer \in {"ok", "internal"} : Replied(a, answer)
      BY <2>3
    <3> QED
      BY <2>1, <2>2, <2>3, <3>1, AnswerKeeps
  <2>4. CASE ~StillTheirs(a) /\ Replied(a, "not_found")
    BY <2>1, <2>2, <2>4, AnswerKeeps
  <2> QED
    BY <2>2, <2>3, <2>4
<1> QED
  BY <1>1, <1>2 DEF UpdateReminder, DeleteReminder

\* A page is shown.
LEMMA ListKeeps ==
  ASSUME NumbersInv, NEW o \in Owners, ListReminders(o)
  PROVE  NumbersInv'
<1>1. PICK page \in SUBSET LiveOf(o) : shown' = shown \cup {<<o, ref[i], i>> : i \in page}
  BY DEF ListReminders
<1>2. UNCHANGED quotaVars /\ ask' = ask
  BY DEF ListReminders
<1>3. QuotaInv' /\ RowsStay /\ RowsAppear
  BY <1>2, QuotaStep, QuotaRows DEF NumbersInv
<1>4. NumbersUnique' /\ \A i, p, n : Bears(i, p, n) => Bears(i, p, n)'
  BY <1>3, RowsKeep DEF NumbersInv
<1>5. \A i \in page : Bears(i, o, ref[i]) /\ i \in Rows /\ ref[i] \in Nat
  BY DEF LiveOf, RowsOf, Bears, NumbersInv, QuotaInv, QuotaTypeOK
<1>6. shown' \subseteq Owners \X Nat \X Rows
  BY <1>1, <1>5 DEF NumbersInv
<1>7. ShownInv'
  <2> SUFFICES ASSUME NEW s \in shown'
               PROVE  Bears(s[3], s[1], s[2])
    BY <1>4 DEF ShownInv
  <2>1. CASE s \in shown
    BY <2>1 DEF NumbersInv, ShownInv
  <2>2. CASE s \notin shown
    <3>1. PICK i \in page : s = <<o, ref[i], i>>
      BY <1>1, <2>2
    <3> QED
      BY <1>5, <3>1
  <2> QED
    BY <2>1, <2>2
<1>8. \A a \in Asks : AskOK(a)'
  BY <1>2, <1>3, AskStays DEF NumbersInv
<1> QED
  BY <1>2, <1>3, <1>4, <1>6, <1>7, <1>8 DEF NumbersInv, AskTypes

\* Every step of the quota or of a call keeps NumbersInv.
LEMMA NumbersStep ==
  ASSUME NumbersInv, [NumbersNext]_<<quotaVars, numbersVars>>
  PROVE  NumbersInv'
<1>1. CASE [QuotaNext]_quotaVars /\ UNCHANGED numbersVars
  <2>1. QuotaInv' /\ RowsStay /\ RowsAppear
    BY <1>1, QuotaStep, QuotaRows DEF NumbersInv
  <2>2. NumbersUnique' /\ \A i, p, n : Bears(i, p, n) => Bears(i, p, n)'
    BY <2>1, RowsKeep DEF NumbersInv
  <2>3. ask' = ask /\ shown' = shown
    BY <1>1 DEF numbersVars
  <2>4. \A a \in Asks : AskOK(a)'
    BY <2>1, <2>3, AskStays DEF NumbersInv
  <2> QED
    BY <2>1, <2>2, <2>3, <2>4 DEF NumbersInv, ShownInv, AskTypes
<1>2. ASSUME NEW a \in Asks, AskFails(a) PROVE NumbersInv'
  <2>1. /\ UNCHANGED quotaVars /\ shown' = shown /\ ask[a].at # "idle"
        /\ Replied(a, "internal")
    BY <1>2 DEF AskFails
  <2>2. QuotaInv' /\ RowsStay /\ RowsAppear
    BY <2>1, QuotaStep, QuotaRows DEF NumbersInv
  <2> QED
    BY <2>1, <2>2, AnswerKeeps
<1> QED
  BY <1>1, <1>2, ListKeeps, AskKeeps, ResolveKeeps, ActKeeps DEF NumbersNext

\* Before any call there is no row, and nothing was shown.
LEMMA NumbersStart == QuotaInit /\ NumbersInit => NumbersInv
<1> SUFFICES ASSUME QuotaInit, NumbersInit PROVE NumbersInv
  OBVIOUS
<1>1. QuotaInv
  BY QuotaStart
<1>2. NumbersUnique
  BY DEF QuotaInit, NumbersUnique
<1>3. shown = {} /\ \A a \in Asks : ask[a].at = "idle"
  BY DEF NumbersInit
<1>4. AskTypes
  BY DEF NumbersInit, AskTypes
<1> QED
  BY <1>1, <1>2, <1>3, <1>4 DEF NumbersInv, ShownInv, AskOK

\* NumbersInv, the numbers that are each one row's with what was shown of them,
\* holds of every behaviour of the calls beside the quota.
THEOREM NumbersInvariant == NumbersSpec => []NumbersInv
BY NumbersStart, NumbersStep, PTL DEF NumbersSpec

\* A number means the reminder it was shown for, and nobody reaches another's.
THEOREM NumberCorrect == NumbersSpec => []NumberMeansWhatWasShown
<1>1. NumbersInv => NumberMeansWhatWasShown
  BY DEF NumbersInv, NumberMeansWhatWasShown, AskOK
<1> QED
  BY <1>1, NumbersInvariant, PTL

-----------------------------------------------------------------------------
(* The directory and the files beside an import.                           *)

\* Who a call is made by and what identities lead to are accounts, and a call that
\* has written its place has it there.
DirectoryInv ==
  /\ identity \in [Uids -> Accounts \cup {None}]
  /\ caller \in [Visits -> Accounts \cup {None}]
  /\ visit = [v \in Visits |-> visit[v]]
  /\ \A v \in Visits : visit[v] # "new" => caller[v] # None
  /\ \A v \in Visits : visit[v] = "written" => Place(Origin[v]) \subseteq place
  /\ IsFiniteSet(known)
  /\ CacheIsTrue

\* The run: what the next one starts from, and what this one has written.
RunInv ==
  /\ run \in [number : 0 .. MaxRuns, at : Nat, dry : BOOLEAN]
  /\ Running => run.number # 0
  /\ ~Running => tx = Nothing /\ \A i \in Imports : ~Held(i)
  /\ tx = [t \in Table |-> tx[t]]
  /\ ~run.dry => tx["file"] \subseteq blob
  /\ tx["account"] \subseteq Imported
  /\ \A e \in tx["identity"] : e[2] \in Imported
  /\ \A e \in idmap \cup tx["idmap"] : e.entity = "user" => e.id \in Imported

\* A full cache gives up at least one entry.
LEMMA EvictedFewer ==
  ASSUME NEW S, IsFiniteSet(S), Cardinality(S) >= MaxKnown, NEW kept \in Evicted(S)
  PROVE  /\ kept \subseteq S /\ IsFiniteSet(kept)
         /\ Cardinality(kept) < Cardinality(S)
<1>1. kept \subseteq S /\ IsFiniteSet(kept) /\ Cardinality(S) \in Nat
  BY FS_Subset, FS_CardinalityType DEF Evicted
<1>2. PICK share : share = Cardinality(S) \div EvictDivisor
  OBVIOUS
<1>3. share \in Nat
  BY <1>1, <1>2, CacheAssumption
<1>4. PICK gone : gone = IF share = 0 THEN 1 ELSE share
  OBVIOUS
<1>5. Cardinality(kept) = Cardinality(S) - gone
  BY <1>2, <1>4 DEF Evicted
<1>6. gone \in Nat /\ gone >= 1
  BY <1>3, <1>4
<1> QED
  BY <1>1, <1>5, <1>6

\* The cache remembers a place that is there, and keeps to its limit.
LEMMA RememberKeeps ==
  ASSUME DirectoryInv, NEW v \in Visits, Remember(v)
  PROVE  IsFiniteSet(known') /\ CacheIsTrue'
<1> USE DEF DirectoryInv
<1>1. PICK kept \in IF Cardinality(known) >= MaxKnown THEN Evicted(known) ELSE {known} :
         known' = kept \cup {Origin[v]}
  BY DEF Remember
<1>2. kept \subseteq known /\ IsFiniteSet(kept) /\ Cardinality(kept) < MaxKnown
      /\ Cardinality(kept) \in Nat
  <2>1. Cardinality(known) \in Nat /\ Cardinality(known) <= MaxKnown
    BY FS_CardinalityType DEF CacheIsTrue
  <2>2. CASE Cardinality(known) >= MaxKnown
    BY <1>1, <2>1, <2>2, EvictedFewer, FS_CardinalityType, CacheAssumption
  <2>3. CASE ~(Cardinality(known) >= MaxKnown)
    BY <1>1, <2>1, <2>3, CacheAssumption
  <2> QED
    BY <2>2, <2>3
<1>3. IsFiniteSet(known') /\ Cardinality(known') <= MaxKnown
  <2>1. /\ IsFiniteSet(kept \cup {Origin[v]})
        /\ \/ Cardinality(kept \cup {Origin[v]}) = Cardinality(kept)
           \/ Cardinality(kept \cup {Origin[v]}) = Cardinality(kept) + 1
    BY <1>2, FS_AddElement
  <2> QED
    BY <1>1, <1>2, <2>1, CacheAssumption
<1>4. UNION {Place(channel) : channel \in known'} \subseteq place'
  <2>1. place' = place /\ Place(Origin[v]) \subseteq place
    BY DEF Remember
  <2>2. UNION {Place(channel) : channel \in known} \subseteq place
    BY DEF CacheIsTrue
  <2>3. known' \subseteq known \cup {Origin[v]}
    BY <1>1, <1>2
  <2> QED
    BY <2>1, <2>2, <2>3
<1> QED
  BY <1>3, <1>4 DEF CacheIsTrue

\* More places make no cached one untrue.
LEMMA CacheStays ==
  ASSUME DirectoryInv, known' = known, place \subseteq place'
  PROVE  IsFiniteSet(known') /\ CacheIsTrue'
<1>1. UNION {Place(channel) : channel \in known} \subseteq place'
  BY DEF DirectoryInv, CacheIsTrue
<1> QED
  BY <1>1 DEF DirectoryInv, CacheIsTrue

\* The directory's own steps.
LEMMA DirectoryStep ==
  ASSUME DirectoryInv, DirectoryNext
  PROVE  DirectoryInv'
<1> USE DEF DirectoryInv
<1>1. ASSUME NEW r \in Registrations, InsertUser(r) \/ CommitUser(r) \/ FailUser(r)
      PROVE  DirectoryInv'
  <2>1. UNCHANGED visitVars /\ (identity' = identity \/ identity' = [identity EXCEPT ![Uid[r]] = r])
    BY <1>1 DEF InsertUser, CommitUser, FailUser
  <2>2. identity' \in [Uids -> Accounts \cup {None}]
    BY <2>1 DEF Accounts
  <2>3. IsFiniteSet(known') /\ CacheIsTrue'
    BY <2>1, CacheStays DEF visitVars
  <2> QED
    BY <2>1, <2>2, <2>3 DEF visitVars
<1>2. ASSUME NEW v \in Visits, Arrive(v)
      PROVE  DirectoryInv'
  <2>1. /\ caller' = [caller EXCEPT ![v] = identity[Uid[v]]] /\ identity[Uid[v]] # None
        /\ \E at \in {"passed", "unseen"} : visit' = [visit EXCEPT ![v] = at]
        /\ UNCHANGED <<identity, place, known>>
    BY <1>2 DEF Arrive, Reach, registerVars
  <2>2. caller' \in [Visits -> Accounts \cup {None}]
    BY <2>1 DEF Uids
  <2>3. IsFiniteSet(known') /\ CacheIsTrue'
    BY <2>1, CacheStays
  <2> QED
    BY <2>1, <2>2, <2>3
<1>3. ASSUME NEW v \in Visits,
             Bootstrap(v) \/ BootstrapFails(v) \/ Resolve(v) \/ ResolveFails(v)
      PROVE  DirectoryInv'
  <2>1. /\ visit[v] # "new" /\ place \subseteq place' /\ UNCHANGED <<identity, caller, known>>
        /\ \E at \in {"written", "passed", "placed", "new"} :
             visit' = [visit EXCEPT ![v] = at]
             /\ (at = "written" => Place(Origin[v]) \subseteq place')
    BY <1>3 DEF Bootstrap, BootstrapFails, Resolve, ResolveFails, Reach, registerVars
  <2>2. IsFiniteSet(known') /\ CacheIsTrue'
    BY <2>1, CacheStays
  <2> QED
    BY <2>1, <2>2
<1>4. ASSUME NEW v \in Visits, Remember(v)
      PROVE  DirectoryInv'
  <2>1. /\ visit[v] = "written" /\ UNCHANGED <<identity, caller, place>>
        /\ visit' = [visit EXCEPT ![v] = "passed"]
    BY <1>4 DEF Remember, Reach, registerVars
  <2> QED
    BY <1>4, <2>1, RememberKeeps
<1> QED
  BY <1>1, <1>2, <1>3, <1>4 DEF DirectoryNext

-----------------------------------------------------------------------------
(* A run of the import.                                                    *)

\* What a row's statements leave of the run and of its transaction.
LEMMA Passed ==
  ASSUME RunInv, Running, Done
  PROVE  /\ run' \in [number : 0 .. MaxRuns, at : Nat, dry : BOOLEAN]
         /\ run'.number = run.number /\ run'.dry = run.dry /\ run'.at = run.at + 1
         /\ Running'
BY RunsAssumption DEF RunInv, Running, Done

LEMMA Written ==
  ASSUME NEW added, Write(added)
  PROVE  /\ tx' = [t \in Table |-> tx'[t]] /\ Done
         /\ \A t \in Table : /\ t \in DOMAIN added => tx'[t] = tx[t] \cup added[t]
                             /\ t \notin DOMAIN added => tx'[t] = tx[t]
BY DEF Write

\* The rows a run makes are those it may make.
LEMMA RowIds ==
  ASSUME RunInv, NEW kind, At(kind)
  PROVE  /\ run.at \in DOMAIN Work /\ row.kind = kind /\ run.number \in 1 .. MaxRuns
         /\ kind = "user" => Id(row.user) \in Imported
         /\ kind = "reminder" => Id(row.reminder) \in Imports
<1>1. run.at \in DOMAIN Work /\ row.kind = kind /\ run.number \in 1 .. MaxRuns
  BY WorkAssumption, RunsAssumption DEF RunInv, At, Running
<1> QED
  BY <1>1, WorkAssumption DEF row, Id

\* A legacy user that is mapped is mapped to an account.
LEMMA NewUser ==
  ASSUME RunInv, NEW legacy, Mapped("user", legacy)
  PROVE  NewId("user", legacy) \in Imported
<1>1. (CHOOSE e \in Entries("user", legacy) : TRUE) \in Entries("user", legacy)
  BY DEF Mapped
<1> QED
  BY <1>1 DEF NewId, Entries, RunInv

\* What each pass adds to the transaction.
LEMMA PassAdds ==
  ASSUME RunInv, PassInstance \/ PassDestination \/ PassUser \/ PassIdentity \/ PassFile
                   \/ PassTrigger \/ PassStats \/ PassStaging \/ Absent
                   \/ InsertLegacy
  PROVE  /\ Running /\ Done /\ tx' = [t \in Table |-> tx'[t]]
         /\ tx'["account"] \subseteq Imported
         /\ \A e \in tx'["identity"] : e[2] \in Imported
         /\ \A e \in tx'["idmap"] : e.entity = "user" => e.id \in Imported
         /\ ~PassFile => tx'["file"] = tx["file"]
<1> DEFINE Goal == /\ Running /\ Done /\ tx' = [t \in Table |-> tx'[t]]
                   /\ tx'["account"] \subseteq Imported
                   /\ \A e \in tx'["identity"] : e[2] \in Imported
                   /\ \A e \in tx'["idmap"] : e.entity = "user" => e.id \in Imported
                   /\ ~PassFile => tx'["file"] = tx["file"]
<1>0. /\ tx = [t \in Table |-> tx[t]] /\ tx["account"] \subseteq Imported
      /\ \A e \in tx["identity"] : e[2] \in Imported
      /\ \A e \in tx["idmap"] : e.entity = "user" => e.id \in Imported
  BY DEF RunInv
<1>1. CASE Running /\ Skip
  BY <1>0, <1>1 DEF Skip
<1>2. CASE PassInstance \/ PassDestination \/ Absent
  BY <1>0, <1>2 DEF PassInstance, PassDestination, Absent, Present, At, Upsert, Skip
<1>3. CASE PassUser /\ ~Skip
  <2>1. /\ At("user")
        /\ Write([account |-> {Id(row.user)},
                  idmap |-> {Entry("user", row.user, Id(row.user))}])
    BY <1>3 DEF PassUser, Present
  <2>2. Id(row.user) \in Imported
    BY <2>1, RowIds
  <2>3. /\ tx'["account"] = tx["account"] \cup {Id(row.user)}
        /\ tx'["identity"] = tx["identity"] /\ tx'["file"] = tx["file"]
        /\ tx'["idmap"] = tx["idmap"] \cup {Entry("user", row.user, Id(row.user))}
    BY <2>1, Written DEF Table
  <2> QED
    BY <1>0, <2>1, <2>2, <2>3, Written DEF Entry, At
<1>4. CASE PassIdentity /\ ~Skip
  <2>1. /\ At("identity") /\ Mapped("user", row.user)
        /\ Write([identity |-> IF identity[row.uid] # None THEN {}
                               ELSE {<<row.uid, NewId("user", row.user)>>},
                  idmap |-> {Entry("identity", row.user, row.uid)}])
    BY <1>4 DEF PassIdentity, Present
  <2>2. NewId("user", row.user) \in Imported
    BY <2>1, NewUser
  <2>3. /\ tx'["account"] = tx["account"] /\ tx'["file"] = tx["file"]
        /\ tx'["identity"] \subseteq tx["identity"] \cup {<<row.uid, NewId("user", row.user)>>}
        /\ tx'["idmap"] = tx["idmap"] \cup {Entry("identity", row.user, row.uid)}
    BY <2>1, Written DEF Table
  <2>4. \A e \in tx'["identity"] : e[2] \in Imported
    BY <1>0, <2>2, <2>3
  <2>5. Entry("identity", row.user, row.uid).entity # "user"
    BY DEF Entry
  <2>6. \A e \in tx'["idmap"] : e.entity = "user" => e.id \in Imported
    BY <1>0, <2>3, <2>5
  <2>7. Running /\ Done /\ tx' = [t \in Table |-> tx'[t]]
    BY <2>1, Written DEF At
  <2> QED
    BY <1>0, <2>3, <2>4, <2>6, <2>7
<1>5. CASE PassFile /\ ~Skip
  <2>1. /\ At("file")
        /\ Write([file |-> {Hash[row.file]},
                  idmap |-> {Entry("file", row.file, Hash[row.file])}])
    BY <1>5 DEF PassFile, Present
  <2>3. /\ tx'["account"] = tx["account"] /\ tx'["identity"] = tx["identity"]
        /\ tx'["idmap"] = tx["idmap"] \cup {Entry("file", row.file, Hash[row.file])}
    BY <2>1, Written DEF Table
  <2> QED
    BY <1>0, <1>5, <2>1, <2>3, Written DEF Entry, At
<1>6. CASE PassTrigger /\ ~Skip
  <2>1. /\ At("trigger")
        /\ Write([trigger |-> {[legacy |-> row.trigger, id |-> Id(row.trigger),
                                 phrase |-> row.phrase]},
                  idmap |-> {Entry("trigger", row.trigger, Id(row.trigger))}])
    BY <1>6 DEF PassTrigger, Present
  <2>3. /\ tx'["account"] = tx["account"] /\ tx'["identity"] = tx["identity"]
        /\ tx'["file"] = tx["file"]
        /\ tx'["idmap"] = tx["idmap"] \cup {Entry("trigger", row.trigger, Id(row.trigger))}
    BY <2>1, Written DEF Table
  <2> QED
    BY <1>0, <2>1, <2>3, Written DEF Entry, At
<1>7. CASE PassStats /\ ~Skip
  <2>1. /\ At("stats")
        /\ Write([seeded |-> {Id(row.trigger)},
                  idmap |-> {Entry("stats", row.trigger, row.trigger)}])
    BY <1>7 DEF PassStats, Present
  <2>3. /\ tx'["account"] = tx["account"] /\ tx'["identity"] = tx["identity"]
        /\ tx'["file"] = tx["file"]
        /\ tx'["idmap"] = tx["idmap"] \cup {Entry("stats", row.trigger, row.trigger)}
    BY <2>1, Written DEF Table
  <2> QED
    BY <1>0, <2>1, <2>3, Written DEF Entry, At
<1>8. CASE InsertLegacy
  <2>1. /\ At("reminder")
        /\ Write([idmap |-> {Entry("reminder", row.reminder, Id(row.reminder))}])
    BY <1>8 DEF InsertLegacy, Present
  <2>3. /\ tx'["account"] = tx["account"] /\ tx'["identity"] = tx["identity"]
        /\ tx'["file"] = tx["file"]
        /\ tx'["idmap"] = tx["idmap"] \cup {Entry("reminder", row.reminder, Id(row.reminder))}
    BY <2>1, Written DEF Table
  <2>5. Entry("reminder", row.reminder, Id(row.reminder)).entity # "user"
    BY DEF Entry
  <2>6. \A e \in tx'["idmap"] : e.entity = "user" => e.id \in Imported
    BY <1>0, <2>3, <2>5
  <2>7. Running /\ Done /\ tx' = [t \in Table |-> tx'[t]]
    BY <2>1, Written DEF At
  <2> QED
    BY <1>0, <2>3, <2>6, <2>7
<1>9. CASE PassStaging /\ ~Skip
  <2>1. At("staging") /\ Write([staged |-> {row.id}])
    BY <1>9 DEF PassStaging, Present
  <2>3. /\ tx'["account"] = tx["account"] /\ tx'["identity"] = tx["identity"]
        /\ tx'["file"] = tx["file"] /\ tx'["idmap"] = tx["idmap"]
    BY <2>1, Written DEF Table
  <2> QED
    BY <1>0, <2>1, <2>3, Written DEF At
<1> QED
  BY <1>1, <1>2, <1>3, <1>4, <1>5, <1>6, <1>7, <1>8, <1>9
     DEF PassUser, PassIdentity, PassFile, PassTrigger, PassStats, PassStaging, Present, At

\* A pass keeps the run as it should be, and the bytes with the files.
LEMMA PassKeeps ==
  ASSUME RunInv, BlobsFollowFiles,
         PassInstance \/ PassDestination \/ PassUser \/ PassIdentity \/ PassFile
           \/ PassTrigger \/ PassStats \/ PassStaging \/ Absent \/ InsertLegacy
  PROVE  RunInv' /\ BlobsFollowFiles'
<1>1. /\ Running /\ Done /\ tx' = [t \in Table |-> tx'[t]]
      /\ tx'["account"] \subseteq Imported
      /\ \A e \in tx'["identity"] : e[2] \in Imported
      /\ \A e \in tx'["idmap"] : e.entity = "user" => e.id \in Imported
      /\ ~PassFile => tx'["file"] = tx["file"]
  BY PassAdds
<1>2. /\ run' \in [number : 0 .. MaxRuns, at : Nat, dry : BOOLEAN]
      /\ run'.number = run.number /\ run'.dry = run.dry
      /\ Running'
  BY <1>1, Passed
<1>3. /\ idmap' = idmap /\ file' = file /\ cut' = cut
      /\ ~PassFile => blob' = blob
  BY DEF PassInstance, PassDestination, PassUser, PassIdentity, PassFile, PassTrigger,
     PassStats, PassStaging, Absent, InsertLegacy, Upsert, tables
<1>4. /\ ~run.dry => tx'["file"] \subseteq blob'
      /\ BlobsFollowFiles'
  <2>0. /\ file \subseteq blob /\ (~run.dry => tx["file"] \subseteq blob)
        /\ blob \subseteq file \cup cut \cup IF run.dry THEN {} ELSE tx["file"]
    BY DEF RunInv, BlobsFollowFiles
  <2>1. CASE ~PassFile
    BY <1>1, <1>2, <1>3, <2>0, <2>1 DEF BlobsFollowFiles
  <2>2. CASE PassFile /\ Skip /\ UNCHANGED blob
    BY <1>2, <1>3, <2>0, <2>2 DEF BlobsFollowFiles, Skip
  <2>3. CASE PassFile /\ ~(Skip /\ UNCHANGED blob)
    <3>1. /\ Write([file |-> {Hash[row.file]},
                    idmap |-> {Entry("file", row.file, Hash[row.file])}])
          /\ blob' = blob \cup IF Live(Hash[row.file]) \/ run.dry
                                 THEN {} ELSE {Hash[row.file]}
      BY <2>3 DEF PassFile
    <3>2. tx'["file"] = tx["file"] \cup {Hash[row.file]}
      BY <3>1, Written DEF Table
    <3> QED
      BY <1>2, <1>3, <2>0, <3>1, <3>2 DEF BlobsFollowFiles, Live
  <2> QED
    BY <2>1, <2>2, <2>3
<1>5. \A e \in idmap' \cup tx'["idmap"] : e.entity = "user" => e.id \in Imported
  BY <1>1, <1>3 DEF RunInv
<1>6. run'.number # 0
  BY <1>1, <1>2 DEF RunInv
<1> QED
  BY <1>1, <1>2, <1>4, <1>5, <1>6 DEF RunInv

\* The end of a run leaves no row of the import half written.
LEMMA NoneHeld ==
  ASSUME NEW result \in {"PENDING", "none"}, ImportEnd(result)
  PROVE  \A i \in Imports : ~Held(i)'
BY DEF ImportEnd, Held, Rows

\* The other steps of a run.
LEMMA RunKeeps ==
  ASSUME RunInv, BlobsFollowFiles, Migrate
  PROVE  RunInv' /\ BlobsFollowFiles'
<1>1. CASE Begin
  <2>1. /\ ~Running /\ Running' /\ tx' = tx /\ tx = Nothing
        /\ run' \in [number : 0 .. MaxRuns, at : Nat, dry : BOOLEAN]
        /\ run'.number # 0
        /\ idmap' = idmap /\ file' = file /\ blob' = blob /\ cut' = cut
    BY <1>1, RunsAssumption DEF Begin, RunInv, tables, Running
  <2>2. tx["file"] = {}
    BY <2>1 DEF Nothing, Table
  <2> QED
    BY <2>1, <2>2 DEF RunInv, BlobsFollowFiles
<1>2. CASE PassReminder
  <2>1. CASE Skip
    <3>1. Running /\ Done /\ tx' = tx
      BY <1>2, <2>1 DEF PassReminder, Present, At, Skip
    <3>2. /\ run' \in [number : 0 .. MaxRuns, at : Nat, dry : BOOLEAN]
          /\ run'.number = run.number /\ run'.dry = run.dry
          /\ Running'
      BY <3>1, Passed
    <3> QED
      BY <1>2, <3>1, <3>2 DEF PassReminder, RunInv, BlobsFollowFiles, tables
  <2>2. CASE ~Skip
    <3>1. UNCHANGED <<run, tx, idmap, file, blob, cut>> /\ Running
      BY <1>2, <2>2 DEF PassReminder, Present, At, tables
    <3> QED
      BY <3>1 DEF RunInv, BlobsFollowFiles, Running
  <2> QED
    BY <2>1, <2>2
<1>3. CASE Rollback
  <2>1. /\ run' = [run EXCEPT !.at = 0] /\ tx' = Nothing
        /\ UNCHANGED <<idmap, file, blob>>
        /\ cut' = IF run.dry THEN cut ELSE cut \cup tx["file"]
    BY <1>3 DEF Rollback, Parked, tables
  <2>2. \A i \in Imports : ~Held(i)'
    BY <1>3, NoneHeld DEF Rollback
  <2>3. run' \in [number : 0 .. MaxRuns, at : Nat, dry : BOOLEAN] /\ ~Running'
        /\ run'.dry = run.dry
    BY <2>1 DEF RunInv, Running
  <2>4. tx' = [t \in Table |-> tx'[t]] /\ \A t \in Table : tx'[t] = {}
    BY <2>1 DEF Nothing
  <2> QED
    BY <2>1, <2>2, <2>3, <2>4 DEF RunInv, BlobsFollowFiles, Table
<1>4. CASE CommitImport
  <2>1. /\ run' = [run EXCEPT !.at = 0] /\ tx' = Nothing /\ ~run.dry
        /\ idmap' = idmap \cup tx["idmap"] /\ file' = file \cup tx["file"]
        /\ UNCHANGED <<blob, cut>>
    BY <1>4 DEF CommitImport, Parked
  <2>2. \A i \in Imports : ~Held(i)'
    BY <1>4, NoneHeld DEF CommitImport
  <2>3. run' \in [number : 0 .. MaxRuns, at : Nat, dry : BOOLEAN] /\ ~Running'
        /\ run'.dry = run.dry
    BY <2>1 DEF RunInv, Running
  <2>4. tx' = [t \in Table |-> tx'[t]] /\ \A t \in Table : tx'[t] = {}
    BY <2>1 DEF Nothing
  <2> QED
    BY <2>1, <2>2, <2>3, <2>4 DEF RunInv, BlobsFollowFiles, Table
<1> QED
  BY <1>1, <1>2, <1>3, <1>4, PassKeeps DEF Migrate

\* The directory through a step of the import: what identities lead to stays an
\* account, and no place goes.
LEMMA DirectoryKeeps ==
  ASSUME RunInv, DirectoryInv, Migrate
  PROVE  DirectoryInv'
<1>1. CASE CommitImport
  <2>1. /\ UNCHANGED <<visit, caller, known>> /\ place \subseteq place'
        /\ identity' = [u \in Uids |-> IF \E e \in tx["identity"] : e[1] = u
                          THEN (CHOOSE e \in tx["identity"] : e[1] = u)[2]
                          ELSE identity[u]]
    BY <1>1 DEF CommitImport
  <2>2. \A e \in tx["identity"] : e[2] \in Accounts
    BY DEF RunInv, Accounts
  <2>3. identity' \in [Uids -> Accounts \cup {None}]
    BY <2>1, <2>2 DEF DirectoryInv
  <2>4. IsFiniteSet(known') /\ CacheIsTrue'
    BY <2>1, CacheStays
  <2> QED
    BY <2>1, <2>3, <2>4 DEF DirectoryInv
<1>2. CASE ~CommitImport
  <2>1. UNCHANGED <<identity, visit, caller, place, known>>
    BY <1>2 DEF Migrate, Begin, Absent, PassInstance, PassDestination, PassUser,
       PassIdentity, PassFile, PassTrigger, PassStats, PassReminder, InsertLegacy,
       PassStaging, Rollback, Upsert, directoryVars, visitVars
  <2>2. IsFiniteSet(known') /\ CacheIsTrue'
    BY <2>1, CacheStays
  <2> QED
    BY <2>1, <2>2 DEF DirectoryInv
<1> QED
  BY <1>1, <1>2

-----------------------------------------------------------------------------
(* The import beside the server is a behaviour of the quota.               *)

\* A step of either is one of the quota's, or leaves it alone.
LEMMA StepOfQuota ==
  ASSUME RunInv, DirectoryInv, [Next]_vars
  PROVE  [QuotaNext]_quotaVars
<1>1. CASE PassReminder
  <2>1. CASE UNCHANGED quotaVars
    BY <2>1
  <2>2. CASE ~(UNCHANGED quotaVars)
    <3>1. /\ At("reminder") /\ Mapped("user", row.user)
          /\ \E n \in 1..(Cardinality(Rows) + 1) :
               ImportNumber(Id(row.reminder), NewId("user", row.user), n)
      BY <1>1, <2>2 DEF PassReminder, Present
    <3>2. Id(row.reminder) \in Imports /\ NewId("user", row.user) \in Owners
      BY <3>1, RowIds, NewUser, ServedAssumption DEF Accounts
    <3> QED
      BY <3>1, <3>2 DEF QuotaNext
  <2> QED
    BY <2>1, <2>2
<1>2. CASE InsertLegacy
  <2>1. Id(row.reminder) \in Imports
    BY <1>2, RowIds DEF InsertLegacy, Present
  <2> QED
    BY <1>2, <2>1 DEF InsertLegacy, QuotaNext
<1>3. CASE Rollback \/ CommitImport
  BY <1>3 DEF Rollback, CommitImport, QuotaNext
<1>4. CASE Migrate /\ ~PassReminder /\ ~InsertLegacy /\ ~Rollback /\ ~CommitImport
  BY <1>4 DEF Migrate, Begin, Absent, PassInstance, PassDestination, PassUser,
     PassIdentity, PassFile, PassTrigger, PassStats, PassStaging, Upsert
<1>5. CASE Served
  <2>1. ASSUME NEW c \in Creates, CreateEnters(c)
        PROVE  QuotaNext
    <3>1. caller[c] \in Owners
      BY <2>1, ServedAssumption DEF CreateEnters, DirectoryInv
    <3> QED
      BY <2>1, <3>1 DEF CreateEnters, QuotaNext
  <2> QED
    BY <1>5, <2>1 DEF Served, QuotaNext
<1> QED
  BY <1>1, <1>2, <1>3, <1>4, <1>5 DEF Next, Migrate, vars

-----------------------------------------------------------------------------
(* The server beside an import.                                            *)

\* The calls and the moves of the server neither hold a row of the import nor
\* commit one, nor give it an owner.
LEMMA ServedLeaves ==
  ASSUME QuotaTypeOK, Served
  PROVE  /\ UNCHANGED importVars
         /\ \A i \in Imports : /\ Held(i)' <=> Held(i)
                               /\ Committed(i)' <=> Committed(i)
                               /\ owner'[i] = owner[i]
<1>1. ASSUME NEW c \in Creates, CreateEnters(c) \/ (Create(c) /\ UNCHANGED importVars)
      PROVE  /\ UNCHANGED importVars
             /\ \A i \in Imports : status'[i] = status[i] /\ owner'[i] = owner[i]
  <2>1. \A i \in Imports : i # c /\ i \in Rows
    BY RowsAssumption DEF Rows
  <2>2. UNCHANGED importVars
    BY <1>1 DEF CreateEnters
  <2>3. /\ status' = status \/ \E to : status' = [status EXCEPT ![c] = to]
        /\ owner' = owner \/ \E o : owner' = [owner EXCEPT ![c] = o]
    BY <1>1 DEF CreateEnters, Enter, Create, Lock, Count, Insert, Commit, Fail, Number,
       rowVars
  <2> QED
    BY <2>1, <2>2, <2>3 DEF QuotaTypeOK
<1>2. ASSUME NEW j \in Rows, Move(j), UNCHANGED importVars
      PROVE  \A i \in Imports : /\ Held(i)' <=> Held(i)
                                /\ Committed(i)' <=> Committed(i)
                                /\ owner'[i] = owner[i]
  <2>1. /\ owner' = owner /\ Committed(j) /\ ~Held(j)
        /\ \E to \in {"PENDING", "SENT", "settled", "deleted"} :
             status' = [status EXCEPT ![j] = to]
    BY <1>2 DEF Move, Committed, Held
  <2> QED
    BY <2>1 DEF Committed, Held, QuotaTypeOK, Rows
<1> DEFINE Goal == /\ UNCHANGED importVars
                   /\ \A i \in Imports : /\ Held(i)' <=> Held(i)
                                         /\ Committed(i)' <=> Committed(i)
                                         /\ owner'[i] = owner[i]
<1>3. CASE DirectoryNext /\ UNCHANGED <<quotaVars, importVars>>
  BY <1>3 DEF Held, Committed, quotaVars, rowVars
<1>4. ASSUME NEW c \in Creates,
             CreateEnters(c) \/ (Create(c) /\ UNCHANGED <<directoryVars, importVars>>)
      PROVE  Goal
  <2>1. CreateEnters(c) \/ (Create(c) /\ UNCHANGED importVars)
    BY <1>4
  <2>2. /\ UNCHANGED importVars
        /\ \A i \in Imports : status'[i] = status[i] /\ owner'[i] = owner[i]
    BY <1>1, <2>1
  <2> QED
    BY <2>2 DEF Held, Committed
<1>5. ASSUME NEW j \in Rows, Move(j), UNCHANGED <<directoryVars, importVars>>
      PROVE  Goal
  <2>1. UNCHANGED importVars
    BY <1>5
  <2> QED
    BY <1>2, <1>5, <2>1
<1> SUFFICES Goal
  OBVIOUS
<1> HIDE DEF Goal
<1> QED
  <2>1. DirectoryNext /\ UNCHANGED <<quotaVars, importVars>> => Goal
    BY <1>3 DEF Goal
  <2>2. ASSUME NEW c \in Creates,
               CreateEnters(c) \/ (Create(c) /\ UNCHANGED <<directoryVars, importVars>>)
        PROVE  Goal
    BY <1>4, <2>2
  <2>3. ASSUME NEW i \in Rows, Move(i) /\ UNCHANGED <<directoryVars, importVars>>
        PROVE  Goal
    BY <1>5, <2>3
  <2> QED
    BY <2>1, <2>2, <2>3 DEF Served

\* What the server does beside a run leaves the run and the bytes as they are.
LEMMA ServedKeeps ==
  ASSUME QuotaTypeOK, DirectoryInv, RunInv, BlobsFollowFiles, Served
  PROVE  DirectoryInv' /\ RunInv' /\ BlobsFollowFiles'
<1>1. /\ UNCHANGED importVars
      /\ \A i \in Imports : Held(i)' <=> Held(i)
  BY ServedLeaves
<1>2. DirectoryInv'
  <2>1. CASE DirectoryNext
    BY <2>1, DirectoryStep
  <2>2. CASE ~DirectoryNext
    <3>1. UNCHANGED directoryVars
      BY <2>2 DEF Served, CreateEnters
    <3> QED
      BY <3>1, CacheStays DEF directoryVars, DirectoryInv
  <2> QED
    BY <2>1, <2>2
<1> QED
  BY <1>1, <1>2 DEF importVars, RunInv, BlobsFollowFiles, Running

-----------------------------------------------------------------------------
(* A legacy row once.                                                      *)

\* The legacy rows an id table names, of an entity.
Legacies(M, entity) == {e.legacy : e \in {e \in M : e.entity = entity}}

\* The rows are those the table names, each once.
Recorded(R, M, entity) ==
  /\ {i[1] : i \in R} = Legacies(M, entity)
  /\ \A i, j \in R : i[1] = j[1] => i = j

Entities == {"user", "trigger", "stats", "reminder"}

\* The imported rows of an entity, and those the run under way has written.
Stored(entity) ==
  CASE entity = "user"     -> account \ Registrations
    [] entity = "trigger"  -> {t.id : t \in trigger}
    [] entity = "stats"    -> seeded
    [] entity = "reminder" -> {i \in Imports : Committed(i)}

Making(entity) ==
  CASE entity = "user"     -> tx["account"]
    [] entity = "trigger"  -> {t.id : t \in tx["trigger"]}
    [] entity = "stats"    -> tx["seeded"]
    [] entity = "reminder" -> {i \in Imports : Held(i)}

OnceInv ==
  \A entity \in Entities :
    /\ Recorded(Stored(entity), idmap, entity)
    /\ Recorded(Stored(entity) \cup Making(entity), idmap \cup tx["idmap"], entity)

\* A reminder that is numbered and not yet inserted, by this run, is the one of the
\* row it is at.
Numbered(i) ==
  owner[i] # Nobody =>
    /\ i[2] \in 0 .. run.number
    /\ Running /\ i[2] = run.number /\ status[i] = "none" =>
         /\ Present("reminder")
         /\ i = Id(row.reminder)
         /\ ~Mapped("reminder", row.reminder)

NumberedInv == \A i \in Imports : Numbered(i)

\* The table names a legacy row if one of its entries does.
LEMMA LegacyNamed ==
  ASSUME NEW M, NEW entity
  PROVE  \A l : l \in Legacies(M, entity)
                 <=> \E e \in M : e.entity = entity /\ e.legacy = l
BY DEF Legacies

\* A row that is not named yet may be added with its entry.
LEMMA RecordNew ==
  ASSUME NEW R, NEW M, NEW entity, Recorded(R, M, entity),
         NEW legacy, legacy \notin Legacies(M, entity),
         NEW x, x[1] = legacy, NEW id
  PROVE  Recorded(R \cup {x}, M \cup {Entry(entity, legacy, id)}, entity)
<1>1. Legacies(M \cup {Entry(entity, legacy, id)}, entity)
        = Legacies(M, entity) \cup {legacy}
  <2>1. PICK E : E = Entry(entity, legacy, id)
    OBVIOUS
  <2>2. E.entity = entity /\ E.legacy = legacy
    BY <2>1 DEF Entry
  <2>3. ASSUME NEW l
        PROVE  l \in Legacies(M \cup {E}, entity)
                 <=> l \in Legacies(M, entity) \cup {legacy}
    <3>1. l \in Legacies(M \cup {E}, entity)
            <=> \E e \in M \cup {E} : e.entity = entity /\ e.legacy = l
      BY LegacyNamed
    <3>2. l \in Legacies(M, entity) <=> \E e \in M : e.entity = entity /\ e.legacy = l
      BY LegacyNamed
    <3> QED
      BY <2>2, <3>1, <3>2
  <2> QED
    BY <2>1, <2>3
<1>2. \A i \in R : i[1] # legacy
  BY DEF Recorded
<1> QED
  BY <1>1, <1>2 DEF Recorded

\* The entries of another entity say nothing of this one.
LEMMA RecordOther ==
  ASSUME NEW R, NEW M, NEW entity, Recorded(R, M, entity),
         NEW other, other # entity, NEW legacy, NEW id
  PROVE  Recorded(R, M \cup {Entry(other, legacy, id)}, entity)
<1>1. Legacies(M \cup {Entry(other, legacy, id)}, entity) = Legacies(M, entity)
  BY DEF Legacies, Entry
<1> QED
  BY <1>1 DEF Recorded

\* What is not mapped is not named.
LEMMA NotNamed ==
  ASSUME NEW entity, NEW legacy, ~Mapped(entity, legacy)
  PROVE  legacy \notin Legacies(idmap \cup tx["idmap"], entity)
BY DEF Mapped, Entries, Legacies

\* A run that makes a row of an entity that is not mapped, and names it.
LEMMA OnceAdds ==
  ASSUME OnceInv, NEW entity \in Entities, NEW legacy, ~Mapped(entity, legacy),
         NEW x, x[1] = legacy, NEW id,
         \A e \in Entities : Stored(e)' = Stored(e),
         \A e \in Entities \ {entity} : Making(e)' = Making(e),
         Making(entity)' = Making(entity) \cup {x},
         idmap' = idmap,
         tx'["idmap"] = tx["idmap"] \cup {Entry(entity, legacy, id)}
  PROVE  OnceInv'
<1> SUFFICES ASSUME NEW e \in Entities
             PROVE  /\ Recorded(Stored(e)', idmap', e)
                    /\ Recorded(Stored(e)' \cup Making(e)', idmap' \cup tx'["idmap"], e)
  BY DEF OnceInv, Recorded, Legacies
<1>1. /\ Recorded(Stored(e), idmap, e)
      /\ Recorded(Stored(e) \cup Making(e), idmap \cup tx["idmap"], e)
  BY DEF OnceInv
<1>2. idmap' \cup tx'["idmap"] = (idmap \cup tx["idmap"]) \cup {Entry(entity, legacy, id)}
  OBVIOUS
<1>3. CASE e = entity
  <2>1. Stored(e)' \cup Making(e)' = (Stored(e) \cup Making(e)) \cup {x}
    BY <1>3
  <2>2. legacy \notin Legacies(idmap \cup tx["idmap"], e)
    BY <1>3, NotNamed
  <2>3. Recorded((Stored(e) \cup Making(e)) \cup {x},
                 (idmap \cup tx["idmap"]) \cup {Entry(e, legacy, id)}, e)
    BY <1>1, <2>2, RecordNew
  <2> QED
    BY <1>1, <1>2, <1>3, <2>1, <2>3
<1>4. CASE e # entity
  <2>1. Recorded(Stored(e) \cup Making(e),
                 (idmap \cup tx["idmap"]) \cup {Entry(entity, legacy, id)}, e)
    BY <1>1, <1>4, RecordOther
  <2> QED
    BY <1>1, <1>2, <1>4, <2>1
<1> QED
  BY <1>3, <1>4

\* A run that makes no row of these entities, and names at most one of another.
LEMMA OnceStays ==
  ASSUME OnceInv,
         \A e \in Entities : Stored(e)' = Stored(e) /\ Making(e)' = Making(e),
         idmap' = idmap,
         \/ tx'["idmap"] = tx["idmap"]
         \/ \E kind, legacy, id : /\ kind \notin Entities
                                  /\ tx'["idmap"] = tx["idmap"] \cup {Entry(kind, legacy, id)}
  PROVE  OnceInv'
<1> SUFFICES ASSUME NEW e \in Entities
             PROVE  /\ Recorded(Stored(e)', idmap', e)
                    /\ Recorded(Stored(e)' \cup Making(e)', idmap' \cup tx'["idmap"], e)
  BY DEF OnceInv, Recorded, Legacies
<1>1. /\ Recorded(Stored(e), idmap, e)
      /\ Recorded(Stored(e) \cup Making(e), idmap \cup tx["idmap"], e)
  BY DEF OnceInv
<1>2. CASE tx'["idmap"] = tx["idmap"]
  BY <1>1, <1>2
<1>3. CASE \E kind, legacy, id : /\ kind \notin Entities
                                 /\ tx'["idmap"] = tx["idmap"] \cup {Entry(kind, legacy, id)}
  <2>1. PICK kind, legacy, id : /\ kind # e
                                /\ tx'["idmap"] = tx["idmap"] \cup {Entry(kind, legacy, id)}
    BY <1>3
  <2>2. Recorded(Stored(e) \cup Making(e),
                 (idmap \cup tx["idmap"]) \cup {Entry(kind, legacy, id)}, e)
    BY <1>1, <2>1, RecordOther
  <2>3. idmap' \cup tx'["idmap"] = (idmap \cup tx["idmap"]) \cup {Entry(kind, legacy, id)}
    BY <2>1
  <2> QED
    BY <1>1, <2>2, <2>3
<1> QED
  BY <1>2, <1>3

\* A pass that writes no row of an entity.
LEMMA QuietPass ==
  ASSUME RunInv, OnceInv,
         \/ Running /\ Skip
         \/ PassInstance \/ PassDestination \/ PassIdentity \/ PassFile
         \/ PassStaging \/ Absent,
         idmap' = idmap, UNCHANGED <<account, trigger, seeded, status>>
  PROVE  OnceInv'
<1>1. \A e \in Entities : Stored(e)' = Stored(e)
  BY DEF Entities, Stored, Committed
<1>2. /\ \A t \in {"account", "trigger", "seeded"} : tx'[t] = tx[t]
      /\ \/ tx'["idmap"] = tx["idmap"]
         \/ \E kind, legacy, id : /\ kind \notin Entities
                                  /\ tx'["idmap"] = tx["idmap"] \cup {Entry(kind, legacy, id)}
  <2>1. CASE Skip
    BY <2>1 DEF Skip
  <2>2. CASE PassInstance \/ PassDestination \/ Absent
    BY <2>2 DEF PassInstance, PassDestination, Absent, Upsert, Skip
  <2>3. CASE PassIdentity /\ ~Skip
    <3>1. \E some : Write([identity |-> some,
                           idmap |-> {Entry("identity", row.user, row.uid)}])
      BY <2>3 DEF PassIdentity
    <3>2. /\ \A t \in {"account", "trigger", "seeded"} : tx'[t] = tx[t]
          /\ tx'["idmap"] = tx["idmap"] \cup {Entry("identity", row.user, row.uid)}
      BY <3>1, Written DEF Table
    <3>3. "identity" \notin Entities
      BY DEF Entities
    <3> QED
      BY <3>2, <3>3
  <2>4. CASE PassFile /\ ~Skip
    <3>1. Write([file |-> {Hash[row.file]},
                 idmap |-> {Entry("file", row.file, Hash[row.file])}])
      BY <2>4 DEF PassFile
    <3>2. /\ \A t \in {"account", "trigger", "seeded"} : tx'[t] = tx[t]
          /\ tx'["idmap"] = tx["idmap"] \cup {Entry("file", row.file, Hash[row.file])}
      BY <3>1, Written DEF Table
    <3>3. "file" \notin Entities
      BY DEF Entities
    <3> QED
      BY <3>2, <3>3
  <2>5. CASE PassStaging /\ ~Skip
    <3>1. Write([staged |-> {row.id}])
      BY <2>5 DEF PassStaging
    <3> QED
      BY <3>1, Written DEF Table
  <2> QED
    BY <2>1, <2>2, <2>3, <2>4, <2>5
<1>3. \A e \in Entities : Making(e)' = Making(e)
  BY <1>2 DEF Entities, Making, Held
<1> QED
  BY <1>1, <1>2, <1>3, OnceStays

\* A pass that makes a user, a trigger or its counts.
LEMMA MakingPass ==
  ASSUME RunInv, OnceInv, PassUser \/ PassTrigger \/ PassStats, ~Skip
  PROVE  OnceInv'
<1>0. UNCHANGED <<account, trigger, seeded, status, idmap>>
  BY DEF PassUser, PassTrigger, PassStats, directoryVars, quotaVars, rowVars, tables
<1>1. \A e \in Entities : Stored(e)' = Stored(e)
  BY <1>0 DEF Entities, Stored, Committed
<1>2. CASE PassUser
  <2>1. /\ ~Mapped("user", row.user)
        /\ Write([account |-> {Id(row.user)},
                  idmap |-> {Entry("user", row.user, Id(row.user))}])
    BY <1>2 DEF PassUser
  <2>2. /\ tx'["account"] = tx["account"] \cup {Id(row.user)}
        /\ tx'["trigger"] = tx["trigger"] /\ tx'["seeded"] = tx["seeded"]
        /\ tx'["idmap"] = tx["idmap"] \cup {Entry("user", row.user, Id(row.user))}
    BY <2>1, Written DEF Table
  <2>3. /\ Making("user")' = Making("user") \cup {Id(row.user)}
        /\ \A e \in Entities \ {"user"} : Making(e)' = Making(e)
    BY <1>0, <2>2 DEF Entities, Making, Held
  <2>4. Id(row.user)[1] = row.user /\ "user" \in Entities
    BY DEF Id, Entities
  <2> QED
    BY <1>0, <1>1, <2>1, <2>2, <2>3, <2>4, OnceAdds
<1>3. CASE PassTrigger
  <2>1. /\ ~Mapped("trigger", row.trigger)
        /\ Write([trigger |-> {[legacy |-> row.trigger, id |-> Id(row.trigger),
                                 phrase |-> row.phrase]},
                  idmap |-> {Entry("trigger", row.trigger, Id(row.trigger))}])
    BY <1>3 DEF PassTrigger
  <2>2. PICK t : t = [legacy |-> row.trigger, id |-> Id(row.trigger),
                       phrase |-> row.phrase]
    OBVIOUS
  <2>3. /\ tx'["account"] = tx["account"] /\ tx'["seeded"] = tx["seeded"]
        /\ tx'["trigger"] = tx["trigger"] \cup {t}
        /\ tx'["idmap"] = tx["idmap"] \cup {Entry("trigger", row.trigger, Id(row.trigger))}
    BY <2>1, <2>2, Written DEF Table
  <2>4. t.id = Id(row.trigger)
    BY <2>2
  <2>5. /\ Making("trigger")' = Making("trigger") \cup {Id(row.trigger)}
        /\ \A e \in Entities \ {"trigger"} : Making(e)' = Making(e)
    BY <1>0, <2>3, <2>4 DEF Entities, Making, Held
  <2>6. Id(row.trigger)[1] = row.trigger /\ "trigger" \in Entities
    BY DEF Id, Entities
  <2> QED
    BY <1>0, <1>1, <2>1, <2>3, <2>5, <2>6, OnceAdds
<1>4. CASE PassStats
  <2>1. /\ ~Mapped("stats", row.trigger)
        /\ Write([seeded |-> {Id(row.trigger)},
                  idmap |-> {Entry("stats", row.trigger, row.trigger)}])
    BY <1>4 DEF PassStats
  <2>2. /\ tx'["account"] = tx["account"] /\ tx'["trigger"] = tx["trigger"]
        /\ tx'["seeded"] = tx["seeded"] \cup {Id(row.trigger)}
        /\ tx'["idmap"] = tx["idmap"] \cup {Entry("stats", row.trigger, row.trigger)}
    BY <2>1, Written DEF Table
  <2>3. /\ Making("stats")' = Making("stats") \cup {Id(row.trigger)}
        /\ \A e \in Entities \ {"stats"} : Making(e)' = Making(e)
    BY <1>0, <2>2 DEF Entities, Making, Held
  <2>4. Id(row.trigger)[1] = row.trigger /\ "stats" \in Entities
    BY DEF Id, Entities
  <2> QED
    BY <1>0, <1>1, <2>1, <2>2, <2>3, <2>4, OnceAdds
<1> QED
  BY <1>2, <1>3, <1>4

\* The insert of a reminder: the row it is at, which nothing named yet.
LEMMA InsertOnce ==
  ASSUME QuotaTypeOK, RunInv, OnceInv, NumberedInv, InsertLegacy
  PROVE  OnceInv'
<1>0. /\ Present("reminder") /\ Running /\ UNCHANGED <<account, trigger, seeded, idmap>>
      /\ Write([idmap |-> {Entry("reminder", row.reminder, Id(row.reminder))}])
      /\ ImportInsert(Id(row.reminder))
  BY DEF InsertLegacy, Present, At, directoryVars, tables
<1>1. PICK i : i = Id(row.reminder)
  OBVIOUS
<1>2. i \in Imports /\ i \in Rows /\ i[1] = row.reminder /\ i[2] = run.number
  <2>1. At("reminder")
    BY <1>0 DEF Present
  <2> QED
    BY <1>1, <2>1, RowIds DEF Id, Rows
<1>3. /\ status[i] = "none" /\ owner[i] # Nobody
      /\ status' = [status EXCEPT ![i] = "held"]
  BY <1>0, <1>1 DEF ImportInsert
<1>4. ~Mapped("reminder", row.reminder)
  BY <1>0, <1>2, <1>3 DEF NumberedInv, Numbered
<1>5. /\ tx'["account"] = tx["account"] /\ tx'["trigger"] = tx["trigger"]
      /\ tx'["seeded"] = tx["seeded"]
      /\ tx'["idmap"] = tx["idmap"] \cup {Entry("reminder", row.reminder, Id(row.reminder))}
  BY <1>0, Written DEF Table
<1>6. /\ status'[i] = "held" /\ \A j \in Imports \ {i} : status'[j] = status[j]
  BY <1>2, <1>3 DEF QuotaTypeOK, Rows
<1>7. /\ {j \in Imports : Held(j)}' = {j \in Imports : Held(j)} \cup {i}
      /\ {j \in Imports : Committed(j)}' = {j \in Imports : Committed(j)}
  BY <1>2, <1>3, <1>6 DEF Held, Committed
<1>8. \A e \in Entities : Stored(e)' = Stored(e)
  BY <1>0, <1>7 DEF Entities, Stored
<1>9. /\ Making("reminder")' = Making("reminder") \cup {i}
      /\ \A e \in Entities \ {"reminder"} : Making(e)' = Making(e)
  BY <1>5, <1>7 DEF Entities, Making
<1>10. "reminder" \in Entities
  BY DEF Entities
<1> QED
  BY <1>0, <1>2, <1>4, <1>5, <1>8, <1>9, <1>10, OnceAdds

\* Between runs nothing is half written.
LEMMA NothingMade ==
  ASSUME tx = Nothing, \A i \in Imports : ~Held(i), NEW e \in Entities
  PROVE  Making(e) = {} /\ tx["idmap"] = {}
BY DEF Entities, Making, Nothing, Table

\* The end of a run: its rows are stored with their entries, or gone.
LEMMA OnceEnds ==
  ASSUME QuotaTypeOK, RunInv, OnceInv, Rollback \/ CommitImport
  PROVE  OnceInv'
<1>1. tx' = Nothing /\ \A i \in Imports : ~Held(i)'
  BY NoneHeld DEF Rollback, CommitImport, Parked
<1>2. \A e \in Entities : Making(e)' = {} /\ tx'["idmap"] = {}
  BY <1>1 DEF Entities, Making, Nothing, Table
<1>3. CASE Rollback
  <2>1. UNCHANGED <<account, trigger, seeded, idmap>>
    BY <1>3 DEF Rollback, tables
  <2>2. {i \in Imports : Committed(i)}' = {i \in Imports : Committed(i)}
    BY <1>3 DEF Rollback, ImportEnd, Committed, Held, Rows
  <2>3. \A e \in Entities : Stored(e)' = Stored(e)
    BY <2>1, <2>2 DEF Entities, Stored
  <2> SUFFICES ASSUME NEW e \in Entities
               PROVE  /\ Recorded(Stored(e)', idmap', e)
                      /\ Recorded(Stored(e)' \cup Making(e)', idmap' \cup tx'["idmap"], e)
    BY DEF OnceInv, Recorded, Legacies
  <2>4. Recorded(Stored(e), idmap, e)
    BY DEF OnceInv
  <2>5. Stored(e)' \cup Making(e)' = Stored(e) /\ idmap' \cup tx'["idmap"] = idmap
    BY <1>2, <2>1, <2>3
  <2> QED
    BY <2>1, <2>3, <2>4, <2>5
<1>4. CASE CommitImport
  <2>1. /\ account' = account \cup tx["account"] /\ trigger' = trigger \cup tx["trigger"]
        /\ seeded' = seeded \cup tx["seeded"] /\ idmap' = idmap \cup tx["idmap"]
    BY <1>4 DEF CommitImport
  <2>2. {i \in Imports : Committed(i)}'
          = {i \in Imports : Committed(i)} \cup {i \in Imports : Held(i)}
    BY <1>4 DEF CommitImport, ImportEnd, Committed, Held, Rows
  <2>3. account' \ Registrations = (account \ Registrations) \cup tx["account"]
    BY <2>1, CallsAssumption DEF RunInv
  <2>4. \A e \in Entities : Stored(e)' = Stored(e) \cup Making(e)
    BY <2>1, <2>2, <2>3 DEF Entities, Stored, Making
  <2> SUFFICES ASSUME NEW e \in Entities
               PROVE  /\ Recorded(Stored(e)', idmap', e)
                      /\ Recorded(Stored(e)' \cup Making(e)', idmap' \cup tx'["idmap"], e)
    BY DEF OnceInv, Recorded, Legacies
  <2>5. Recorded(Stored(e) \cup Making(e), idmap \cup tx["idmap"], e)
    BY DEF OnceInv
  <2>6. /\ Stored(e)' \cup Making(e)' = Stored(e) \cup Making(e)
        /\ idmap' \cup tx'["idmap"] = idmap \cup tx["idmap"]
    BY <1>2, <2>1, <2>4
  <2> QED
    BY <2>1, <2>4, <2>5, <2>6
<1> QED
  BY <1>3, <1>4

\* A registration is no account of the import.
LEMMA OnceBeside ==
  ASSUME QuotaTypeOK, OnceInv, Served
  PROVE  OnceInv'
<1>1. /\ UNCHANGED importVars
      /\ \A i \in Imports : (Held(i)' <=> Held(i)) /\ (Committed(i)' <=> Committed(i))
  BY ServedLeaves
<1>2. account' \ Registrations = account \ Registrations
  <2>1. ASSUME NEW r \in Registrations, InsertUser(r) \/ CommitUser(r) \/ FailUser(r)
        PROVE  account' \ Registrations = account \ Registrations
    BY <2>1 DEF InsertUser, CommitUser, FailUser
  <2>2. ASSUME NEW v \in Visits, \/ Arrive(v) \/ Bootstrap(v) \/ BootstrapFails(v)
                                 \/ Remember(v) \/ Resolve(v) \/ ResolveFails(v)
        PROVE  account' = account
    BY <2>2 DEF Arrive, Bootstrap, BootstrapFails, Remember, Resolve, ResolveFails,
       registerVars
  <2>3. CASE DirectoryNext
    BY <2>1, <2>2, <2>3 DEF DirectoryNext
  <2>4. CASE ~DirectoryNext
    BY <2>4 DEF Served, CreateEnters, directoryVars
  <2> QED
    BY <2>3, <2>4
<1>3. /\ {i \in Imports : Committed(i)}' = {i \in Imports : Committed(i)}
      /\ {i \in Imports : Held(i)}' = {i \in Imports : Held(i)}
  BY <1>1
<1>4. UNCHANGED <<tx, idmap, trigger, seeded>>
  BY <1>1 DEF importVars
<1>5. \A e \in Entities : Stored(e)' = Stored(e) /\ Making(e)' = Making(e)
  BY <1>2, <1>3, <1>4 DEF Entities, Stored, Making
<1> QED
  BY <1>4, <1>5, OnceStays

\* Every step of the import beside the server.
LEMMA OnceStep ==
  ASSUME QuotaTypeOK, RunInv, OnceInv, NumberedInv, [Next]_vars
  PROVE  OnceInv'
<1>1. ASSUME UNCHANGED <<tx, idmap, account, trigger, seeded, status>>
      PROVE  OnceInv'
  <2>1. \A e \in Entities : Stored(e)' = Stored(e) /\ Making(e)' = Making(e)
    BY <1>1 DEF Entities, Stored, Making, Committed, Held
  <2> QED
    BY <1>1, <2>1, OnceStays
<1>2. CASE UNCHANGED vars
  BY <1>1, <1>2 DEF vars, directoryVars, quotaVars, rowVars, importVars
<1>3. CASE Begin
  BY <1>1, <1>3 DEF Begin, tables, directoryVars, quotaVars, rowVars
<1>4. CASE PassInstance \/ PassDestination \/ PassIdentity \/ PassFile
             \/ PassStaging \/ Absent
  <2>1. UNCHANGED <<account, trigger, seeded, status, idmap>>
    BY <1>4 DEF PassInstance, PassDestination, PassIdentity, PassFile, PassStaging,
       Absent, Upsert, tables, directoryVars, quotaVars, rowVars
  <2> QED
    BY <1>4, <2>1, QuietPass
<1>5. CASE PassUser \/ PassTrigger \/ PassStats
  <2>1. Running /\ UNCHANGED <<account, trigger, seeded, status, idmap>>
    BY <1>5 DEF PassUser, PassTrigger, PassStats, tables, directoryVars, quotaVars,
       rowVars, Present, At
  <2> QED
    BY <1>5, <2>1, QuietPass, MakingPass
<1>6. CASE PassReminder
  BY <1>1, <1>6 DEF PassReminder, Skip, ImportNumber, tables, directoryVars, quotaVars,
     rowVars
<1>7. CASE Served
  BY <1>7, OnceBeside
<1> QED
  BY <1>2, <1>3, <1>4, <1>5, <1>6, <1>7, InsertOnce, OnceEnds DEF Next, Migrate

\* A number is taken for the row the run is at, and its insert comes before any
\* other row.
LEMMA NumberedStep ==
  ASSUME QuotaTypeOK, RunInv, NumberedInv, [Next]_vars
  PROVE  NumberedInv'
<1> SUFFICES ASSUME NEW i \in Imports
             PROVE  Numbered(i)'
  BY DEF NumberedInv
<1>0. run.number \in Nat /\ Numbered(i) /\ i \in Rows
  BY DEF RunInv, NumberedInv, Rows
<1>1. ASSUME UNCHANGED <<run, absent, tx, idmap>>, owner'[i] = owner[i],
             status'[i] = "none" => status[i] = "none"
      PROVE  Numbered(i)'
  BY <1>0, <1>1 DEF Numbered, Running, Present, At, row, Id, Mapped, Entries
<1>2. ASSUME run'.number = run.number, owner'[i] = owner[i],
             Running' /\ i[2] = run.number /\ status'[i] = "none"
               => \/ owner[i] = Nobody
                  \/ Running /\ status[i] = "none" /\ ~(Present("reminder") /\ i = Id(row.reminder))
      PROVE  Numbered(i)'
  BY <1>0, <1>2 DEF Numbered
<1>3. CASE UNCHANGED vars
  BY <1>1, <1>3 DEF vars, quotaVars, rowVars, importVars
<1>4. CASE Served
  <2>1. UNCHANGED importVars /\ owner'[i] = owner[i]
        /\ (Held(i)' <=> Held(i)) /\ (Committed(i)' <=> Committed(i))
    BY <1>4, ServedLeaves
  <2> QED
    BY <1>1, <2>1 DEF importVars, Held, Committed
<1>5. CASE Begin
  <2>1. run'.number = run.number + 1 /\ owner' = owner
    BY <1>5 DEF Begin, quotaVars, rowVars
  <2> QED
    BY <1>0, <2>1 DEF Numbered
<1>6. CASE PassInstance \/ PassDestination \/ PassUser \/ PassIdentity \/ PassFile
             \/ PassTrigger \/ PassStats \/ PassStaging \/ Absent
  <2>1. /\ Running /\ Done /\ UNCHANGED <<owner, status>>
        /\ ~Present("reminder")
    <3>1. UNCHANGED <<owner, status>>
      BY <1>6 DEF PassInstance, PassDestination, PassUser, PassIdentity, PassFile,
         PassTrigger, PassStats, PassStaging, Absent, Upsert, quotaVars, rowVars
    <3>2. ~Present("reminder")
      BY <1>6 DEF PassInstance, PassDestination, PassUser, PassIdentity, PassFile,
         PassTrigger, PassStats, PassStaging, Absent, Present, At
    <3> QED
      BY <1>6, <3>1, <3>2, PassAdds
  <2>2. run'.number = run.number
    BY <2>1, Passed
  <2> QED
    BY <1>2, <2>1, <2>2
<1>7. CASE PassReminder /\ UNCHANGED quotaVars
  <2>1. /\ Running /\ owner[Id(row.reminder)] = Nobody /\ UNCHANGED <<owner, status>>
        /\ \/ Done
           \/ UNCHANGED <<run, absent, tx, idmap>>
    BY <1>7 DEF PassReminder, Skip, Present, At, quotaVars, rowVars, tables
  <2>2. CASE Done
    <3>1. run'.number = run.number
      BY <2>1, <2>2, Passed
    <3> QED
      BY <1>2, <2>1, <3>1
  <2>3. CASE UNCHANGED <<run, absent, tx, idmap>>
    BY <1>1, <2>1, <2>3
  <2> QED
    BY <2>1, <2>2, <2>3
<1>8. CASE PassReminder /\ ~(UNCHANGED quotaVars)
  <2>1. /\ Present("reminder") /\ ~Mapped("reminder", row.reminder)
        /\ UNCHANGED <<run, absent, tx, idmap, status>>
        /\ \E o : owner' = [owner EXCEPT ![Id(row.reminder)] = o]
    BY <1>8 DEF PassReminder, ImportNumber, tables
  <2>2. CASE i = Id(row.reminder)
    <3>1. i[2] = run.number
      BY <2>2 DEF Id
    <3> QED
      BY <1>0, <2>1, <2>2, <3>1
         DEF Numbered, Running, Present, At, row, Id, Mapped, Entries
  <2>3. CASE i # Id(row.reminder)
    <3>1. owner'[i] = owner[i]
      BY <1>0, <2>1, <2>3 DEF QuotaTypeOK
    <3> QED
      BY <1>1, <2>1, <3>1
  <2> QED
    BY <2>2, <2>3
<1>9. CASE InsertLegacy
  <2>1. /\ Running /\ Done /\ UNCHANGED owner
        /\ status' = [status EXCEPT ![Id(row.reminder)] = "held"]
    BY <1>9 DEF InsertLegacy, ImportInsert, Write, Present, At
  <2>2. run'.number = run.number
    BY <2>1, Passed
  <2>3. status'[i] = "none" => status[i] = "none" /\ i # Id(row.reminder)
    BY <1>0, <2>1 DEF QuotaTypeOK
  <2> QED
    BY <1>2, <2>1, <2>2, <2>3
<1>10. CASE Rollback \/ CommitImport
  <2>1. run' = [run EXCEPT !.at = 0] /\ owner' = owner
    BY <1>10 DEF Rollback, CommitImport, Parked, ImportEnd
  <2>2. run'.number = run.number /\ ~Running'
    BY <2>1 DEF RunInv, Running
  <2> QED
    BY <1>2, <2>1, <2>2
<1> QED
  BY <1>3, <1>4, <1>5, <1>6, <1>7, <1>8, <1>9, <1>10 DEF Next, Migrate

-----------------------------------------------------------------------------
\* The inductive invariant of the import beside the server.
ImportInv ==
  /\ QuotaInv
  /\ DirectoryInv
  /\ RunInv
  /\ BlobsFollowFiles
  /\ OnceInv
  /\ NumberedInv

\* Before the first run nothing has been imported.
LEMMA ImportStart == ImportInit => ImportInv
<1> SUFFICES ASSUME ImportInit PROVE ImportInv
  OBVIOUS
<1>1. QuotaInv
  BY QuotaStart DEF ImportInit
<1>2. status = [i \in Rows |-> "none"] /\ owner = [i \in Rows |-> Nobody]
  BY DEF ImportInit, QuotaInit
<1>3. DirectoryInv
  <2>1. /\ known = {} /\ visit = [v \in Visits |-> "new"]
        /\ identity = [u \in Uids |-> None] /\ caller = [v \in Visits |-> None]
    BY DEF ImportInit, DirectoryInit
  <2>2. IsFiniteSet(known) /\ Cardinality(known) = 0
    BY <2>1, FS_EmptySet
  <2>3. CacheIsTrue
    BY <2>1, <2>2, CacheAssumption DEF CacheIsTrue
  <2> QED
    BY <2>1, <2>2, <2>3 DEF DirectoryInv
<1>4. RunInv
  <2>1. /\ run = [number |-> 0, at |-> 0, dry |-> TRUE] /\ tx = Nothing /\ idmap = {}
    BY DEF ImportInit
  <2>2. /\ run \in [number : 0 .. MaxRuns, at : Nat, dry : BOOLEAN] /\ ~Running /\ run.dry
    BY <2>1, RunsAssumption DEF Running
  <2>3. tx = [t \in Table |-> tx[t]] /\ \A t \in Table : tx[t] = {}
    BY <2>1 DEF Nothing
  <2>4. \A i \in Imports : ~Held(i)
    BY <1>2 DEF Held, Rows
  <2> QED
    BY <2>1, <2>2, <2>3, <2>4 DEF RunInv, Table
<1>5. BlobsFollowFiles
  BY DEF ImportInit, BlobsFollowFiles
<1>6. OnceInv
  <2> SUFFICES ASSUME NEW e \in Entities
               PROVE  /\ Recorded(Stored(e), idmap, e)
                      /\ Recorded(Stored(e) \cup Making(e), idmap \cup tx["idmap"], e)
    BY DEF OnceInv
  <2>1. tx = Nothing /\ idmap = {} /\ account = {} /\ trigger = {} /\ seeded = {}
    BY DEF ImportInit, DirectoryInit
  <2>2. \A i \in Imports : ~Held(i) /\ ~Committed(i)
    BY <1>2 DEF Held, Committed, Rows
  <2>3. Making(e) = {} /\ tx["idmap"] = {}
    BY <2>1, <2>2, NothingMade
  <2>4. Stored(e) = {}
    BY <2>1, <2>2 DEF Entities, Stored
  <2>5. Recorded({}, {}, e)
    BY DEF Recorded, Legacies
  <2>6. Stored(e) \cup Making(e) = {} /\ idmap \cup tx["idmap"] = {}
    BY <2>1, <2>3, <2>4
  <2> QED
    BY <2>1, <2>4, <2>5, <2>6
<1>7. NumberedInv
  BY <1>2 DEF NumberedInv, Numbered, Rows
<1> QED
  BY <1>1, <1>3, <1>4, <1>5, <1>6, <1>7 DEF ImportInv

\* Every step keeps it.
LEMMA ImportStep ==
  ASSUME ImportInv, [Next]_vars
  PROVE  ImportInv'
<1> USE DEF ImportInv
<1>1. QuotaTypeOK
  BY DEF QuotaInv
<1>2. QuotaInv'
  BY StepOfQuota, QuotaStep
<1>3. DirectoryInv' /\ RunInv' /\ BlobsFollowFiles'
  <2>1. CASE Migrate
    BY <2>1, RunKeeps, DirectoryKeeps
  <2>2. CASE Served
    BY <1>1, <2>2, ServedKeeps
  <2>3. CASE UNCHANGED vars
    <3>1. UNCHANGED <<identity, visit, caller, place, known, run, tx, idmap, file, blob,
                      cut, status>>
      BY <2>3 DEF vars, directoryVars, quotaVars, rowVars, importVars
    <3> QED
      BY <3>1, CacheStays DEF DirectoryInv, RunInv, BlobsFollowFiles, Running, Held
  <2> QED
    BY <2>1, <2>2, <2>3 DEF Next
<1>4. OnceInv' /\ NumberedInv'
  BY <1>1, OnceStep, NumberedStep
<1> QED
  BY <1>2, <1>3, <1>4

-----------------------------------------------------------------------------
\* ImportInv holds of every behaviour of the import beside the server.
THEOREM ImportInvariant == Spec => []ImportInv
BY ImportStart, ImportStep, PTL DEF Spec

\* The import beside the server is a behaviour of the quota: what the creates and
\* the import's numbering do to the rows is what ReminderQuota allows, so what
\* holds there of the cap and of the numbers holds here.
THEOREM ImportImplementsQuota == Spec => QuotaSpec
<1>1. ImportInit => QuotaInit
  BY DEF ImportInit
<1>2. ImportInv /\ [Next]_vars => [QuotaNext]_quotaVars
  BY StepOfQuota DEF ImportInv
<1> QED
  BY <1>1, <1>2, ImportInvariant, PTL DEF Spec, QuotaSpec

\* The cap and the numbers hold with the import beside the creates.
THEOREM QuotaBesideImport == Spec => [](CreatesWithinCap /\ CreatesNeverCollide)
<1>1. ImportInv => CreatesWithinCap /\ CreatesNeverCollide
  BY DEF ImportInv, QuotaInv
<1> QED
  BY <1>1, ImportInvariant, PTL

\* The cache never says of a place that its rows are there when they are not, and
\* keeps to its limit, with an import's transactions beside the calls.
THEOREM CacheCorrect == Spec => []CacheIsTrue
<1>1. ImportInv => CacheIsTrue
  BY DEF ImportInv, DirectoryInv
<1> QED
  BY <1>1, ImportInvariant, PTL

\* A live file has its bytes, and bytes without a file are of a run that was cut
\* off or is under way.
THEOREM FilesFollowed == Spec => []BlobsFollowFiles
<1>1. ImportInv => BlobsFollowFiles
  BY DEF ImportInv
<1> QED
  BY <1>1, ImportInvariant, PTL

\* A legacy row is imported at most once and never half, over dry runs, cut runs and
\* later dumps.
THEOREM OnceCorrect == Spec => []ImportedOnce
<1>1. ImportInv => ImportedOnce
  <2> SUFFICES ASSUME ImportInv PROVE ImportedOnce
    OBVIOUS
  <2>1. \A e \in Entities : /\ {i[1] : i \in Stored(e)} = Legacies(idmap, e)
                            /\ \A i, j \in Stored(e) : i[1] = j[1] => i = j
    BY DEF ImportInv, OnceInv, Recorded
  <2> QED
    BY <2>1 DEF ImportedOnce, Stored, Legacies, Entities
<1> QED
  BY <1>1, ImportInvariant, PTL

=============================================================================
