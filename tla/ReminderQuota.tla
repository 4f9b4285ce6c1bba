---------------------------- MODULE ReminderQuota ----------------------------
(***************************************************************************)
(* How reminders get their place among their owner's and their number: the *)
(* transaction of db.CreateReminder, the reminders pass of the legacy      *)
(* import, which numbers rows the same way without the owner's lock, and   *)
(* the moves of a row that change what the cap counts.                     *)
(*                                                                         *)
(* One action is one statement.  A row is "held" while its transaction is  *)
(* open: others do not see it, but an insert of the same owner and number  *)
(* waits for it, as the unique index idx_reminder_user_ref makes it wait.  *)
(***************************************************************************)
EXTENDS Integers, FiniteSets

CONSTANTS
  Creates,    \* calls of CreateReminder, each with the row it may add
  Imports,    \* rows the import may add
  Owners,
  Nobody,     \* no owner, no call
  MaxActive,  \* maxActiveRemindersPerUser
  MaxMoves    \* bound: moves of rows

ASSUME RowsAssumption == /\ IsFiniteSet(Creates)
                         /\ IsFiniteSet(Imports)
                         /\ Creates \cap Imports = {}
ASSUME QuotaAssumption == MaxActive \in Nat /\ MaxMoves \in Nat
ASSUME NobodyAssumption == Nobody \notin Owners /\ Nobody \notin Creates

Rows == Creates \cup Imports

VARIABLES
  status,  \* of each row: not there, held, or its status
  owner,   \* its owner
  ref,     \* its number, or the one its insert is about to take
  call,    \* where each call of CreateReminder is
  lock,    \* the call that has an owner's advisory lock
  moves,
  fresh    \* history: rows that were created and have not been moved since

rowVars   == <<status, owner, ref>>
quotaVars == <<rowVars, call, lock, moves, fresh>>

-----------------------------------------------------------------------------
Status == {"none", "held", "PENDING", "SENT", "settled", "deleted"}

\* A call that is over has answered, whatever it answered.
CallState == {"idle", "lock", "count", "number", "insert", "commit",
              "over", "collided"}

\* The calls inside their transaction, past the lock.
InTx == {"count", "number", "insert", "commit"}

QuotaTypeOK ==
  /\ status \in [Rows -> Status]
  /\ owner \in [Rows -> Owners \cup {Nobody}]
  /\ ref \in [Rows -> Nat]
  /\ call \in [Creates -> CallState]
  /\ lock \in [Owners -> Creates \cup {Nobody}]
  /\ moves \in Nat
  /\ fresh \in SUBSET Creates

QuotaInit ==
  /\ status = [i \in Rows |-> "none"]
  /\ owner = [i \in Rows |-> Nobody]
  /\ ref = [i \in Rows |-> 0]
  /\ call = [c \in Creates |-> "idle"]
  /\ lock = [o \in Owners |-> Nobody]
  /\ moves = 0
  /\ fresh = {}

Committed(i) == status[i] \notin {"none", "held"}

RowsOf(o) == {i \in Rows : Committed(i) /\ owner[i] = o}

\* What activeReminderCountSQL counts.
Active(o) == {i \in RowsOf(o) : status[i] = "PENDING"}

\* n is one more than the largest number among the rows, 0 if there is none.
NextRef(n, rows) ==
  /\ n \in Nat \ {0}
  /\ \A i \in rows : ref[i] < n
  /\ n = 1 \/ \E i \in rows : ref[i] + 1 = n

Clash(i, rows) == \E j \in rows \ {i} : owner[j] = owner[i] /\ ref[j] = ref[i]

Held(j) == status[j] = "held"

\* The insert of row i need not wait for another transaction.
MayInsert(i) == ~Clash(i, {j \in Rows : Held(j)})

Taken(i) == Clash(i, {j \in Rows : Committed(j)})

-----------------------------------------------------------------------------
(* CreateReminder.                                                         *)

Enter(c, o) ==
  /\ call[c] = "idle"
  /\ call' = [call EXCEPT ![c] = "lock"]
  /\ owner' = [owner EXCEPT ![c] = o]
  /\ UNCHANGED <<status, ref, lock, moves, fresh>>

\* Mutant of Lock: the advisory lock is not taken.
LockNothing(c) ==
  /\ call[c] = "lock"
  /\ call' = [call EXCEPT ![c] = "count"]
  /\ UNCHANGED <<rowVars, lock, moves, fresh>>

Lock(c) ==
  /\ call[c] = "lock"
  /\ lock[owner[c]] = Nobody
  /\ lock' = [lock EXCEPT ![owner[c]] = c]
  /\ call' = [call EXCEPT ![c] = "count"]
  /\ UNCHANGED <<rowVars, moves, fresh>>

\* The end of the transaction gives the lock back.
Leave(c, result) ==
  /\ call' = [call EXCEPT ![c] = result]
  /\ lock' = [lock EXCEPT ![owner[c]] = IF @ = c THEN Nobody ELSE @]

\* Mutant of Count: one more than the cap is let in.
CountPast(c) ==
  /\ call[c] = "count"
  /\ IF Cardinality(Active(owner[c])) > MaxActive
       THEN Leave(c, "over")
       ELSE call' = [call EXCEPT ![c] = "number"] /\ UNCHANGED lock
  /\ UNCHANGED <<rowVars, moves, fresh>>

Count(c) ==
  /\ call[c] = "count"
  /\ IF Cardinality(Active(owner[c])) >= MaxActive
       THEN Leave(c, "over")
       ELSE call' = [call EXCEPT ![c] = "number"] /\ UNCHANGED lock
  /\ UNCHANGED <<rowVars, moves, fresh>>

Number(c, n) ==
  /\ call[c] = "number"
  /\ NextRef(n, RowsOf(owner[c]))
  /\ ref' = [ref EXCEPT ![c] = n]
  /\ call' = [call EXCEPT ![c] = "insert"]
  /\ UNCHANGED <<status, owner, lock, moves, fresh>>

Insert(c) ==
  /\ call[c] = "insert"
  /\ MayInsert(c)
  /\ IF Taken(c)
       THEN Leave(c, "collided") /\ UNCHANGED status
       ELSE /\ status' = [status EXCEPT ![c] = "held"]
            /\ call' = [call EXCEPT ![c] = "commit"]
            /\ UNCHANGED lock
  /\ UNCHANGED <<owner, ref, moves, fresh>>

Commit(c) ==
  /\ call[c] = "commit"
  /\ status' = [status EXCEPT ![c] = "PENDING"]
  /\ fresh' = fresh \cup {c}
  /\ Leave(c, "over")
  /\ UNCHANGED <<owner, ref, moves>>

\* Any statement may fail, and the transaction is rolled back.
Fail(c) ==
  /\ call[c] \in {"lock"} \cup InTx
  /\ status' = [status EXCEPT ![c] = "none"]
  /\ Leave(c, "over")
  /\ UNCHANGED <<owner, ref, moves, fresh>>

Create(c) == \/ Lock(c) \/ Count(c) \/ Insert(c) \/ Commit(c) \/ Fail(c)
             \/ \E n \in 1..(Cardinality(Rows) + 1) : Number(c, n)

-----------------------------------------------------------------------------
(* The reminders pass of the import.                                       *)

\* One statement computes the number and inserts the row, from the rows the
\* import sees: what is committed, and its own.  Between the two another
\* transaction may commit.
ImportNumber(i, o, n) ==
  /\ status[i] = "none"
  /\ NextRef(n, RowsOf(o) \cup {j \in Imports : Held(j) /\ owner[j] = o})
  /\ ref' = [ref EXCEPT ![i] = n]
  /\ owner' = [owner EXCEPT ![i] = o]
  /\ UNCHANGED <<status, call, lock, moves, fresh>>

ImportInsert(i) ==
  /\ status[i] = "none"
  /\ owner[i] # Nobody
  /\ MayInsert(i)
  /\ ~Taken(i)
  /\ status' = [status EXCEPT ![i] = "held"]
  /\ UNCHANGED <<owner, ref, call, lock, moves, fresh>>

ImportEnd(result) ==
  /\ status' = [i \in Rows |-> IF i \in Imports /\ Held(i) THEN result
                               ELSE status[i]]
  /\ UNCHANGED <<owner, ref, call, lock, moves, fresh>>

-----------------------------------------------------------------------------
(* What moves a row: the claim, the confirm, the return of a claim that was *)
(* lost or of a repeat, the owner's edit and deletion.                      *)

Move(i) ==
  /\ moves < MaxMoves
  /\ \E to \in CASE status[i] = "PENDING" -> {"SENT", "deleted"}
                 [] status[i] = "SENT"    -> {"PENDING", "settled", "deleted"}
                 [] status[i] = "settled" -> {"PENDING", "deleted"}
                 [] OTHER                 -> {} :
       status' = [status EXCEPT ![i] = to]
  /\ fresh' = fresh \ {i}
  /\ moves' = moves + 1
  /\ UNCHANGED <<owner, ref, call, lock>>

QuotaNext ==
  \/ \E c \in Creates : Create(c) \/ \E o \in Owners : Enter(c, o)
  \/ \E i \in Imports :
       \/ \E o \in Owners, n \in 1..(Cardinality(Rows) + 1) : ImportNumber(i, o, n)
       \/ ImportInsert(i)
  \/ \E result \in {"PENDING", "none"} : ImportEnd(result)
  \/ \E i \in Rows : Move(i)

QuotaSpec == QuotaInit /\ [][QuotaNext]_quotaVars

-----------------------------------------------------------------------------
\* The reminders an owner created that are still as they were created.
FreshOf(o) == {c \in fresh : owner[c] = o}

\* The cap holds for creates: however many run at once, those an owner has
\* added and that are still as they were never exceed it.  (Rows that were
\* claimed, rescheduled, edited or imported come back to PENDING without being
\* counted, so the active ones can.)
CreatesWithinCap == \A o \in Owners : Cardinality(FreshOf(o)) <= MaxActive

\* Two creates never run into each other's number: an insert that is refused for
\* its number met a row of the import.
CreatesNeverCollide ==
  \A c \in Creates :
    call[c] = "collided" =>
      \E i \in Imports : Committed(i) /\ owner[i] = owner[c] /\ ref[i] = ref[c]

=============================================================================
