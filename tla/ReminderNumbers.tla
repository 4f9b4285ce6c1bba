--------------------------- MODULE ReminderNumbers ---------------------------
(***************************************************************************)
(* Reminders as their owners name them: what a listing shows, and the calls *)
(* that get, edit or delete one by its id or by the number it was shown     *)
(* under.  A number is resolved by one statement and the reminder is read   *)
(* or written by another, while creates, the import and the moves of        *)
(* ReminderQuota go on.                                                     *)
(***************************************************************************)
EXTENDS ReminderQuota

CONSTANTS
  Asks,      \* calls that name a reminder
  PageLimit  \* reminderListLimit, or defaultReminderListLimit

ASSUME PageAssumption == PageLimit \in Nat \ {0}

VARIABLES
  ask,   \* the calls
  shown  \* history: rows, with the number and to whom they were shown

numbersVars == <<ask, shown>>

-----------------------------------------------------------------------------
Verbs == {"GetReminder", "UpdateReminder", "DeleteReminder"}

\* By a number, or by an id, which need not be the caller's.
Names == [by : {"ref"}, ref : 1 .. Cardinality(Rows)] \cup [by : {"id"}, id : Rows]

NumbersTypeOK ==
  /\ \A a \in Asks :
       /\ ask[a].at \in {"idle", "resolve", "act", "ok", "not_found", "internal"}
       /\ ask[a].at # "idle" => ask[a].who \in Owners /\ ask[a].name \in Names
       /\ ask[a].at \in {"act", "ok"} => ask[a].row \in Rows
  /\ shown \subseteq Owners \X Nat \X Rows

NumbersInit ==
  /\ ask = [a \in Asks |-> [at |-> "idle"]]
  /\ shown = {}

LiveOf(o) == {i \in RowsOf(o) : status[i] # "deleted"}

-----------------------------------------------------------------------------
\* A page of the caller's own, of whatever status: what the filters, the offset and
\* an order that leaves ties open pick.
ListReminders(o) ==
  /\ \E page \in SUBSET LiveOf(o) :
       /\ page # {}
       /\ Cardinality(page) <= PageLimit
       /\ shown' = shown \cup {<<o, ref[i], i>> : i \in page}
  /\ UNCHANGED <<quotaVars, ask>>

\* What o was shown under a number.
Shown(o, n) == {s[3] : s \in {s \in shown : s[1] = o /\ s[2] = n}}

\* History: what the caller means by the number.
Ask(a) ==
  /\ ask[a].at = "idle"
  /\ \E who \in Owners, verb \in Verbs, name \in Names :
       ask' = [ask EXCEPT ![a] =
                 [who |-> who, verb |-> verb, name |-> name,
                  at |-> IF name.by = "ref" THEN "resolve" ELSE "act",
                  meant |-> IF name.by = "ref" THEN Shown(who, name.ref) ELSE {},
                  row |-> IF name.by = "ref" THEN Nobody ELSE name.id]]
  /\ UNCHANGED <<quotaVars, shown>>

Replied(a, answer) == ask' = [ask EXCEPT ![a].at = answer]

\* Mutant of ByRef: the number is looked up without its owner.
ByRefAnyone(o, n) == {i \in UNION {LiveOf(p) : p \in Owners} : ref[i] = n}

ByRef(o, n) == {i \in LiveOf(o) : ref[i] = n}

ResolveRef(a) ==
  /\ ask[a].at = "resolve"
  /\ LET found == ByRef(ask[a].who, ask[a].name.ref)
     IN IF found = {} THEN Replied(a, "not_found")
        ELSE \E i \in found :
               ask' = [ask EXCEPT ![a].row = i, ![a].at = "act"]
  /\ UNCHANGED <<quotaVars, shown>>

\* The caller's, and not deleted since.
StillTheirs(a) == ask[a].row \in LiveOf(ask[a].who)

GetReminder(a) ==
  /\ ask[a].at = "act" /\ ask[a].verb = "GetReminder"
  /\ Replied(a, IF StillTheirs(a) THEN "ok" ELSE "not_found")
  /\ UNCHANGED <<quotaVars, shown>>

\* An edit arms the reminder again, whatever became of it; a statement that fails
\* may have taken effect.
Overwrite(a, verb, to) ==
  /\ ask[a].at = "act" /\ ask[a].verb = verb
  /\ IF StillTheirs(a)
       THEN /\ status' = [status EXCEPT ![ask[a].row] = to]
            /\ fresh' = fresh \ {ask[a].row}
            /\ \E answer \in {"ok", "internal"} : Replied(a, answer)
       ELSE Replied(a, "not_found") /\ UNCHANGED <<status, fresh>>
  /\ UNCHANGED <<owner, ref, call, lock, moves, shown>>

UpdateReminder(a) == Overwrite(a, "UpdateReminder", "PENDING")
DeleteReminder(a) == Overwrite(a, "DeleteReminder", "deleted")

\* A statement fails, or what an edit asks for is not valid.
AskFails(a) ==
  /\ ask[a].at \in {"resolve", "act"}
  /\ Replied(a, "internal")
  /\ UNCHANGED <<quotaVars, shown>>

NumbersNext ==
  \/ QuotaNext /\ UNCHANGED numbersVars
  \/ \E o \in Owners : ListReminders(o)
  \/ \E a \in Asks : \/ Ask(a) \/ ResolveRef(a) \/ GetReminder(a)
                     \/ UpdateReminder(a) \/ DeleteReminder(a) \/ AskFails(a)

NumbersSpec == QuotaInit /\ NumbersInit /\ [][NumbersNext]_<<quotaVars, numbersVars>>

-----------------------------------------------------------------------------
\* A number means the reminder it was shown for: a call that names it reaches that
\* reminder, of the caller's own, or finds nothing because it has been deleted,
\* whatever was created, imported or deleted since.  And nobody reaches the
\* reminder of another by its id.
NumberMeansWhatWasShown ==
  \A a \in Asks :
    /\ ask[a].at = "ok" => /\ owner[ask[a].row] = ask[a].who
                           /\ ask[a].meant \subseteq {ask[a].row}
    /\ ask[a].at = "not_found" => \A i \in ask[a].meant : status[i] = "deleted"

=============================================================================
