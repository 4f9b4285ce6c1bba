------------------------------ MODULE Reminder ------------------------------
(***************************************************************************)
(* Delivery of reminders: the rows of the reminder table, the cron tick    *)
(* that reclaims and claims them, the reverse stream that carries a claim  *)
(* to the bot clients, the client that posts the notification and calls    *)
(* ConfirmDelivery, and the owner who creates, edits and deletes.          *)
(*                                                                         *)
(* Every database statement is one atomic step; between two statements of  *)
(* a handler anything else may happen.  Time is counted in abstract units. *)
(***************************************************************************)
EXTENDS Integers, Sequences, FiniteSets

CONSTANTS
  Reminders,            \* reminder ids
  Clients,              \* bot client processes of the reminders' platform
  None,                 \* SQL NULL
  StaleClaimGrace,      \* time a claim may stay SENT before it is reclaimed
  MaxDeliveryAttempts,  \* claims a row may spend before it is failed out
  SendBuffer,           \* capacity of one stream's action channel
  Horizon,              \* bound: how far ahead a reminder is scheduled
  MaxTime,              \* bound: the last instant the clock reaches
  MaxEdits              \* bound: edits one owner makes to one reminder

ASSUME GraceAssumption    == StaleClaimGrace \in Nat \ {0}
ASSUME AttemptsAssumption == MaxDeliveryAttempts \in Nat \ {0}
ASSUME BoundsAssumption   == /\ SendBuffer \in Nat
                             /\ Horizon \in Nat
                             /\ MaxTime \in Nat
                             /\ MaxEdits \in Nat
ASSUME NoneAssumption     == None \notin Nat

VARIABLES
  row,    \* the reminder table
  now,    \* the clock
  cron,   \* the one cron goroutine, inside remind()
  stream, \* per client: is its action stream open
  buffer, \* per client: actions the server has queued for it
  work,   \* notifications the clients are handling, one per client at most
  \* History, not in the program: per reminder,
  claims, \*   times it was claimed
  records,\*   REMINDER_DELIVERED analytics rows written for it
  edits,  \*   edits its owner made
  closed  \*   claims a confirmation has been applied for

hist == <<claims, records, edits, closed>>
vars == <<row, now, cron, stream, buffer, work, hist>>
clientVars == <<stream, buffer, work>>

-----------------------------------------------------------------------------
Status == {"PENDING", "SENT", "DELIVERED", "FAILED"}

\* "NONE" stands for an id no row has been inserted under.
Row == [status    : Status \cup {"NONE"},
        datetime  : Nat,
        repeat    : BOOLEAN,
        claimedAt : Nat \cup {None},
        attempts  : Nat,
        deleted   : BOOLEAN]

NoRow == [status |-> "NONE", datetime |-> 0, repeat |-> FALSE,
          claimedAt |-> None, attempts |-> 0, deleted |-> FALSE]

\* What travels to a client.  The program sends the reminder id alone; the
\* number of the claim it was sent for is history.
Action == [rem : Reminders, claim : Nat]

\* A client between receiving an action and the end of its ConfirmDelivery call:
\* "received", then "posted" (the call is on its way), then "read" (the handler
\* has loaded the row and not yet written it).
Work == [client : Clients, rem : Reminders, claim : Nat,
         phase : {"received", "posted", "read"},
         delivered : BOOLEAN, repeat : BOOLEAN]

Idle == [pc |-> "idle", at |-> 0, todo |-> {}]

TypeOK ==
  /\ row \in [Reminders -> Row]
  /\ now \in Nat
  /\ cron \in [pc : {"idle", "claim", "push"}, at : Nat, todo : SUBSET Action]
  /\ stream \in [Clients -> BOOLEAN]
  /\ buffer \in [Clients -> Seq(Action)]
  /\ work \in SUBSET Work
  /\ claims \in [Reminders -> Nat]
  /\ records \in [Reminders -> Nat]
  /\ edits \in [Reminders -> Nat]
  /\ closed \in [Reminders -> SUBSET Nat]

Init ==
  /\ row = [r \in Reminders |-> NoRow]
  /\ now = 0
  /\ cron = Idle
  /\ stream = [c \in Clients |-> FALSE]
  /\ buffer = [c \in Clients |-> <<>>]
  /\ work = {}
  /\ claims = [r \in Reminders |-> 0]
  /\ records = [r \in Reminders |-> 0]
  /\ edits = [r \in Reminders |-> 0]
  /\ closed = [r \in Reminders |-> {}]

-----------------------------------------------------------------------------
(* The owner.                                                              *)

\* CreateReminder does not require its instant to lie in the future.
CreateReminder(r) ==
  /\ row[r].status = "NONE"
  /\ \E d \in now .. now + Horizon, rep \in BOOLEAN :
       row' = [row EXCEPT ![r] = [NoRow EXCEPT !.status = "PENDING",
                                               !.datetime = d,
                                               !.repeat = rep]]
  /\ UNCHANGED <<now, cron, clientVars, hist>>

\* An edit re-arms the row whatever its status, SENT included.
Edited(x, d, rep) ==
  [x EXCEPT !.status = "PENDING", !.datetime = d, !.repeat = rep,
            !.claimedAt = None, !.attempts = 0]

UpdateReminder(r) ==
  /\ row[r].status # "NONE"
  /\ ~row[r].deleted
  /\ edits[r] < MaxEdits
  /\ \E d \in now + 1 .. now + Horizon, rep \in BOOLEAN :
       row' = [row EXCEPT ![r] = Edited(row[r], d, rep)]
  /\ edits' = [edits EXCEPT ![r] = @ + 1]
  /\ UNCHANGED <<now, cron, clientVars, claims, records, closed>>

\* The soft delete leaves status and claim as they are.
DeleteReminder(r) ==
  /\ row[r].status # "NONE"
  /\ ~row[r].deleted
  /\ row' = [row EXCEPT ![r].deleted = TRUE]
  /\ UNCHANGED <<now, cron, clientVars, hist>>

-----------------------------------------------------------------------------
(* The cron tick: reclaim, claim, push.  The instant read at its start is   *)
(* used for both statements.                                               *)

\* Mutant of Stale: only rows with an attempt left.
StaleWithAttemptsLeft(x, t) ==
  /\ x.status = "SENT"
  /\ ~x.deleted
  /\ x.claimedAt # None
  /\ x.claimedAt <= t - StaleClaimGrace
  /\ x.attempts < MaxDeliveryAttempts

Stale(x, t) ==
  /\ x.status = "SENT"
  /\ ~x.deleted
  /\ x.claimedAt # None
  /\ x.claimedAt <= t - StaleClaimGrace

\* Mutant of Reclaimed: the counter started again.
ReclaimedAfresh(x) ==
  [x EXCEPT !.status = IF x.attempts >= MaxDeliveryAttempts
                         THEN "FAILED" ELSE "PENDING",
            !.claimedAt = None,
            !.attempts = 0]

Reclaimed(x) ==
  [x EXCEPT !.status = IF x.attempts >= MaxDeliveryAttempts
                         THEN "FAILED" ELSE "PENDING",
            !.claimedAt = None]

\* An error of the reclaim is logged and the tick goes on.
StartTick ==
  /\ cron.pc = "idle"
  /\ cron' = [pc |-> "claim", at |-> now, todo |-> {}]
  /\ \/ row' = [r \in Reminders |->
                  IF Stale(row[r], now) THEN Reclaimed(row[r]) ELSE row[r]]
     \/ UNCHANGED row
  /\ UNCHANGED <<now, clientVars, hist>>

\* Mutants of Due: the instant itself excluded; deleted rows too.
DueStrictly(x, t) ==
  /\ x.status = "PENDING"
  /\ ~x.deleted
  /\ x.datetime < t

DueDeletedToo(x, t) ==
  /\ x.status = "PENDING"
  /\ x.datetime <= t

Due(x, t) ==
  /\ x.status = "PENDING"
  /\ ~x.deleted
  /\ x.datetime <= t

\* Mutant of Claimed: the attempt is not counted.
ClaimedUncounted(x, t) == [x EXCEPT !.status = "SENT", !.claimedAt = t]

Claimed(x, t) ==
  [x EXCEPT !.status = "SENT", !.claimedAt = t, !.attempts = @ + 1]

DueNow == {r \in Reminders : Due(row[r], cron.at)}

\* The UPDATE ... RETURNING that claims; todo is what the caller gets back.
ClaimRows(todo) ==
  /\ row' = [r \in Reminders |->
               IF r \in DueNow THEN Claimed(row[r], cron.at) ELSE row[r]]
  /\ claims' = [r \in Reminders |->
                 IF r \in DueNow THEN claims[r] + 1 ELSE claims[r]]
  /\ cron' = [cron EXCEPT !.pc = IF todo = {} THEN "idle" ELSE "push",
                          !.todo = todo]
  /\ UNCHANGED <<records, edits, closed>>

ClaimDueReminders ==
  /\ cron.pc = "claim"
  /\ ClaimRows({[rem |-> r, claim |-> claims[r] + 1] : r \in DueNow})
  /\ UNCHANGED <<now, clientVars>>

\* The statement fails, or commits and its result is lost: nothing is pushed.
ClaimFails ==
  /\ cron.pc = "claim"
  /\ \/ ClaimRows({})
     \/ cron' = [cron EXCEPT !.pc = "idle"] /\ UNCHANGED <<row, hist>>
  /\ UNCHANGED <<now, clientVars>>

\* SendAction: every open stream with room gets the action, the others lose it.
PushAction(a) ==
  /\ cron.pc = "push"
  /\ a \in cron.todo
  /\ buffer' = [c \in Clients |->
                  IF stream[c] /\ Len(buffer[c]) < SendBuffer
                    THEN Append(buffer[c], a) ELSE buffer[c]]
  /\ cron' = [cron EXCEPT !.todo = @ \ {a},
                          !.pc = IF cron.todo = {a} THEN "idle" ELSE "push"]
  /\ UNCHANGED <<row, now, stream, work, hist>>

-----------------------------------------------------------------------------
(* The client: one action at a time, handled inline by the receive loop.   *)

Busy(c) == \E w \in work : w.client = c

OpenStream(c) ==
  /\ ~stream[c]
  /\ ~Busy(c)
  /\ stream' = [stream EXCEPT ![c] = TRUE]
  /\ UNCHANGED <<row, now, cron, buffer, work, hist>>

BreakStream(c) ==
  /\ stream[c]
  /\ stream' = [stream EXCEPT ![c] = FALSE]
  /\ buffer' = [buffer EXCEPT ![c] = <<>>]
  /\ UNCHANGED <<row, now, cron, work, hist>>

ReceiveAction(c) ==
  /\ stream[c]
  /\ buffer[c] # <<>>
  /\ ~Busy(c)
  /\ work' = work \cup {[client |-> c, rem |-> Head(buffer[c]).rem,
                         claim |-> Head(buffer[c]).claim, phase |-> "received",
                         delivered |-> FALSE, repeat |-> FALSE]}
  /\ buffer' = [buffer EXCEPT ![c] = Tail(@)]
  /\ UNCHANGED <<row, now, cron, stream, hist>>

\* postNotification: one of the routes succeeds, or all of them fail.
PostNotification(w) ==
  /\ w.phase = "received"
  /\ \E ok \in BOOLEAN :
       work' = (work \ {w}) \cup {[w EXCEPT !.phase = "posted", !.delivered = ok]}
  /\ UNCHANGED <<row, now, cron, stream, buffer, hist>>

\* The confirmation never reaches the handler, is rejected, or times out
\* before the write.  The client only logs it.
ConfirmLost(w) ==
  /\ w.phase \in {"posted", "read"}
  /\ work' = work \ {w}
  /\ UNCHANGED <<row, now, cron, stream, buffer, hist>>

-----------------------------------------------------------------------------
(* ConfirmDelivery on the server: a read, then a guarded write.            *)

ConfirmRead(w) ==
  /\ w.phase = "posted"
  /\ work' = (work \ {w}) \cup
             (IF row[w.rem].deleted THEN {}
              ELSE {[w EXCEPT !.phase = "read", !.repeat = row[w.rem].repeat]})
  /\ UNCHANGED <<row, now, cron, stream, buffer, hist>>

\* AdvanceReminderStatusIfSent keeps the attempts, RescheduleReminderIfSent
\* starts them again.
Advanced(x, s) == [x EXCEPT !.status = s, !.claimedAt = None]

Rescheduled(x, next) ==
  [x EXCEPT !.status = "PENDING", !.datetime = next, !.claimedAt = None,
            !.attempts = 0]

\* The only guard of the write: the row is SENT, by whichever claim.
Open(x) == x.status = "SENT" /\ ~x.deleted

ConfirmFailed(w) ==
  /\ w.phase = "read"
  /\ ~w.delivered
  /\ Open(row[w.rem])
  /\ row' = [row EXCEPT ![w.rem] = Advanced(@, "FAILED")]
  /\ closed' = [closed EXCEPT ![w.rem] = @ \cup {w.claim}]
  /\ work' = work \ {w}
  /\ UNCHANGED <<now, cron, stream, buffer, claims, records, edits>>

\* A one-shot is done; a repeat moves to its next occurrence after now, or is
\* done when its schedule has none.
ConfirmDelivered(w) ==
  /\ w.phase = "read"
  /\ w.delivered
  /\ Open(row[w.rem])
  /\ \/ row' = [row EXCEPT ![w.rem] = Advanced(@, "DELIVERED")]
     \/ /\ w.repeat
        /\ \E next \in now + 1 .. now + Horizon :
             row' = [row EXCEPT ![w.rem] = Rescheduled(@, next)]
  /\ closed' = [closed EXCEPT ![w.rem] = @ \cup {w.claim}]
  /\ records' = [records EXCEPT ![w.rem] = @ + 1]
  /\ work' = work \ {w}
  /\ UNCHANGED <<now, cron, stream, buffer, claims, edits>>

ConfirmNoOp(w) ==
  /\ w.phase = "read"
  /\ ~Open(row[w.rem])
  /\ work' = work \ {w}
  /\ UNCHANGED <<row, now, cron, stream, buffer, hist>>

-----------------------------------------------------------------------------
(* Crashes and the clock.                                                  *)

\* The rows survive; the claimed list, the streams and the running handlers
\* do not.
ServerCrash ==
  /\ cron' = Idle
  /\ stream' = [c \in Clients |-> FALSE]
  /\ buffer' = [c \in Clients |-> <<>>]
  /\ work' = {w \in work : w.phase # "read"}
  /\ UNCHANGED <<row, now, hist>>

ClientCrash(c) ==
  /\ Busy(c)
  /\ stream' = [stream EXCEPT ![c] = FALSE]
  /\ buffer' = [buffer EXCEPT ![c] = <<>>]
  /\ work' = {w \in work : w.client # c}
  /\ UNCHANGED <<row, now, cron, hist>>

Clock ==
  /\ now < MaxTime
  /\ now' = now + 1
  /\ UNCHANGED <<row, cron, clientVars, hist>>

-----------------------------------------------------------------------------
Owner(r) == CreateReminder(r) \/ UpdateReminder(r) \/ DeleteReminder(r)

Cron == \/ StartTick
        \/ ClaimDueReminders
        \/ ClaimFails
        \/ \E a \in cron.todo : PushAction(a)

Client(c) == OpenStream(c) \/ BreakStream(c) \/ ReceiveAction(c) \/ ClientCrash(c)

Handling(w) == \/ PostNotification(w)
               \/ ConfirmLost(w)
               \/ ConfirmRead(w)
               \/ ConfirmFailed(w)
               \/ ConfirmDelivered(w)
               \/ ConfirmNoOp(w)

Next == \/ \E r \in Reminders : Owner(r)
        \/ Cron
        \/ \E c \in Clients : Client(c)
        \/ \E w \in work : Handling(w)
        \/ ServerCrash
        \/ Clock

Spec == Init /\ [][Next]_vars

-----------------------------------------------------------------------------
(* Safety.                                                                 *)

\* A row carries a claim instant exactly while it is SENT (claim, reclaim,
\* confirmation and edit each keep the pair together): a SENT row without one
\* would never be reclaimed.
ClaimStampMarksSent ==
  \A r \in Reminders : (row[r].claimedAt # None) <=> (row[r].status = "SENT")

\* The attempt counter never passes its cap, and a row waiting for the next
\* tick has an attempt left, although claim and reclaim are separate steps and
\* confirmations and edits of other claims come in between.
AttemptsWithinCap ==
  \A r \in Reminders :
    /\ row[r].attempts <= MaxDeliveryAttempts
    /\ row[r].status = "PENDING" => row[r].attempts < MaxDeliveryAttempts

\* A one-shot its owner never edits is claimed at most MaxDeliveryAttempts
\* times in its life, whatever is lost, crashes or confirms late.
ClaimBudget ==
  \A r \in Reminders :
    (edits[r] = 0 /\ ~row[r].repeat) => claims[r] <= MaxDeliveryAttempts

\* Each claim leaves at most one REMINDER_DELIVERED record, even when several
\* clients confirm the same claim or confirm it after it was reclaimed.
OneRecordPerClaim ==
  \A r \in Reminders :
    records[r] + (IF row[r].status = "SENT" THEN 1 ELSE 0)
      <= claims[r]

\* Once DELIVERED or FAILED only an owner's edit moves a row, and a deleted row
\* never changes again: late confirmations, reclaims and claims pass it by.
SettledIsFinal ==
  [][\A r \in Reminders :
       /\ row[r].deleted => row'[r] = row[r]
       /\ (/\ row[r].status \in {"DELIVERED", "FAILED"}
           /\ row'[r].status # row[r].status)
            => edits'[r] > edits[r]]_vars

\* The rows live the life ReminderLifecycle describes.
Lifecycle == INSTANCE ReminderLifecycle WITH
  phase <- [r \in Reminders |->
              IF row[r].deleted THEN "DELETED" ELSE row[r].status],
  tries <- [r \in Reminders |-> row[r].attempts]

LifecycleSpec == Lifecycle!Spec

-----------------------------------------------------------------------------
(* Liveness.  The cron goroutine keeps ticking and the database does not   *)
(* fail for ever, so a statement that is tried again and again succeeds in *)
(* the end; the clock runs.  Nothing is asked of clients, streams, owners  *)
(* or crashes.                                                             *)

ReclaimRuns == StartTick /\ row' = [r \in Reminders |->
                 IF Stale(row[r], now) THEN Reclaimed(row[r]) ELSE row[r]]

Fairness == /\ SF_vars(ReclaimRuns)
            /\ SF_vars(ClaimDueReminders)
            /\ WF_vars(\E a \in cron.todo : PushAction(a))
            /\ WF_vars(Clock)

FairSpec == Spec /\ Fairness

Waiting(r) ==
  row[r].status = "PENDING" /\ ~row[r].deleted /\ row[r].datetime <= now

\* A due reminder does not stay waiting: a tick claims it, unless its owner
\* moves or deletes it first.
DueIsClaimed == \A r \in Reminders : Waiting(r) ~> ~Waiting(r)

\* No claim stays open: a confirmation closes it or, once the grace has passed,
\* a tick takes it back, whichever of push, post and confirmation was lost.
\* (Claims whose grace ends after MaxTime are left out.)
ClaimIsClosed ==
  \A r \in Reminders : \A t \in 0 .. MaxTime - StaleClaimGrace :
    (Open(row[r]) /\ row[r].claimedAt = t)
      ~> ~(Open(row[r]) /\ row[r].claimedAt = t)

-----------------------------------------------------------------------------
(* A statement of the repository that the code does not keep.              *)

\* "a duplicate ConfirmDelivery is a no-op": a confirmation of a claim that was
\* already confirmed leaves the row as it is.
DuplicateConfirmIsNoOp ==
  [][\A w \in work :
       (/\ w.claim \in closed[w.rem]
        /\ ConfirmFailed(w) \/ ConfirmDelivered(w)) => UNCHANGED row]_vars
=============================================================================
