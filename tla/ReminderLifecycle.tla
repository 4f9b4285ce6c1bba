-------------------------- MODULE ReminderLifecycle --------------------------
(***************************************************************************)
(* What the reminder table promises, whatever the cron tick, the streams   *)
(* and the clients do: the life of a reminder between its owner's calls.   *)
(* An arming (creation, edit, next occurrence of a repeat) grants a budget *)
(* of deliveries; only a delivery in flight can be settled, and a settled  *)
(* or deleted reminder is never delivered again unless its owner re-arms   *)
(* it.  Reminders are independent, and one step may move several of them.  *)
(***************************************************************************)
EXTENDS Naturals

CONSTANTS Reminders, MaxDeliveryAttempts

VARIABLES
  phase,  \* where the reminder is in its life
  tries   \* deliveries started since it was last armed

Phase == {"NONE", "PENDING", "SENT", "DELIVERED", "FAILED", "DELETED"}

Init == /\ phase = [r \in Reminders |-> "NONE"]
        /\ tries = [r \in Reminders |-> 0]

Alive(r) == phase[r] \notin {"NONE", "DELETED"}

\* The owner creates or edits it: a fresh budget, from any phase but DELETED.
Arm(r) == /\ phase[r] # "DELETED"
          /\ phase'[r] = "PENDING"
          /\ tries'[r] = 0

Delete(r) == /\ Alive(r)
             /\ phase'[r] = "DELETED"
             /\ tries'[r] = tries[r]

\* A delivery starts while the budget lasts.
Deliver(r) == /\ phase[r] = "PENDING"
              /\ tries[r] < MaxDeliveryAttempts
              /\ phase'[r] = "SENT"
              /\ tries'[r] = tries[r] + 1

\* The delivery was lost: another one while the budget lasts.
Retry(r) == /\ phase[r] = "SENT"
            /\ tries[r] < MaxDeliveryAttempts
            /\ phase'[r] = "PENDING"
            /\ tries'[r] = tries[r]

Settle(r) == /\ phase[r] = "SENT"
             /\ phase'[r] \in {"DELIVERED", "FAILED"}
             /\ tries'[r] = tries[r]

Same(r) == phase'[r] = phase[r] /\ tries'[r] = tries[r]

Next == \A r \in Reminders :
          \/ Arm(r)
          \/ Delete(r)
          \/ Deliver(r)
          \/ Retry(r)
          \/ Settle(r)
          \/ Same(r)

Spec == Init /\ [][Next]_<<phase, tries>>
=============================================================================
