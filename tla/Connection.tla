----------------------------- MODULE Connection -----------------------------
(***************************************************************************)
(* The client's side of an action stream, RunClientActionStream: register, *)
(* open, receive until it fails, wait, again.  The server comes and goes,  *)
(* has one place for the platform (see ReverseStream), keeps it for a      *)
(* while after the connection under it is dead, and checks the account of  *)
(* the process when a stream opens, and only then.                         *)
(***************************************************************************)
EXTENDS Naturals

CONSTANTS
  MinBackoff,  \* reconnectMinBackoff
  MaxBackoff,  \* reconnectMaxBackoff
  MaxFaults    \* bound: what goes wrong, or is changed by others, in all

ASSUME BackoffAssumption == /\ MinBackoff \in Nat \ {0} /\ MaxBackoff \in Nat
                            /\ MinBackoff <= MaxBackoff
ASSUME FaultsAssumption == MaxFaults \in Nat

VARIABLES
  loop,        \* where the reconnect loop is
  backoff,     \* its delay
  botAccount,  \* the account of the process: its state, and that it may stream
  serverUp,
  seat,        \* who has the place in the server's registry
  faults       \* how much went wrong

connectionVars == <<loop, backoff, botAccount, serverUp, seat, faults>>

-----------------------------------------------------------------------------
LoopStates == {"off", "ensure", "open", "stream", "handling", "wait", "ended"}

ConnectionTypeOK ==
  /\ loop \in LoopStates
  /\ backoff \in MinBackoff .. MaxBackoff
  /\ botAccount \in [state : {"absent", "live", "deleted"}, cleared : BOOLEAN]
  /\ serverUp \in BOOLEAN
  /\ seat \in {"free", "ours", "stale", "other"}
  /\ faults \in 0 .. MaxFaults

Fresh == [state |-> "absent", cleared |-> FALSE]
Live  == [state |-> "live", cleared |-> TRUE]

ConnectionInit ==
  /\ loop = "off"
  /\ backoff = MinBackoff
  /\ botAccount = Fresh
  /\ serverUp \in BOOLEAN
  /\ seat = "free"
  /\ faults = 0

Fault == faults < MaxFaults /\ faults' = faults + 1

-----------------------------------------------------------------------------
(* The loop.                                                               *)

NextBackoff(current, outcome) ==
  IF outcome = "established" THEN MinBackoff
  ELSE IF 2 * current > MaxBackoff THEN MaxBackoff ELSE 2 * current

\* An attempt is over; its outcome sets the delay before the next.
Over(outcome) ==
  /\ loop' = "wait"
  /\ backoff' = NextBackoff(backoff, outcome)

\* The platform session is there.
Start ==
  /\ loop = "off"
  /\ loop' = "ensure"
  /\ UNCHANGED <<backoff, botAccount, serverUp, seat, faults>>

\* Mutant of EnsureRegistered: an identity that is there already is an error.
EnsureUnregistered ==
  /\ loop = "ensure" /\ serverUp
  /\ IF botAccount.state = "absent"
       THEN botAccount' = Live /\ loop' = "open" /\ UNCHANGED backoff
       ELSE Over("unreachable") /\ UNCHANGED botAccount
  /\ UNCHANGED <<serverUp, seat, faults>>

\* Register, or AlreadyExists, which is as good: also of a deleted account.
EnsureRegistered ==
  /\ loop = "ensure" /\ serverUp
  /\ botAccount' = IF botAccount.state = "absent" THEN Live ELSE botAccount
  /\ loop' = "open"
  /\ UNCHANGED <<backoff, serverUp, seat, faults>>

\* It may have registered when the answer is lost.
EnsureFails ==
  /\ loop = "ensure"
  /\ \/ ~serverUp /\ UNCHANGED <<botAccount, faults>>
     \/ /\ serverUp /\ Fault
        /\ \/ UNCHANGED botAccount
           \/ botAccount.state = "absent" /\ botAccount' = Live
  /\ Over("unreachable")
  /\ UNCHANGED <<serverUp, seat>>

Refused == botAccount.state # "live" \/ ~botAccount.cleared \/ seat # "free"

\* The hello; a refusal is the first thing received.
OpenStream ==
  /\ loop = "open" /\ serverUp
  /\ IF Refused THEN Over("rejected") /\ UNCHANGED seat
     ELSE loop' = "stream" /\ seat' = "ours" /\ UNCHANGED backoff
  /\ UNCHANGED <<botAccount, serverUp, faults>>

\* The hello cannot be sent, or is lost after it was: then it counts as a stream.
OpenFails ==
  /\ loop = "open"
  /\ \/ ~serverUp /\ UNCHANGED faults
     \/ serverUp /\ Fault
  /\ \E outcome \in {"unreachable", "established"} : Over(outcome)
  /\ UNCHANGED <<botAccount, serverUp, seat>>

\* dispatch runs the handler in the loop; one that panics returns as well, and
\* an action without a handler is passed over.
HandleAction ==
  /\ loop = "stream" /\ seat = "ours"
  /\ loop' = "handling"
  /\ UNCHANGED <<backoff, botAccount, serverUp, seat, faults>>

HandlerReturns ==
  /\ loop = "handling"
  /\ loop' = "stream"
  /\ UNCHANGED <<backoff, botAccount, serverUp, seat, faults>>

\* The connection is dead once the server that had it is gone, or it breaks; the
\* server keeps the place until it notices too.
StreamDrops ==
  /\ loop = "stream"
  /\ \/ seat # "ours" /\ UNCHANGED <<seat, faults>>
     \/ seat = "ours" /\ Fault /\ seat' = "stale"
  /\ Over("established")
  /\ UNCHANGED <<botAccount, serverUp>>

Wake ==
  /\ loop = "wait"
  /\ loop' = "ensure"
  /\ UNCHANGED <<backoff, botAccount, serverUp, seat, faults>>

\* The process shuts down; a handler in progress returns first.
Stop ==
  /\ loop \notin {"off", "handling", "ended"}
  /\ loop' = "ended"
  /\ seat' = IF loop = "stream" /\ seat = "ours" THEN "stale" ELSE seat
  /\ UNCHANGED <<backoff, botAccount, serverUp, faults>>

-----------------------------------------------------------------------------
(* The others.                                                             *)

\* The registry of a server is gone with it.
ServerGoes ==
  /\ serverUp /\ Fault
  /\ serverUp' = FALSE /\ seat' = "free"
  /\ UNCHANGED <<loop, backoff, botAccount>>

ServerComes ==
  /\ ~serverUp
  /\ serverUp' = TRUE
  /\ UNCHANGED <<loop, backoff, botAccount, seat, faults>>

ServerNotices ==
  /\ seat = "stale"
  /\ seat' = "free"
  /\ UNCHANGED <<loop, backoff, botAccount, serverUp, faults>>

\* Another process of the platform.
OtherTakes ==
  /\ serverUp /\ seat = "free" /\ Fault
  /\ seat' = "other"
  /\ UNCHANGED <<loop, backoff, botAccount, serverUp>>

OtherLeaves ==
  /\ seat = "other"
  /\ seat' = "free"
  /\ UNCHANGED <<loop, backoff, botAccount, serverUp, faults>>

\* The operator removes the account, marks it deleted or alters its clearance.
OperatorActs ==
  /\ botAccount.state = "live" /\ Fault
  /\ botAccount' \in {Fresh, [botAccount EXCEPT !.state = "deleted"],
                      [botAccount EXCEPT !.cleared = ~@]}
  /\ UNCHANGED <<loop, backoff, serverUp, seat>>

LoopStep == \/ EnsureRegistered \/ EnsureFails \/ OpenStream \/ OpenFails
            \/ HandlerReturns \/ Wake

ConnectionNext ==
  \/ Start \/ LoopStep \/ HandleAction \/ StreamDrops \/ Stop
  \/ ServerGoes \/ ServerComes \/ ServerNotices \/ OtherTakes \/ OtherLeaves \/ OperatorActs

\* The loop has nothing to wait for but calls with a deadline, a timer and a
\* handler; a dead connection is found by the ping, on either side.
ConnectionFairness ==
  /\ WF_connectionVars(LoopStep)
  /\ WF_connectionVars(StreamDrops /\ seat # "ours")
  /\ WF_connectionVars(ServerNotices)

ConnectionSpec == ConnectionInit /\ [][ConnectionNext]_connectionVars /\ ConnectionFairness

-----------------------------------------------------------------------------
\* Nothing stands between the process and a stream any more.  (An account that is
\* marked deleted does for good: Register finds it, the stream's check does not.)
Welcome ==
  /\ loop \notin {"off", "ended"}
  /\ serverUp
  /\ seat # "other"
  /\ botAccount.state = "live" => botAccount.cleared
  /\ botAccount.state # "deleted"

\* After whatever outages, refusals, lost answers and removals of its account,
\* the process streams again once nothing stands in the way.
StreamComesBack ==
  <>[]Welcome => <>[](loop \in {"stream", "handling"} /\ seat = "ours")

=============================================================================
