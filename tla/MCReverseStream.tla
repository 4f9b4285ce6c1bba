--------------------------- MODULE MCReverseStream ---------------------------
(* Bounds for TLC.  The parts of the boundary between clients and server:  *)
(* the server's streams, the client's loop around one, and unary calls.  A *)
(* behaviour is of one of them.                                            *)
EXTENDS ReverseStream, Calls, Connection, TLC

CONSTANTS u1, u2

VARIABLE part

boundaryVars == <<vars, callVars, connectionVars, part>>

-----------------------------------------------------------------------------
Plain(p) == [procedure |-> p, identity |-> "user", user |-> u1, named |-> Unset,
             fields |-> "whole", deadline |-> Unset, lower |-> 0, upper |-> 0]

\* One procedure of each handler, and of those that are retried.
Sampled == {"Register", "GetUser", "SetLocale", "CreateInstance", "GetInstance",
            "CreateActionRecord", "GetRandomNumber", "ListInstances", "ExecTrigger"}

\* Retried alike: one of them with the time for it is enough.
ReadAlike == ReadsElsewhere \ {"GetReminder"}

\* Every procedure by a caller that says who it is; those of a kind also by one
\* that does not, or without their fields; some with little time; another's row;
\* intervals that wrap or do not.
MCRequests ==
  {Plain(p) : p \in Procedures \ ReadAlike}
  \cup {[Plain(p) EXCEPT !.deadline = 2] : p \in ReadAlike}
  \cup UNION {{[Plain(p) EXCEPT !.identity = "platform"],
               [Plain(p) EXCEPT !.identity = "anonymous"],
               [Plain(p) EXCEPT !.fields = "bad"],
               [Plain(p) EXCEPT !.fields = "partial"]} : p \in Sampled}
  \cup {[Plain("Ping") EXCEPT !.deadline = 4]}
  \cup {[Plain("GetUser") EXCEPT !.named = u] : u \in {u1, u2}}
  \cup {[Plain("GetRandomNumber") EXCEPT !.lower = l, !.upper = h] : l, h \in {-4, -1, 0, 3}}

MCBackoffs == <<2, 4>>

\* Calls and connections that have not begun, where another part is meant.
CallsAtRest ==
  /\ account = [u \in Users |-> [state |-> "absent", clearance |-> 0]]
  /\ changes = 0
  /\ call = [pc |-> "idle", request |-> NoRequest, left |-> 0, retries |-> 0, answer |-> "none"]
  /\ serving = {} /\ written = {} /\ shown = {} /\ held = {}

ConnectionAtRest == ConnectionInit /\ serverUp

AnyUser == [state |-> "live", clearance |-> 1]

MCInit ==
  /\ Init
  /\ \/ part = "streams"    /\ CallsAtRest /\ ConnectionAtRest
     \/ part = "calls"      /\ CallInit /\ account[u2] = AnyUser /\ ConnectionAtRest
     \/ part = "connection" /\ CallsAtRest /\ ConnectionInit

MCNext ==
  \/ part = "streams"    /\ Next           /\ UNCHANGED <<callVars, connectionVars, part>>
  \/ part = "calls"      /\ CallNext       /\ UNCHANGED <<vars, connectionVars, part>>
  \/ part = "connection" /\ ConnectionNext /\ UNCHANGED <<vars, callVars, part>>

\* Nothing that is fair is enabled in a part that has not begun.
MCSpec == MCInit /\ [][MCNext]_boundaryVars /\ Fairness /\ ConnectionFairness

=============================================================================
