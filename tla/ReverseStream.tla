---------------------------- MODULE ReverseStream ----------------------------
(***************************************************************************)
(* The server's side of the clients' action streams: the registry of       *)
(* ReverseServer, the three goroutines of each OpenClientActionStream call  *)
(* (handler, sender, receiver), SendAction, which fans an action out, and   *)
(* Shutdown.  A peer may disconnect at any time, or stop reading for good.  *)
(***************************************************************************)
EXTENDS Integers, Sequences, FiniteSets

CONSTANTS
  Streams,     \* calls of OpenClientActionStream
  Platforms,   \* the chat platforms clients serve
  None,        \* no platform yet, nothing in a channel
  MaxClients,  \* capacity of the registry
  SendBuffer,  \* capacity of one stream's action channel
  MaxActions   \* bound: actions sent in all

ASSUME CapacityAssumption == MaxClients \in Nat /\ SendBuffer \in Nat
ASSUME ActionsAssumption  == MaxActions \in Nat
ASSUME NoneAssumption     == None \notin Platforms \cup {"msg", "err"}

VARIABLES
  clients,   \* the registry
  platform,  \* per stream: its platform
  actions,   \* its action channel: what is queued,
  open,      \*   and that it is not closed
  handler,   \* where its handler is
  sender,    \* where its send goroutine is
  taken,     \* the action its send goroutine holds
  receiver,  \* where its receive goroutine is
  recvCh,    \* the one-place channel between receiver and handler
  gone,      \* its peer has ended it
  push,      \* SendAction, called by the one cron goroutine
  done       \* Shutdown was called

registry  == <<clients, platform>>
channel   == <<actions, open>>
sending   == <<sender, taken>>
receiving == <<receiver, recvCh>>
vars == <<registry, channel, handler, sending, receiving, gone, push, done>>

-----------------------------------------------------------------------------
Action == 1 .. MaxActions

\* "leaving": the select loop is over and handlerDone closed; "closing": out of
\* the registry; "draining": the action channel closed too.
HandlerState == {"none", "serving", "leaving", "closing", "draining", "returned",
                 "refused"}

TypeOK ==
  /\ clients \subseteq Streams
  /\ platform \in [Streams -> Platforms \cup {None}]
  /\ actions \in [Streams -> Seq(Action)]
  /\ \A s \in Streams : Len(actions[s]) <= SendBuffer
  /\ open \in [Streams -> BOOLEAN]
  /\ handler \in [Streams -> HandlerState]
  /\ sender \in [Streams -> {"none", "ready", "sending", "done"}]
  /\ taken \in [Streams -> Nat]
  /\ receiver \in [Streams -> {"none", "receive", "msg", "err", "ended"}]
  /\ recvCh \in [Streams -> {None, "msg", "err"}]
  /\ gone \in [Streams -> BOOLEAN]
  /\ push \in [pc : {"idle", "loop"}, action : Nat,
             platform : Platforms \cup {None}, todo : SUBSET Streams]
  /\ push.pc = "loop" => push.action \in Action
  /\ done \in BOOLEAN

Init ==
  /\ clients = {}
  /\ platform = [s \in Streams |-> None]
  /\ actions = [s \in Streams |-> <<>>]
  /\ open = [s \in Streams |-> FALSE]
  /\ handler = [s \in Streams |-> "none"]
  /\ sender = [s \in Streams |-> "none"]
  /\ taken = [s \in Streams |-> 0]
  /\ receiver = [s \in Streams |-> "none"]
  /\ recvCh = [s \in Streams |-> None]
  /\ gone = [s \in Streams |-> FALSE]
  /\ push = [pc |-> "idle", action |-> 0, platform |-> None, todo |-> {}]
  /\ done = FALSE

\* SendAction holds the read lock from its first step to its last.
WriteLockFree == push.pc = "idle"

-----------------------------------------------------------------------------
(* The handler.                                                            *)

\* Mutant of Register: the count is compared off by one.
RegisterPastCap(s, p) ==
  /\ handler[s] = "none"
  /\ WriteLockFree
  /\ Cardinality(clients) <= MaxClients
  /\ clients' = clients \cup {s}
  /\ platform' = [platform EXCEPT ![s] = p]
  /\ open' = [open EXCEPT ![s] = TRUE]
  /\ handler' = [handler EXCEPT ![s] = "serving"]
  /\ sender' = [sender EXCEPT ![s] = "ready"]
  /\ receiver' = [receiver EXCEPT ![s] = "receive"]
  /\ UNCHANGED <<actions, taken, recvCh, gone, push, done>>

\* register, and the two goroutines start.  A server that is shutting down
\* still admits.
Register(s, p) ==
  /\ handler[s] = "none"
  /\ WriteLockFree
  /\ Cardinality(clients) < MaxClients
  /\ clients' = clients \cup {s}
  /\ platform' = [platform EXCEPT ![s] = p]
  /\ open' = [open EXCEPT ![s] = TRUE]
  /\ handler' = [handler EXCEPT ![s] = "serving"]
  /\ sender' = [sender EXCEPT ![s] = "ready"]
  /\ receiver' = [receiver EXCEPT ![s] = "receive"]
  /\ UNCHANGED <<actions, taken, recvCh, gone, push, done>>

Refuse(s) ==
  /\ handler[s] = "none"
  /\ WriteLockFree
  /\ Cardinality(clients) >= MaxClients
  /\ handler' = [handler EXCEPT ![s] = "refused"]
  /\ UNCHANGED <<registry, channel, sending, receiving, gone, push, done>>

\* Shutdown, the end of the context, or the end of the sender.
Leave(s) ==
  /\ handler[s] = "serving"
  /\ done \/ gone[s] \/ sender[s] = "done"
  /\ handler' = [handler EXCEPT ![s] = "leaving"]
  /\ UNCHANGED <<registry, channel, sending, receiving, gone, push, done>>

\* A message carries nothing; an error ends the stream.
Consume(s) ==
  /\ handler[s] = "serving"
  /\ recvCh[s] # None
  /\ recvCh' = [recvCh EXCEPT ![s] = None]
  /\ handler' = [handler EXCEPT ![s] = IF recvCh[s] = "err"
                                         THEN "leaving" ELSE "serving"]
  /\ UNCHANGED <<registry, channel, sending, receiver, gone, push, done>>

\* Mutant of Deregister: the channel is closed first, the registry second.
DeregisterClosingFirst(s) ==
  /\ handler[s] = "leaving"
  /\ open' = [open EXCEPT ![s] = FALSE]
  /\ handler' = [handler EXCEPT ![s] = "closing"]
  /\ UNCHANGED <<registry, actions, sending, receiving, gone, push, done>>

Deregister(s) ==
  /\ handler[s] = "leaving"
  /\ WriteLockFree
  /\ clients' = clients \ {s}
  /\ handler' = [handler EXCEPT ![s] = "closing"]
  /\ UNCHANGED <<platform, channel, sending, receiving, gone, push, done>>

CloseActions(s) ==
  /\ handler[s] = "closing"
  /\ open' = [open EXCEPT ![s] = FALSE]
  /\ handler' = [handler EXCEPT ![s] = "draining"]
  /\ UNCHANGED <<registry, actions, sending, receiving, gone, push, done>>

\* The sender is waited for, ...
Drained(s) ==
  /\ handler[s] = "draining"
  /\ sender[s] = "done"
  /\ handler' = [handler EXCEPT ![s] = "returned"]
  /\ UNCHANGED <<registry, channel, sending, receiving, gone, push, done>>

\* Mutant of DrainTimeout: the wait has no end.
DrainTimeoutNever(s) == FALSE /\ UNCHANGED vars

\* ... but not for ever.
DrainTimeout(s) ==
  /\ handler[s] = "draining"
  /\ sender[s] # "done"
  /\ handler' = [handler EXCEPT ![s] = "returned"]
  /\ UNCHANGED <<registry, channel, sending, receiving, gone, push, done>>

-----------------------------------------------------------------------------
(* The send goroutine.                                                     *)

TakeAction(s) ==
  /\ sender[s] = "ready"
  /\ actions[s] # <<>>
  /\ taken' = [taken EXCEPT ![s] = Head(actions[s])]
  /\ actions' = [actions EXCEPT ![s] = Tail(@)]
  /\ sender' = [sender EXCEPT ![s] = "sending"]
  /\ UNCHANGED <<registry, open, handler, receiving, gone, push, done>>

\* A closed channel is emptied before the range over it ends.
SenderEnds(s) ==
  /\ sender[s] = "ready"
  /\ actions[s] = <<>>
  /\ ~open[s]
  /\ sender' = [sender EXCEPT ![s] = "done"]
  /\ UNCHANGED <<registry, channel, handler, taken, receiving, gone, push, done>>

SendOk(s) ==
  /\ sender[s] = "sending"
  /\ handler[s] # "returned"
  /\ sender' = [sender EXCEPT ![s] = "ready"]
  /\ UNCHANGED <<registry, channel, handler, taken, receiving, gone, push, done>>

\* An error, or after the handler has returned a panic, which is recovered.
SendFails(s) ==
  /\ sender[s] = "sending"
  /\ gone[s] \/ handler[s] = "returned"
  /\ sender' = [sender EXCEPT ![s] = "done"]
  /\ UNCHANGED <<registry, channel, handler, taken, receiving, gone, push, done>>

-----------------------------------------------------------------------------
(* The receive goroutine.                                                  *)

\* Receive returns a message, or an error once the peer or the handler is gone.
Receive(s) ==
  /\ receiver[s] = "receive"
  /\ \/ handler[s] # "returned" /\ receiver' = [receiver EXCEPT ![s] = "msg"]
     \/ /\ gone[s] \/ handler[s] = "returned"
        /\ receiver' = [receiver EXCEPT ![s] = "err"]
  /\ UNCHANGED <<registry, channel, handler, sending, recvCh, gone, push, done>>

Offer(s) ==
  /\ receiver[s] \in {"msg", "err"}
  /\ recvCh[s] = None
  /\ recvCh' = [recvCh EXCEPT ![s] = receiver[s]]
  /\ receiver' = [receiver EXCEPT ![s] = IF receiver[s] = "err"
                                           THEN "ended" ELSE "receive"]
  /\ UNCHANGED <<registry, channel, handler, sending, gone, push, done>>

\* handlerDone is closed: nobody will take it.
Abandon(s) ==
  /\ receiver[s] \in {"msg", "err"}
  /\ handler[s] \in {"leaving", "closing", "draining", "returned"}
  /\ receiver' = [receiver EXCEPT ![s] = "ended"]
  /\ UNCHANGED <<registry, channel, handler, sending, recvCh, gone, push, done>>

-----------------------------------------------------------------------------
(* SendAction, Shutdown and the peers.                                     *)

BeginPush(p) ==
  /\ push.pc = "idle"
  /\ push.action < MaxActions
  /\ push' = [pc |-> "loop", action |-> push.action + 1, platform |-> p,
               todo |-> clients]
  /\ UNCHANGED <<registry, channel, handler, sending, receiving, gone, done>>

\* A full channel loses the action; the other streams do not notice.
PushTo(s) ==
  /\ push.pc = "loop"
  /\ s \in push.todo
  /\ actions' = IF /\ platform[s] = push.platform
                   /\ Len(actions[s]) < SendBuffer
                  THEN [actions EXCEPT ![s] = Append(@, push.action)] ELSE actions
  /\ push' = [push EXCEPT !.todo = @ \ {s}]
  /\ UNCHANGED <<registry, open, handler, sending, receiving, gone, done>>

EndPush ==
  /\ push.pc = "loop"
  /\ push.todo = {}
  /\ push' = [push EXCEPT !.pc = "idle"]
  /\ UNCHANGED <<registry, channel, handler, sending, receiving, gone, done>>

Shutdown ==
  /\ ~done
  /\ done' = TRUE
  /\ UNCHANGED <<registry, channel, handler, sending, receiving, gone, push>>

Disconnect(s) ==
  /\ handler[s] \in {"serving", "leaving", "closing", "draining"}
  /\ ~gone[s]
  /\ gone' = [gone EXCEPT ![s] = TRUE]
  /\ UNCHANGED <<registry, channel, handler, sending, receiving, push, done>>

-----------------------------------------------------------------------------
Handler(s) == \/ \E p \in Platforms : Register(s, p)
              \/ Refuse(s)
              \/ Leave(s)
              \/ Consume(s)
              \/ Deregister(s)
              \/ CloseActions(s)
              \/ Drained(s)
              \/ DrainTimeout(s)

Sender(s) == TakeAction(s) \/ SenderEnds(s) \/ SendOk(s) \/ SendFails(s)

Receiver(s) == Receive(s) \/ Offer(s) \/ Abandon(s)

SendAction == \/ \E p \in Platforms : BeginPush(p)
              \/ \E s \in push.todo : PushTo(s)
              \/ EndPush

Next == \/ \E s \in Streams : Handler(s) \/ Sender(s) \/ Receiver(s) \/ Disconnect(s)
        \/ SendAction
        \/ Shutdown

Spec == Init /\ [][Next]_vars

-----------------------------------------------------------------------------
(* Safety.                                                                 *)

\* SendAction never meets a closed channel, which would panic the cron
\* goroutine: a stream is out of the registry, and no loop over the old
\* registry is under way, before its channel closes.
PushMeetsOpenChannels == \A s \in push.todo : open[s]

\* The registry is within its capacity and holds exactly the streams whose
\* handler has yet to deregister: no path out of the handler keeps its place.
RegistryIsExact ==
  /\ Cardinality(clients) <= MaxClients
  /\ clients = {s \in Streams : handler[s] \in {"serving", "leaving"}}

-----------------------------------------------------------------------------
(* Liveness.  Goroutines keep running, and a writer gets the mutex in the  *)
(* end though loops of SendAction keep taking it.  Sends to a peer that is *)
(* still there need never return.                                          *)

Fairness ==
  /\ \A s \in Streams :
       /\ WF_vars(Leave(s))
       /\ SF_vars(Deregister(s))
       /\ WF_vars(CloseActions(s))
       /\ WF_vars(Drained(s) \/ DrainTimeout(s))
       /\ WF_vars(TakeAction(s))
       /\ WF_vars(SenderEnds(s))
       /\ WF_vars(SendFails(s))
       /\ WF_vars(Receive(s))
       /\ WF_vars(Offer(s) \/ Abandon(s))
       /\ WF_vars(PushTo(s))
  /\ WF_vars(EndPush)

FairSpec == Spec /\ Fairness

\* A stream whose peer is gone, and every stream once Shutdown was called, ends:
\* its handler returns, a peer that never reads notwithstanding, and leaves no
\* goroutine behind.
StreamsEnd ==
  \A s \in Streams :
    /\ (handler[s] = "serving" /\ (done \/ gone[s])) ~> (handler[s] = "returned")
    /\ (handler[s] = "returned") ~> (sender[s] = "done" /\ receiver[s] = "ended")
=============================================================================
