--------------------------- MODULE TransportProofs ---------------------------
(***************************************************************************)
(* What is proved of the boundary between the clients and the server.      *)
(*                                                                         *)
(* Of the server's action streams, for any number of streams, platforms    *)
(* and actions: the types, that SendAction never sends on a closed         *)
(* channel, and that the registry holds exactly the streams that are being *)
(* served, within its capacity.                                            *)
(*                                                                         *)
(* Of a unary call, for any users, clearances, requests, deadlines and     *)
(* backoffs: the types, and that it writes once at most and only what its  *)
(* user could.                                                             *)
(***************************************************************************)
EXTENDS ReverseStream, Calls, TLAPS, FiniteSetTheorems

\* A channel is open from register until deregister has closed it.
OpenWhileServed ==
  \A s \in Streams : handler[s] \in {"serving", "leaving", "closing"} => open[s]

\* While SendAction walks the registry nobody enters or leaves it.
WalksRegistry ==
  /\ push.todo \subseteq clients
  /\ push.pc = "idle" => push.todo = {}

StreamInv ==
  /\ TypeOK
  /\ IsFiniteSet(clients)
  /\ RegistryIsExact
  /\ OpenWhileServed
  /\ WalksRegistry

-----------------------------------------------------------------------------
\* No stream, and nothing under way, is a good start.
LEMMA Starts == Init => StreamInv
<1> SUFFICES ASSUME Init PROVE StreamInv
  OBVIOUS
<1>1. TypeOK
  <2>1. <<>> \in Seq(Action) /\ Len(<<>>) <= SendBuffer
    BY CapacityAssumption
  <2>2. /\ actions \in [Streams -> Seq(Action)]
        /\ \A s \in Streams : Len(actions[s]) <= SendBuffer
    BY <2>1 DEF Init
  <2>3. push \in [pc : {"idle", "loop"}, action : Nat,
                  platform : Platforms \cup {None}, todo : SUBSET Streams]
    BY DEF Init
  <2> QED
    BY <2>2, <2>3 DEF Init, TypeOK, HandlerState
<1>2. IsFiniteSet(clients) /\ Cardinality(clients) = 0
  BY FS_EmptySet DEF Init
<1>3. RegistryIsExact
  BY <1>2, CapacityAssumption DEF Init, RegistryIsExact
<1> QED
  BY <1>1, <1>2, <1>3 DEF Init, StreamInv, OpenWhileServed, WalksRegistry

-----------------------------------------------------------------------------
(* Types.                                                                  *)

\* Each step of a handler keeps the types.
LEMMA HandlerTyped ==
  ASSUME TypeOK, NEW s \in Streams, Handler(s)
  PROVE  TypeOK'
<1> USE DEF TypeOK, HandlerState
<1>1. ASSUME NEW p \in Platforms, Register(s, p) PROVE TypeOK'
  BY <1>1 DEF Register
<1>2. CASE Refuse(s)
  BY <1>2 DEF Refuse, registry, channel, sending, receiving
<1>3. CASE Leave(s)
  BY <1>3 DEF Leave, registry, channel, sending, receiving
<1>4. CASE Consume(s)
  BY <1>4 DEF Consume, registry, channel, sending
<1>5. CASE Deregister(s)
  BY <1>5 DEF Deregister, channel, sending, receiving
<1>6. CASE CloseActions(s)
  BY <1>6 DEF CloseActions, registry, sending, receiving
<1>7. CASE Drained(s)
  BY <1>7 DEF Drained, registry, channel, sending, receiving
<1>8. CASE DrainTimeout(s)
  BY <1>8 DEF DrainTimeout, registry, channel, sending, receiving
<1> QED
  BY <1>1, <1>2, <1>3, <1>4, <1>5, <1>6, <1>7, <1>8 DEF Handler

\* Each step of a send goroutine keeps the types.
LEMMA SenderTyped ==
  ASSUME TypeOK, NEW s \in Streams, Sender(s)
  PROVE  TypeOK'
<1> USE DEF TypeOK
<1>1. CASE TakeAction(s)
  <2>1. /\ Head(actions[s]) \in Action /\ Tail(actions[s]) \in Seq(Action)
        /\ Len(Tail(actions[s])) <= SendBuffer
    BY <1>1, CapacityAssumption DEF TakeAction
  <2>2. /\ actions' \in [Streams -> Seq(Action)]
        /\ \A q \in Streams : Len(actions'[q]) <= SendBuffer
    BY <1>1, <2>1 DEF TakeAction
  <2>3. taken' \in [Streams -> Nat]
    BY <1>1, <2>1, ActionsAssumption DEF TakeAction, Action
  <2>4. sender' \in [Streams -> {"none", "ready", "sending", "done"}]
    BY <1>1 DEF TakeAction
  <2> QED
    BY <1>1, <2>2, <2>3, <2>4 DEF TakeAction, registry, receiving
<1>2. CASE SenderEnds(s)
  BY <1>2 DEF SenderEnds, registry, channel, receiving
<1>3. CASE SendOk(s)
  BY <1>3 DEF SendOk, registry, channel, receiving
<1>4. CASE SendFails(s)
  BY <1>4 DEF SendFails, registry, channel, receiving
<1> QED
  BY <1>1, <1>2, <1>3, <1>4 DEF Sender

\* Each step of a receive goroutine keeps the types.
LEMMA ReceiverTyped ==
  ASSUME TypeOK, NEW s \in Streams, Receiver(s)
  PROVE  TypeOK'
<1> USE DEF TypeOK
<1>1. CASE Receive(s)
  BY <1>1 DEF Receive, registry, channel, sending
<1>2. CASE Offer(s)
  BY <1>2 DEF Offer, registry, channel, sending
<1>3. CASE Abandon(s)
  BY <1>3 DEF Abandon, registry, channel, sending
<1> QED
  BY <1>1, <1>2, <1>3 DEF Receiver

\* Each step of SendAction, Shutdown and the peers keeps the types.
LEMMA OthersTyped ==
  ASSUME TypeOK, SendAction \/ Shutdown \/ \E s \in Streams : Disconnect(s)
  PROVE  TypeOK'
<1> USE DEF TypeOK
<1>1. ASSUME NEW p \in Platforms, BeginPush(p) PROVE TypeOK'
  <2>1. push.action + 1 \in Nat /\ push.action + 1 \in Action
    BY <1>1, ActionsAssumption DEF BeginPush, Action
  <2>2. push' = [pc |-> "loop", action |-> push.action + 1, platform |-> p,
                 todo |-> clients]
    BY <1>1 DEF BeginPush
  <2>3. /\ push' \in [pc : {"idle", "loop"}, action : Nat,
                      platform : Platforms \cup {None}, todo : SUBSET Streams]
        /\ push'.action \in Action
    BY <2>1, <2>2
  <2> QED
    BY <1>1, <2>3 DEF BeginPush, registry, channel, sending, receiving
<1>2. ASSUME NEW s \in push.todo, PushTo(s) PROVE TypeOK'
  <2>1. s \in Streams
    BY <1>2
  <2>2. push' = [push EXCEPT !.todo = @ \ {s}]
    BY <1>2 DEF PushTo
  <2>3. /\ push' \in [pc : {"idle", "loop"}, action : Nat,
                      platform : Platforms \cup {None}, todo : SUBSET Streams]
        /\ push'.action \in Action
    BY <1>2, <2>2 DEF PushTo
  <2>4. /\ actions' \in [Streams -> Seq(Action)]
        /\ \A q \in Streams : Len(actions'[q]) <= SendBuffer
    <3>1. CASE UNCHANGED actions
      BY <3>1
    <3>2. CASE /\ Len(actions[s]) < SendBuffer
               /\ actions' = [actions EXCEPT ![s] = Append(@, push.action)]
      <4>1. push.action \in Action
        BY <1>2 DEF PushTo
      <4>2. /\ Append(actions[s], push.action) \in Seq(Action)
            /\ Len(Append(actions[s], push.action)) = Len(actions[s]) + 1
        BY <2>1, <4>1
      <4>3. Len(actions[s]) + 1 <= SendBuffer
        BY <2>1, <3>2, CapacityAssumption
      <4> QED
        BY <2>1, <3>2, <4>2, <4>3
    <3> QED
      BY <1>2, <3>1, <3>2 DEF PushTo
  <2> QED
    BY <1>2, <2>2, <2>3, <2>4 DEF PushTo, registry, sending, receiving
<1>3. CASE EndPush
  BY <1>3 DEF EndPush, registry, channel, sending, receiving
<1>4. CASE Shutdown
  BY <1>4 DEF Shutdown, registry, channel, sending, receiving
<1>5. ASSUME NEW s \in Streams, Disconnect(s) PROVE TypeOK'
  BY <1>5 DEF Disconnect, registry, channel, sending, receiving
<1> QED
  BY <1>1, <1>2, <1>3, <1>4, <1>5 DEF SendAction
-----------------------------------------------------------------------------
(* The registry.                                                           *)

\* Entering the registry: one more, and it was below its capacity.
LEMMA RegisterKeeps ==
  ASSUME StreamInv, TypeOK', NEW s \in Streams, NEW p \in Platforms,
         Register(s, p)
  PROVE  StreamInv'
<1>1. /\ clients' = clients \cup {s}  /\ s \notin clients
      /\ Cardinality(clients) < MaxClients
  BY DEF Register, StreamInv, RegistryIsExact
<1>2. /\ IsFiniteSet(clients \cup {s})
      /\ Cardinality(clients \cup {s}) = Cardinality(clients) + 1
  BY <1>1, FS_AddElement DEF StreamInv
<1>3. Cardinality(clients) \in Nat
  BY FS_CardinalityType DEF StreamInv
<1>4. Cardinality(clients \cup {s}) <= MaxClients
  BY <1>1, <1>2, <1>3, CapacityAssumption
<1>5. IsFiniteSet(clients') /\ Cardinality(clients') <= MaxClients
  BY <1>1, <1>2, <1>4
<1>6. clients' = {q \in Streams : handler'[q] \in {"serving", "leaving"}}
  BY <1>1 DEF Register, StreamInv, RegistryIsExact, TypeOK
<1>7. OpenWhileServed'
  BY DEF Register, StreamInv, OpenWhileServed, TypeOK
<1>8. WalksRegistry'
  BY <1>1 DEF Register, StreamInv, WalksRegistry
<1> QED
  BY <1>5, <1>6, <1>7, <1>8 DEF StreamInv, RegistryIsExact

\* Leaving it: nobody walks the registry, and the channel stays open.
LEMMA DeregisterKeeps ==
  ASSUME StreamInv, TypeOK', NEW s \in Streams, Deregister(s)
  PROVE  StreamInv'
<1>1. clients' = clients \ {s}
  BY DEF Deregister
<1>2. IsFiniteSet(clients \ {s}) /\ Cardinality(clients \ {s}) <= Cardinality(clients)
  BY FS_Subset DEF StreamInv
<1>3. Cardinality(clients) \in Nat /\ Cardinality(clients \ {s}) \in Nat
  BY <1>2, FS_CardinalityType DEF StreamInv
<1>4. Cardinality(clients \ {s}) <= MaxClients
  BY <1>2, <1>3, CapacityAssumption DEF StreamInv, RegistryIsExact
<1>5. IsFiniteSet(clients') /\ Cardinality(clients') <= MaxClients
  BY <1>1, <1>2, <1>4
<1>6. clients' = {q \in Streams : handler'[q] \in {"serving", "leaving"}}
  BY <1>1 DEF Deregister, StreamInv, RegistryIsExact, TypeOK
<1>7. OpenWhileServed'
  BY DEF Deregister, channel, StreamInv, OpenWhileServed, TypeOK
<1>8. WalksRegistry'
  BY <1>1 DEF Deregister, WriteLockFree, StreamInv, WalksRegistry
<1> QED
  BY <1>5, <1>6, <1>7, <1>8 DEF StreamInv, RegistryIsExact

\* A step that leaves the registry alone keeps the rest if every handler stays
\* on its side of deregister, and a channel closes only behind "closing".
LEMMA OthersKeep ==
  ASSUME StreamInv, TypeOK', UNCHANGED clients,
         \A q \in Streams :
           /\ handler'[q] \in {"serving", "leaving"}
                <=> handler[q] \in {"serving", "leaving"}
           /\ handler'[q] = "closing" => handler[q] = "closing"
           /\ handler'[q] \in {"serving", "leaving", "closing"} =>
                open'[q] = open[q],
         WalksRegistry'
  PROVE  StreamInv'
<1>1. clients' = {q \in Streams : handler'[q] \in {"serving", "leaving"}}
  BY DEF StreamInv, RegistryIsExact
<1>2. IsFiniteSet(clients') /\ Cardinality(clients') <= MaxClients
  BY DEF StreamInv, RegistryIsExact
<1>3. OpenWhileServed'
  BY DEF StreamInv, OpenWhileServed
<1> QED
  BY <1>1, <1>2, <1>3 DEF StreamInv, RegistryIsExact

-----------------------------------------------------------------------------
(* Every step.                                                             *)

\* The types are kept by every step.
LEMMA TypesKept ==
  ASSUME TypeOK, [Next]_vars
  PROVE  TypeOK'
<1>1. CASE UNCHANGED vars
  BY <1>1 DEF TypeOK, vars, registry, channel, sending, receiving
<1>2. CASE Next
  BY <1>2, HandlerTyped, SenderTyped, ReceiverTyped, OthersTyped DEF Next
<1> QED
  BY <1>1, <1>2

\* A handler's steps keep the invariant.
LEMMA HandlerKeeps ==
  ASSUME StreamInv, NEW s \in Streams, Handler(s)
  PROVE  StreamInv'
<1>0. TypeOK /\ TypeOK'
  BY HandlerTyped DEF StreamInv
<1>1. ASSUME NEW p \in Platforms, Register(s, p) PROVE StreamInv'
  BY <1>0, <1>1, RegisterKeeps
<1>2. CASE Deregister(s)
  BY <1>0, <1>2, DeregisterKeeps
<1>3. CASE \/ Refuse(s) \/ Leave(s) \/ Consume(s) \/ CloseActions(s)
           \/ Drained(s) \/ DrainTimeout(s)
  <2>1. UNCHANGED <<clients, push>>
    BY <1>3 DEF Refuse, Leave, Consume, CloseActions, Drained, DrainTimeout, registry
  <2>2. \A q \in Streams :
           /\ handler'[q] \in {"serving", "leaving"}
                <=> handler[q] \in {"serving", "leaving"}
           /\ handler'[q] = "closing" => handler[q] = "closing"
           /\ handler'[q] \in {"serving", "leaving", "closing"} =>
                open'[q] = open[q]
    BY <1>0, <1>3 DEF Refuse, Leave, Consume, CloseActions, Drained, DrainTimeout,
                      channel, TypeOK
  <2>3. WalksRegistry'
    BY <2>1 DEF StreamInv, WalksRegistry
  <2> QED
    BY <1>0, <2>1, <2>2, <2>3, OthersKeep
<1> QED
  BY <1>1, <1>2, <1>3 DEF Handler

\* The goroutines of a stream touch neither the registry nor what closes.
LEMMA GoroutinesKeep ==
  ASSUME StreamInv, NEW s \in Streams,
         Sender(s) \/ Receiver(s) \/ Disconnect(s)
  PROVE  StreamInv'
<1>0. TypeOK'
  BY SenderTyped, ReceiverTyped, OthersTyped DEF StreamInv
<1>1. UNCHANGED <<clients, handler, open, push>>
  BY DEF Sender, TakeAction, SenderEnds, SendOk, SendFails, Receiver, Receive, Offer,
         Abandon, Disconnect, registry, channel
<1>2. WalksRegistry'
  BY <1>1 DEF StreamInv, WalksRegistry
<1> QED
  BY <1>0, <1>1, <1>2, OthersKeep

\* SendAction takes the registry as it is, and walks no further than it.
LEMMA PushKeeps ==
  ASSUME StreamInv, SendAction \/ Shutdown
  PROVE  StreamInv'
<1>0. TypeOK'
  BY OthersTyped DEF StreamInv
<1>1. UNCHANGED <<clients, handler, open>>
  BY DEF SendAction, BeginPush, PushTo, EndPush, Shutdown, registry, channel
<1>2. WalksRegistry'
  <2>1. CASE \E p \in Platforms : BeginPush(p)
    BY <1>1, <2>1 DEF BeginPush, WalksRegistry
  <2>2. ASSUME NEW s \in push.todo, PushTo(s) PROVE WalksRegistry'
    <3>1. push'.todo = push.todo \ {s} /\ push'.pc = "loop"
      BY <2>2 DEF PushTo, StreamInv, TypeOK
    <3> QED
      BY <1>1, <3>1 DEF StreamInv, WalksRegistry
  <2>3. CASE EndPush
    <3>1. push'.todo = {}
      BY <2>3 DEF EndPush, StreamInv, TypeOK
    <3> QED
      BY <3>1 DEF WalksRegistry
  <2>4. CASE Shutdown
    BY <1>1, <2>4 DEF Shutdown, StreamInv, WalksRegistry
  <2> QED
    BY <2>1, <2>2, <2>3, <2>4 DEF SendAction
<1> QED
  BY <1>0, <1>1, <1>2, OthersKeep

\* The invariant is inductive.
LEMMA StreamInvInductive == StreamInv /\ [Next]_vars => StreamInv'
<1> SUFFICES ASSUME StreamInv, [Next]_vars PROVE StreamInv'
  OBVIOUS
<1>1. CASE UNCHANGED vars
  BY <1>1 DEF StreamInv, TypeOK, RegistryIsExact, OpenWhileServed, WalksRegistry,
              vars, registry, channel, sending, receiving
<1>2. CASE Next
  BY <1>2, HandlerKeeps, GoroutinesKeep, PushKeeps DEF Next
<1> QED
  BY <1>1, <1>2

-----------------------------------------------------------------------------
\* The registry, the channels, the goroutines and SendAction keep their types.
THEOREM StreamTypeCorrect == Spec => []TypeOK
<1>1. Init => TypeOK
  BY Starts DEF StreamInv
<1>2. TypeOK /\ [Next]_vars => TypeOK'
  BY TypesKept
<1> QED
  BY <1>1, <1>2, PTL DEF Spec

\* However streams come and go while SendAction runs, it never sends on a channel
\* that has been closed.
THEOREM PushCorrect == Spec => []PushMeetsOpenChannels
<1>1. StreamInv => PushMeetsOpenChannels
  BY DEF StreamInv, TypeOK, WalksRegistry, RegistryIsExact, OpenWhileServed,
         PushMeetsOpenChannels
<1> QED
  BY <1>1, Starts, StreamInvInductive, PTL DEF Spec

\* The registry never exceeds its capacity, and no way out of a handler leaves an
\* entry behind.
THEOREM RegistryCorrect == Spec => []RegistryIsExact
<1>1. StreamInv => RegistryIsExact
  BY DEF StreamInv
<1> QED
  BY <1>1, Starts, StreamInvInductive, PTL DEF Spec

-----------------------------------------------------------------------------
(* Unary calls.                                                            *)

\* The procedures whose handler writes something.
Writing == WritesElsewhere \cup Preferences
             \cup {"Register", "CreateInstance", "CreateActionRecord"}

Procedure == call.request.procedure

\* Before it is invoked a call has left no trace.
AtRest ==
  call.pc = "idle" => /\ serving = {} /\ written = {} /\ shown = {} /\ held = {}
                      /\ call.retries = 0 /\ call.answer = "none"

\* What may not be retried is tried once; a retry that is waited for is allowed
\* and in time.
TriesInv ==
  /\ call.pc # "idle" => call.request \in Requests
  /\ ~MayRetry(Procedure) => call.retries = 0
  /\ call.pc = "waiting" => WorthRetrying

\* What the caller has now it has had during the call.
HeldInv == call.pc # "idle" => Has(account[Caller]) \subseteq held

\* Whoever passed the chain had, when it was looked up, what the procedure asks for.
IsCleared(a) ==
  a.at = "cleared" /\ Procedure \in DOMAIN Minimum
    => a.caller \in held /\ a.caller >= Minimum[Procedure]

\* What an attempt says it wrote is written.
IsTrue(answer) == answer = "ok" /\ Procedure \in Writing => written # {}

ServingInv ==
  /\ \A a \in serving : a.n <= call.retries /\ IsCleared(a) /\ IsTrue(a.answer)
  /\ IsTrue(call.answer)

\* Whatever is written is the call's own, by one of its tries.
WrittenInv ==
  \A w \in written : /\ w.procedure = Procedure
                     /\ w.procedure \in Writing
                     /\ w.attempt <= call.retries

AuthorisedInv ==
  /\ \A w \in written :
       /\ w.procedure \in Reconfigures => AtLeast(Administrator)
       /\ w.procedure # "Register" => AtLeast(Registered)
  /\ shown \ {Caller} # {} => AtLeast(Moderator)

CallInv ==
  /\ CallTypeOK
  /\ AtRest
  /\ TriesInv
  /\ HeldInv
  /\ ServingInv
  /\ WrittenInv
  /\ AuthorisedInv

-----------------------------------------------------------------------------
\* Nothing that writes is retried.
LEMMA WritersAreTriedOnce == \A p \in Writing : ~MayRetry(p)
  BY DEF Writing, WritesElsewhere, Preferences, MayRetry, Retryable

\* What a writing procedure other than Register asks of its caller.
LEMMA WritersAreGuarded ==
  \A p \in Writing :
    p # "Register" =>
      /\ p \in DOMAIN Minimum
      /\ Minimum[p] \in Nat
      /\ Minimum[p] >= Registered
      /\ p \in Reconfigures => Minimum[p] >= Administrator
<1> SUFFICES ASSUME NEW p \in Writing, p # "Register"
             PROVE  /\ p \in DOMAIN Minimum
                    /\ Minimum[p] \in Nat
                    /\ Minimum[p] >= Registered
                    /\ p \in Reconfigures => Minimum[p] >= Administrator
  OBVIOUS
<1>1. p \in (Mounted \ Public) \cup {"SetDiscordActivityType"}
  BY DEF Writing, WritesElsewhere, Preferences, Mounted, Public
<1>2. p \notin {"UpdateInstance", "DeleteInstance", "SetDiscordActivityType"}
  BY DEF Writing, WritesElsewhere, Preferences
<1>3. p \in DOMAIN Minimum
  BY <1>1 DEF Minimum
<1>4. Minimum[p] = IF p = "CreateInstance" THEN Administrator ELSE Registered
  BY <1>1, <1>2 DEF Minimum
<1> QED
  BY <1>2, <1>3, <1>4 DEF Administrator, Registered, Reconfigures

LEMMA ReaderIsGuarded == "GetUser" \in DOMAIN Minimum
  BY DEF Minimum, Mounted, Public

LEMMA CallStarts == CallInit => CallInv
<1> SUFFICES ASSUME CallInit PROVE CallInv
  OBVIOUS
<1>1. account \in [Users -> [state : AccountStates, clearance : Nat]]
  <2>1. PICK rows \in SUBSET [state : AccountStates, clearance : Nat] : account \in [Users -> rows]
    <3>1. {[state |-> "absent", clearance |-> 0], [state |-> "deleted", clearance |-> Registered]}
            \cup {[state |-> "live", clearance |-> c] : c \in Clearances}
              \in SUBSET [state : AccountStates, clearance : Nat]
      BY ChangesAssumption DEF AccountStates, Registered
    <3> QED
      BY <3>1 DEF CallInit
  <2> QED
    BY <2>1
<1>2. call \in CallState
  <2>1. Len(Backoffs) \in Nat
    BY TimeoutAssumption
  <2> QED
    BY <2>1 DEF CallInit, CallState, Codes
<1>3. CallTypeOK
  BY <1>1, <1>2 DEF CallInit, CallTypeOK
<1> QED
  BY <1>3 DEF CallInit, CallInv, AtRest, TriesInv, HeldInv, ServingInv, WrittenInv,
    AuthorisedInv, IsTrue, WorthRetrying

-----------------------------------------------------------------------------
(* The server.  What a step of an attempt may do.                          *)

Accounts == [Users -> [state : AccountStates, clearance : Nat]]

\* It leaves the attempt with an answer, or cleared, or drops it.
Leaves(a, b) == /\ serving' \subseteq serving \cup {b}
                /\ b.n = a.n
                /\ IsCleared(b)
                /\ b.answer = "ok" /\ Procedure \in Writing => written' # {}

ServerStep(a) ==
  /\ UNCHANGED <<changes, call>>
  /\ account' \in Accounts
  /\ held \subseteq held' /\ held' \subseteq Nat
  /\ Has(account'[Caller]) \subseteq held'
  /\ \/ UNCHANGED written
     \/ Runs(a, Writing) /\ Writes(a)
  /\ \/ UNCHANGED shown
     \/ \E u \in Users : /\ shown' = shown \cup {u}
                        /\ \/ u = Caller
                           \/ Runs(a, {"GetUser"}) /\ a.caller >= Moderator
  /\ \E b \in Serving : Leaves(a, b)

\* Whoever is served has called.
LEMMA ServedHasCalled ==
  ASSUME CallInv, NEW a \in serving
  PROVE  /\ call.pc # "idle" /\ call.request \in Request /\ Caller \in Users
         /\ a \in Serving /\ Procedure \in Procedures
<1>1. call.pc # "idle"
  BY DEF CallInv, AtRest
<1>2. call.request \in Request
  BY <1>1, RequestsAssumption DEF CallInv, TriesInv
<1> QED
  BY <1>1, <1>2 DEF CallInv, CallTypeOK, Request, Caller, Procedure

LEMMA AnswerLeaves ==
  ASSUME CallInv, NEW a \in serving, NEW answer \in Codes, Answer(a, answer),
         answer = "ok" /\ Procedure \in Writing => written' # {}
  PROVE  \E b \in Serving : Leaves(a, b)
<1>1. a \in Serving
  BY ServedHasCalled
<1> DEFINE b == [a EXCEPT !.at = "answered", !.answer = answer]
<1>2. b \in Serving /\ b.n = a.n /\ b.at = "answered" /\ b.answer = answer
  BY <1>1 DEF Serving
<1>3. serving' \subseteq serving \cup {b}
  BY DEF Answer
<1> QED
  BY <1>2, <1>3 DEF Leaves, IsCleared

\* A handler that answers and changes nothing.
LEMMA ReplySteps ==
  ASSUME CallInv, NEW a \in serving, NEW answer \in Codes, Reply(a, answer),
         answer # "ok" \/ Procedure \notin Writing
  PROVE  ServerStep(a)
<1>1. \E b \in Serving : Leaves(a, b)
  BY AnswerLeaves DEF Reply
<1>2. account \in Accounts /\ held \subseteq Nat /\ Has(account[Caller]) \subseteq held
  BY ServedHasCalled DEF CallInv, CallTypeOK, HeldInv, Accounts
<1> QED
  BY <1>1, <1>2 DEF Reply, ServerStep

\* One that writes and answers.
LEMMA WriteSteps ==
  ASSUME CallInv, NEW a \in serving, Runs(a, Writing), WriteAndReply(a)
  PROVE  ServerStep(a)
<1>1. PICK answer \in {"ok", "internal"} : Answer(a, answer)
  BY DEF WriteAndReply
<1>2. answer \in Codes
  BY DEF Codes
<1>3. Writes(a) /\ written' # {}
  BY DEF WriteAndReply, Writes
<1>4. \E b \in Serving : Leaves(a, b)
  BY <1>1, <1>2, <1>3, AnswerLeaves
<1>5. account \in Accounts /\ held \subseteq Nat /\ Has(account[Caller]) \subseteq held
  BY ServedHasCalled DEF CallInv, CallTypeOK, HeldInv, Accounts
<1> QED
  BY <1>3, <1>4, <1>5 DEF WriteAndReply, ServerStep

LEMMA CreateSteps ==
  ASSUME CallInv, NEW a \in serving, Runs(a, Writing), Create(a)
  PROVE  ServerStep(a)
<1>1. PICK answer \in {"ok", "internal"} : Answer(a, answer)
  BY DEF Create
<1>2. answer \in Codes
  BY DEF Codes
<1>3. Writes(a) /\ written' # {}
  BY DEF Create, Writes
<1>4. \E b \in Serving : Leaves(a, b)
  BY <1>1, <1>2, <1>3, AnswerLeaves
<1>5. account \in Accounts /\ held \subseteq Nat /\ Caller \in Users
  BY ServedHasCalled DEF CallInv, CallTypeOK, Accounts
<1>6. account' \in Accounts
  <2>1. [state |-> "live", clearance |-> Registered] \in [state : AccountStates, clearance : Nat]
    BY DEF AccountStates, Registered
  <2> QED
    BY <1>5, <2>1 DEF Create, Accounts
<1>7. Has(account'[Caller]) \subseteq held'
  <2>1. account'[Caller] = [state |-> "live", clearance |-> Registered]
    BY <1>5 DEF Create, Accounts
  <2> QED
    BY <2>1 DEF Has, Create
<1>8. held \subseteq held' /\ held' \subseteq Nat
  BY <1>5 DEF Create, Registered
<1> QED
  BY <1>3, <1>4, <1>6, <1>7, <1>8 DEF Create, ServerStep

LEMMA RefusalCoded ==
  ASSUME NEW request, NEW row PROVE Refusal(request, row) \in Codes \ {"ok"}
  BY DEF Refusal, Codes

LEMMA InterceptSteps ==
  ASSUME CallInv, NEW a \in serving, Intercept(a) PROVE ServerStep(a)
<1>1. /\ a \in Serving /\ Caller \in Users /\ account \in Accounts /\ held \subseteq Nat
      /\ Has(account[Caller]) \subseteq held
      /\ call.request \in Request
  BY ServedHasCalled DEF CallInv, CallTypeOK, HeldInv, Accounts
<1> DEFINE row == account[Caller]
           refusal == Refusal(call.request, row)
<1>2. CASE refusal # "none"
  <2>1. refusal \in Codes \ {"ok"}
    BY RefusalCoded
  <2>2. Reply(a, refusal)
    BY <1>2 DEF Intercept, Reply
  <2> HIDE DEF refusal
  <2> QED
    BY <2>1, <2>2, ReplySteps
<1>3. CASE refusal = "none"
  <2> DEFINE b == [a EXCEPT !.at = "cleared", !.caller = row.clearance]
  <2>1. row \in [state : AccountStates, clearance : Nat]
    BY <1>1 DEF Accounts
  <2>2. b \in Serving /\ b.n = a.n /\ b.caller = row.clearance /\ b.answer = a.answer
    BY <1>1, <2>1 DEF Serving
  <2>3. serving' \subseteq serving \cup {b}
    BY <1>3 DEF Intercept
  <2>4. Procedure \in DOMAIN Minimum =>
          row.state = "live" /\ ~(row.clearance < Minimum[Procedure])
    BY <1>3 DEF Refusal, Procedure
  <2>5. Procedure \in DOMAIN Minimum => Minimum[Procedure] \in Nat
    BY DEF Minimum, Administrator, Registered
  <2>6. IsCleared(b)
    <3>1. row.state = "live" => row.clearance \in held
      BY <1>1 DEF Has
    <3> QED
      BY <2>1, <2>2, <2>4, <2>5, <3>1 DEF IsCleared
  <2>7. b.answer = "ok" /\ Procedure \in Writing => written # {}
    BY <2>2 DEF CallInv, ServingInv, IsTrue
  <2>8. UNCHANGED <<account, changes, call, written, shown, held>>
    BY DEF Intercept
  <2>9. Leaves(a, b)
    BY <2>2, <2>3, <2>6, <2>7, <2>8 DEF Leaves
  <2> HIDE DEF b
  <2> QED
    BY <1>1, <2>2, <2>8, <2>9 DEF ServerStep
<1> QED
  BY <1>2, <1>3

LEMMA BreakSteps ==
  ASSUME CallInv, NEW a \in serving, Breaks(a) PROVE ServerStep(a)
<1>1. Reply(a, "internal") /\ "internal" \in Codes
  BY DEF Breaks, Reply, Codes
<1> QED
  BY <1>1, ReplySteps

LEMMA RegisterSteps ==
  ASSUME CallInv, NEW a \in serving, HandleRegister(a) PROVE ServerStep(a)
<1>1. Runs(a, Writing)
  BY DEF HandleRegister, Runs, Writing
<1>2. CASE \E answer \in {"invalid_argument", "already_exists"} : Reply(a, answer)
  BY <1>2, ReplySteps DEF Codes
<1>3. CASE Create(a)
  BY <1>1, <1>3, CreateSteps
<1> QED
  BY <1>2, <1>3 DEF HandleRegister

LEMMA GetUserSteps ==
  ASSUME CallInv, NEW a \in serving, HandleGetUser(a) PROVE ServerStep(a)
<1>1. /\ a \in Serving /\ Caller \in Users /\ account \in Accounts /\ held \subseteq Nat
      /\ Has(account[Caller]) \subseteq held
      /\ call.request \in Request
  BY ServedHasCalled DEF CallInv, CallTypeOK, HeldInv, Accounts
<1>2. Runs(a, {"GetUser"}) /\ Procedure = "GetUser"
  BY DEF HandleGetUser, Runs, Procedure
<1>3. Procedure \notin Writing
  BY <1>2 DEF Writing, WritesElsewhere, Preferences
<1>4. CASE \E answer \in {"permission_denied", "not_found"} : Reply(a, answer)
  BY <1>3, <1>4, ReplySteps DEF Codes
<1>5. ASSUME NEW u \in Users, u # Caller => a.caller >= Moderator,
             shown' = shown \cup {u}, Answer(a, "ok"),
             UNCHANGED <<account, changes, call, written, held>>
      PROVE  ServerStep(a)
  <2>1. "ok" \in Codes
    BY DEF Codes
  <2>2. \E b \in Serving : Leaves(a, b)
    BY <1>3, <1>5, <2>1, AnswerLeaves
  <2> QED
    BY <1>1, <1>2, <1>5, <2>2 DEF ServerStep
<1> DEFINE named == call.request.named
<1>6. CASE named \in {Unset, Caller}
  BY <1>1, <1>5, <1>6 DEF HandleGetUser
<1>7. CASE named \notin {Unset, Caller} /\ a.caller < Moderator
  BY <1>4, <1>7 DEF HandleGetUser
<1>8. CASE named \notin {Unset, Caller} /\ ~(a.caller < Moderator)
  <2>1. named \in Users /\ a.caller >= Moderator
    BY <1>1, <1>8 DEF Request, Serving, Moderator
  <2>2. \/ Reply(a, "not_found")
        \/ /\ shown' = shown \cup {named} /\ Answer(a, "ok")
           /\ UNCHANGED <<account, changes, call, written, held>>
    BY <1>8 DEF HandleGetUser
  <2> QED
    BY <1>4, <1>5, <2>1, <2>2
<1> QED
  BY <1>6, <1>7, <1>8

LEMMA PreferenceSteps ==
  ASSUME CallInv, NEW a \in serving, HandlePreference(a) PROVE ServerStep(a)
<1>1. Runs(a, Writing)
  BY DEF HandlePreference, Runs, Writing
<1>2. CASE \E answer \in {"invalid_argument", "not_found"} : Reply(a, answer)
  BY <1>2, ReplySteps DEF Codes
<1>3. CASE WriteAndReply(a)
  BY <1>1, <1>3, WriteSteps
<1> QED
  BY <1>2, <1>3 DEF HandlePreference

LEMMA CreationSteps ==
  ASSUME CallInv, NEW a \in serving, HandleCreate(a) PROVE ServerStep(a)
<1>1. Runs(a, Writing)
  BY DEF HandleCreate, Runs, Writing
<1>2. CASE Reply(a, "invalid_argument")
  BY <1>2, ReplySteps DEF Codes
<1>3. CASE WriteAndReply(a)
  BY <1>1, <1>3, WriteSteps
<1> QED
  BY <1>2, <1>3 DEF HandleCreate

\* The handlers that write nothing, whatever they answer.
LEMMA ReadingSteps ==
  ASSUME CallInv, NEW a \in serving,
         \/ HandleGetInstance(a) \/ HandleStub(a) \/ HandleProbe(a) \/ HandleRandom(a)
         \/ Runs(a, ReadsElsewhere) /\ Reply(a, "ok")
  PROVE  ServerStep(a)
<1>1. PICK answer \in Codes : Reply(a, answer)
  <2>1. {"ok", "not_found", "invalid_argument", "unimplemented"} \subseteq Codes
    BY DEF Codes
  <2> QED
    BY <2>1 DEF HandleGetInstance, HandleStub, HandleProbe, HandleRandom
<1>2. Procedure \in {"GetInstance", "HealthCheck", "Ping", "GetRandomNumber"}
                      \cup Stubs \cup ReadsElsewhere
  BY DEF HandleGetInstance, HandleStub, HandleProbe, HandleRandom, Runs, Procedure
<1>3. Procedure \notin Writing
  BY <1>2 DEF Writing, WritesElsewhere, Preferences, Stubs, ReadsElsewhere
<1> QED
  BY <1>1, <1>3, ReplySteps

LEMMA ServerSteps ==
  ASSUME CallInv, NEW a \in serving, Intercept(a) \/ Breaks(a) \/ Handle(a)
  PROVE  ServerStep(a)
<1>1. CASE Runs(a, WritesElsewhere) /\ WriteAndReply(a)
  <2>1. Runs(a, Writing)
    BY <1>1 DEF Runs, Writing
  <2> QED
    BY <1>1, <2>1, WriteSteps
<1> QED
  BY <1>1, InterceptSteps, BreakSteps, RegisterSteps, GetUserSteps, PreferenceSteps,
     CreationSteps, ReadingSteps DEF Handle, HandleElsewhere

-----------------------------------------------------------------------------
(* The invariant is kept.                                                  *)

LEMMA ServerKeeps ==
  ASSUME CallInv, NEW a \in serving, ServerStep(a) PROVE CallInv'
<1>1. /\ call.pc # "idle" /\ call.request \in Request /\ Caller \in Users
      /\ a \in Serving /\ Procedure \in Procedures
      /\ a.n <= call.retries /\ IsCleared(a)
  BY ServedHasCalled DEF CallInv, ServingInv
<1>2. UNCHANGED <<call, changes, Procedure, Caller>> /\ held \subseteq held'
  BY DEF ServerStep, Procedure, Caller
<1> DEFINE mine == [procedure |-> Procedure, attempt |-> a.n]
<1>4. /\ written \subseteq written'
      /\ \A w \in written' : w \in written \/ (w = mine /\ Runs(a, Writing))
  BY DEF ServerStep, Writes, Procedure
<1>5. CallTypeOK'
  <2>1. mine \in [procedure : Procedures, attempt : Nat]
    BY <1>1 DEF Serving
  <2>2. written' \subseteq [procedure : Procedures, attempt : Nat]
    BY <1>4, <2>1 DEF CallInv, CallTypeOK
  <2>3. serving' \subseteq Serving /\ shown' \subseteq Users
    BY <1>1 DEF CallInv, CallTypeOK, ServerStep, Leaves
  <2> QED
    BY <1>2, <2>2, <2>3 DEF CallInv, CallTypeOK, ServerStep, Accounts
<1>6. AtRest' /\ TriesInv'
  BY <1>1, <1>2 DEF CallInv, AtRest, TriesInv, WorthRetrying
<1>7. HeldInv'
  BY <1>2 DEF ServerStep, HeldInv
<1>8. ServingInv'
  <2>1. PICK b \in Serving : Leaves(a, b)
    BY DEF ServerStep
  <2>2. ASSUME NEW c \in serving' PROVE (c.n <= call.retries /\ IsCleared(c) /\ IsTrue(c.answer))'
    <3>1. CASE c \in serving
      BY <1>2, <1>4, <3>1 DEF CallInv, ServingInv, IsCleared, IsTrue
    <3>2. CASE c = b
      BY <1>1, <1>2, <2>1, <3>2 DEF Leaves, IsCleared, IsTrue
    <3> QED
      BY <2>1, <2>2, <3>1, <3>2 DEF Leaves
  <2>3. IsTrue(call.answer)'
    BY <1>2, <1>4 DEF CallInv, ServingInv, IsTrue
  <2> QED
    BY <2>2, <2>3 DEF ServingInv
<1>9. WrittenInv'
  <2>1. Runs(a, Writing) => Procedure \in Writing
    BY DEF Runs, Procedure
  <2> QED
    BY <1>1, <1>2, <1>4, <2>1 DEF CallInv, WrittenInv
<1>10. AuthorisedInv'
  <2>1. \A c : AtLeast(c) => AtLeast(c)'
    BY <1>2 DEF AtLeast
  <2>2. ASSUME NEW w \in written'
        PROVE  /\ w.procedure \in Reconfigures => AtLeast(Administrator)'
               /\ w.procedure # "Register" => AtLeast(Registered)'
    <3>1. CASE w \in written
      BY <2>1, <3>1 DEF CallInv, AuthorisedInv
    <3>2. CASE w = mine /\ Runs(a, Writing) /\ Procedure = "Register"
      BY <3>2 DEF Reconfigures
    <3>3. CASE w = mine /\ Runs(a, Writing) /\ Procedure # "Register"
      <4>1. /\ Procedure \in DOMAIN Minimum
            /\ Minimum[Procedure] \in Nat /\ Minimum[Procedure] >= Registered
            /\ Procedure \in Reconfigures => Minimum[Procedure] >= Administrator
        BY <3>3, WritersAreGuarded DEF Runs, Procedure
      <4>2. a.caller \in held /\ a.caller >= Minimum[Procedure] /\ a.caller \in Nat
        BY <1>1, <3>3, <4>1 DEF Runs, IsCleared, Serving
      <4>3. AtLeast(Registered) /\ (Procedure \in Reconfigures => AtLeast(Administrator))
        BY <4>1, <4>2 DEF AtLeast, Registered, Administrator
      <4> QED
        BY <2>1, <3>3, <4>3
    <3> QED
      BY <1>4, <3>1, <3>2, <3>3
  <2>3. (shown \ {Caller} # {} => AtLeast(Moderator))'
    <3>1. CASE UNCHANGED shown
      BY <1>2, <2>1, <3>1 DEF CallInv, AuthorisedInv
    <3>2. ASSUME NEW u \in Users, shown' = shown \cup {u},
                 u = Caller \/ (Runs(a, {"GetUser"}) /\ a.caller >= Moderator)
          PROVE  (shown \ {Caller} # {} => AtLeast(Moderator))'
      <4>1. CASE u = Caller
        BY <1>2, <2>1, <3>2, <4>1 DEF CallInv, AuthorisedInv
      <4>2. CASE Runs(a, {"GetUser"}) /\ a.caller >= Moderator
        <5>1. a.caller \in held
          BY <1>1, <4>2, ReaderIsGuarded DEF Runs, IsCleared, Procedure
        <5> QED
          BY <2>1, <4>2, <5>1 DEF AtLeast
      <4> QED
        BY <3>2, <4>1, <4>2
    <3> QED
      BY <3>1, <3>2 DEF ServerStep
  <2> QED
    BY <2>2, <2>3 DEF AuthorisedInv
<1> QED
  BY <1>5, <1>6, <1>7, <1>8, <1>9, <1>10 DEF CallInv

LEMMA InvokeKeeps == ASSUME CallInv, Invoke PROVE CallInv'
<1>1. PICK r \in Requests : /\ call' = [call EXCEPT !.pc = "sent", !.request = r, !.left = Deadline(r)]
                            /\ held' = Has(account[r.user])
  BY DEF Invoke
<1>2. /\ call.pc = "idle" /\ serving = {} /\ written = {} /\ shown = {} /\ held = {}
      /\ call.retries = 0 /\ call.answer = "none" /\ call \in CallState
  BY DEF CallInv, AtRest, Invoke, CallTypeOK
<1>3. r \in Request
  BY RequestsAssumption
<1>4. Deadline(r) \in Nat
  BY <1>3, TimeoutAssumption DEF Deadline, Request
<1>5. /\ call' \in CallState /\ call'.pc = "sent" /\ call'.request = r
      /\ call'.retries = 0 /\ call'.answer = "none"
  BY <1>1, <1>2, <1>4 DEF CallState
<1>6. /\ serving' = {Attempt(0)} /\ written' = {} /\ shown' = {}
      /\ UNCHANGED <<account, changes>>
  BY <1>2 DEF Invoke
<1>7. Attempt(0) \in Serving
  BY DEF Attempt, Serving, Codes
<1>8. Has(account[r.user]) \subseteq Nat
  BY <1>3 DEF CallInv, CallTypeOK, Has, Request
<1>9. CallTypeOK'
  BY <1>1, <1>5, <1>6, <1>7, <1>8 DEF CallInv, CallTypeOK
<1>10. AtRest' /\ TriesInv'
  BY <1>5 DEF AtRest, TriesInv
<1>11. HeldInv'
  BY <1>1, <1>5, <1>6 DEF HeldInv, Caller
<1>12. ServingInv' /\ WrittenInv' /\ AuthorisedInv'
  BY <1>5, <1>6 DEF ServingInv, WrittenInv, AuthorisedInv, Attempt, IsCleared, IsTrue
<1> QED
  BY <1>9, <1>10, <1>11, <1>12 DEF CallInv

\* The client's other steps: the request stays, attempts are dropped or one is added.
LEMMA ClientKeeps ==
  ASSUME CallInv, call.pc # "idle", call' \in CallState, call'.pc # "idle",
         UNCHANGED <<account, changes, written, shown, held>>,
         call'.request = call.request,
         call'.retries >= call.retries,
         MayRetry(Procedure) \/ call'.retries = call.retries,
         (call.pc = "waiting" => WorthRetrying)',
         IsTrue(call'.answer),
         serving' \subseteq serving \cup {Attempt(call'.retries)}
  PROVE  CallInv'
<1>1. UNCHANGED <<Procedure, Caller>>
  BY DEF Procedure, Caller
<1>2. call.retries \in Nat /\ call'.retries \in Nat
  BY TimeoutAssumption DEF CallInv, CallTypeOK, CallState
<1>3. Attempt(call'.retries) \in Serving
  BY <1>2 DEF Attempt, Serving, Codes
<1>4. CallTypeOK' /\ AtRest'
  BY <1>3 DEF CallInv, CallTypeOK, AtRest
<1>5. TriesInv'
  BY <1>1 DEF CallInv, TriesInv
<1>6. HeldInv' /\ AuthorisedInv'
  BY <1>1 DEF CallInv, HeldInv, AuthorisedInv, AtLeast
<1>7. ServingInv'
  <2>1. ASSUME NEW a \in serving'
        PROVE  (a.n <= call.retries /\ IsCleared(a) /\ IsTrue(a.answer))'
    <3>1. CASE a \in serving
      <4>1. a.n \in Nat
        BY <3>1 DEF CallInv, CallTypeOK, Serving
      <4> QED
        BY <1>1, <1>2, <3>1, <4>1 DEF CallInv, ServingInv, IsCleared, IsTrue
    <3>2. CASE a = Attempt(call'.retries)
      BY <1>2, <3>2 DEF Attempt, IsCleared, IsTrue
    <3> QED
      BY <3>1, <3>2
  <2>2. IsTrue(call.answer)'
    BY <1>1 DEF IsTrue
  <2> QED
    BY <2>1, <2>2 DEF ServingInv
<1>8. WrittenInv'
  <2>1. \A w \in written : w.attempt \in Nat
    BY DEF CallInv, CallTypeOK
  <2> QED
    BY <1>1, <1>2, <2>1 DEF CallInv, WrittenInv
<1> QED
  BY <1>4, <1>5, <1>6, <1>7, <1>8 DEF CallInv

LEMMA ClientSteps ==
  ASSUME CallInv,
         Return \/ ConnectionFails \/ DeadlinePasses \/ Decide \/ Retry \/ GiveUp
  PROVE  CallInv'
<1>1. /\ call \in CallState /\ IsTrue(call.answer) /\ serving \subseteq Serving
      /\ call.retries \in Nat /\ call.left \in Nat /\ Len(Backoffs) \in Nat
  BY TimeoutAssumption DEF CallInv, CallTypeOK, ServingInv, CallState
<1>2. AtWork \subseteq serving
  BY DEF AtWork
<1>3. CASE Return
  <2>1. PICK a \in serving \ AtWork : call' = [call EXCEPT !.pc = "returned", !.answer = a.answer]
    BY <1>3 DEF Return
  <2>2. a.answer \in Codes /\ IsTrue(a.answer)
    BY <1>1 DEF CallInv, ServingInv, Serving
  <2>3. /\ call' \in CallState /\ call'.pc = "returned" /\ call'.answer = a.answer
        /\ call'.request = call.request /\ call'.retries = call.retries
    BY <1>1, <2>1, <2>2 DEF CallState
  <2>4. /\ call.pc # "idle" /\ UNCHANGED <<account, changes, written, shown, held>>
        /\ serving' \subseteq serving
    BY <1>2, <1>3 DEF Return
  <2>5. IsTrue(call'.answer)
    BY <2>2, <2>3 DEF IsTrue
  <2> QED
    BY <1>1, <2>3, <2>4, <2>5, ClientKeeps
<1>4. CASE ConnectionFails
  <2>1. PICK spent \in Delays :
          /\ spent <= call.left
          /\ call' = [call EXCEPT !.pc = "failed", !.left = @ - spent, !.answer = "unavailable"]
    BY <1>4 DEF ConnectionFails
  <2>2. call.left - spent \in Nat
    BY <1>1, <2>1, ChangesAssumption
  <2>3. /\ call' \in CallState /\ call'.pc = "failed" /\ call'.answer = "unavailable"
        /\ call'.request = call.request /\ call'.retries = call.retries
    BY <1>1, <2>1, <2>2 DEF CallState, Codes
  <2>4. serving' \subseteq serving
    BY <1>2, <1>4 DEF ConnectionFails
  <2>5. call.pc # "idle" /\ UNCHANGED <<account, changes, written, shown, held>>
    BY <1>4 DEF ConnectionFails
  <2>6. IsTrue(call'.answer)
    BY <2>3 DEF IsTrue
  <2> QED
    BY <1>1, <2>3, <2>4, <2>5, <2>6, ClientKeeps
<1>5. CASE DeadlinePasses
  <2>1. /\ call' \in CallState /\ call'.pc = "returned" /\ call'.answer = "deadline_exceeded"
        /\ call'.request = call.request /\ call'.retries = call.retries
    BY <1>1, <1>5 DEF DeadlinePasses, CallState, Codes
  <2>2. IsTrue(call'.answer)
    BY <2>1 DEF IsTrue
  <2> QED
    BY <1>1, <1>2, <1>5, <2>1, <2>2, ClientKeeps DEF DeadlinePasses
<1>6. CASE Decide
  <2>1. /\ call' \in CallState /\ call'.pc \in {"waiting", "returned"}
        /\ call'.pc = "waiting" => WorthRetrying
        /\ call'.request = call.request /\ call'.retries = call.retries
        /\ call'.answer = call.answer /\ call'.left = call.left
    BY <1>1, <1>6 DEF Decide, CallState
  <2>2. (call.pc = "waiting" => WorthRetrying)'
    BY <2>1 DEF WorthRetrying
  <2> QED
    BY <1>1, <1>6, <2>1, <2>2, ClientKeeps DEF Decide
<1>7. CASE Retry
  <2>1. /\ MayRetry(Procedure) /\ call.retries < Len(Backoffs)
        /\ call.left >= Backoffs[call.retries + 1] + 1
    BY <1>7 DEF Retry, CallInv, TriesInv, WorthRetrying, Procedure
  <2>2. Backoffs[call.retries + 1] \in Nat
    BY <1>1, <2>1, TimeoutAssumption
  <2>3. call.left - Backoffs[call.retries + 1] \in Nat /\ call.retries + 1 \in 0 .. Len(Backoffs)
    BY <1>1, <2>1, <2>2
  <2>4. /\ call' \in CallState /\ call'.pc = "sent" /\ call'.answer = call.answer
        /\ call'.request = call.request /\ call'.retries = call.retries + 1
    BY <1>1, <1>7, <2>3 DEF Retry, CallState
  <2>5. call'.retries >= call.retries
    BY <1>1, <2>4
  <2>6. serving' = serving \cup {Attempt(call'.retries)}
    BY <1>7, <2>4 DEF Retry
  <2> QED
    BY <1>1, <1>7, <2>1, <2>4, <2>5, <2>6, ClientKeeps DEF Retry
<1>8. CASE GiveUp
  <2>1. /\ call' \in CallState /\ call'.pc = "returned" /\ call'.answer = call.answer
        /\ call'.request = call.request /\ call'.retries = call.retries
    BY <1>1, <1>8 DEF GiveUp, CallState
  <2> QED
    BY <1>1, <1>8, <2>1, ClientKeeps DEF GiveUp
<1> QED
  BY <1>3, <1>4, <1>5, <1>6, <1>7, <1>8

LEMMA ChangeKeeps == ASSUME CallInv, NEW u \in Users, Change(u) PROVE CallInv'
<1>1. /\ account \in Accounts /\ changes \in Nat /\ held \subseteq Nat
      /\ UNCHANGED <<call, serving, written, shown>> /\ changes' = changes + 1
  BY DEF CallInv, CallTypeOK, Accounts, Change
<1>2. account' \in Accounts
  <2>1. CASE \E c \in Clearances : account' = [account EXCEPT ![u].clearance = c]
    BY <1>1, <2>1, ChangesAssumption DEF Accounts
  <2>2. CASE \E state \in {"absent", "deleted"} : account' = [account EXCEPT ![u].state = state]
    BY <1>1, <2>2 DEF Accounts, AccountStates
  <2> QED
    BY <2>1, <2>2 DEF Change
<1>3. UNCHANGED <<Procedure, Caller>>
  BY <1>1 DEF Procedure, Caller
<1>4. call.pc # "idle" => Caller \in Users
  BY RequestsAssumption DEF CallInv, TriesInv, Request, Caller
<1>5. held \subseteq held' /\ held' \subseteq Nat
  BY <1>1, <1>2, <1>4 DEF Change, Has, Accounts
<1>6. CallTypeOK'
  BY <1>1, <1>2, <1>5 DEF CallInv, CallTypeOK, Accounts
<1>7. AtRest'
  BY <1>1 DEF CallInv, AtRest, Change
<1>8. TriesInv' /\ WrittenInv'
  BY <1>1, <1>3 DEF CallInv, TriesInv, WrittenInv, WorthRetrying
<1>9. HeldInv'
  BY <1>1, <1>3 DEF HeldInv, Change
<1>10. ServingInv' /\ AuthorisedInv'
  BY <1>1, <1>3, <1>5 DEF CallInv, ServingInv, AuthorisedInv, AtLeast, IsCleared, IsTrue
<1> QED
  BY <1>6, <1>7, <1>8, <1>9, <1>10 DEF CallInv

LEMMA CallInvInductive == CallInv /\ [CallNext]_callVars => CallInv'
<1> SUFFICES ASSUME CallInv, [CallNext]_callVars PROVE CallInv'
  OBVIOUS
<1>1. CASE \E a \in serving : Intercept(a) \/ Breaks(a) \/ Handle(a)
  BY <1>1, ServerSteps, ServerKeeps
<1>2. CASE UNCHANGED callVars
  BY <1>2 DEF callVars, CallInv, CallTypeOK, AtRest, TriesInv, HeldInv, ServingInv,
    WrittenInv, AuthorisedInv, AtLeast, IsCleared, IsTrue, WorthRetrying, Procedure, Caller
<1> QED
  BY <1>1, <1>2, InvokeKeeps, ClientSteps, ChangeKeeps DEF CallNext

\* One try, one procedure: one write.
LEMMA WritesOnce == CallInv => ActsOnceAndCleared
<1> SUFFICES ASSUME CallInv PROVE ActsOnceAndCleared
  OBVIOUS
<1> DEFINE mine == [procedure |-> Procedure, attempt |-> 0]
<1>1. ASSUME NEW w \in written PROVE w = mine
  <2>1. /\ w \in [procedure : Procedures, attempt : Nat] /\ call.retries \in Nat
        /\ w.procedure = Procedure /\ w.procedure \in Writing /\ w.attempt <= call.retries
    BY TimeoutAssumption DEF CallInv, CallTypeOK, CallState, WrittenInv
  <2>2. call.retries = 0
    BY <2>1, WritersAreTriedOnce DEF CallInv, TriesInv
  <2>3. w = [procedure |-> w.procedure, attempt |-> w.attempt]
    BY <2>1
  <2>4. w.attempt = 0
    BY <2>1, <2>2
  <2> QED
    BY <2>1, <2>3, <2>4
<1>2. Cardinality(written) <= 1
  <2>1. IsFiniteSet({mine}) /\ Cardinality({mine}) = 1
    BY FS_Singleton
  <2>2. written \subseteq {mine}
    BY <1>1
  <2> QED
    BY <2>1, <2>2, FS_Subset
<1>3. call.answer = "ok" /\ Procedure \in Writing => written # {}
  BY DEF CallInv, ServingInv, IsTrue
<1> QED
  BY <1>2, <1>3 DEF CallInv, AuthorisedInv, ActsOnceAndCleared, Procedure, Writing

-----------------------------------------------------------------------------
\* Every reachable state of a call is of its types.
THEOREM CallTypeCorrect == CallSpec => []CallTypeOK
<1>1. CallInv => CallTypeOK
  BY DEF CallInv
<1> QED
  BY <1>1, CallStarts, CallInvInductive, PTL DEF CallSpec

\* Whatever is lost, retried or given up, and whatever clearances the operator
\* gives or takes meanwhile, a call writes once at most and as its user could.
THEOREM ActsOnceCorrect == CallSpec => []ActsOnceAndCleared
  BY CallStarts, CallInvInductive, WritesOnce, PTL DEF CallSpec
=============================================================================
