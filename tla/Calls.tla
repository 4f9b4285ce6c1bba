------------------------------- MODULE Calls -------------------------------
(***************************************************************************)
(* A unary call between a platform client and the server: the deadline and *)
(* the retries of the client's interceptors, the chain of the server's     *)
(* (recovery, validation, clearance), and the handlers of the small        *)
(* services.  An attempt the client has given up goes on in the server,    *)
(* beside the next; an operator changes accounts meanwhile.                *)
(*                                                                         *)
(* Calls share nothing but rows: the module is of one.  Time is counted in *)
(* the shortest round trip a retry is worth (retryMinRoundTrip).           *)
(***************************************************************************)
EXTENDS Integers, FiniteSets, Sequences

CONSTANTS
  Users,           \* platform identities
  Unset,
  Clearances,      \* those the operator gives: numbers, as in the schema
  Requests,        \* what a client may ask
  DefaultTimeout,  \* Options.DefaultTimeout, or defaultCallTimeout
  Backoffs,        \* retryBackoffs: the delay before each retry
  Half,            \* half the range of an int64
  MaxDigits,       \* maxDigits
  Delays,          \* bound: how long a failing attempt may take
  MaxChanges       \* bound: changes the operator makes

ASSUME TimeoutAssumption == /\ DefaultTimeout \in Nat
                            /\ Backoffs \in Seq(Nat \ {0})
ASSUME WidthAssumption == Half \in Nat \ {0}
ASSUME ChangesAssumption == /\ MaxChanges \in Nat /\ Clearances \subseteq Nat
                            /\ Delays \subseteq Nat

Registered    == 1
Moderator     == 20
Administrator == 50

VARIABLES
  account,  \* user_account, by platform identity
  changes,  \* how often the operator changed it
  call,     \* the client's side of the call
  serving,  \* the server's side of its attempts
  written,  \* history: the writes of its handlers
  shown,    \*   the users whose row an answer carries
  held      \*   the clearances its user had while it was under way

callVars == <<account, changes, call, serving, written, shown, held>>

-----------------------------------------------------------------------------
(* The services.                                                           *)

\* What Handlers mounts; DiscordService is not among it.
Public == {"Register", "HealthCheck", "Ping", "GetRandomNumber"}

\* Served by embedding or returning Unimplemented.
Stubs == {"GetCongratulableBirthdays", "ListInstances", "UpdateInstance",
          "DeleteInstance", "ListActionRecords", "SetBirthday"}

Preferences == {"SetLocale", "SetTimezone"}

\* The services other modules are about.
ReadsElsewhere  == {"GetReminder", "ListReminders", "GetTrigger", "ListTriggers",
                    "GetTriggerStats", "GetFile"}
WritesElsewhere == {"CreateReminder", "UpdateReminder", "DeleteReminder",
                    "ConfirmDelivery", "CheckRepost", "TryTrigger", "ExecTrigger",
                    "CreateTrigger", "UpdateTrigger", "DeleteTrigger"}

Mounted == Public \cup Stubs \cup Preferences \cup ReadsElsewhere \cup WritesElsewhere
             \cup {"GetUser", "CreateInstance", "GetInstance", "CreateActionRecord"}

Procedures == Mounted \cup {"SetDiscordActivityType"}

\* DefaultRequirements: a procedure it does not name is public.
Minimum ==
  [p \in (Mounted \ Public) \cup {"SetDiscordActivityType"} |->
     IF p \in {"SetDiscordActivityType", "CreateInstance", "UpdateInstance",
               "DeleteInstance"}
       THEN Administrator ELSE Registered]

\* retryableProcedures.
Retryable == {"Ping", "HealthCheck", "GetUser", "GetReminder", "ListReminders",
              "GetTrigger", "ListTriggers", "GetTriggerStats"}

\* Mutant of MayRetry: a forced playback is retried too.
MayRetryPlayback(procedure) == procedure \in Retryable \cup {"ExecTrigger"}

MayRetry(procedure) == procedure \in Retryable

-----------------------------------------------------------------------------
(* Requests.  A client writes the identity its context carries as headers: *)
(* none, a platform alone, or a user of it.  A field may break a rule of   *)
(* the schema ("bad"), or be left out ("partial"), which no rule sees.     *)

Identities == {"anonymous", "platform", "user"}

Request == [procedure : Procedures, identity : Identities, user : Users,
            named : Users \cup {Unset}, fields : {"bad", "partial", "whole"},
            deadline : Nat \cup {Unset}, lower : Int, upper : Int]

ASSUME RequestsAssumption == Requests \subseteq Request

\* WriteHeader, and FromHeader of what it wrote.
Headers(identity) ==
  CASE identity = "anonymous" -> {}
    [] identity = "platform"  -> {"ginbot-platform-enum"}
    [] identity = "user"      -> {"ginbot-platform-enum", "ginbot-user-id"}

\* The interceptor leaves a deadline of the caller's own alone.
Deadline(request) ==
  IF request.deadline # Unset THEN request.deadline ELSE DefaultTimeout

NoRequest == [procedure |-> "Ping", identity |-> "anonymous", user |-> CHOOSE u \in Users : TRUE,
              named |-> Unset, fields |-> "whole", deadline |-> Unset, lower |-> 0, upper |-> 0]

AccountStates == {"absent", "live", "deleted"}

\* The codes of the errors that are met here.
Codes == {"none", "ok", "unavailable", "deadline_exceeded", "unimplemented", "internal",
          "invalid_argument", "failed_precondition", "permission_denied",
          "already_exists", "not_found"}

CallState == [pc : {"idle", "sent", "failed", "waiting", "returned"},
              request : Requests \cup {NoRequest}, left : Nat,
              retries : 0 .. Len(Backoffs), answer : Codes]

\* The server's side of an attempt; caller is the clearance its lookup found.
Serving == [n : Nat, at : {"arrived", "cleared", "answered"}, caller : Nat, answer : Codes]

CallTypeOK ==
  /\ account \in [Users -> [state : AccountStates, clearance : Nat]]
  /\ changes \in Nat
  /\ call \in CallState
  /\ serving \subseteq Serving
  /\ written \subseteq [procedure : Procedures, attempt : Nat]
  /\ shown \subseteq Users
  /\ held \subseteq Nat

CallInit ==
  /\ account \in [Users -> {[state |-> "absent", clearance |-> 0],
                            [state |-> "deleted", clearance |-> Registered]}
                             \cup {[state |-> "live", clearance |-> c] : c \in Clearances}]
  /\ changes = 0
  /\ call = [pc |-> "idle", request |-> NoRequest, left |-> 0, retries |-> 0, answer |-> "none"]
  /\ serving = {}
  /\ written = {}
  /\ shown = {}
  /\ held = {}

Has(row) == IF row.state = "live" THEN {row.clearance} ELSE {}

Caller == call.request.user

-----------------------------------------------------------------------------
(* The client.                                                             *)

Attempt(n) == [n |-> n, at |-> "arrived", caller |-> 0, answer |-> "none"]

Invoke ==
  /\ call.pc = "idle"
  /\ \E r \in Requests :
       /\ call' = [call EXCEPT !.pc = "sent", !.request = r, !.left = Deadline(r)]
       /\ held' = Has(account[r.user])
  /\ serving' = {Attempt(0)}
  /\ UNCHANGED <<account, changes, written, shown>>

\* The attempts that are still at work.
AtWork == {a \in serving : a.at # "answered"}

\* The answer of this attempt, not of one that was given up.
Return ==
  /\ call.pc = "sent"
  /\ \E a \in serving \ AtWork :
       call' = [call EXCEPT !.pc = "returned", !.answer = a.answer]
  /\ serving' = AtWork
  /\ UNCHANGED <<account, changes, written, shown, held>>

\* Unavailable: the request was lost, or its answer, or the connection under it.
ConnectionFails ==
  /\ call.pc = "sent"
  /\ \E spent \in Delays :
       /\ spent <= call.left
       /\ call' = [call EXCEPT !.pc = "failed", !.left = @ - spent, !.answer = "unavailable"]
  /\ serving' \in {AtWork, {a \in AtWork : a.n # call.retries \/ a.at # "arrived"}}
  /\ UNCHANGED <<account, changes, written, shown, held>>

DeadlinePasses ==
  /\ call.pc = "sent"
  /\ call' = [call EXCEPT !.pc = "returned", !.left = 0, !.answer = "deadline_exceeded"]
  /\ serving' = AtWork
  /\ UNCHANGED <<account, changes, written, shown, held>>

\* A retry is worth its delay and a round trip, or the failure is returned.
WorthRetrying ==
  /\ MayRetry(call.request.procedure)
  /\ call.retries < Len(Backoffs)
  /\ call.left >= Backoffs[call.retries + 1] + 1

Decide ==
  /\ call.pc = "failed"
  /\ call' = [call EXCEPT !.pc = IF WorthRetrying THEN "waiting" ELSE "returned"]
  /\ UNCHANGED <<account, changes, serving, written, shown, held>>

Retry ==
  /\ call.pc = "waiting"
  /\ call' = [call EXCEPT !.pc = "sent", !.retries = @ + 1,
                          !.left = @ - Backoffs[call.retries + 1]]
  /\ serving' = serving \cup {Attempt(call.retries + 1)}
  /\ UNCHANGED <<account, changes, written, shown, held>>

\* Its command is cancelled during the delay.
GiveUp ==
  /\ call.pc = "waiting"
  /\ call' = [call EXCEPT !.pc = "returned"]
  /\ UNCHANGED <<account, changes, serving, written, shown, held>>

-----------------------------------------------------------------------------
(* The server's interceptors.                                              *)

\* An answer nobody waits for any more is dropped.
Awaited(a) == call.pc = "sent" /\ a.n = call.retries

Answer(a, answer) ==
  serving' = (serving \ {a}) \cup
    (IF Awaited(a) THEN {[a EXCEPT !.at = "answered", !.answer = answer]} ELSE {})

\* What the chain answers before any handler runs; none when it lets pass.
Refusal(request, row) ==
  LET headers == Headers(request.identity)
      guarded == request.procedure \in DOMAIN Minimum
  IN CASE request.procedure \notin Mounted                     -> "unimplemented"
       [] request.fields = "bad"                               -> "invalid_argument"
       [] ~guarded                                             -> "none"
       [] "ginbot-user-id" \notin headers                      -> "invalid_argument"
       [] row.state # "live"                                   -> "failed_precondition"
       [] row.clearance < Minimum[request.procedure]           -> "permission_denied"
       [] OTHER                                                -> "none"

\* The caller is read once; a handler goes on from what was read.
Intercept(a) ==
  /\ a.at = "arrived"
  /\ LET row == account[Caller]
         refusal == Refusal(call.request, row)
     IN IF refusal # "none" THEN Answer(a, refusal)
        ELSE serving' = (serving \ {a}) \cup
                          {[a EXCEPT !.at = "cleared", !.caller = row.clearance]}
  /\ UNCHANGED <<account, changes, call, written, shown, held>>

\* The lookup fails, or anything below panics and is recovered.
Breaks(a) ==
  /\ a.at \in {"arrived", "cleared"}
  /\ Answer(a, "internal")
  /\ UNCHANGED <<account, changes, call, written, shown, held>>

-----------------------------------------------------------------------------
(* The handlers.  A statement that fails may have taken effect.            *)

Runs(a, procedures) == a.at = "cleared" /\ call.request.procedure \in procedures

Whole == call.request.fields = "whole"

Writes(a) ==
  written' = written \cup {[procedure |-> call.request.procedure, attempt |-> a.n]}

\* A handler that writes nothing: it has one answer.
Reply(a, answer) ==
  Answer(a, answer) /\ UNCHANGED <<account, changes, call, written, shown, held>>

WriteAndReply(a) ==
  /\ Writes(a)
  /\ \E answer \in {"ok", "internal"} : Answer(a, answer)
  /\ UNCHANGED <<account, changes, call, shown, held>>

\* CreateUser: DO NOTHING when the identity is taken, by a deleted account too.
Create(a) ==
  /\ account' = [account EXCEPT ![Caller] = [state |-> "live", clearance |-> Registered]]
  /\ held' = held \cup {Registered}
  /\ Writes(a)
  /\ \E answer \in {"ok", "internal"} : Answer(a, answer)
  /\ UNCHANGED <<changes, call, shown>>

HandleRegister(a) ==
  /\ Runs(a, {"Register"})
  /\ CASE Headers(call.request.identity) # Headers("user") \/ ~Whole -> Reply(a, "invalid_argument")
       [] account[Caller].state # "absent"                           -> Reply(a, "already_exists")
       [] OTHER                                                      -> Create(a)

\* The caller's own row is the one that was read; another's is read here.
HandleGetUser(a) ==
  /\ Runs(a, {"GetUser"})
  /\ LET named == call.request.named IN
       CASE named \in {Unset, Caller} ->
              /\ shown' = shown \cup {Caller} /\ Answer(a, "ok")
              /\ UNCHANGED <<account, changes, call, written, held>>
         [] named \notin {Unset, Caller} /\ a.caller < Moderator -> Reply(a, "permission_denied")
         [] OTHER ->
              IF account[named].state # "live" THEN Reply(a, "not_found")
              ELSE /\ shown' = shown \cup {named} /\ Answer(a, "ok")
                   /\ UNCHANGED <<account, changes, call, written, held>>

\* "Local", and a zone nobody knows, are partial too: the handler refuses them.
HandlePreference(a) ==
  /\ Runs(a, Preferences)
  /\ CASE ~Whole                          -> Reply(a, "invalid_argument")
       [] account[Caller].state # "live"  -> Reply(a, "not_found")
       [] OTHER                           -> WriteAndReply(a)

HandleCreate(a) ==
  /\ Runs(a, {"CreateInstance", "CreateActionRecord"})
  /\ IF Whole THEN WriteAndReply(a) ELSE Reply(a, "invalid_argument")

HandleGetInstance(a) ==
  /\ Runs(a, {"GetInstance"})
  /\ IF Whole THEN \E answer \in {"ok", "not_found"} : Reply(a, answer)
              ELSE Reply(a, "invalid_argument")

HandleStub(a) == Runs(a, Stubs) /\ Reply(a, "unimplemented")

\* HealthCheck reports a failing probe in an answer that is ok.
HandleProbe(a) == Runs(a, {"HealthCheck", "Ping"}) /\ Reply(a, "ok")

HandleElsewhere(a) ==
  \/ Runs(a, ReadsElsewhere) /\ Reply(a, "ok")
  \/ Runs(a, WritesElsewhere) /\ WriteAndReply(a)

-----------------------------------------------------------------------------
(* GetRandomNumber.  Its arithmetic wraps as an int64 does.                *)

Int64 == -Half .. Half - 1

Wrap(n) == ((n + Half) % (2 * Half)) - Half

Span(lower, upper) == Wrap(upper - lower)

\* rand.Int64N panics on an argument that is not positive.
Drawable(lower, upper) == upper > lower /\ Span(lower, upper) > 0

Drawn(lower, upper) == {Wrap(r + lower) : r \in 0 .. Span(lower, upper) - 1}

\* DOUBLES: so many digits, zeros in front of a shorter number.
DigitsAllowed(digits) == digits \in 1 .. MaxDigits

HandleRandom(a) ==
  /\ Runs(a, {"GetRandomNumber"})
  /\ Reply(a, IF Whole /\ Drawable(call.request.lower, call.request.upper)
                THEN "ok" ELSE "invalid_argument")

-----------------------------------------------------------------------------
\* The operator gives or takes a clearance, marks an account deleted, or removes
\* it and its identity.
Change(u) ==
  /\ changes < MaxChanges
  /\ changes' = changes + 1
  /\ account[u].state = "live"
  /\ \/ \E c \in Clearances : account' = [account EXCEPT ![u].clearance = c]
     \/ \E state \in {"absent", "deleted"} : account' = [account EXCEPT ![u].state = state]
  /\ held' = IF call.pc # "idle" THEN held \cup Has(account'[Caller]) ELSE held
  /\ UNCHANGED <<call, serving, written, shown>>

Handle(a) ==
  \/ HandleRegister(a) \/ HandleGetUser(a) \/ HandlePreference(a) \/ HandleCreate(a)
  \/ HandleGetInstance(a) \/ HandleStub(a) \/ HandleProbe(a) \/ HandleElsewhere(a)
  \/ HandleRandom(a)

CallNext ==
  \/ Invoke \/ Return \/ ConnectionFails \/ DeadlinePasses \/ Decide \/ Retry \/ GiveUp
  \/ \E a \in serving : Intercept(a) \/ Breaks(a) \/ Handle(a)
  \/ \E u \in Users : Change(u)

CallSpec == CallInit /\ [][CallNext]_callVars

-----------------------------------------------------------------------------
(* Properties.                                                             *)

Reconfigures == {"CreateInstance", "UpdateInstance", "DeleteInstance",
                 "SetDiscordActivityType"}

AtLeast(clearance) == \E c \in held : c >= clearance

\* Whatever is lost, retried or given up, a call writes once at most; it writes
\* for a user who could, at some instant of the call, do what it did; it shows
\* another's row to a moderator only; and what it says it wrote is written.
ActsOnceAndCleared ==
  /\ Cardinality(written) <= 1
  /\ \A w \in written :
       /\ w.procedure \in Reconfigures => AtLeast(Administrator)
       /\ w.procedure # "Register" => AtLeast(Registered)
  /\ shown \ {Caller} # {} => AtLeast(Moderator)
  /\ call.answer = "ok" /\ call.request.procedure \in WritesElsewhere \cup Preferences
       \cup {"Register", "CreateInstance", "CreateActionRecord"} => written # {}

=============================================================================
