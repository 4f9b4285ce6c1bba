--------------------------- MODULE ServerLifecycle ---------------------------
(***************************************************************************)
(* The end of the server process: main() from the moment it serves, the    *)
(* signals, the readiness it reports, the requests in flight, the cron     *)
(* loop with its ticker, and the connection pool, in the order main and    *)
(* its deferred calls stop them.                                           *)
(*                                                                         *)
(* now counts the ticks of the cron ticker.  It advances only when nobody  *)
(* has a step the program takes at once (Urgent).                          *)
(***************************************************************************)
EXTENDS Integers, FiniteSets

CONSTANTS
  Requests,         \* the requests of a run
  Kind,             \* of each: a call, an action stream or a health probe
  None,             \* no tick pending, no instant yet
  DrainDelay,       \* shutdownDrainDelay
  ShutdownTimeout,  \* shutdownTimeout
  MinuteTicks,      \* ticks from one minute to the next
  HourTicks,        \*   and from one hour to the next
  MaxSignals,       \* bound: signals sent
  MaxStart,         \* bound: the last instant something may stop the server
  MaxTime           \* bound: the last instant

ASSUME KindAssumption == Kind \in [Requests -> {"call", "stream", "probe"}]
ASSUME TimesAssumption == /\ DrainDelay \in Nat
                          /\ ShutdownTimeout \in Nat \ {0}
                          /\ MinuteTicks \in Nat \ {0}
                          /\ HourTicks \in Nat \ {0}
                          /\ MaxSignals \in Nat
                          /\ MaxStart \in Nat
                          /\ MaxTime \in Nat
ASSUME NoneAssumption == None \notin Nat

VARIABLES
  now,
  main,       \* where main is
  waitedAt,   \* the instant its present wait began
  cancelled,  \* shutdownCtx is done
  trapped,    \* signals go to NotifyContext's channel
  second,     \* the channel for a second signal
  signals,    \* signals sent so far
  listener,   \* open, failed or closed
  released,   \* ReverseServer.Shutdown was called
  down,       \* checker.shuttingDown
  request,    \* where each request is
  closed,     \* srv.Close was called
  pool,       \* dbpool
  cron,       \* the cron loop: its place, the tick it handles, since when
  tick,       \* the ticker's one pending tick
  \* History, not in the program:
  stoppedAt,  \* when main left its select
  drain,      \* whether a drain was begun, and whether a second signal cut it
  shutAt,     \* when the listener was closed
  readyAt,    \* the start of the last probe that was answered "serving"
  blockers,   \* the requests in flight when the shutdown timed out
  hours,      \* the hours whose jobs were begun
  stalled     \* the ticks that met one and the same round of jobs twice

signalVars  == <<cancelled, trapped, second, signals>>
stopVars    == <<main, waitedAt, stoppedAt, drain>>
serveVars   == <<listener, shutAt, closed, blockers>>
requestVars == <<request, readyAt>>
cronVars    == <<cron, tick, hours, stalled>>
vars == <<now, stopVars, signalVars, serveVars, released, down, requestVars,
          pool, cronVars>>

-----------------------------------------------------------------------------
MainState == {"serving", "streams", "health", "check", "drain", "shutdown",
              "waiting", "force", "stopSignals", "cronWait", "closeDB",
              "closing", "exited", "killed"}

RequestState == {"new", "running", "querying", "pinging", "done", "failed"}

Job == {"remind", "minute", "orphans", "entries", "limiter"}

TypeOK ==
  /\ now \in Nat
  /\ main \in MainState
  /\ waitedAt \in Nat
  /\ cancelled \in BOOLEAN
  /\ trapped \in BOOLEAN
  /\ second \in {"off", "on", "got"}
  /\ signals \in Nat
  /\ listener \in {"open", "failed", "closed"}
  /\ released \in BOOLEAN
  /\ down \in BOOLEAN
  /\ request \in [Requests -> [at : RequestState, since : Nat]]
  /\ closed \in BOOLEAN
  /\ pool \in {"open", "closing", "closed"}
  /\ cron \in [at : {"select", "stopped"} \cup Job, tick : Nat, since : Nat]
  /\ tick \in Nat \cup {None}
  /\ stoppedAt \in Nat \cup {None}
  /\ drain \in {"none", "full", "cut"}
  /\ shutAt \in Nat \cup {None}
  /\ readyAt \in Nat \cup {None}
  /\ blockers \in SUBSET Requests
  /\ hours \in SUBSET Nat
  /\ stalled \in SUBSET Nat

Init ==
  /\ now = 0
  /\ main = "serving"
  /\ waitedAt = 0
  /\ cancelled = FALSE
  /\ trapped = TRUE
  /\ second = "off"
  /\ signals = 0
  /\ listener = "open"
  /\ released = FALSE
  /\ down = FALSE
  /\ request = [r \in Requests |-> [at |-> "new", since |-> 0]]
  /\ closed = FALSE
  /\ pool = "open"
  /\ cron = [at |-> "select", tick |-> 0, since |-> 0]
  /\ tick = None
  /\ stoppedAt = None
  /\ drain = "none"
  /\ shutAt = None
  /\ readyAt = None
  /\ blockers = {}
  /\ hours = {}
  /\ stalled = {}

Alive == main \notin {"exited", "killed"}

InFlight(r) == request[r].at \in {"running", "querying", "pinging"}

\* It has a connection of the pool.
Holds(r) == request[r].at \in {"querying", "pinging"}

-----------------------------------------------------------------------------
(* What stops the server.                                                  *)

\* A trapped signal ends shutdownCtx, and reaches the second channel while that
\* is registered; one that comes when nothing traps it ends the process.
Signal ==
  /\ Alive
  /\ signals < MaxSignals
  /\ signals > 0 \/ now <= MaxStart
  /\ signals' = signals + 1
  /\ IF trapped
       THEN /\ cancelled' = TRUE
            /\ second' = IF second = "on" THEN "got" ELSE second
            /\ UNCHANGED main
       ELSE /\ main' = "killed"
            /\ UNCHANGED <<cancelled, second>>
  /\ UNCHANGED <<now, waitedAt, stoppedAt, drain, trapped, serveVars, released,
                 down, requestVars, pool, cronVars>>

\* srv.Serve returns an error.
ServeFails ==
  /\ main = "serving"
  /\ listener = "open"
  /\ now <= MaxStart
  /\ listener' = "failed"
  /\ UNCHANGED <<now, stopVars, signalVars, shutAt, closed, blockers, released,
                 down, requestVars, pool, cronVars>>

-----------------------------------------------------------------------------
(* main.                                                                   *)

Go(place) == main' = place /\ waitedAt' = now

Select ==
  /\ main = "serving"
  /\ listener = "failed" \/ cancelled
  /\ Go("streams")
  /\ stoppedAt' = now
  /\ UNCHANGED <<now, drain, signalVars, serveVars, released, down, requestVars,
                 pool, cronVars>>

ReleaseStreams ==
  /\ main = "streams"
  /\ released' = TRUE
  /\ Go("health")
  /\ UNCHANGED <<now, stoppedAt, drain, signalVars, serveVars, down, requestVars,
                 pool, cronVars>>

\* Mutant of ReportDown: readiness is left as it was.
ReportNothing ==
  /\ main = "health"
  /\ Go("check")
  /\ UNCHANGED <<now, stoppedAt, drain, signalVars, serveVars, released, down,
                 requestVars, pool, cronVars>>

ReportDown ==
  /\ main = "health"
  /\ down' = TRUE
  /\ Go("check")
  /\ UNCHANGED <<now, stoppedAt, drain, signalVars, serveVars, released,
                 requestVars, pool, cronVars>>

\* Only a signal is followed by a drain.  The channel for the second one is
\* registered here, so that a second one sent before is not seen.
Check ==
  /\ main = "check"
  /\ IF cancelled
       THEN /\ Go("drain")
            /\ drain' = "full"
            /\ second' = "on"
       ELSE /\ Go("shutdown")
            /\ UNCHANGED <<drain, second>>
  /\ UNCHANGED <<now, stoppedAt, cancelled, trapped, signals, serveVars, released,
                 down, requestVars, pool, cronVars>>

Waited(delay) == now - waitedAt >= delay

Drained ==
  /\ main = "drain"
  /\ Waited(DrainDelay) \/ second = "got"
  /\ drain' = IF Waited(DrainDelay) THEN "full" ELSE "cut"
  /\ second' = "off"
  /\ Go("shutdown")
  /\ UNCHANGED <<now, stoppedAt, cancelled, trapped, signals, serveVars, released,
                 down, requestVars, pool, cronVars>>

\* srv.Shutdown closes the listener first, then waits for the handlers.
Shutdown ==
  /\ main = "shutdown"
  /\ listener' = "closed"
  /\ shutAt' = now
  /\ Go("waiting")
  /\ UNCHANGED <<now, stoppedAt, drain, signalVars, closed, blockers, released,
                 down, requestVars, pool, cronVars>>

Idle ==
  /\ main = "waiting"
  /\ \A r \in Requests : ~InFlight(r)
  /\ Go("stopSignals")
  /\ UNCHANGED <<now, stoppedAt, drain, signalVars, serveVars, released, down,
                 requestVars, pool, cronVars>>

TimeOut ==
  /\ main = "waiting"
  /\ \E r \in Requests : InFlight(r)
  /\ Waited(ShutdownTimeout)
  /\ blockers' = {r \in Requests : InFlight(r)}
  /\ Go("force")
  /\ UNCHANGED <<now, stoppedAt, drain, signalVars, listener, shutAt, closed,
                 released, down, requestVars, pool, cronVars>>

\* srv.Close: every connection is cut and the contexts of its requests end.
CutOff ==
  /\ main = "force"
  /\ closed' = TRUE
  /\ Go("stopSignals")
  /\ UNCHANGED <<now, stoppedAt, drain, signalVars, listener, shutAt, blockers,
                 released, down, requestVars, pool, cronVars>>

\* Mutant of StopSignals: the deferred calls in the other order, so that the
\* loop is waited for first.
StopSignalsLate ==
  /\ main = "stopSignals"
  /\ cron.at = "stopped"
  /\ trapped' = FALSE
  /\ cancelled' = TRUE
  /\ Go("cronWait")
  /\ UNCHANGED <<now, stoppedAt, drain, second, signals, serveVars, released,
                 down, requestVars, pool, cronVars>>

\* The deferred calls.  stopSignals also ends shutdownCtx.
StopSignals ==
  /\ main = "stopSignals"
  /\ trapped' = FALSE
  /\ cancelled' = TRUE
  /\ Go("cronWait")
  /\ UNCHANGED <<now, stoppedAt, drain, second, signals, serveVars, released,
                 down, requestVars, pool, cronVars>>

\* Mutant of CronWait: the loop is not waited for.
CronWaitSkipped ==
  /\ main = "cronWait"
  /\ Go("closeDB")
  /\ UNCHANGED <<now, stoppedAt, drain, signalVars, serveVars, released, down,
                 requestVars, pool, cronVars>>

CronWait ==
  /\ main = "cronWait"
  /\ cron.at = "stopped"
  /\ Go("closeDB")
  /\ UNCHANGED <<now, stoppedAt, drain, signalVars, serveVars, released, down,
                 requestVars, pool, cronVars>>

\* The pool refuses from here on, and is closed when the last connection has
\* come back.
CloseDB ==
  /\ main = "closeDB"
  /\ pool' = "closing"
  /\ Go("closing")
  /\ UNCHANGED <<now, stoppedAt, drain, signalVars, serveVars, released, down,
                 requestVars, cronVars>>

Exit ==
  /\ main = "closing"
  /\ \A r \in Requests : ~Holds(r)
  /\ pool' = "closed"
  /\ Go("exited")
  /\ UNCHANGED <<now, stoppedAt, drain, signalVars, serveVars, released, down,
                 requestVars, cronVars>>

Main == \/ Select \/ ReleaseStreams \/ ReportDown \/ Check \/ Drained
        \/ Shutdown \/ Idle \/ TimeOut \/ CutOff \/ StopSignals
        \/ CronWait \/ CloseDB \/ Exit

-----------------------------------------------------------------------------
(* The requests.                                                           *)

Reach(r, place) == request' = [request EXCEPT ![r].at = place]

serverOnly == <<now, stopVars, signalVars, serveVars, released, down, pool, cronVars>>

\* A probe that finds the server shutting down is answered at once; another one
\* asks the database.
Begin(r) ==
  /\ Alive
  /\ listener = "open"
  /\ request[r].at = "new"
  /\ request' = [request EXCEPT ![r] =
                   [at |-> IF Kind[r] # "probe" THEN "running"
                           ELSE IF down THEN "done" ELSE "pinging",
                    since |-> now]]
  /\ UNCHANGED <<serverOnly, readyAt>>

\* The database answers the probe, or does not.
Pinged(r) ==
  /\ Alive
  /\ request[r].at = "pinging"
  /\ Reach(r, "done")
  /\ \/ ~closed /\ readyAt' = request[r].since
     \/ UNCHANGED readyAt
  /\ UNCHANGED serverOnly

\* A call takes a connection for a query; a pool that is closing refuses.
Acquire(r) ==
  /\ Alive
  /\ Kind[r] = "call"
  /\ request[r].at = "running"
  /\ Reach(r, IF pool = "open" THEN "querying" ELSE "failed")
  /\ UNCHANGED <<serverOnly, readyAt>>

Release(r) ==
  /\ Alive
  /\ request[r].at = "querying"
  /\ Reach(r, "running")
  /\ UNCHANGED <<serverOnly, readyAt>>

\* A call returns when it likes.  A stream returns when its peer leaves, or
\* when it is told to.
Return(r) ==
  /\ Alive
  /\ request[r].at = "running"
  /\ Reach(r, "done")
  /\ UNCHANGED <<serverOnly, readyAt>>

Serve(r) == Begin(r) \/ Pinged(r) \/ Acquire(r) \/ Release(r) \/ Return(r)

-----------------------------------------------------------------------------
(* The cron loop.                                                          *)

Minute(t) == t % MinuteTicks = 0
Hour(t)   == t % HourTicks = 0

mainOnly == <<stopVars, signalVars, serveVars, released, down, requestVars, pool>>

\* Mutant of Receive: the loop looks at the clock instead of at the tick.
ReceiveLate ==
  /\ Alive
  /\ cron.at = "select"
  /\ tick # None
  /\ cron' = [at |-> "remind", tick |-> now, since |-> now]
  /\ tick' = None
  /\ UNCHANGED <<now, hours, stalled, mainOnly>>

\* With a tick pending and the context done, select takes either.
Receive ==
  /\ Alive
  /\ cron.at = "select"
  /\ tick # None
  /\ cron' = [at |-> "remind", tick |-> tick, since |-> now]
  /\ tick' = None
  /\ UNCHANGED <<now, hours, stalled, mainOnly>>

Stop ==
  /\ Alive
  /\ cron.at = "select"
  /\ cancelled
  /\ cron' = [cron EXCEPT !.at = "stopped"]
  /\ UNCHANGED <<now, tick, hours, stalled, mainOnly>>

\* The jobs of a tick, one after the other; each takes as long as it takes.
AfterRemind(t) == IF Minute(t) THEN "minute" ELSE IF Hour(t) THEN "orphans" ELSE "select"
AfterMinute(t) == IF Hour(t) THEN "orphans" ELSE "select"

JobDone ==
  /\ Alive
  /\ cron.at \in Job
  /\ LET next == CASE cron.at = "remind"  -> AfterRemind(cron.tick)
                   [] cron.at = "minute"  -> AfterMinute(cron.tick)
                   [] cron.at = "orphans" -> "entries"
                   [] cron.at = "entries" -> "limiter"
                   [] cron.at = "limiter" -> "select"
     IN /\ cron' = [cron EXCEPT !.at = next]
        /\ hours' = IF next = "orphans" THEN hours \cup {cron.tick} ELSE hours
  /\ UNCHANGED <<now, tick, stalled, mainOnly>>

Cron == Receive \/ Stop \/ JobDone

-----------------------------------------------------------------------------
(* Time.                                                                   *)

\* main has a step to take at once.
MainReady ==
  CASE main = "serving" -> listener = "failed" \/ cancelled
    [] main = "drain"   -> Waited(DrainDelay) \/ second = "got"
    [] main = "waiting" -> \/ \A r \in Requests : ~InFlight(r)
                           \/ Waited(ShutdownTimeout)
    [] main = "cronWait" -> cron.at = "stopped"
    [] main = "closing" -> \A r \in Requests : ~Holds(r)
    [] OTHER -> TRUE

\* So has a stream that was told to leave, a request whose connection was cut,
\* a loop that can go on, and a job whose context has ended.
Urgent ==
  \/ MainReady
  \/ \E r \in Requests : /\ InFlight(r)
                         /\ closed \/ (Kind[r] = "stream" /\ released)
  \/ cron.at = "select" /\ (tick # None \/ cancelled)
  \/ cron.at \in Job /\ cancelled

\* The ticker drops a tick while one is pending.
Clock ==
  /\ Alive
  /\ now < MaxTime
  /\ ~Urgent
  /\ now' = now + 1
  /\ tick' = IF tick = None THEN now + 1 ELSE tick
  /\ stalled' = IF cron.at \in Job /\ cron.since < now
                  THEN stalled \cup {now + 1} ELSE stalled
  /\ UNCHANGED <<cron, hours, mainOnly>>

Next == \/ Signal \/ ServeFails \/ Main \/ Cron \/ Clock
        \/ \E r \in Requests : Serve(r)

Spec == Init /\ [][Next]_vars

\* The goroutines run; a handler whose connection was cut, and a stream that
\* was told to, return; a job ends.
FairSpec ==
  /\ Spec
  /\ WF_vars(Main)
  /\ WF_vars(Cron)
  /\ WF_vars(Clock)
  /\ \A r \in Requests :
       /\ WF_vars(closed /\ (Pinged(r) \/ Release(r) \/ Return(r)))
       /\ WF_vars(Kind[r] = "stream" /\ released /\ Return(r))

-----------------------------------------------------------------------------
(* What the order of the stops promises.                                   *)

\* Nobody meets a closed pool: the cron loop has ended before the pool closes,
\* and a request is refused a connection only if the server gave up waiting
\* for it.
PoolOutlivesItsUsers ==
  /\ cron.at # "stopped" => pool = "open"
  /\ (\E r \in Requests : request[r].at = "failed") => closed

\* Unless a second signal cut the drain short, no probe begun in the last
\* DrainDelay before the listener closed was told that the server serves.
DrainIsSeen ==
  (shutAt # None /\ drain = "full" /\ readyAt # None)
     => shutAt - readyAt >= DrainDelay

\* Until the process goes it stays within the two waits that stop_grace_period is
\* compared with; and it needs the second in full only for a call: a parked
\* stream never makes the shutdown time out.
StopsInTime ==
  /\ (Alive /\ stoppedAt # None) => now - stoppedAt <= DrainDelay + ShutdownTimeout
  /\ closed => \E r \in blockers : Kind[r] # "stream"

\* Neither too early nor too late: a prober has the whole drain to see the server
\* go, and the stop takes no longer than the drain and the shutdown may.
StopKeepsItsWaits == DrainIsSeen /\ StopsInTime

\* Once main stops serving, the process goes.
StoppingEnds == stoppedAt # None ~> ~Alive

\* An hour passes without its jobs only if one round of jobs outlasted a
\* tick: a loop that keeps up runs them every hour.
HoursAreServed ==
  cron.at # "stopped" =>
    \A h \in 1 .. now :
      Hour(h) => \/ h \in hours \cup stalled
                 \/ tick = h
                 \/ cron.tick = h /\ cron.at \in {"remind", "minute"}

=============================================================================
