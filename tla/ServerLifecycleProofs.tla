------------------------ MODULE ServerLifecycleProofs ------------------------
(***************************************************************************)
(* Theorems of ServerLifecycle, for any requests of any kinds, any drain   *)
(* delay and shutdown timeout, any minutes and hours, and any bounds.      *)
(***************************************************************************)
EXTENDS ServerLifecycle, TLAPS

USE KindAssumption, TimesAssumption, NoneAssumption

-----------------------------------------------------------------------------
(* The inductive invariant, part by part.                                  *)

\* No instant that is remembered lies ahead.
PastInv ==
  /\ waitedAt <= now
  /\ cron.since <= now
  /\ \A r \in Requests : request[r].since <= now
  /\ readyAt # None => readyAt <= now

Served == {"stopSignals", "cronWait", "closeDB", "closing", "exited"}

\* What main has behind it when it is at one of its stops.
OrderInv ==
  /\ main \notin {"serving", "streams", "killed"} => released
  /\ main \notin {"serving", "streams", "health", "killed"} => down
  /\ main \in {"waiting", "force"} \cup Served => listener = "closed"
  /\ main \in Served => closed \/ \A r \in Requests : ~InFlight(r)
  /\ main \in {"cronWait", "closeDB", "closing", "exited"} => cancelled
  /\ main \in {"closeDB", "closing", "exited"} => cron.at = "stopped"
  /\ pool # "open" => /\ cron.at = "stopped"
                      /\ main \in {"closing", "exited", "killed"}
  /\ (\E r \in Requests : request[r].at = "failed") => closed

\* A probe begun at t was told that the server serves, or may still be.
Promised(t) ==
  \/ readyAt = t
  \/ \E r \in Requests : request[r].at = "pinging" /\ request[r].since = t

\* A promise is as old as the drain, and then as the delay.
DrainInv ==
  /\ main \in {"serving", "streams", "health", "check"} => drain = "none"
  /\ main \in {"serving", "streams", "health", "check", "drain", "shutdown"}
       => shutAt = None
  /\ main \in {"check", "drain"} => \A t \in Nat : Promised(t) => t <= waitedAt
  /\ (main = "shutdown" /\ drain = "full")
       => \A t \in Nat : Promised(t) => now - t >= DrainDelay
  /\ (shutAt # None /\ drain = "full")
       => \A t \in Nat : Promised(t) => shutAt - t >= DrainDelay
  /\ shutAt # None => listener = "closed"

\* How long ago main stopped serving, at each of its stops; and a shutdown that
\* has lasted a tick no longer waits for a stream.
WaitsInv ==
  /\ main = "serving" => stoppedAt = None
  /\ main \notin {"serving", "killed"} => stoppedAt # None
  /\ main \in {"streams", "health", "check"} => now = stoppedAt
  /\ main = "drain" => waitedAt = stoppedAt /\ now - waitedAt <= DrainDelay
  /\ main = "shutdown" => now - stoppedAt <= DrainDelay
  /\ main = "waiting" => /\ waitedAt - stoppedAt <= DrainDelay
                         /\ now - waitedAt <= ShutdownTimeout
                         /\ now > waitedAt =>
                              \A r \in Requests : InFlight(r) => Kind[r] # "stream"
  /\ main \in {"force"} \cup Served
       => now - stoppedAt <= DrainDelay + ShutdownTimeout
  /\ main = "force" => \E r \in blockers : Kind[r] # "stream"
  /\ closed => /\ \E r \in blockers : Kind[r] # "stream"
               /\ main \in Served \cup {"killed"}

\* A pending tick came after the round of jobs that is running began.
TickInv ==
  tick # None => /\ tick <= now
                 /\ cron.at \in Job => cron.since < tick

Inv == TypeOK /\ PastInv /\ OrderInv /\ DrainInv /\ WaitsInv /\ TickInv /\ HoursAreServed

-----------------------------------------------------------------------------
(* Types.                                                                  *)

LEMMA TypeInit == Init => TypeOK
<1> SUFFICES ASSUME Init PROVE TypeOK
  OBVIOUS
<1>1. /\ cancelled \in BOOLEAN /\ trapped \in BOOLEAN /\ released \in BOOLEAN
      /\ down \in BOOLEAN /\ closed \in BOOLEAN
  BY DEF Init
<1>2. request \in [Requests -> [at : RequestState, since : Nat]]
  BY DEF Init, RequestState
<1>3. cron \in [at : {"select", "stopped"} \cup Job, tick : Nat, since : Nat]
  BY DEF Init
<1> QED
  BY <1>1, <1>2, <1>3 DEF Init, TypeOK, MainState

\* A step of a request leaves the others where they are.
LEMMA ServeFrame ==
  ASSUME TypeOK, NEW r \in Requests, Serve(r)
  PROVE  /\ request' \in [Requests -> [at : RequestState, since : Nat]]
         /\ \A q \in Requests \ {r} : request'[q] = request[q]
         /\ Alive
         /\ UNCHANGED serverOnly
<1> USE DEF TypeOK, RequestState
<1>1. CASE Begin(r)
  BY <1>1 DEF Begin
<1>2. CASE Pinged(r)
  BY <1>2 DEF Pinged, Reach
<1>3. CASE Acquire(r)
  BY <1>3 DEF Acquire, Reach
<1>4. CASE Release(r)
  BY <1>4 DEF Release, Reach
<1>5. CASE Return(r)
  BY <1>5 DEF Return, Reach
<1> QED
  BY <1>1, <1>2, <1>3, <1>4, <1>5 DEF Serve

LEMMA MainType ==
  ASSUME TypeOK, Main
  PROVE  TypeOK'
<1> USE DEF TypeOK, MainState, Go, stopVars, signalVars, serveVars, requestVars,
            cronVars
<1>1. CASE Select
  BY <1>1 DEF Select
<1>2. CASE ReleaseStreams
  BY <1>2 DEF ReleaseStreams
<1>3. CASE ReportDown
  BY <1>3 DEF ReportDown
<1>4. CASE Check
  BY <1>4 DEF Check
<1>5. CASE Drained
  BY <1>5 DEF Drained
<1>6. CASE Shutdown
  BY <1>6 DEF Shutdown
<1>7. CASE Idle
  BY <1>7 DEF Idle
<1>8. CASE TimeOut
  BY <1>8 DEF TimeOut
<1>9. CASE CutOff
  BY <1>9 DEF CutOff
<1>10. CASE StopSignals
  <2>1. cancelled' \in BOOLEAN /\ trapped' \in BOOLEAN
    BY <1>10 DEF StopSignals
  <2> QED
    BY <1>10, <2>1 DEF StopSignals
<1>11. CASE CronWait
  BY <1>11 DEF CronWait
<1>12. CASE CloseDB
  BY <1>12 DEF CloseDB
<1>13. CASE Exit
  BY <1>13 DEF Exit
<1> QED
  BY <1>1, <1>2, <1>3, <1>4, <1>5, <1>6, <1>7, <1>8, <1>9, <1>10, <1>11, <1>12,
     <1>13 DEF Main

LEMMA CronType ==
  ASSUME TypeOK, Cron
  PROVE  TypeOK'
<1> USE DEF TypeOK, Job, mainOnly, stopVars, signalVars, serveVars, requestVars
<1>1. CASE Receive
  BY <1>1 DEF Receive
<1>2. CASE Stop
  BY <1>2 DEF Stop
<1>3. CASE JobDone
  BY <1>3 DEF JobDone, AfterRemind, AfterMinute
<1> QED
  BY <1>1, <1>2, <1>3 DEF Cron

LEMMA TypeStep ==
  ASSUME TypeOK, [Next]_vars
  PROVE  TypeOK'
<1> USE DEF stopVars, signalVars, serveVars, requestVars, cronVars
<1>1. CASE Signal
  <2>1. main' \in MainState /\ second' \in {"off", "on", "got"}
    BY <1>1 DEF TypeOK, Signal, MainState
  <2>2. cancelled' \in BOOLEAN
    BY <1>1 DEF TypeOK, Signal
  <2>3. signals' \in Nat
    BY <1>1 DEF TypeOK, Signal
  <2> QED
    BY <1>1, <2>1, <2>2, <2>3 DEF TypeOK, Signal
<1>2. CASE ServeFails
  BY <1>2 DEF TypeOK, ServeFails
<1>3. CASE Main
  BY <1>3, MainType
<1>4. CASE Cron
  BY <1>4, CronType
<1>5. CASE Clock
  BY <1>5 DEF TypeOK, Clock, mainOnly
<1>6. CASE \E r \in Requests : Serve(r)
  <2>1. PICK r \in Requests : Serve(r)
    BY <1>6
  <2>2. request' \in [Requests -> [at : RequestState, since : Nat]]
    BY <2>1, ServeFrame
  <2>3. readyAt' \in Nat \cup {None}
    BY <2>1 DEF Serve, Begin, Pinged, Acquire, Release, Return, TypeOK
  <2>4. UNCHANGED serverOnly
    BY <2>1, ServeFrame
  <2> QED
    BY <2>2, <2>3, <2>4 DEF TypeOK, serverOnly
<1>7. CASE UNCHANGED vars
  BY <1>7 DEF TypeOK, vars
<1> QED
  BY <1>1, <1>2, <1>3, <1>4, <1>5, <1>6, <1>7 DEF Next

-----------------------------------------------------------------------------
(* What is remembered lies behind.                                         *)

LEMMA PastStep ==
  ASSUME TypeOK, PastInv, [Next]_vars
  PROVE  PastInv'
<1> USE DEF stopVars, signalVars, serveVars, requestVars, cronVars
<1>1. CASE Signal
  BY <1>1 DEF PastInv, Signal
<1>2. CASE ServeFails
  BY <1>2 DEF PastInv, ServeFails
<1>3. CASE Main
  <2>1. waitedAt' = now
    BY <1>3 DEF Main, Go, Select, ReleaseStreams, ReportDown, Check, Drained,
                Shutdown, Idle, TimeOut, CutOff, StopSignals, CronWait, CloseDB, Exit
  <2>2. UNCHANGED <<now, cron, request, readyAt>>
    BY <1>3 DEF Main, Select, ReleaseStreams, ReportDown, Check, Drained,
                Shutdown, Idle, TimeOut, CutOff, StopSignals, CronWait, CloseDB, Exit
  <2> QED
    BY <2>1, <2>2 DEF PastInv, TypeOK
<1>4. CASE Cron
  BY <1>4 DEF PastInv, TypeOK, Cron, Receive, Stop, JobDone, mainOnly
<1>5. CASE Clock
  BY <1>5 DEF PastInv, TypeOK, Clock, mainOnly
<1>6. CASE \E r \in Requests : Serve(r)
  <2>1. PICK r \in Requests : Serve(r)
    BY <1>6
  <2>2. /\ \A q \in Requests \ {r} : request'[q] = request[q]
        /\ UNCHANGED serverOnly
    BY <2>1, ServeFrame
  <2>3. request'[r].since <= now
    BY <2>1 DEF Serve, Begin, Pinged, Acquire, Release, Return, Reach, TypeOK,
                PastInv
  <2>4. readyAt' # None => readyAt' <= now
    BY <2>1 DEF Serve, Begin, Pinged, Acquire, Release, Return, PastInv
  <2> QED
    BY <2>2, <2>3, <2>4 DEF PastInv, serverOnly
<1>7. CASE UNCHANGED vars
  BY <1>7 DEF PastInv, vars
<1> QED
  BY <1>1, <1>2, <1>3, <1>4, <1>5, <1>6, <1>7 DEF Next

-----------------------------------------------------------------------------
(* The order of the stops.                                                 *)

LEMMA OrderMain ==
  ASSUME TypeOK, OrderInv, Main
  PROVE  OrderInv'
<1> USE DEF OrderInv, Served, Go, stopVars, signalVars, serveVars, requestVars,
            cronVars, InFlight
<1>1. CASE Select
  BY <1>1 DEF Select
<1>2. CASE ReleaseStreams
  BY <1>2 DEF ReleaseStreams
<1>3. CASE ReportDown
  BY <1>3 DEF ReportDown
<1>4. CASE Check
  BY <1>4 DEF Check
<1>5. CASE Drained
  BY <1>5 DEF Drained
<1>6. CASE Shutdown
  BY <1>6 DEF Shutdown
<1>7. CASE Idle
  BY <1>7 DEF Idle
<1>8. CASE TimeOut
  BY <1>8 DEF TimeOut
<1>9. CASE CutOff
  BY <1>9 DEF CutOff
<1>10. CASE StopSignals
  BY <1>10 DEF StopSignals
<1>11. CASE CronWait
  BY <1>11 DEF CronWait
<1>12. CASE CloseDB
  BY <1>12 DEF CloseDB
<1>13. CASE Exit
  BY <1>13 DEF Exit
<1> QED
  BY <1>1, <1>2, <1>3, <1>4, <1>5, <1>6, <1>7, <1>8, <1>9,
     <1>10, <1>11, <1>12, <1>13 DEF Main

LEMMA OrderServe ==
  ASSUME TypeOK, OrderInv, NEW r \in Requests, Serve(r)
  PROVE  OrderInv'
<1>1. /\ \A q \in Requests \ {r} : request'[q] = request[q]
      /\ UNCHANGED serverOnly
  BY ServeFrame
<1>2. ASSUME listener = "closed", InFlight(r)'
      PROVE  InFlight(r)
  BY <1>2 DEF Serve, Begin, Pinged, Acquire, Release, Return, Reach, InFlight,
              TypeOK
<1>3. ASSUME request'[r].at = "failed"
      PROVE  closed
  <2>1. CASE request[r].at = "failed"
    BY <2>1 DEF OrderInv
  <2>2. CASE Begin(r)
    BY <1>3, <2>2 DEF Begin, TypeOK
  <2>3. CASE Acquire(r)
    <3>1. pool # "open" /\ Alive /\ InFlight(r)
      BY <1>3, <2>3 DEF Acquire, Reach, TypeOK, InFlight
    <3>2. main \in Served
      BY <3>1 DEF OrderInv, Alive, Served
    <3> QED
      BY <3>1, <3>2 DEF OrderInv
  <2>4. CASE Pinged(r) \/ Release(r) \/ Return(r)
    BY <1>3, <2>4 DEF Pinged, Release, Return, Reach, TypeOK
  <2> QED
    BY <2>2, <2>3, <2>4 DEF Serve
<1>4. main \in Served => closed \/ \A q \in Requests : ~InFlight(q)'
  BY <1>1, <1>2 DEF OrderInv, InFlight
<1>5. (\E q \in Requests : request'[q].at = "failed") => closed
  BY <1>1, <1>3 DEF OrderInv
<1> QED
  BY <1>1, <1>4, <1>5 DEF OrderInv, serverOnly, stopVars, signalVars, serveVars, cronVars

LEMMA OrderStep ==
  ASSUME TypeOK, OrderInv, [Next]_vars
  PROVE  OrderInv'
<1> USE DEF stopVars, signalVars, serveVars, requestVars, cronVars
<1>1. CASE Signal
  BY <1>1 DEF OrderInv, Signal, InFlight, Served, Alive
<1>2. CASE ServeFails
  BY <1>2 DEF OrderInv, ServeFails, InFlight, Served
<1>3. CASE Main
  BY <1>3, OrderMain
<1>4. CASE Cron
  BY <1>4 DEF OrderInv, InFlight, Cron, Receive, Stop, JobDone, mainOnly, Job,
              Served, Alive, TypeOK
<1>5. CASE Clock
  BY <1>5 DEF OrderInv, InFlight, Clock, mainOnly
<1>6. CASE \E r \in Requests : Serve(r)
  BY <1>6, OrderServe
<1>7. CASE UNCHANGED vars
  BY <1>7 DEF OrderInv, InFlight, vars
<1> QED
  BY <1>1, <1>2, <1>3, <1>4, <1>5, <1>6, <1>7 DEF Next

-----------------------------------------------------------------------------
(* Time.                                                                   *)

\* Time passes only while main serves, drains or waits for its handlers.
LEMMA ClockWaits ==
  ASSUME TypeOK, OrderInv, Clock
  PROVE  /\ main \in {"serving", "drain", "waiting"}
         /\ main = "drain" => now - waitedAt < DrainDelay
         /\ main = "waiting" => now - waitedAt < ShutdownTimeout
         /\ \A r \in Requests : InFlight(r) => ~(Kind[r] = "stream" /\ released)
         /\ cron.at = "select" => tick = None
<1>1. ~Urgent /\ Alive
  BY DEF Clock
<1>2. ~MainReady
  BY <1>1 DEF Urgent
<1>3. \A r \in Requests : InFlight(r) => ~closed /\ ~(Kind[r] = "stream" /\ released)
  BY <1>1 DEF Urgent
<1>4. main # "cronWait"
  <2>1. SUFFICES ASSUME main = "cronWait" PROVE FALSE
    OBVIOUS
  <2>2. cancelled
    BY <2>1 DEF OrderInv
  <2>3. cron.at \notin {"select"} \cup Job
    BY <1>1, <2>2 DEF Urgent
  <2>4. cron.at # "stopped"
    BY <1>2, <2>1 DEF MainReady
  <2> QED
    BY <2>3, <2>4 DEF TypeOK
<1>5. main # "closing"
  <2>1. SUFFICES ASSUME main = "closing" PROVE FALSE
    OBVIOUS
  <2>2. PICK r \in Requests : Holds(r)
    BY <1>2, <2>1 DEF MainReady
  <2>3. InFlight(r)
    BY <2>2 DEF Holds, InFlight
  <2> QED
    BY <1>3, <2>1, <2>3 DEF OrderInv, Served
<1>6. main \notin {"streams", "health", "check", "shutdown", "force", "stopSignals",
                   "closeDB"}
  BY <1>2 DEF MainReady
<1>7. main \in {"serving", "drain", "waiting"}
  BY <1>1, <1>4, <1>5, <1>6 DEF TypeOK, MainState, Alive
<1>8. main = "drain" => now - waitedAt < DrainDelay
  BY <1>2 DEF MainReady, Waited, TypeOK
<1>9. main = "waiting" => now - waitedAt < ShutdownTimeout
  BY <1>2 DEF MainReady, Waited, TypeOK
<1>10. cron.at = "select" => tick = None
  BY <1>1 DEF Urgent
<1> QED
  BY <1>3, <1>7, <1>8, <1>9, <1>10

-----------------------------------------------------------------------------
(* The drain.                                                              *)

\* Nobody is promised anything any more.
LEMMA NoNewPromise ==
  ASSUME TypeOK, NEW r \in Requests, Serve(r), down \/ listener # "open",
         NEW t \in Nat, Promised(t)'
  PROVE  Promised(t)
<1>1. \A q \in Requests \ {r} : request'[q] = request[q]
  BY ServeFrame
<1>2. request'[r].at = "pinging" => /\ request[r].at = "pinging"
                                    /\ request'[r].since = request[r].since
  BY DEF Serve, Begin, Pinged, Acquire, Release, Return, Reach, TypeOK
<1>3. readyAt' = readyAt \/ (request[r].at = "pinging" /\ readyAt' = request[r].since)
  BY DEF Serve, Begin, Pinged, Acquire, Release, Return
<1> QED
  BY <1>1, <1>2, <1>3 DEF Promised

\* A promise is of the past.
LEMMA PromisesPast ==
  ASSUME TypeOK, PastInv, NEW t \in Nat, Promised(t)
  PROVE  t <= now
  BY DEF Promised, PastInv

LEMMA DrainMain ==
  ASSUME TypeOK, PastInv, DrainInv, Main
  PROVE  DrainInv'
<1>1. UNCHANGED <<now, request, readyAt>>
  BY DEF Main, requestVars, Select, ReleaseStreams, ReportDown, Check, Drained,
         Shutdown, Idle, TimeOut, CutOff, StopSignals, CronWait, CloseDB, Exit
<1>2. \A t \in Nat : Promised(t)' = Promised(t)
  BY <1>1 DEF Promised
<1>3. \A t \in Nat : Promised(t) => t <= now
  BY PromisesPast
<1> USE DEF DrainInv, TypeOK, Go, stopVars, signalVars, serveVars, requestVars, cronVars
<1>4. CASE Select \/ ReleaseStreams
  BY <1>2, <1>4 DEF Select, ReleaseStreams
<1>5. CASE ReportDown
  BY <1>2, <1>3, <1>5 DEF ReportDown
<1>6. CASE Check
  BY <1>2, <1>3, <1>6 DEF Check
<1>7. CASE Drained
  <2>1. main' = "shutdown" /\ shutAt' = None /\ now' = now
    BY <1>7 DEF Drained
  <2>2. ASSUME drain' = "full", NEW t \in Nat, Promised(t)'
        PROVE  now - t >= DrainDelay
    <3>1. now - waitedAt >= DrainDelay
      BY <1>7, <2>2 DEF Drained, Waited
    <3>2. t <= waitedAt
      BY <1>2, <1>7, <2>2 DEF Drained
    <3> QED
      BY <3>1, <3>2
  <2> QED
    BY <2>1, <2>2
<1>8. CASE Shutdown
  BY <1>2, <1>8 DEF Shutdown
<1>9. CASE Idle \/ TimeOut \/ CutOff
  BY <1>2, <1>9 DEF Idle, TimeOut, CutOff
<1>10. CASE StopSignals \/ CronWait \/ CloseDB \/ Exit
  BY <1>2, <1>10 DEF StopSignals, CronWait, CloseDB, Exit
<1> QED
  BY <1>4, <1>5, <1>6, <1>7, <1>8, <1>9, <1>10 DEF Main

LEMMA DrainServe ==
  ASSUME TypeOK, PastInv, OrderInv, DrainInv, NEW r \in Requests, Serve(r)
  PROVE  DrainInv'
<1>1. UNCHANGED serverOnly
  BY ServeFrame
<1> USE DEF serverOnly, stopVars, signalVars, serveVars
<1>2. CASE down \/ listener # "open"
  <2>1. \A t \in Nat : Promised(t)' => Promised(t)
    BY <1>2, NoNewPromise
  <2> QED
    BY <1>1, <2>1 DEF DrainInv
<1>3. CASE ~down /\ listener = "open"
  <2>1. main \in {"serving", "streams", "health", "killed"} /\ shutAt = None
    BY <1>3 DEF OrderInv, DrainInv, TypeOK
  <2> QED
    BY <1>1, <2>1 DEF DrainInv
<1> QED
  BY <1>2, <1>3

LEMMA DrainStep ==
  ASSUME TypeOK, PastInv, OrderInv, DrainInv, [Next]_vars
  PROVE  DrainInv'
<1> USE DEF stopVars, signalVars, serveVars, requestVars, cronVars
<1>1. CASE Signal
  BY <1>1 DEF DrainInv, Signal, Promised, Alive
<1>2. CASE ServeFails
  BY <1>2 DEF DrainInv, ServeFails, Promised
<1>3. CASE Main
  BY <1>3, DrainMain
<1>4. CASE Cron
  BY <1>4 DEF DrainInv, Promised, Cron, Receive, Stop, JobDone, mainOnly
<1>5. CASE Clock
  <2>1. main # "shutdown"
    BY <1>5, ClockWaits
  <2> QED
    BY <1>5, <2>1 DEF DrainInv, Promised, Clock, mainOnly
<1>6. CASE \E r \in Requests : Serve(r)
  BY <1>6, DrainServe
<1>7. CASE UNCHANGED vars
  BY <1>7 DEF DrainInv, Promised, vars
<1> QED
  BY <1>1, <1>2, <1>3, <1>4, <1>5, <1>6, <1>7 DEF Next

-----------------------------------------------------------------------------
(* The waits.                                                              *)

\* A drain that is over, or a shutdown that has timed out, met a call.
LEMMA WaitsMain ==
  ASSUME TypeOK, PastInv, OrderInv, WaitsInv, Main
  PROVE  WaitsInv'
<1> USE DEF WaitsInv, TypeOK, Go, stopVars, signalVars, serveVars, requestVars,
            cronVars, InFlight, Served
<1>1. CASE Select
  BY <1>1 DEF Select
<1>2. CASE ReleaseStreams
  BY <1>2 DEF ReleaseStreams
<1>3. CASE ReportDown
  BY <1>3 DEF ReportDown
<1>4. CASE Check
  BY <1>4 DEF Check
<1>5. CASE Drained
  BY <1>5 DEF Drained
<1>6. CASE Shutdown
  BY <1>6 DEF Shutdown
<1>7. CASE Idle
  BY <1>7 DEF Idle, PastInv
<1>8. CASE TimeOut
  <2>1. PICK r \in Requests : InFlight(r)
    BY <1>8 DEF TimeOut
  <2>2. now > waitedAt
    BY <1>8 DEF TimeOut, Waited
  <2>3. Kind[r] # "stream" /\ r \in blockers'
    BY <1>8, <2>1, <2>2 DEF TimeOut
  <2>4. now - stoppedAt <= DrainDelay + ShutdownTimeout
    BY <1>8 DEF TimeOut
  <2>5. ~closed
    BY <1>8 DEF TimeOut
  <2> QED
    BY <1>8, <2>3, <2>4, <2>5 DEF TimeOut
<1>9. CASE CutOff
  BY <1>9 DEF CutOff
<1>10. CASE StopSignals
  BY <1>10 DEF StopSignals
<1>11. CASE CronWait
  BY <1>11 DEF CronWait
<1>12. CASE CloseDB
  BY <1>12 DEF CloseDB
<1>13. CASE Exit
  BY <1>13 DEF Exit
<1> QED
  BY <1>1, <1>2, <1>3, <1>4, <1>5, <1>6, <1>7, <1>8, <1>9, <1>10, <1>11, <1>12,
     <1>13 DEF Main

LEMMA WaitsServe ==
  ASSUME TypeOK, OrderInv, WaitsInv, NEW r \in Requests, Serve(r)
  PROVE  WaitsInv'
<1>1. /\ \A q \in Requests \ {r} : request'[q] = request[q]
      /\ UNCHANGED serverOnly
  BY ServeFrame
<1>2. ASSUME main = "waiting", InFlight(r)'
      PROVE  InFlight(r)
  <2>1. listener = "closed"
    BY <1>2 DEF OrderInv
  <2> QED
    BY <1>2, <2>1 DEF Serve, Begin, Pinged, Acquire, Release, Return, Reach,
                      InFlight, TypeOK
<1>3. ASSUME main = "waiting", NEW q \in Requests, InFlight(q)'
      PROVE  InFlight(q)
  BY <1>1, <1>2, <1>3 DEF InFlight
<1> QED
  BY <1>1, <1>3 DEF WaitsInv, serverOnly, stopVars, serveVars

LEMMA WaitsStep ==
  ASSUME TypeOK, PastInv, OrderInv, WaitsInv, [Next]_vars
  PROVE  WaitsInv'
<1> USE DEF stopVars, signalVars, serveVars, requestVars, cronVars
<1>1. CASE Signal
  BY <1>1 DEF WaitsInv, Signal, InFlight, Alive, Served
<1>2. CASE ServeFails
  BY <1>2 DEF WaitsInv, ServeFails, InFlight
<1>3. CASE Main
  BY <1>3, WaitsMain
<1>4. CASE Cron
  BY <1>4 DEF WaitsInv, InFlight, Cron, Receive, Stop, JobDone, mainOnly
<1>5. CASE Clock
  <2>1. /\ main \in {"serving", "drain", "waiting"}
        /\ main = "drain" => now - waitedAt < DrainDelay
        /\ main = "waiting" => now - waitedAt < ShutdownTimeout
        /\ \A r \in Requests : InFlight(r) => ~(Kind[r] = "stream" /\ released)
    BY <1>5, ClockWaits
  <2>2. now' = now + 1 /\ UNCHANGED <<main, waitedAt, stoppedAt, request, closed, blockers>>
    BY <1>5 DEF Clock, mainOnly
  <2>3. main = "waiting" => \A r \in Requests : InFlight(r) => Kind[r] # "stream"
    BY <2>1 DEF OrderInv
  <2> QED
    BY <2>1, <2>2, <2>3 DEF WaitsInv, TypeOK, InFlight, Served
<1>6. CASE \E r \in Requests : Serve(r)
  BY <1>6, WaitsServe
<1>7. CASE UNCHANGED vars
  BY <1>7 DEF WaitsInv, InFlight, vars
<1> QED
  BY <1>1, <1>2, <1>3, <1>4, <1>5, <1>6, <1>7 DEF Next

-----------------------------------------------------------------------------
(* The hours.                                                              *)

LEMMA TickStep ==
  ASSUME TypeOK, PastInv, TickInv, [Next]_vars
  PROVE  TickInv'
<1> USE DEF cronVars
<1>1. CASE Cron
  BY <1>1 DEF TickInv, Cron, Receive, Stop, JobDone, mainOnly, TypeOK, Job
<1>2. CASE Clock
  BY <1>2 DEF TickInv, Clock, TypeOK, PastInv
<1>3. CASE Signal \/ ServeFails \/ Main \/ UNCHANGED vars
  <2>1. UNCHANGED <<now, cron, tick>>
    BY <1>3 DEF Signal, ServeFails, Main, Select, ReleaseStreams, ReportDown, Check,
                Drained, Shutdown, Idle, TimeOut, CutOff, StopSignals, CronWait,
                CloseDB, Exit, vars
  <2> QED
    BY <2>1 DEF TickInv
<1>4. CASE \E r \in Requests : Serve(r)
  <2>1. UNCHANGED <<now, cron, tick>>
    BY <1>4, ServeFrame DEF serverOnly
  <2> QED
    BY <2>1 DEF TickInv
<1> QED
  BY <1>1, <1>2, <1>3, <1>4 DEF Next

\* What happened to an hour.
Accounted(h) ==
  \/ h \in hours \cup stalled
  \/ tick = h
  \/ cron.tick = h /\ cron.at \in {"remind", "minute"}

LEMMA HoursClock ==
  ASSUME TypeOK, PastInv, OrderInv, TickInv, HoursAreServed, Clock
  PROVE  HoursAreServed'
<1>1. /\ now' = now + 1
      /\ tick' = IF tick = None THEN now + 1 ELSE tick
      /\ stalled' = IF cron.at \in Job /\ cron.since < now
                      THEN stalled \cup {now + 1} ELSE stalled
      /\ UNCHANGED <<cron, hours>>
  BY DEF Clock
<1> SUFFICES ASSUME cron.at # "stopped", NEW h \in 1 .. now + 1, Hour(h)
             PROVE  Accounted(h)'
  BY <1>1 DEF HoursAreServed, Accounted, Hour, TypeOK
<1>2. CASE h \in 1 .. now
  <2>1. Accounted(h)
    BY <1>2 DEF HoursAreServed, Accounted
  <2>2. tick = h => tick' = h
    BY <1>1, <1>2
  <2> QED
    BY <1>1, <2>1, <2>2 DEF Accounted
<1>3. CASE h = now + 1
  <2>1. CASE tick = None
    BY <1>1, <1>3, <2>1 DEF Accounted
  <2>2. CASE tick # None
    <3>1. cron.at # "select"
      BY <2>2, ClockWaits
    <3>2. cron.at \in Job
      BY <3>1 DEF TypeOK
    <3>3. cron.since < now
      BY <2>2, <3>2 DEF TickInv, TypeOK
    <3> QED
      BY <1>1, <1>3, <3>2, <3>3 DEF Accounted
  <2> QED
    BY <2>1, <2>2
<1> QED
  BY <1>2, <1>3 DEF TypeOK

LEMMA HoursCron ==
  ASSUME TypeOK, HoursAreServed, Cron
  PROVE  HoursAreServed'
<1>1. UNCHANGED <<now, stalled>>
  BY DEF Cron, Receive, Stop, JobDone
<1> SUFFICES ASSUME cron'.at # "stopped", NEW h \in 1 .. now, Hour(h)
             PROVE  Accounted(h)'
  BY <1>1 DEF HoursAreServed, Accounted, Hour
<1>2. h # None
  OBVIOUS
<1>3. cron.at # "stopped"
  BY DEF Cron, Receive, Stop, JobDone, Job, TypeOK
<1>4. Accounted(h)
  BY <1>3 DEF HoursAreServed, Accounted
<1>5. CASE Receive
  BY <1>1, <1>4, <1>5 DEF Receive, Accounted
<1>6. CASE Stop
  BY <1>3, <1>6 DEF Stop, TypeOK
<1>7. CASE JobDone
  <2>1. CASE h \in hours \/ h \in stalled \/ tick = h
    BY <1>1, <1>7, <2>1 DEF JobDone, Accounted
  <2>2. CASE cron.tick = h /\ cron.at = "remind"
    BY <1>7, <2>2 DEF JobDone, Accounted, AfterRemind, TypeOK
  <2>3. CASE cron.tick = h /\ cron.at = "minute"
    BY <1>7, <2>3 DEF JobDone, Accounted, AfterMinute, TypeOK
  <2> QED
    BY <1>4, <2>1, <2>2, <2>3 DEF Accounted
<1> QED
  BY <1>5, <1>6, <1>7 DEF Cron

LEMMA HoursStep ==
  ASSUME TypeOK, PastInv, OrderInv, TickInv, HoursAreServed, [Next]_vars
  PROVE  HoursAreServed'
<1> USE DEF cronVars
<1>1. CASE Signal \/ ServeFails \/ Main \/ UNCHANGED vars
  <2>1. UNCHANGED <<now, cron, tick, hours, stalled>>
    BY <1>1 DEF Signal, ServeFails, Main, Select, ReleaseStreams, ReportDown, Check,
                Drained, Shutdown, Idle, TimeOut, CutOff, StopSignals, CronWait,
                CloseDB, Exit, vars
  <2> QED
    BY <2>1 DEF HoursAreServed, Hour
<1>2. CASE \E r \in Requests : Serve(r)
  <2>1. UNCHANGED <<now, cron, tick, hours, stalled>>
    BY <1>2, ServeFrame DEF serverOnly
  <2> QED
    BY <2>1 DEF HoursAreServed, Hour
<1> QED
  BY <1>1, <1>2, HoursClock, HoursCron DEF Next

-----------------------------------------------------------------------------
(* The theorems.                                                           *)

LEMMA InvInit == Init => Inv
<1> SUFFICES ASSUME Init PROVE Inv
  OBVIOUS
<1>1. TypeOK
  BY TypeInit
<1>2. PastInv
  BY DEF Init, PastInv
<1>3. OrderInv
  BY DEF Init, OrderInv, Served
<1>4. DrainInv
  BY DEF Init, DrainInv
<1>5. WaitsInv
  BY DEF Init, WaitsInv, Served
<1>6. TickInv /\ HoursAreServed
  BY DEF Init, TickInv, HoursAreServed
<1> QED
  BY <1>1, <1>2, <1>3, <1>4, <1>5, <1>6 DEF Inv

LEMMA InvStep == Inv /\ [Next]_vars => Inv'
  BY TypeStep, PastStep, OrderStep, DrainStep, WaitsStep, TickStep, HoursStep DEF Inv

LEMMA Invariant == Spec => []Inv
<1>1. Init => Inv
  BY InvInit
<1>2. Inv /\ [Next]_vars => Inv'
  BY InvStep
<1> QED
  BY <1>1, <1>2, PTL DEF Spec

\* Every reachable state of the server is well typed.
THEOREM ServerTypeCorrect == Spec => []TypeOK
<1>1. Inv => TypeOK
  BY DEF Inv
<1> QED
  BY <1>1, Invariant, PTL

\* For any requests, signals and rounds of jobs: the cron loop has ended before
\* the pool closes, and a request is refused a connection only after srv.Close.
THEOREM PoolCorrect == Spec => []PoolOutlivesItsUsers
<1>1. Inv => PoolOutlivesItsUsers
  BY DEF Inv, OrderInv, PoolOutlivesItsUsers
<1> QED
  BY <1>1, Invariant, PTL

\* For any delays, probes and requests: a prober is never told that the server
\* serves within the drain before its listener closes, a server that stops is
\* within its two waits, and a shutdown that was forced met a call or a probe,
\* never just parked streams.
THEOREM StopsCorrect == Spec => []StopKeepsItsWaits
<1>1. Inv => DrainIsSeen
  BY DEF Inv, DrainInv, DrainIsSeen, Promised, TypeOK
<1>2. Inv => StopsInTime
  <2> SUFFICES ASSUME Inv PROVE StopsInTime
    OBVIOUS
  <2> USE DEF Inv, TypeOK, WaitsInv
  <2>1. closed => \E r \in blockers : Kind[r] # "stream"
    OBVIOUS
  <2>2. ASSUME Alive, stoppedAt # None
        PROVE  now - stoppedAt <= DrainDelay + ShutdownTimeout
    BY <2>2 DEF Alive, Served, MainState
  <2> QED
    BY <2>1, <2>2 DEF StopsInTime
<1>3. Inv => StopKeepsItsWaits
  BY <1>1, <1>2 DEF StopKeepsItsWaits
<1> QED
  BY <1>3, Invariant, PTL

\* For any ticks in a minute and an hour: as long as the loop runs, every hour
\* that came is served, pending or its tick met one round of jobs a second time.
THEOREM HoursCorrect == Spec => []HoursAreServed
<1>1. Inv => HoursAreServed
  BY DEF Inv
<1> QED
  BY <1>1, Invariant, PTL

=============================================================================
