------------------------------ MODULE Schedule ------------------------------
(***************************************************************************)
(* The repeats of a reminder: which schedules are accepted, and to which   *)
(* instant a repeat that was just delivered moves.                         *)
(*                                                                         *)
(* An instant is a number of ticks; a schedule either comes every so many  *)
(* ticks or has a calendar, given by the instants it fires at.  Durations  *)
(* have a fixed width, within which a difference saturates and a product   *)
(* wraps.                                                                  *)
(***************************************************************************)
EXTENDS Integers, FiniteSets

CONSTANTS
  Second,             \* ticks of a second
  HalfRange,          \* durations lie within -HalfRange .. HalfRange - 1
  MaxAdvanceSteps,    \* maxScheduleAdvanceSteps
  MinIntervalPublic,  \* the shortest interval in a channel
  MinIntervalDM,      \* and in a direct message
  SampleBase,         \* intervalSampleBase
  Never,              \* the zero time
  Instants,           \* bound: the instants that are compared below
  Delays,             \* bound: the delays
  Calendars           \* bound: the calendars

VARIABLE sample  \* what is compared: a repeat (here), or a text (in When)

ASSUME TicksAssumption == Second \in Nat \ {0} /\ HalfRange \in Nat \ {0}
ASSUME NeverAssumption == Never \notin Int
ASSUME StepsAssumption ==
  MaxAdvanceSteps \in Nat \ {0} /\ MinIntervalDM \in Nat \ {0} /\ SampleBase \in Int

\* A delay of the library: whole seconds, and a duration.
Delay(delay) == delay \in Nat \ {0} /\ delay % Second = 0 /\ delay < HalfRange

\* A calendar is known up to some last instant, and time up to some bound or none.
ASSUME SamplesAssumption ==
  /\ Instants \subseteq Nat /\ \A i \in Instants : 0 .. i \subseteq Instants
  /\ \A delay \in Delays : Delay(delay)
  /\ \A times \in Calendars : times \subseteq Int /\ IsFiniteSet(times)

-----------------------------------------------------------------------------
(* Durations, and the schedules of the cron library.                       *)

Saturated(d) == IF d >= HalfRange THEN HalfRange - 1
                ELSE IF d < -HalfRange THEN -HalfRange
                ELSE d

Wrapped(d) == ((d + HalfRange) % (2 * HalfRange)) - HalfRange

Every(delay) == [kind |-> "every", delay |-> delay]

Calendar(times) == [kind |-> "calendar", times |-> times]

\* The first of some instants, if there is one.
First(times) == IF times = {} THEN Never
                ELSE CHOOSE t \in times : \A u \in times : t <= u

\* The library adds the delay and drops what is below a second.
Later(t, delay) == t + delay - (t % Second)

\* Schedule.Next.
NextAfter(schedule, t) ==
  IF schedule.kind = "every" THEN Later(t, schedule.delay)
  ELSE First({u \in schedule.times : u > t})

-----------------------------------------------------------------------------
(* What is accepted.                                                       *)

MinInterval(isDM) == IF isDM THEN MinIntervalDM ELSE MinIntervalPublic

\* The first gap after a fixed instant stands for all of them.
ValidateRepeatInterval(schedule, isDM) ==
  LET first  == NextAfter(schedule, SampleBase)
      second == NextAfter(schedule, first)
  IN /\ first # Never
     /\ second # Never
     /\ second - first >= MinInterval(isDM)

-----------------------------------------------------------------------------
(* The next occurrence.                                                    *)

\* Mutant of AdvanceByDelay: one step too few.
AdvanceByDelayShort(anchor, now, delay) ==
  LET first == Later(anchor, delay)
      next  == first + Wrapped((Saturated(now - first) \div delay) * delay)
  IN IF first > now THEN first
     ELSE IF next > now THEN next
     ELSE Never

\* The first of the anchor's occurrences after now, unless the arithmetic has
\* overflowed.
AdvanceByDelay(anchor, now, delay) ==
  LET first == Later(anchor, delay)
      next  == first + Wrapped((Saturated(now - first) \div delay + 1) * delay)
  IN IF first > now THEN first
     ELSE IF next > now THEN next
     ELSE Never

Occurrence(next, phaseLost) == [next |-> next, phaseLost |-> phaseLost]

\* There is no further one: the reminder is done.
NoOccurrence == Occurrence(Never, FALSE)

AdvanceFromNow(schedule, now) ==
  IF NextAfter(schedule, now) = Never THEN NoOccurrence
  ELSE Occurrence(NextAfter(schedule, now), TRUE)

\* The walk along a calendar: of the first MaxAdvanceSteps instants it comes to,
\* the first that is after now.
AdvanceCalendar(schedule, anchor, now) ==
  LET ahead == {t \in schedule.times : t > anchor}
      walk  == {t \in ahead :
                  Cardinality({u \in ahead : u <= t}) <= MaxAdvanceSteps}
      after == {t \in walk : t > now}
  IN IF after # {} THEN Occurrence(First(after), FALSE)
     ELSE IF Cardinality(ahead) < MaxAdvanceSteps THEN NoOccurrence
     ELSE AdvanceFromNow(schedule, now)

NextOccurrenceAfter(schedule, anchor, now) ==
  IF schedule.kind = "calendar" THEN AdvanceCalendar(schedule, anchor, now)
  ELSE LET next == AdvanceByDelay(anchor, now, schedule.delay)
       IN IF next # Never THEN Occurrence(next, FALSE)
          ELSE AdvanceFromNow(schedule, now)

-----------------------------------------------------------------------------
Schedules == {Every(d) : d \in Delays} \cup {Calendar(c) : c \in Calendars}

\* What a repeat would have come at since its anchor, were it never confirmed late.
Occurrences(schedule, anchor) ==
  IF schedule.kind = "every"
    THEN {Later(anchor, schedule.delay) + k * schedule.delay : k \in Instants}
    ELSE {t \in schedule.times : t > anchor}

\* One gap stands for all.
Regular(schedule) ==
  schedule.kind = "every" \/
    \E gap \in Instants : \A t \in schedule.times :
      NextAfter(schedule, t) \in {Never, t + gap}

\* A repeat never comes back in the past.  A late confirmation never shifts it:
\* it comes at the first of its occurrences after now, however late any of the
\* deliveries in between was confirmed.  Only where the phase is reported lost
\* may it shift, and a regular schedule that was accepted loses its phase neither
\* by a delay of less than MaxAdvanceSteps - 1 of the shortest intervals nor, if
\* it comes every so many ticks, by one that a duration can hold.
KeepsPhase(s, anchor, now) ==
  LET o     == NextOccurrenceAfter(s, anchor, now)
      spans == IF s.kind = "every" THEN HalfRange - s.delay
               ELSE (MaxAdvanceSteps - 1) * MinIntervalDM
  IN o.next # Never =>
       /\ o.next > now
       /\ o.phaseLost \/ o.next = First({t \in Occurrences(s, anchor) : t > now})
       /\ o.phaseLost \/ \A early \in Instants :
            LET e == NextOccurrenceAfter(s, anchor, early) IN
              e.next # Never /\ ~e.phaseLost /\ e.next <= now =>
                NextOccurrenceAfter(s, e.next, now) = o
       /\ Regular(s) /\ ValidateRepeatInterval(s, TRUE) /\ now - anchor < spans =>
            ~o.phaseLost

Repeats == [form : {"repeat"}, schedule : Schedules, anchor : Instants, now : Instants]

\* A repeat keeps its phase (nextOccurrenceAfter; see KeepsPhase).
RepeatsKeepPhase ==
  sample \in Repeats => KeepsPhase(sample.schedule, sample.anchor, sample.now)
=============================================================================
