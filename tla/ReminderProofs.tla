--------------------------- MODULE ReminderProofs ---------------------------
(***************************************************************************)
(* Theorems of reminders: of when they are due (Schedule, When) and of     *)
(* their delivery (Reminder).                                              *)
(*                                                                         *)
(* What advanceByDelay computes, for every anchor, instant and delay, with *)
(* the widths of Go's durations.  Fires says which instants an anchored    *)
(* schedule has; the theorems say that the arithmetic finds the first one  *)
(* after now, that confirmations in between change nothing, and that only  *)
(* a lateness no duration can hold makes it give up.  The bounded walk     *)
(* along a calendar finds that instant too, and what was accepted of a     *)
(* calendar of one gap bounds how many it steps over.                      *)
(*                                                                         *)
(* The guards of ParseDuration are exact, for every width and every unit:  *)
(* a character is refused for its size exactly if what it stands for does  *)
(* not fit, and what is accepted is never a wrapped value.                 *)
(*                                                                         *)
(* The invariants of Reminder and its refinement of ReminderLifecycle, for *)
(* any number of reminders and clients, any grace, cap and buffer, and any *)
(* bounds.                                                                 *)
(***************************************************************************)
EXTENDS Reminder, When, FiniteSetTheorems, WellFoundedInduction, TLAPS

\* The instants of a schedule that comes every delay ticks, from an anchor on.
Fires(anchor, delay, t) == \E k \in Nat : t = Later(anchor, delay) + k * delay

-----------------------------------------------------------------------------
\* Division, as Go's of what is not negative.
LEMMA DivBounds ==
  ASSUME NEW x \in Nat, NEW d \in Nat \ {0}, NEW q, q = x \div d
  PROVE  /\ q \in Nat /\ q * d \in Nat
         /\ q * d <= x
         /\ x < q * d + d
BY SMT

\* What is too little by any amount is too little by a whole delay.
LEMMA Steps ==
  ASSUME NEW k \in Int, NEW l \in Int, NEW d \in Nat \ {0}, k < l
  PROVE  k * d + d <= l * d
BY SMT

\* One step more.
LEMMA OneStep ==
  ASSUME NEW k \in Int, NEW d \in Int
  PROVE  (k + 1) * d = k * d + d
BY SMT

\* A product that fits is what it is.
LEMMA WrapsNot ==
  ASSUME NEW x \in Int, -HalfRange <= x, x < HalfRange
  PROVE  Wrapped(x) = x
<1>1. HalfRange \in Nat \ {0}
  BY TicksAssumption
<1>2. (x + HalfRange) % (2 * HalfRange) = x + HalfRange
  BY <1>1, SMT
<1> QED
  BY <1>1, <1>2 DEF Wrapped

\* One that does not, by less than the range again, turns negative.
LEMMA WrapsBelow ==
  ASSUME NEW x \in Int, HalfRange <= x, x < 2 * HalfRange
  PROVE  Wrapped(x) \in Int /\ Wrapped(x) < 0
<1>1. HalfRange \in Nat \ {0}
  BY TicksAssumption
<1>2. (x + HalfRange) % (2 * HalfRange) = x - HalfRange
  BY <1>1, SMT
<1> QED
  BY <1>1, <1>2 DEF Wrapped

\* A remainder is one.
LEMMA ModBounds ==
  ASSUME NEW x \in Int, NEW d \in Nat \ {0}
  PROVE  x % d \in Nat /\ x % d < d
BY SMT

\* The first instant is one.
LEMMA LaterIsInt ==
  ASSUME NEW anchor \in Int, NEW delay \in Nat
  PROVE  Later(anchor, delay) \in Int
BY ModBounds, TicksAssumption DEF Later

-----------------------------------------------------------------------------
(* Of two instants of one schedule, each the first after now, neither is    *)
(* before the other.                                                        *)

\* The first instant of a schedule after now is where the division says.
LEMMA DivisionFindsIt ==
  ASSUME NEW first \in Int, NEW at \in Int, NEW d \in Nat \ {0}, first <= at,
         NEW q, q = (at - first) \div d,
         NEW k \in Nat, first + k * d > at
  PROVE  q * d + d <= k * d
<1>1. q \in Nat /\ q * d \in Nat /\ q * d <= at - first
  <2>1. at - first \in Nat
    OBVIOUS
  <2> QED
    BY <2>1, DivBounds
<1>2. k * d \in Nat
  OBVIOUS
<1>3. q * d < k * d
  BY <1>1, <1>2
<1>4. q < k
  <2>1. ASSUME k <= q PROVE k * d <= q * d
    BY <1>1, <2>1, SMT
  <2> QED
    BY <1>1, <1>2, <1>3, <2>1
<1> QED
  BY <1>1, <1>4, Steps

\* What the arithmetic makes of a schedule whose first instant has passed.
LEMMA Arithmetic ==
  ASSUME NEW anchor \in Int, NEW at \in Int, NEW delay, Delay(delay),
         NEW first, first = Later(anchor, delay), first <= at,
         NEW q, q = (at - first) \div delay
  PROVE  /\ q * delay + delay < HalfRange =>
              AdvanceByDelay(anchor, at, delay) = first + (q * delay + delay)
         /\ q * delay + delay >= HalfRange =>
              AdvanceByDelay(anchor, at, delay) = Never
<1>0. /\ delay \in Nat \ {0} /\ delay < HalfRange /\ HalfRange \in Nat \ {0}
      /\ first \in Int /\ at - first \in Nat
  <2>1. delay \in Nat \ {0} /\ delay < HalfRange /\ HalfRange \in Nat \ {0}
    BY TicksAssumption DEF Delay
  <2>2. first \in Int
    BY <2>1, LaterIsInt
  <2> QED
    BY <2>1, <2>2
<1>1. PICK diff : diff = at - first
  OBVIOUS
<1>2. PICK held : held = Saturated(diff)
  OBVIOUS
<1>3. PICK s : s = held \div delay
  OBVIOUS
<1>4. diff \in Nat /\ q = diff \div delay
  BY <1>0, <1>1
<1>5. q \in Nat /\ q * delay \in Nat /\ q * delay <= diff /\ diff < q * delay + delay
  BY <1>0, <1>4, DivBounds
<1>6. held \in Nat /\ held < HalfRange
  BY <1>0, <1>2, <1>4 DEF Saturated
<1>7. s \in Nat /\ s * delay \in Nat /\ s * delay <= held /\ held < s * delay + delay
  BY <1>0, <1>3, <1>6, DivBounds
<1>8. (s + 1) * delay = s * delay + delay
  BY <1>0, <1>7, OneStep
<1>9. PICK p : p = s * delay + delay
  OBVIOUS
<1>10. p \in Nat /\ p < 2 * HalfRange
  BY <1>0, <1>6, <1>7, <1>9
<1>11. AdvanceByDelay(anchor, at, delay) =
         IF first + Wrapped(p) > at THEN first + Wrapped(p) ELSE Never
  <2>1. ~(first > at)
    BY <1>0
  <2> QED
    BY <2>1, <1>1, <1>2, <1>3, <1>8, <1>9 DEF AdvanceByDelay
<1>12. ASSUME q * delay + delay < HalfRange
       PROVE  AdvanceByDelay(anchor, at, delay) = first + (q * delay + delay)
  <2>1. held = diff
    BY <1>0, <1>2, <1>4, <1>5, <1>12 DEF Saturated
  <2>2. p = q * delay + delay
    BY <2>1, <1>3, <1>4, <1>9
  <2>3. Wrapped(p) = p
    BY <1>0, <1>10, <1>12, <2>2, WrapsNot
  <2>4. first + p > at
    BY <1>0, <1>1, <1>5, <1>10, <2>2
  <2> QED
    BY <1>11, <2>2, <2>3, <2>4
<1>13. ASSUME q * delay + delay >= HalfRange
       PROVE  AdvanceByDelay(anchor, at, delay) = Never
  <2>1. p >= HalfRange
    <3>1. CASE diff < HalfRange
      <4>1. held = diff
        BY <1>0, <1>2, <1>4, <3>1 DEF Saturated
      <4> QED
        BY <4>1, <1>3, <1>4, <1>9, <1>13
    <3>2. CASE diff >= HalfRange
      <4>1. held = HalfRange - 1
        BY <1>2, <3>2 DEF Saturated
      <4> QED
        BY <1>0, <1>7, <1>9, <1>10, <4>1
    <3> QED
      BY <1>0, <1>4, <3>1, <3>2
  <2>2. Wrapped(p) \in Int /\ Wrapped(p) < 0
    BY <1>10, <2>1, WrapsBelow
  <2>3. ~(first + Wrapped(p) > at)
    BY <1>0, <2>2
  <2> QED
    BY <1>11, <2>3
<1> QED
  BY <1>12, <1>13

-----------------------------------------------------------------------------
\* advanceByDelay, unless it gives up, finds the first of the anchor's instants
\* after the instant at, however far the anchor lies back.
THEOREM EveryIsExact ==
  ASSUME NEW anchor \in Int, NEW at \in Int, NEW delay, Delay(delay),
         NEW next, next = AdvanceByDelay(anchor, at, delay), next # Never
  PROVE  /\ next \in Int /\ next > at
         /\ Fires(anchor, delay, next)
         /\ \A t : Fires(anchor, delay, t) /\ t > at => next <= t
<1>1. PICK first : first = Later(anchor, delay)
  OBVIOUS
<1>2. delay \in Nat \ {0} /\ first \in Int
  BY <1>1, LaterIsInt DEF Delay
<1>3. CASE first > at
  <2>1. next = first
    BY <1>1, <1>3 DEF AdvanceByDelay
  <2>2. first = first + 0 * delay
    BY <1>2
  <2>3. Fires(anchor, delay, first)
    BY <1>1, <2>2 DEF Fires
  <2>4. ASSUME NEW k \in Nat PROVE first <= first + k * delay
    <3>1. k * delay \in Nat
      BY <1>2
    <3> QED
      BY <1>2, <3>1
  <2> QED
    BY <1>1, <1>2, <1>3, <2>1, <2>3, <2>4 DEF Fires
<1>4. CASE first <= at
  <2>0. PICK q : q = (at - first) \div delay
    OBVIOUS
  <2>1. at - first \in Nat
    BY <1>2, <1>4
  <2>2. q \in Nat /\ q * delay \in Nat /\ at - first < q * delay + delay
    BY <1>2, <2>0, <2>1, DivBounds
  <2>3. next = first + (q * delay + delay)
    <3>1. \/ q * delay + delay < HalfRange
          \/ q * delay + delay >= HalfRange
      BY <1>2, <2>2, TicksAssumption
    <3> QED
      BY <1>1, <1>4, <2>0, <3>1, Arithmetic
  <2>4. next \in Int /\ next > at
    BY <1>2, <2>2, <2>3
  <2>5. (q + 1) * delay = q * delay + delay
    BY <1>2, <2>2, OneStep
  <2>6. Fires(anchor, delay, next)
    BY <1>1, <2>2, <2>3, <2>5 DEF Fires
  <2>7. ASSUME NEW k \in Nat, first + k * delay > at
        PROVE  next <= first + k * delay
    <3>1. q * delay + delay <= k * delay
      BY <1>2, <1>4, <2>0, <2>7, DivisionFindsIt
    <3>2. k * delay \in Nat
      BY <1>2
    <3> QED
      BY <1>2, <2>2, <2>3, <3>1, <3>2
  <2> QED
    BY <1>1, <2>4, <2>6, <2>7 DEF Fires
<1> QED
  BY <1>2, <1>3, <1>4

-----------------------------------------------------------------------------
\* Whole seconds stay whole.
LEMMA WholeSeconds ==
  ASSUME NEW x \in Int, NEW y \in Int, x % Second = 0, y % Second = 0,
         NEW k \in Nat
  PROVE  (x + k * y) % Second = 0
<1>1. Second \in Nat \ {0}
  BY TicksAssumption
<1>2. PICK a \in Int : x = a * Second
  BY <1>1, SMT
<1>3. PICK b \in Int : y = b * Second
  BY <1>1, SMT
<1>4. x + k * y = (a + k * b) * Second
  BY <1>1, <1>2, <1>3
<1>5. a + k * b \in Int
  OBVIOUS
<1>6. ASSUME NEW c \in Int PROVE (c * Second) % Second = 0
  BY <1>1, SMT
<1> QED
  BY <1>4, <1>5, <1>6

\* The instants of a schedule are whole seconds.
LEMMA FiresWhole ==
  ASSUME NEW anchor \in Int, NEW delay, Delay(delay), NEW t, Fires(anchor, delay, t)
  PROVE  t \in Int /\ t % Second = 0 /\ Later(t, delay) = t + delay
<1>1. Second \in Nat \ {0} /\ delay \in Nat \ {0} /\ delay % Second = 0
  BY TicksAssumption DEF Delay
<1>2. PICK k \in Nat : t = Later(anchor, delay) + k * delay
  BY DEF Fires
<1>3. PICK r : r = anchor - (anchor % Second)
  OBVIOUS
<1>4. r \in Int /\ r % Second = 0
  <2>1. anchor % Second \in Int /\ r \in Int
    BY <1>1, <1>3, ModBounds
  <2>2. PICK a : a = anchor \div Second
    OBVIOUS
  <2>3. a \in Int /\ anchor = a * Second + (anchor % Second)
    BY <1>1, <2>2, SMT
  <2>4. r = a * Second
    BY <1>1, <1>3, <2>1, <2>3
  <2>5. (a * Second) % Second = 0
    BY <1>1, <2>3, SMT
  <2> QED
    BY <2>1, <2>4, <2>5
<1>5. t = r + (k + 1) * delay
  <2>1. anchor % Second \in Int
    BY <1>1, ModBounds
  <2>2. Later(anchor, delay) = r + delay
    BY <1>1, <1>3, <2>1 DEF Later
  <2>3. (k + 1) * delay = k * delay + delay /\ k * delay \in Int
    BY <1>1, OneStep
  <2> QED
    BY <1>1, <1>2, <1>4, <2>2, <2>3
<1>6. t % Second = 0
  <2>1. k + 1 \in Nat /\ delay \in Int
    BY <1>1
  <2> QED
    BY <1>1, <1>4, <1>5, <2>1, WholeSeconds
<1>7. t \in Int
  BY <1>1, <1>4, <1>5
<1> QED
  BY <1>1, <1>6, <1>7 DEF Later

\* The instants from a later one on are those of the schedule.
LEMMA FiresOn ==
  ASSUME NEW anchor \in Int, NEW delay, Delay(delay), NEW e, Fires(anchor, delay, e),
         NEW t
  PROVE  Fires(e, delay, t) <=> Fires(anchor, delay, t) /\ t > e
<1>1. delay \in Nat \ {0} /\ e \in Int /\ Later(e, delay) = e + delay
  BY FiresWhole DEF Delay
<1>2. PICK first : first = Later(anchor, delay)
  OBVIOUS
<1>3. first \in Int
  BY <1>1, <1>2, LaterIsInt
<1>4. PICK k \in Nat : e = first + k * delay
  BY <1>2 DEF Fires
<1>5. ASSUME NEW j \in Nat
      PROVE  /\ first + (k + 1 + j) * delay = (e + delay) + j * delay
             /\ j * delay \in Nat
  <2>1. (k + 1 + j) * delay = k * delay + delay + j * delay
    BY <1>1, SMT
  <2>2. k * delay \in Nat /\ j * delay \in Nat
    BY <1>1
  <2> QED
    BY <1>1, <1>3, <1>4, <2>1, <2>2
<1>6. ASSUME Fires(e, delay, t) PROVE Fires(anchor, delay, t) /\ t > e
  <2>1. PICK j \in Nat : t = (e + delay) + j * delay
    BY <1>1, <1>6 DEF Fires
  <2>2. t = first + (k + 1 + j) * delay /\ k + 1 + j \in Nat
    BY <1>5, <2>1
  <2>3. t > e
    BY <1>1, <1>5, <2>1
  <2> QED
    BY <1>2, <2>2, <2>3 DEF Fires
<1>7. ASSUME Fires(anchor, delay, t), t > e PROVE Fires(e, delay, t)
  <2>1. PICK n \in Nat : t = first + n * delay
    BY <1>2, <1>7 DEF Fires
  <2>2. n > k
    <3>1. ASSUME n <= k PROVE n * delay <= k * delay
      BY <1>1, <3>1, SMT
    <3>2. n * delay \in Nat /\ k * delay \in Nat
      BY <1>1
    <3>3. n * delay > k * delay
      BY <1>3, <1>4, <1>7, <2>1, <3>2
    <3> QED
      BY <3>1, <3>2, <3>3
  <2>3. PICK j \in Nat : n = k + 1 + j
    <3>1. n - k - 1 \in Nat /\ n = k + 1 + (n - k - 1)
      BY <2>2
    <3> QED
      BY <3>1
  <2>4. t = (e + delay) + j * delay
    BY <1>5, <2>1, <2>3
  <2> QED
    BY <1>1, <2>4 DEF Fires
<1> QED
  BY <1>6, <1>7

\* Division keeps the order.
LEMMA DivisionGrows ==
  ASSUME NEW x \in Nat, NEW y \in Nat, x <= y, NEW d \in Nat \ {0},
         NEW q, q = x \div d, NEW r, r = y \div d
  PROVE  q * d <= r * d
<1>1. q \in Nat /\ q * d \in Nat /\ q * d <= x
  BY DivBounds
<1>2. r \in Nat /\ r * d \in Nat /\ y < r * d + d
  BY DivBounds
<1>3. ASSUME r < q PROVE r * d + d <= q * d
  BY <1>1, <1>2, <1>3, Steps
<1>4. ASSUME q <= r PROVE q * d <= r * d
  BY <1>1, <1>2, <1>4, SMT
<1> QED
  BY <1>1, <1>2, <1>3, <1>4

\* A delivery that was confirmed late, at early, does not show: from where it
\* moved the repeat, the next occurrence is the one the anchor itself gives.
THEOREM EveryForgetsLateness ==
  ASSUME NEW anchor \in Int, NEW early \in Int, NEW at \in Int,
         NEW delay, Delay(delay),
         NEW e, e = AdvanceByDelay(anchor, early, delay), e # Never, e <= at,
         NEW o, o = AdvanceByDelay(anchor, at, delay), o # Never
  PROVE  AdvanceByDelay(e, at, delay) = o
<1>1. e \in Int /\ Fires(anchor, delay, e)
  BY EveryIsExact
<1>2. /\ o \in Int /\ o > at
      /\ Fires(anchor, delay, o)
      /\ \A t : Fires(anchor, delay, t) /\ t > at => o <= t
  BY EveryIsExact
<1>3. Fires(e, delay, o)
  <2>1. o > e
    BY <1>1, <1>2
  <2> QED
    BY <1>1, <1>2, <2>1, FiresOn
<1>4. AdvanceByDelay(e, at, delay) # Never
  <2>1. delay \in Nat \ {0} /\ HalfRange \in Nat
    BY TicksAssumption DEF Delay
  <2>2. PICK first : first = Later(anchor, delay)
    OBVIOUS
  <2>3. PICK second : second = Later(e, delay)
    OBVIOUS
  <2>4. first \in Int /\ second = e + delay
    BY <1>1, <2>1, <2>2, <2>3, LaterIsInt, FiresWhole
  <2>5. first <= e
    <3>1. PICK k \in Nat : e = first + k * delay
      BY <1>1, <2>2 DEF Fires
    <3>2. k * delay \in Nat
      BY <2>1
    <3> QED
      BY <2>4, <3>1, <3>2
  <2>6. CASE second > at
    BY <1>1, <2>1, <2>3, <2>4, <2>6, NeverAssumption DEF AdvanceByDelay
  <2>7. CASE second <= at
    <3>1. PICK q : q = (at - first) \div delay
      OBVIOUS
    <3>2. PICK r : r = (at - second) \div delay
      OBVIOUS
    <3>3. at - first \in Nat /\ at - second \in Nat /\ at - second <= at - first
      BY <1>1, <2>1, <2>4, <2>5, <2>7
    <3>4. r * delay <= q * delay
      BY <2>1, <3>1, <3>2, <3>3, DivisionGrows
    <3>5. r * delay \in Nat /\ q * delay \in Nat
      BY <2>1, <3>1, <3>2, <3>3, DivBounds
    <3>6. first <= at
      BY <2>4, <3>3
    <3>7. ~(q * delay + delay >= HalfRange)
      BY <2>2, <3>1, <3>6, Arithmetic
    <3>8. r * delay + delay < HalfRange
      BY <2>1, <3>4, <3>5, <3>7
    <3>9. AdvanceByDelay(e, at, delay) = second + (r * delay + delay)
      BY <1>1, <2>3, <2>7, <3>2, <3>8, Arithmetic
    <3> QED
      BY <1>1, <2>1, <2>4, <3>5, <3>9, NeverAssumption
  <2> QED
    BY <1>1, <2>1, <2>4, <2>6, <2>7
<1>5. PICK n : n = AdvanceByDelay(e, at, delay)
  OBVIOUS
<1>6. /\ n \in Int /\ n > at
      /\ Fires(e, delay, n)
      /\ \A t : Fires(e, delay, t) /\ t > at => n <= t
  BY <1>1, <1>4, <1>5, EveryIsExact
<1>7. n <= o
  BY <1>2, <1>3, <1>6
<1>8. o <= n
  <2>1. Fires(anchor, delay, n)
    BY <1>1, <1>6, FiresOn
  <2> QED
    BY <1>2, <1>6, <2>1
<1> QED
  BY <1>2, <1>5, <1>6, <1>7, <1>8

\* The phase is only lost to a lateness that no duration, and a delay, can hold.
THEOREM EveryKeepsPhase ==
  ASSUME NEW anchor \in Int, NEW at \in Int, NEW delay, Delay(delay),
         at - anchor < HalfRange - delay
  PROVE  LET next == AdvanceByDelay(anchor, at, delay)
         IN /\ next \in Int
            /\ NextOccurrenceAfter(Every(delay), anchor, at) = Occurrence(next, FALSE)
<1>1. delay \in Nat \ {0} /\ HalfRange \in Nat /\ Second \in Nat \ {0}
  BY TicksAssumption DEF Delay
<1>2. PICK first : first = Later(anchor, delay)
  OBVIOUS
<1>3. PICK r : r = anchor % Second
  OBVIOUS
<1>4. r \in Nat /\ r < Second /\ first = anchor + delay - r
  BY <1>1, <1>2, <1>3, ModBounds DEF Later
<1>5. Second <= delay
  <2>1. ASSUME delay < Second PROVE delay % Second = delay
    BY <1>1, <2>1, SMT
  <2> QED
    BY <1>1, <2>1 DEF Delay
<1>6. AdvanceByDelay(anchor, at, delay) \in Int
  <2>1. CASE first > at
    BY <1>1, <1>2, <1>4, <2>1 DEF AdvanceByDelay
  <2>2. CASE first <= at
    <3>1. PICK q : q = (at - first) \div delay
      OBVIOUS
    <3>2. at - first \in Nat
      BY <1>1, <1>4, <2>2
    <3>3. q * delay \in Nat /\ q * delay <= at - first
      BY <1>1, <3>1, <3>2, DivBounds
    <3>4. q * delay + delay < HalfRange
      BY <1>1, <1>4, <1>5, <3>3
    <3>5. AdvanceByDelay(anchor, at, delay) = first + (q * delay + delay)
      BY <1>2, <2>2, <3>1, <3>4, Arithmetic
    <3> QED
      BY <1>1, <1>4, <3>3, <3>5
  <2> QED
    BY <1>1, <1>4, <2>1, <2>2
<1>7. AdvanceByDelay(anchor, at, delay) # Never
  BY <1>6, NeverAssumption
<1> QED
  BY <1>6, <1>7 DEF NextOccurrenceAfter, Every

-----------------------------------------------------------------------------
(* Calendars: the walk along them, and what was accepted of them.           *)

\* A calendar the library can answer for.
Dated(times) == times \subseteq Int /\ IsFiniteSet(times)

\* Some naturals have a least one.
LEMMA Least ==
  ASSUME NEW S, S \subseteq Nat, S # {}
  PROVE  \E x \in S : \A y \in S : x <= y
<1>1. PICK R : R = {ss \in Nat \X Nat : ss[1] < ss[2]}
  OBVIOUS
<1>2. IsWellFoundedOn(R, Nat)
  BY <1>1, NatLessThanWellFounded DEF OpToRel
<1>3. PICK x \in S : \A y \in S : ~(<<y, x>> \in R)
  BY <1>2, WFMin
<1>4. \A y \in S : ~(y < x)
  BY <1>1, <1>3
<1>5. x \in Nat /\ \A y \in S : y \in Nat
  BY <1>3
<1>6. \A y \in S : x <= y
  BY <1>4, <1>5
<1> QED
  BY <1>3, <1>6

\* What is at least every instant's beginning is the first of them.
LEMMA FirstIs ==
  ASSUME NEW S, S \subseteq Int, NEW x \in S, \A u \in S : x <= u
  PROVE  First(S) = x
<1>1. First(S) \in S /\ \A u \in S : First(S) <= u
  BY DEF First
<1>2. First(S) <= x /\ x <= First(S) /\ First(S) \in Int /\ x \in Int
  BY <1>1
<1> QED
  BY <1>2

\* Of the instants after one there is a first, if there are any.
LEMMA FirstAfter ==
  ASSUME NEW S, S \subseteq Int, NEW t \in Int, NEW A, A = {u \in S : u > t}, A # {}
  PROVE  /\ First(A) \in A
         /\ \A u \in A : First(A) <= u
         /\ First(A) # Never
<1> DEFINE far == {u - t : u \in A}
<1>1. far \subseteq Nat /\ far # {}
  BY SMT
<1>2. PICK least \in far : \A y \in far : least <= y
  <2> HIDE DEF far
  <2> QED BY <1>1, Least
<1>3. PICK x \in A : least = x - t
  OBVIOUS
<1>4. \A u \in A : x <= u
  <2> TAKE u \in A
  <2>1. u - t \in far /\ least <= u - t
    BY <1>2
  <2> QED BY <1>3, <2>1
<1>5. A \subseteq Int
  OBVIOUS
<1>6. First(A) = x
  BY <1>4, <1>5, FirstIs
<1> QED
  BY <1>3, <1>4, <1>5, <1>6, NeverAssumption

\* Where a walk along a calendar ends.
Ahead(times, anchor) == {t \in times : t > anchor}
Before(times, anchor, t) == {u \in Ahead(times, anchor) : u <= t}
Reached(times, anchor, at) ==
  {t \in Ahead(times, anchor) :
     Cardinality(Before(times, anchor, t)) <= MaxAdvanceSteps /\ t > at}

LEMMA Walk ==
  ASSUME NEW times, NEW anchor, NEW at
  PROVE  NextOccurrenceAfter(Calendar(times), anchor, at) =
           IF Reached(times, anchor, at) # {}
             THEN Occurrence(First(Reached(times, anchor, at)), FALSE)
           ELSE IF Cardinality(Ahead(times, anchor)) < MaxAdvanceSteps THEN NoOccurrence
           ELSE AdvanceFromNow(Calendar(times), at)
<1>1. Reached(times, anchor, at) =
        {t \in {t \in Ahead(times, anchor) :
                  Cardinality({u \in Ahead(times, anchor) : u <= t}) <= MaxAdvanceSteps} :
           t > at}
  BY DEF Reached, Before
<1>2. Calendar(times).kind = "calendar" /\ Calendar(times).times = times
  BY DEF Calendar
<1> QED
  BY <1>1, <1>2 DEF NextOccurrenceAfter, AdvanceCalendar, Ahead

\* Fewer instants lie ahead of a later anchor, and before an earlier instant.
LEMMA Fewer ==
  ASSUME NEW times, Dated(times), NEW anchor \in Int, NEW later \in Int, anchor <= later,
         NEW t \in Int, NEW u \in Int, t <= u
  PROVE  /\ IsFiniteSet(Before(times, anchor, u))
         /\ Cardinality(Before(times, later, t)) \in Nat
         /\ Cardinality(Before(times, anchor, u)) \in Nat
         /\ Cardinality(Before(times, later, t)) <= Cardinality(Before(times, anchor, u))
<1>1. Before(times, anchor, u) \subseteq times /\ times \subseteq Int /\ IsFiniteSet(times)
  BY DEF Before, Ahead, Dated
<1>2. IsFiniteSet(Before(times, anchor, u))
  BY <1>1, FS_Subset
<1>3. Before(times, later, t) \subseteq Before(times, anchor, u)
  <2> SUFFICES ASSUME NEW v \in Before(times, later, t)
               PROVE  v \in Before(times, anchor, u)
    OBVIOUS
  <2>1. v \in times /\ v \in Int /\ v > later /\ v <= t
    BY <1>1 DEF Before, Ahead, Dated
  <2>2. v > anchor /\ v <= u
    BY <2>1
  <2> QED BY <2>1, <2>2 DEF Before, Ahead
<1>4. /\ IsFiniteSet(Before(times, later, t))
      /\ Cardinality(Before(times, later, t)) <= Cardinality(Before(times, anchor, u))
  BY <1>2, <1>3, FS_Subset
<1> QED
  BY <1>2, <1>4, FS_CardinalityType

\* What a walk reaches is the first instant after now, if it reaches any: nothing
\* between is passed over.
LEMMA WalkFindsFirst ==
  ASSUME NEW times, Dated(times), NEW anchor \in Int, NEW at \in Int,
         Reached(times, anchor, at) # {}
  PROVE  LET next == First(Reached(times, anchor, at))
         IN /\ next \in Reached(times, anchor, at)
            /\ next = First({t \in Ahead(times, anchor) : t > at})
            /\ \A t \in Ahead(times, anchor) : t > at => next <= t
<1> DEFINE reached == Reached(times, anchor, at)
           after   == {t \in Ahead(times, anchor) : t > at}
<1>1. Ahead(times, anchor) \subseteq Int
  BY DEF Ahead, Dated
<1>2. reached \subseteq after /\ after \subseteq Int
  BY <1>1 DEF Reached
<1>3. First(after) \in after /\ \A u \in after : First(after) <= u
  BY <1>1, <1>2, FirstAfter
<1>4. First(after) \in reached
  <2>1. PICK a \in reached : TRUE
    OBVIOUS
  <2>2. a \in Int /\ First(after) \in Int /\ First(after) <= a
    BY <1>2, <1>3, <2>1
  <2>3. /\ Cardinality(Before(times, anchor, First(after))) \in Nat
        /\ Cardinality(Before(times, anchor, a)) \in Nat
        /\ Cardinality(Before(times, anchor, First(after)))
             <= Cardinality(Before(times, anchor, a))
    BY <2>2, Fewer
  <2>4. Cardinality(Before(times, anchor, a)) <= MaxAdvanceSteps
    BY <2>1 DEF Reached
  <2> QED
    BY <1>3, <2>3, <2>4, StepsAssumption DEF Reached
<1>5. First(reached) = First(after)
  <2>1. reached \subseteq Int /\ \A u \in reached : First(after) <= u
    BY <1>2, <1>3
  <2> HIDE DEF reached, after
  <2> QED BY <1>4, <2>1, FirstIs
<1> QED
  BY <1>3, <1>4, <1>5

-----------------------------------------------------------------------------
\* A calendar of one gap comes to few instants in few gaps.
LEMMA FewInSpan ==
  ASSUME NEW times, Dated(times), NEW anchor \in Int, NEW at \in Int,
         NEW gap \in Nat \ {0}, NEW n \in Nat,
         \A u, v \in times : u < v => u + gap <= v,
         at - anchor <= n * gap
  PROVE  Cardinality(Before(times, anchor, at)) <= n
<1> DEFINE B == Before(times, anchor, at)
           part == [t \in B |-> (t - anchor - 1) \div gap]
<1>1. \A t \in B : t \in times /\ t \in Int /\ t - anchor - 1 \in Nat /\ t <= at
  BY DEF Before, Ahead, Dated
<1>2. \A t \in B : /\ part[t] \in Nat /\ part[t] * gap \in Nat
                   /\ part[t] * gap <= t - anchor - 1
                   /\ t - anchor - 1 < part[t] * gap + gap
  <2> TAKE t \in B
  <2>1. part[t] = (t - anchor - 1) \div gap /\ t - anchor - 1 \in Nat
    BY <1>1
  <2> QED BY <2>1, DivBounds
<1>3. \A t \in B : part[t] \in 0 .. n - 1
  <2> TAKE t \in B
  <2>1. t - anchor - 1 < n * gap /\ n * gap \in Nat
    BY <1>1
  <2>2. part[t] \in Nat /\ part[t] * gap \in Nat /\ part[t] * gap < n * gap
    BY <1>1, <1>2, <2>1
  <2>3. ~(n <= part[t])
    <3>1. PICK k \in Nat : k = part[t]
      BY <2>2
    <3>2. n <= k => n * gap <= k * gap
      BY <3>1, SMT
    <3> QED BY <2>1, <2>2, <3>1, <3>2
  <2> QED BY <2>2, <2>3
<1>4. \A u, v \in B : u < v => part[u] # part[v]
  <2> SUFFICES ASSUME NEW u \in B, NEW v \in B, u < v, part[u] = part[v] PROVE FALSE
    OBVIOUS
  <2>1. u + gap <= v /\ u \in Int /\ v \in Int
    BY <1>1
  <2>2. PICK x \in Nat : x = part[u] * gap
    BY <1>2
  <2>3. x <= u - anchor - 1 /\ v - anchor - 1 < x + gap
    BY <1>2, <2>2
  <2> QED BY <2>1, <2>3
<1>5. \A u, v \in B : part[u] = part[v] => u = v
  <2> SUFFICES ASSUME NEW u \in B, NEW v \in B, part[u] = part[v] PROVE u = v
    OBVIOUS
  <2>1. u \in Int /\ v \in Int /\ ~(u < v) /\ ~(v < u)
    BY <1>1, <1>4
  <2> QED BY <2>1
<1>6. part \in Injection(B, 0 .. n - 1)
  <2>1. part \in [B -> 0 .. n - 1]
    BY <1>3
  <2> QED BY <1>5, <2>1 DEF Injection, IsInjective
<1>7. IsFiniteSet(0 .. n - 1) /\ Cardinality(0 .. n - 1) = n
  BY FS_Interval
<1>8. Cardinality(B) <= Cardinality(0 .. n - 1)
  <2> HIDE DEF B, part
  <2> QED BY <1>6, <1>7, FS_Injection
<1> QED
  BY <1>7, <1>8

\* The library's next instant of a calendar.
LEMMA NextIs ==
  ASSUME NEW times, Dated(times), NEW t \in Int
  PROVE  /\ NextAfter(Calendar(times), t) = First({u \in times : u > t})
         /\ NextAfter(Calendar(times), t) # Never =>
              /\ NextAfter(Calendar(times), t) \in times
              /\ NextAfter(Calendar(times), t) \in Int
              /\ NextAfter(Calendar(times), t) > t
              /\ \A u \in times : u > t => NextAfter(Calendar(times), t) <= u
         /\ \A u \in times : u > t => NextAfter(Calendar(times), t) # Never
<1> DEFINE A == {u \in times : u > t}
<1>1. NextAfter(Calendar(times), t) = First(A)
  BY DEF NextAfter, Calendar
<1>2. times \subseteq Int /\ A \subseteq times
  BY DEF Dated
<1>3. A # {} => /\ First(A) \in A /\ First(A) # Never
                /\ \A u \in A : First(A) <= u
  BY <1>2, FirstAfter
<1>4. A = {} => First(A) = Never
  BY DEF First
<1> QED
  BY <1>1, <1>2, <1>3, <1>4

\* One gap of a regular calendar that was accepted is at least the shortest
\* interval, and stands between any two of its instants.
LEMMA AcceptedGap ==
  ASSUME NEW times, Dated(times),
         Regular(Calendar(times)), ValidateRepeatInterval(Calendar(times), TRUE)
  PROVE  \E gap \in Nat \ {0} :
           /\ MinIntervalDM <= gap
           /\ \A u, v \in times : u < v => u + gap <= v
<1> DEFINE s == Calendar(times)
<1>1. s.kind = "calendar" /\ s.times = times
  BY DEF Calendar
<1>2. PICK gap \in Instants : \A t \in times : NextAfter(s, t) \in {Never, t + gap}
  BY <1>1 DEF Regular
<1>3. gap \in Nat
  BY <1>2, SamplesAssumption
<1>4. /\ NextAfter(s, SampleBase) # Never
      /\ NextAfter(s, NextAfter(s, SampleBase)) # Never
      /\ NextAfter(s, NextAfter(s, SampleBase)) - NextAfter(s, SampleBase) >= MinIntervalDM
  BY DEF ValidateRepeatInterval, MinInterval
<1>5. PICK first : first = NextAfter(s, SampleBase)
  OBVIOUS
<1>6. first \in times /\ first \in Int
  BY <1>4, <1>5, NextIs, StepsAssumption
<1>7. NextAfter(s, first) = first + gap
  BY <1>2, <1>4, <1>5, <1>6
<1>8. gap >= MinIntervalDM /\ gap \in Nat \ {0}
  BY <1>3, <1>4, <1>5, <1>6, <1>7, StepsAssumption
<1>9. \A u, v \in times : u < v => u + gap <= v
  <2> SUFFICES ASSUME NEW u \in times, NEW v \in times, u < v PROVE u + gap <= v
    OBVIOUS
  <2>1. u \in Int /\ v \in Int /\ v > u
    BY DEF Dated
  <2>2. NextAfter(s, u) # Never /\ NextAfter(s, u) <= v
    BY <2>1, NextIs
  <2> QED BY <1>2, <2>2
<1> QED
  BY <1>8, <1>9, StepsAssumption

-----------------------------------------------------------------------------
\* The walk along a calendar loses no phase to a lateness that it can span.
LEMMA WalkSpans ==
  ASSUME NEW times, Dated(times), NEW anchor \in Int, NEW at \in Int,
         Regular(Calendar(times)), ValidateRepeatInterval(Calendar(times), TRUE),
         at - anchor < (MaxAdvanceSteps - 1) * MinIntervalDM,
         {t \in Ahead(times, anchor) : t > at} # {}
  PROVE  Reached(times, anchor, at) # {}
<1> DEFINE after == {t \in Ahead(times, anchor) : t > at}
           next  == First(after)
           n     == MaxAdvanceSteps - 1
<1>1. PICK gap \in Nat \ {0} : /\ MinIntervalDM <= gap
                               /\ \A u, v \in times : u < v => u + gap <= v
  BY AcceptedGap
<1>2. n \in Nat /\ n * gap \in Nat /\ at - anchor <= n * gap
  <2>1. n \in Nat /\ MinIntervalDM \in Nat
    BY StepsAssumption
  <2>2. n * MinIntervalDM <= n * gap /\ n * gap \in Nat /\ n * MinIntervalDM \in Nat
    <3> HIDE DEF n
    <3> QED BY <1>1, <2>1, SMT
  <2> QED BY <2>1, <2>2
<1>3. Cardinality(Before(times, anchor, at)) <= n
  <2> HIDE DEF n
  <2> QED BY <1>1, <1>2, FewInSpan
<1>4. next \in after /\ \A u \in after : next <= u
  <2>1. Ahead(times, anchor) \subseteq Int
    BY DEF Ahead, Dated
  <2> QED BY <2>1, FirstAfter
<1>5. next \in Int /\ next > at /\ next \in Ahead(times, anchor)
  BY <1>4 DEF Ahead, Dated
<1>6. Before(times, anchor, next) \subseteq Before(times, anchor, at) \cup {next}
  <2> SUFFICES ASSUME NEW u \in Before(times, anchor, next), u # next
               PROVE  u \in Before(times, anchor, at)
    OBVIOUS
  <2>1. u \in Ahead(times, anchor) /\ u \in Int /\ u <= next
    BY DEF Before, Ahead, Dated
  <2>2. ~(u > at)
    BY <1>4, <1>5, <2>1
  <2> QED BY <2>1, <2>2 DEF Before
<1>7. Cardinality(Before(times, anchor, next)) <= MaxAdvanceSteps
  <2>1. /\ IsFiniteSet(Before(times, anchor, at))
        /\ Cardinality(Before(times, anchor, at)) \in Nat
    BY Fewer
  <2>2. /\ IsFiniteSet(Before(times, anchor, at) \cup {next})
        /\ \/ Cardinality(Before(times, anchor, at) \cup {next})
                = Cardinality(Before(times, anchor, at))
           \/ Cardinality(Before(times, anchor, at) \cup {next})
                = Cardinality(Before(times, anchor, at)) + 1
    <3> HIDE DEF next
    <3> QED BY <2>1, FS_AddElement
  <2>3. Cardinality(Before(times, anchor, next))
          <= Cardinality(Before(times, anchor, at) \cup {next})
    BY <1>6, <2>2, FS_Subset
  <2>4. Cardinality(Before(times, anchor, next)) \in Nat
    BY <1>5, Fewer
  <2> QED BY <1>2, <1>3, <2>1, <2>2, <2>3, <2>4, StepsAssumption
<1>8. next \in Reached(times, anchor, at)
  BY <1>5, <1>7 DEF Reached
<1> QED
  BY <1>8

\* What is returned with its phase was reached.
LEMMA Held ==
  ASSUME NEW times, NEW anchor, NEW at,
         NEW o, o = NextOccurrenceAfter(Calendar(times), anchor, at),
         o.next # Never, ~o.phaseLost
  PROVE  Reached(times, anchor, at) # {} /\ o.next = First(Reached(times, anchor, at))
<1> DEFINE R == Reached(times, anchor, at)
           s == Calendar(times)
<1>1. o = IF R # {} THEN Occurrence(First(R), FALSE)
          ELSE IF Cardinality(Ahead(times, anchor)) < MaxAdvanceSteps THEN NoOccurrence
          ELSE AdvanceFromNow(s, at)
  BY Walk
<1> HIDE DEF R, s
<1>2. NoOccurrence.next = Never
  BY DEF NoOccurrence, Occurrence
<1>3. AdvanceFromNow(s, at) \in {NoOccurrence, Occurrence(NextAfter(s, at), TRUE)}
  BY DEF AdvanceFromNow
<1>4. Occurrence(NextAfter(s, at), TRUE).phaseLost = TRUE
  BY DEF Occurrence
<1>5. R # {}
  BY <1>1, <1>2, <1>3, <1>4
<1>6. o.next = First(R)
  BY <1>1, <1>5 DEF Occurrence
<1> QED
  BY <1>5, <1>6 DEF R

\* What is returned where the walk reached nothing has lost its phase.
LEMMA GivenUp ==
  ASSUME NEW times, NEW anchor, NEW at,
         NEW o, o = NextOccurrenceAfter(Calendar(times), anchor, at),
         o.next # Never, Reached(times, anchor, at) = {}
  PROVE  /\ ~(Cardinality(Ahead(times, anchor)) < MaxAdvanceSteps)
         /\ o.next = NextAfter(Calendar(times), at) /\ o.phaseLost
         /\ NextAfter(Calendar(times), at) # Never
<1> DEFINE s == Calendar(times)
<1>1. o = IF Cardinality(Ahead(times, anchor)) < MaxAdvanceSteps THEN NoOccurrence
          ELSE AdvanceFromNow(s, at)
  BY Walk
<1> HIDE DEF s
<1>2. NoOccurrence.next = Never
  BY DEF NoOccurrence, Occurrence
<1>3. ~(Cardinality(Ahead(times, anchor)) < MaxAdvanceSteps) /\ o = AdvanceFromNow(s, at)
  BY <1>1, <1>2
<1>4. NextAfter(s, at) # Never /\ o = Occurrence(NextAfter(s, at), TRUE)
  BY <1>2, <1>3 DEF AdvanceFromNow
<1>5. o.next = NextAfter(s, at) /\ o.phaseLost
  BY <1>4 DEF Occurrence
<1> QED
  BY <1>3, <1>4, <1>5 DEF s

\* A calendar keeps its phase, whatever instants it has: what the walk returns is
\* the first of them after now, from the anchor or from where an earlier
\* confirmation moved it; it gives up only where the lateness is beyond what
\* MaxAdvanceSteps of the shortest intervals span, or the calendar irregular.
THEOREM CalendarKeepsPhase ==
  ASSUME NEW times, Dated(times), NEW anchor \in Int, NEW at \in Int
  PROVE  KeepsPhase(Calendar(times), anchor, at)
<1> DEFINE s == Calendar(times)
           o == NextOccurrenceAfter(s, anchor, at)
           R == Reached(times, anchor, at)
<1>1. s.kind = "calendar" /\ s.times = times
  BY DEF Calendar
<1>2. Occurrences(s, anchor) = Ahead(times, anchor)
  BY <1>1 DEF Occurrences, Ahead
<1> SUFFICES ASSUME o.next # Never
             PROVE  /\ o.next > at
                    /\ o.phaseLost \/ o.next = First({t \in Ahead(times, anchor) : t > at})
                    /\ o.phaseLost \/ \A early \in Instants :
                         LET e == NextOccurrenceAfter(s, anchor, early) IN
                           e.next # Never /\ ~e.phaseLost /\ e.next <= at =>
                             NextOccurrenceAfter(s, e.next, at) = o
                    /\ Regular(s) /\ ValidateRepeatInterval(s, TRUE)
                         /\ at - anchor < (MaxAdvanceSteps - 1) * MinIntervalDM =>
                            ~o.phaseLost
  BY <1>1, <1>2 DEF KeepsPhase
<1>3. CASE R = {}
  <2>1. ~(Cardinality(Ahead(times, anchor)) < MaxAdvanceSteps)
    BY <1>3, GivenUp
  <2>2. o.next = NextAfter(s, at) /\ o.phaseLost /\ NextAfter(s, at) # Never
    BY <1>3, GivenUp
  <2>3. o.next \in times /\ o.next \in Int /\ o.next > at
    <3>1. PICK n : n = NextAfter(Calendar(times), at)
      OBVIOUS
    <3>2. n # Never /\ o.next = n
      BY <2>2, <3>1
    <3>3. n \in times /\ n \in Int /\ n > at
      BY <3>1, <3>2, NextIs
    <3> QED BY <3>2, <3>3
  <2>4. ~(/\ Regular(s) /\ ValidateRepeatInterval(s, TRUE)
          /\ at - anchor < (MaxAdvanceSteps - 1) * MinIntervalDM)
    <3> SUFFICES ASSUME Regular(s), ValidateRepeatInterval(s, TRUE),
                        at - anchor < (MaxAdvanceSteps - 1) * MinIntervalDM
                 PROVE  FALSE
      OBVIOUS
    <3>1. CASE o.next \in Ahead(times, anchor)
      <4>1. {t \in Ahead(times, anchor) : t > at} # {}
        BY <2>3, <3>1
      <4> QED BY <1>3, <4>1, WalkSpans
    <3>2. CASE o.next \notin Ahead(times, anchor)
      <4>1. anchor > at
        BY <2>3, <3>2 DEF Ahead
      <4>2. Ahead(times, anchor) # {}
        <5>1. Cardinality({}) = 0
          BY FS_EmptySet
        <5>2. 0 < MaxAdvanceSteps
          BY StepsAssumption
        <5> QED BY <2>1, <5>1, <5>2
      <4>3. {t \in Ahead(times, anchor) : t > at} # {}
        <5>1. PICK t \in Ahead(times, anchor) : TRUE
          BY <4>2
        <5>2. t \in Int /\ t > anchor
          BY DEF Ahead, Dated
        <5> QED BY <4>1, <5>2
      <4> QED BY <1>3, <4>3, WalkSpans
    <3> QED BY <3>1, <3>2
  <2> QED BY <2>2, <2>3, <2>4
<1>4. CASE R # {}
  <2>1. o = Occurrence(First(R), FALSE)
    BY <1>4, Walk
  <2>2. o.next = First(R) /\ o.phaseLost = FALSE
    BY <2>1 DEF Occurrence
  <2>3. /\ o.next \in R
        /\ o.next = First({t \in Ahead(times, anchor) : t > at})
        /\ \A t \in Ahead(times, anchor) : t > at => o.next <= t
    BY <1>4, <2>2, WalkFindsFirst
  <2>4. o.next \in times /\ o.next \in Int /\ o.next > at /\ o.next > anchor
    BY <2>3 DEF Reached, Ahead, Dated
  <2>5. ASSUME NEW early \in Instants,
               NEW e, e = NextOccurrenceAfter(s, anchor, early),
               e.next # Never, ~e.phaseLost, e.next <= at
        PROVE  NextOccurrenceAfter(s, e.next, at) = o
    <3>1. early \in Int
      BY SamplesAssumption
    <3>2. Reached(times, anchor, early) # {} /\ e.next = First(Reached(times, anchor, early))
      <4>1. /\ e = NextOccurrenceAfter(Calendar(times), anchor, early)
            /\ e.next # Never /\ ~e.phaseLost
        BY <2>5
      <4> QED BY <4>1, Held
    <3>3. e.next \in times /\ e.next \in Int /\ e.next > anchor
      <4>1. First(Reached(times, anchor, early)) \in Reached(times, anchor, early)
        BY <3>1, <3>2, WalkFindsFirst
      <4>2. e.next \in Reached(times, anchor, early)
        BY <3>2, <4>1
      <4> QED BY <4>2 DEF Reached, Ahead, Dated
    <3>4. PICK a : a = e.next
      OBVIOUS
    <3>5. a \in Int /\ anchor <= a /\ a <= at /\ o.next > a
      BY <2>4, <2>5, <3>3, <3>4
    <3>6. o.next \in Reached(times, a, at)
      <4>1. o.next \in Ahead(times, a)
        BY <2>4, <3>5 DEF Ahead
      <4>2. /\ Cardinality(Before(times, a, o.next)) \in Nat
            /\ Cardinality(Before(times, anchor, o.next)) \in Nat
            /\ Cardinality(Before(times, a, o.next)) <= Cardinality(Before(times, anchor, o.next))
        BY <2>4, <3>5, Fewer
      <4>3. Cardinality(Before(times, anchor, o.next)) <= MaxAdvanceSteps
        BY <2>3 DEF Reached
      <4>4. Cardinality(Before(times, a, o.next)) <= MaxAdvanceSteps
        BY <4>2, <4>3, StepsAssumption
      <4> QED BY <2>4, <4>1, <4>4 DEF Reached
    <3>7. Reached(times, a, at) \subseteq Int
          /\ \A t \in Reached(times, a, at) : o.next <= t
      <4>1. \A t \in Reached(times, a, at) :
              t \in times /\ t \in Int /\ t > a /\ t > at
        BY DEF Reached, Ahead, Dated
      <4>2. \A t \in Reached(times, a, at) : t > anchor
        BY <3>5, <4>1
      <4> QED BY <2>3, <4>1, <4>2 DEF Ahead
    <3>8. First(Reached(times, a, at)) = o.next
      BY <3>6, <3>7, FirstIs
    <3>9. NextOccurrenceAfter(s, a, at) = Occurrence(o.next, FALSE)
      BY <3>6, <3>8, Walk
    <3> QED BY <2>1, <2>2, <3>4, <3>9
  <2> QED BY <2>2, <2>3, <2>4, <2>5
<1> QED
  BY <1>3, <1>4

-----------------------------------------------------------------------------
\* A delay is no less than a second, so the first instant lies ahead.
LEMMA LaterIsLater ==
  ASSUME NEW t \in Int, NEW delay, Delay(delay)
  PROVE  Later(t, delay) > t
<1>1. delay \in Nat \ {0} /\ delay % Second = 0 /\ Second \in Nat \ {0}
  BY TicksAssumption DEF Delay
<1>2. PICK r : r = t % Second
  OBVIOUS
<1>3. r \in Nat /\ r < Second /\ Later(t, delay) = t + delay - r
  BY <1>1, <1>2, ModBounds DEF Later
<1>4. Second <= delay
  <2>1. ASSUME delay < Second PROVE delay % Second = delay
    BY <1>1, <2>1, SMT
  <2> QED
    BY <1>1, <2>1
<1> QED
  BY <1>1, <1>3, <1>4

\* The first of a delay's instants after another is among those the first few
\* multiples give.
LEMMA FiresSoon ==
  ASSUME NEW anchor \in Nat, NEW at \in Instants, NEW delay, Delay(delay),
         NEW next, Fires(anchor, delay, next),
         \A t : Fires(anchor, delay, t) /\ t > at => next <= t
  PROVE  next \in Occurrences(Every(delay), anchor)
<1>1. delay \in Nat \ {0} /\ Second \in Nat \ {0} /\ at \in Nat /\ 0 .. at \subseteq Instants
  BY TicksAssumption, SamplesAssumption DEF Delay
<1>2. PICK first : first = Later(anchor, delay)
  OBVIOUS
<1>3. first \in Int /\ first > anchor
  BY <1>1, <1>2, LaterIsInt, LaterIsLater
<1>4. PICK k \in Nat : next = first + k * delay
  BY <1>2 DEF Fires
<1>5. k <= at
  <2> SUFFICES ASSUME k > at PROVE FALSE
    BY <1>1
  <2>1. PICK j \in Nat : k = j + 1
    BY <1>1
  <2>2. PICK x : x = first + j * delay
    OBVIOUS
  <2>3. Fires(anchor, delay, x)
    BY <1>2, <2>2 DEF Fires
  <2>4. j * delay \in Nat /\ j <= j * delay /\ k * delay = j * delay + delay
    BY <1>1, <2>1, OneStep, SMT
  <2>5. x \in Int /\ x > at
    BY <1>1, <1>3, <2>1, <2>2, <2>4
  <2>6. next <= x
    BY <2>3, <2>5
  <2> QED BY <1>1, <1>3, <1>4, <2>2, <2>4, <2>5, <2>6
<1>6. k \in Instants
  BY <1>1, <1>5
<1>7. Every(delay).kind = "every" /\ Every(delay).delay = delay
  BY DEF Every
<1> QED
  BY <1>2, <1>4, <1>6, <1>7 DEF Occurrences

\* A delay keeps its phase too: from any anchor, at any instant, with whatever
\* confirmations in between.
THEOREM DelayKeepsPhase ==
  ASSUME NEW delay, Delay(delay), NEW anchor \in Nat, NEW at \in Instants
  PROVE  KeepsPhase(Every(delay), anchor, at)
<1> DEFINE s == Every(delay)
<1>1. s.kind = "every" /\ s.delay = delay
  BY DEF Every
<1>2. /\ delay \in Nat \ {0} /\ HalfRange \in Nat \ {0} /\ at \in Int
  BY TicksAssumption, SamplesAssumption DEF Delay
<1>3. PICK next : next = AdvanceByDelay(anchor, at, delay)
  OBVIOUS
<1>4. PICK o : o = NextOccurrenceAfter(s, anchor, at)
  OBVIOUS
<1>5. \A i \in Int : Later(i, delay) \in Int /\ Later(i, delay) > i /\ Later(i, delay) # Never
  BY <1>2, LaterIsInt, LaterIsLater, NeverAssumption
<1>6. \A a, i \in Int :
        NextOccurrenceAfter(s, a, i) =
          IF AdvanceByDelay(a, i, delay) # Never
            THEN Occurrence(AdvanceByDelay(a, i, delay), FALSE)
            ELSE Occurrence(Later(i, delay), TRUE)
  <2> SUFFICES ASSUME NEW a \in Int, NEW i \in Int
               PROVE  NextOccurrenceAfter(s, a, i) =
                        IF AdvanceByDelay(a, i, delay) # Never
                          THEN Occurrence(AdvanceByDelay(a, i, delay), FALSE)
                          ELSE Occurrence(Later(i, delay), TRUE)
    OBVIOUS
  <2>1. NextAfter(s, i) = Later(i, delay) /\ NextAfter(s, i) # Never
    BY <1>1, <1>5 DEF NextAfter
  <2>2. AdvanceFromNow(s, i) = Occurrence(Later(i, delay), TRUE)
    BY <2>1 DEF AdvanceFromNow
  <2> HIDE DEF s
  <2> QED BY <1>1, <2>2 DEF NextOccurrenceAfter
<1>7. anchor \in Int
  OBVIOUS
<1>8. at - anchor < HalfRange - delay => next \in Int
  BY <1>2, <1>3, <1>7, EveryKeepsPhase
<1> SUFFICES ASSUME o.next # Never
             PROVE  /\ o.next > at
                    /\ o.phaseLost \/ o.next = First({t \in Occurrences(s, anchor) : t > at})
                    /\ o.phaseLost \/ \A early \in Instants :
                         LET e == NextOccurrenceAfter(s, anchor, early) IN
                           e.next # Never /\ ~e.phaseLost /\ e.next <= at =>
                             NextOccurrenceAfter(s, e.next, at) = o
                    /\ at - anchor < HalfRange - delay => ~o.phaseLost
  <2>1. (IF s.kind = "every" THEN HalfRange - s.delay
         ELSE (MaxAdvanceSteps - 1) * MinIntervalDM) = HalfRange - delay
    BY <1>1
  <2> QED BY <1>4, <2>1 DEF KeepsPhase
<1>9. CASE next = Never
  <2>1. o = Occurrence(Later(at, delay), TRUE)
    BY <1>2, <1>3, <1>4, <1>6, <1>7, <1>9
  <2>2. o.next = Later(at, delay) /\ o.phaseLost
    BY <2>1 DEF Occurrence
  <2>3. o.next > at
    BY <1>2, <1>5, <2>2
  <2>4. ~(at - anchor < HalfRange - delay)
    BY <1>8, <1>9, NeverAssumption
  <2> QED BY <2>2, <2>3, <2>4
<1>10. CASE next # Never
  <2>1. o = Occurrence(next, FALSE)
    BY <1>2, <1>3, <1>4, <1>6, <1>7, <1>10
  <2>2. o.next = next /\ o.phaseLost = FALSE
    BY <2>1 DEF Occurrence
  <2>3. /\ next \in Int /\ next > at /\ Fires(anchor, delay, next)
        /\ \A t : Fires(anchor, delay, t) /\ t > at => next <= t
    BY <1>2, <1>3, <1>7, <1>10, EveryIsExact
  <2>4. next = First({t \in Occurrences(s, anchor) : t > at})
    <3> DEFINE S == {t \in Occurrences(s, anchor) : t > at}
    <3>1. next \in S
      BY <2>3, FiresSoon
    <3>2. \A t \in Occurrences(s, anchor) : Fires(anchor, delay, t) /\ t \in Int
      <4>1. \A k \in Instants : k \in Nat
        BY SamplesAssumption
      <4>2. \A t \in Occurrences(s, anchor) : Fires(anchor, delay, t)
        BY <1>1, <4>1 DEF Occurrences, Fires
      <4>3. \A k \in Nat : Later(anchor, delay) + k * delay \in Int
        BY <1>2, <1>5, <1>7
      <4> QED BY <4>2, <4>3 DEF Fires
    <3>3. S \subseteq Int /\ \A t \in S : next <= t
      BY <2>3, <3>2
    <3> HIDE DEF S
    <3>4. First(S) = next
      BY <3>1, <3>3, FirstIs
    <3> QED BY <3>4 DEF S
  <2>5. ASSUME NEW early \in Instants,
               NEW e, e = NextOccurrenceAfter(s, anchor, early),
               e.next # Never, ~e.phaseLost, e.next <= at
        PROVE  NextOccurrenceAfter(s, e.next, at) = o
    <3>1. early \in Int
      BY SamplesAssumption
    <3>2. PICK a : a = AdvanceByDelay(anchor, early, delay)
      OBVIOUS
    <3>3. e = IF a # Never THEN Occurrence(a, FALSE) ELSE Occurrence(Later(early, delay), TRUE)
      BY <1>6, <1>7, <2>5, <3>1, <3>2
    <3>4. a # Never /\ e.next = a
      BY <2>5, <3>3 DEF Occurrence
    <3>5. a \in Int /\ a <= at
      BY <1>7, <2>5, <3>1, <3>2, <3>4, EveryIsExact
    <3>6. AdvanceByDelay(a, at, delay) = next
      BY <1>2, <1>3, <1>7, <1>10, <3>1, <3>2, <3>4, <3>5, EveryForgetsLateness
    <3>7. NextOccurrenceAfter(s, a, at) = Occurrence(next, FALSE)
      BY <1>2, <1>6, <1>10, <3>5, <3>6
    <3> QED BY <2>1, <3>4, <3>7
  <2> QED BY <2>2, <2>3, <2>4, <2>5
<1> QED
  BY <1>9, <1>10

\* Every repeat keeps its phase, whatever delays and calendars there are, and
\* whenever it is confirmed (nextOccurrenceAfter).
THEOREM PhaseCorrect == []RepeatsKeepPhase
<1>1. RepeatsKeepPhase
  <2> SUFFICES ASSUME sample \in Repeats
               PROVE  KeepsPhase(sample.schedule, sample.anchor, sample.now)
    BY DEF RepeatsKeepPhase
  <2>1. /\ sample.schedule \in Schedules
        /\ sample.anchor \in Instants /\ sample.now \in Instants
    <3>1. sample \in [form : {"repeat"}, schedule : Schedules, anchor : Instants, now : Instants]
      BY DEF Repeats
    <3> HIDE DEF Schedules
    <3> QED BY <3>1
  <2>2. sample.anchor \in Nat /\ sample.anchor \in Int /\ sample.now \in Int
    <3>1. \A i \in Instants : i \in Nat
      BY SamplesAssumption
    <3>2. \A i \in Nat : i \in Int
      OBVIOUS
    <3> QED BY <2>1, <3>1, <3>2
  <2>3. CASE \E delay \in Delays : sample.schedule = Every(delay)
    BY <2>1, <2>2, <2>3, DelayKeepsPhase, SamplesAssumption
  <2>4. CASE \E times \in Calendars : sample.schedule = Calendar(times)
    <3>1. PICK times \in Calendars : sample.schedule = Calendar(times)
      BY <2>4
    <3>2. Dated(times)
      BY SamplesAssumption DEF Dated
    <3> QED BY <2>2, <3>1, <3>2, CalendarKeepsPhase
  <2> QED BY <2>1, <2>3, <2>4 DEF Schedules
<1> QED
  BY <1>1, PTL

-----------------------------------------------------------------------------
\* What a character finds: a number and a total that fit.
Reading(s) ==
  /\ s.ok = TRUE
  /\ s.value \in 0..MaxInt
  /\ s.total \in 0..MaxInt
  /\ s = [ok |-> TRUE, value |-> s.value, digits |-> s.digits, seen |-> s.seen,
          total |-> s.total]

-----------------------------------------------------------------------------
\* A digit is one.
LEMMA DigitIsOne ==
  ASSUME NEW c \in DOMAIN Digit
  PROVE  Digit[c] \in 0..9
BY DEF Digit

\* What fits is not wrapped.
LEMMA FitsUnwrapped ==
  ASSUME NEW x \in Int, 0 <= x, x <= MaxInt
  PROVE  Wrapped(x) = x
<1>1. HalfRange \in Nat \ {0}
  BY TicksAssumption
<1>2. -HalfRange <= x /\ x < HalfRange
  BY <1>1 DEF MaxInt
<1> QED
  BY <1>2, WrapsNot

\* The division of the digit's guard loses nothing.
LEMMA DigitGuard ==
  ASSUME NEW v \in Nat, NEW d \in 0..9, NEW m \in Nat, NEW q, q = (m - d) \div 10
  PROVE  (v > q) <=> (v * 10 + d > m)
BY SMT

\* Nor does that of the product's.
LEMMA ProductGuard ==
  ASSUME NEW v \in Nat \ {0}, NEW u \in Nat, NEW m \in Nat, NEW q, q = m \div v
  PROVE  (u > q) <=> (v * u > m)
<1>1. q \in Nat /\ q * v <= m /\ m < q * v + v
  BY DivBounds
<1>2. ASSUME u > q PROVE v * u > m
  <2>1. q * v + v <= u * v
    BY <1>1, <1>2, Steps
  <2>2. u * v = v * u
    BY SMT
  <2>3. q * v \in Nat /\ u * v \in Nat
    BY <1>1, SMT
  <2> QED
    BY <1>1, <2>1, <2>2, <2>3
<1>3. ASSUME u <= q PROVE v * u <= m
  <2>1. v * u <= v * q
    BY <1>1, <1>3, SMT
  <2>2. v * q = q * v
    BY <1>1, SMT
  <2>3. v * u \in Nat /\ v * q \in Nat
    BY <1>1, SMT
  <2> QED
    BY <1>1, <2>1, <2>2, <2>3
<1>4. v * u \in Nat
  BY SMT
<1> QED
  BY <1>1, <1>2, <1>3, <1>4

\* A digit is taken exactly if the number still fits, and the number is then the
\* one written, for every width.
THEOREM DigitIsExact ==
  ASSUME NEW s, Reading(s), NEW d \in 0..9
  PROVE  LET n == s.value * 10 + d IN
         /\ n <= MaxInt => ReadDigit(s, d) = [s EXCEPT !.value = n, !.digits = TRUE]
         /\ n > MaxInt  => ReadDigit(s, d) = Stop
<1>1. MaxInt \in Nat
  BY TicksAssumption DEF MaxInt
<1>2. s.value \in Nat
  BY <1>1 DEF Reading
<1>3. PICK q : q = (MaxInt - d) \div 10
  OBVIOUS
<1>4. PICK n : n = s.value * 10 + d
  OBVIOUS
<1>5. n \in Nat
  BY <1>2, <1>4
<1>6. s.value > q <=> n > MaxInt
  BY <1>1, <1>2, <1>3, <1>4, DigitGuard
<1>7. ASSUME n <= MaxInt PROVE Wrapped(n) = n
  BY <1>1, <1>5, <1>7, FitsUnwrapped
<1>8. ReadDigit(s, d) = IF s.value > q THEN Stop
                        ELSE [s EXCEPT !.value = Wrapped(n), !.digits = TRUE]
  BY <1>3, <1>4 DEF ReadDigit
<1>9. n <= MaxInt => ReadDigit(s, d) = [s EXCEPT !.value = n, !.digits = TRUE]
  BY <1>1, <1>5, <1>6, <1>7, <1>8
<1>10. n > MaxInt => ReadDigit(s, d) = Stop
  BY <1>1, <1>5, <1>6, <1>8
<1> QED
  BY <1>4, <1>9, <1>10

\* A unit that may stand here is taken exactly if the total with its part still fits,
\* and adds its part and nothing else, whatever the product and the sum would wrap
\* to.
THEOREM UnitIsExact ==
  ASSUME NEW s, Reading(s), s.digits = TRUE,
         NEW u, u \in DOMAIN Unit, u \notin s.seen
  PROVE  LET t == s.total + s.value * Unit[u] IN
         /\ t <= MaxInt =>
              ReadUnit(s, u) = [Start EXCEPT !.seen = s.seen \cup {u}, !.total = t]
         /\ t > MaxInt  => ReadUnit(s, u) = Stop
<1>1. MaxInt \in Nat /\ Unit[u] \in Nat
  BY TicksAssumption, UnitAssumption DEF MaxInt
<1>2. s.value \in Nat /\ s.total \in Nat /\ s.total <= MaxInt
  BY <1>1 DEF Reading
<1>3. PICK part : part = s.value * Unit[u]
  OBVIOUS
<1>4. PICK t : t = s.total + part
  OBVIOUS
<1>5. part \in Nat
  BY <1>1, <1>2, <1>3, SMT
<1>6. t \in Nat
  BY <1>2, <1>4, <1>5
<1>7. ReadUnit(s, u) = IF s.value # 0 /\ Unit[u] > MaxInt \div s.value THEN Stop
                       ELSE AddPart(s, u, Wrapped(part))
  BY <1>3 DEF ReadUnit
<1>8. (s.value # 0 /\ Unit[u] > MaxInt \div s.value) <=> part > MaxInt
  <2>1. CASE s.value = 0
    <3>1. part = 0
      BY <1>1, <2>1, <1>3, SMT
    <3> QED
      BY <2>1, <3>1, <1>1
  <2>2. CASE s.value # 0
    <3>1. PICK q : q = MaxInt \div s.value
      OBVIOUS
    <3>2. s.value \in Nat \ {0}
      BY <2>2, <1>2
    <3>3. Unit[u] > q <=> s.value * Unit[u] > MaxInt
      BY <1>1, <3>1, <3>2, ProductGuard
    <3> QED
      BY <2>2, <3>1, <3>3, <1>3
  <2> QED
    BY <2>1, <2>2
<1>9. CASE part > MaxInt
  <2>1. ReadUnit(s, u) = Stop
    BY <1>7, <1>8, <1>9
  <2>2. t > MaxInt
    BY <1>1, <1>2, <1>4, <1>5, <1>9
  <2> QED
    BY <2>1, <2>2, <1>1, <1>3, <1>4, <1>6
<1>10. CASE part <= MaxInt
  <2>1. Wrapped(part) = part
    BY <1>1, <1>5, <1>10, FitsUnwrapped
  <2>2. ReadUnit(s, u) = AddPart(s, u, part)
    BY <1>1, <1>5, <1>7, <1>8, <1>10, <2>1
  <2>3. (part > 0 /\ s.total > MaxInt - part) <=> t > MaxInt
    BY <1>1, <1>2, <1>4, <1>5
  <2>4. ASSUME t <= MaxInt PROVE Wrapped(t) = t
    BY <1>1, <1>6, <2>4, FitsUnwrapped
  <2>5. AddPart(s, u, part) = IF t > MaxInt THEN Stop
          ELSE [Start EXCEPT !.seen = s.seen \cup {u}, !.total = Wrapped(t)]
    BY <2>3, <1>4 DEF AddPart
  <2>6. t <= MaxInt =>
          ReadUnit(s, u) = [Start EXCEPT !.seen = s.seen \cup {u}, !.total = t]
    BY <2>2, <2>4, <2>5, <1>1, <1>6
  <2>7. t > MaxInt => ReadUnit(s, u) = Stop
    BY <2>2, <2>5
  <2> QED
    BY <2>6, <2>7, <1>3, <1>4
<1> QED
  BY <1>1, <1>5, <1>9, <1>10

\* A state that is being read stays one: no total or number ever leaves its width.
THEOREM ReadingStays ==
  ASSUME NEW s, Reading(s), s.digits \in BOOLEAN, NEW c, Read(s, c).ok = TRUE
  PROVE  Reading(Read(s, c))
<1>1. MaxInt \in Nat /\ s.ok = TRUE
  BY TicksAssumption DEF MaxInt, Reading
<1>2. Stop.ok = FALSE
  BY DEF Stop, Start
<1>3. CASE c \in DOMAIN Digit
  <2>1. Read(s, c) = ReadDigit(s, Digit[c])
    BY <1>1, <1>3 DEF Read
  <2>2. PICK d \in 0..9 : d = Digit[c]
    BY <1>3, DigitIsOne
  <2>3. PICK n : n = s.value * 10 + d
    OBVIOUS
  <2>4. n \in Nat
    BY <1>1, <2>2, <2>3 DEF Reading
  <2>5. /\ n <= MaxInt => ReadDigit(s, d) = [s EXCEPT !.value = n, !.digits = TRUE]
        /\ n > MaxInt  => ReadDigit(s, d) = Stop
    BY <2>3, DigitIsExact
  <2>6. n <= MaxInt
    BY <1>1, <1>2, <2>1, <2>2, <2>4, <2>5
  <2>7. Read(s, c) = [s EXCEPT !.value = n, !.digits = TRUE]
    BY <2>1, <2>2, <2>5, <2>6
  <2>8. Read(s, c) = [ok |-> TRUE, value |-> n, digits |-> TRUE, seen |-> s.seen,
                      total |-> s.total]
    BY <2>7 DEF Reading
  <2>9. n \in 0..MaxInt /\ s.total \in 0..MaxInt
    BY <1>1, <2>4, <2>6 DEF Reading
  <2>10. PICK r : r = Read(s, c)
    OBVIOUS
  <2>11. /\ r.ok = TRUE /\ r.value = n /\ r.digits = TRUE /\ r.seen = s.seen
         /\ r.total = s.total
    BY <2>8, <2>10
  <2> QED
    BY <2>8, <2>9, <2>10, <2>11 DEF Reading
<1>4. CASE c \notin DOMAIN Digit
  <2>1. Read(s, c) = ReadUnit(s, c)
    BY <1>1, <1>4 DEF Read
  <2>2. c \in DOMAIN Unit /\ c \notin s.seen /\ s.digits = TRUE
    BY <1>2, <2>1 DEF ReadUnit
  <2>3. PICK t : t = s.total + s.value * Unit[c]
    OBVIOUS
  <2>4. t \in Nat
    <3>1. s.total \in Nat /\ s.value \in Nat /\ Unit[c] \in Nat
      BY <1>1, <2>2, UnitAssumption DEF Reading
    <3>2. s.value * Unit[c] \in Nat
      BY <3>1, SMT
    <3> QED
      BY <3>1, <3>2, <2>3
  <2>5. /\ t <= MaxInt =>
             ReadUnit(s, c) = [Start EXCEPT !.seen = s.seen \cup {c}, !.total = t]
        /\ t > MaxInt  => ReadUnit(s, c) = Stop
    BY <2>2, <2>3, UnitIsExact
  <2>6. t <= MaxInt
    BY <1>1, <1>2, <2>1, <2>4, <2>5
  <2>7. Read(s, c) = [Start EXCEPT !.seen = s.seen \cup {c}, !.total = t]
    BY <2>1, <2>5, <2>6
  <2>8. PICK seen : seen = s.seen \cup {c}
    OBVIOUS
  <2>9. Read(s, c) = [ok |-> TRUE, value |-> 0, digits |-> FALSE, seen |-> seen,
                      total |-> t]
    BY <2>7, <2>8 DEF Start
  <2>10. 0 \in 0..MaxInt /\ t \in 0..MaxInt
    BY <1>1, <2>4, <2>6
  <2>11. PICK r : r = Read(s, c)
    OBVIOUS
  <2>12. /\ r.ok = TRUE /\ r.value = 0 /\ r.digits = FALSE /\ r.seen = seen
         /\ r.total = t
    BY <2>9, <2>11
  <2> QED
    BY <2>9, <2>10, <2>11, <2>12 DEF Reading
<1> QED
  BY <1>3, <1>4

-----------------------------------------------------------------------------
(* Delivery.                                                               *)

USE GraceAssumption, AttemptsAssumption, BoundsAssumption, NoneAssumption

-----------------------------------------------------------------------------
(* What the updates of one row give.                                       *)

LEMMA NoRowType == NoRow \in Row
  BY DEF NoRow, Row, Status

LEMMA EditedType ==
  ASSUME NEW x \in Row, NEW t \in Nat, NEW rep \in BOOLEAN
  PROVE  Edited(x, t, rep) \in Row
  BY DEF Row, Status, Edited

LEMMA DeletedType ==
  ASSUME NEW x \in Row
  PROVE  [x EXCEPT !.deleted = TRUE] \in Row
  BY DEF Row

LEMMA ReclaimedType ==
  ASSUME NEW x \in Row
  PROVE  Reclaimed(x) \in Row
  BY DEF Row, Status, Reclaimed

LEMMA ClaimedType ==
  ASSUME NEW x \in Row, NEW t \in Nat
  PROVE  Claimed(x, t) \in Row
<1> DEFINE n == x.attempts + 1
<1>1. n \in Nat
  BY DEF Row
<1>2. [x EXCEPT !.status = "SENT", !.claimedAt = t, !.attempts = n] \in Row
  <2> HIDE DEF n
  <2> QED
    BY <1>1 DEF Row, Status
<1> QED
  BY <1>2 DEF Claimed

LEMMA AdvancedType ==
  ASSUME NEW x \in Row, NEW s \in Status
  PROVE  Advanced(x, s) \in Row
  BY DEF Row, Status, Advanced

LEMMA RescheduledType ==
  ASSUME NEW x \in Row, NEW t \in Nat
  PROVE  Rescheduled(x, t) \in Row
  BY DEF Row, Status, Rescheduled

LEMMA TypeInit == Init => TypeOK
<1> SUFFICES ASSUME Init PROVE TypeOK
  OBVIOUS
<1>2. row \in [Reminders -> Row] /\ now \in Nat /\ work \in SUBSET Work
  BY NoRowType DEF Init
<1>3. cron \in [pc : {"idle", "claim", "push"}, at : Nat, todo : SUBSET Action]
  BY DEF Init, Idle
<1>4. stream \in [Clients -> BOOLEAN] /\ buffer \in [Clients -> Seq(Action)]
  BY DEF Init
<1> QED
  BY <1>2, <1>3, <1>4 DEF TypeOK, Init

LEMMA TypeOwner ==
  ASSUME TypeOK, NEW r \in Reminders, Owner(r)
  PROVE  TypeOK'
<1>1. CASE CreateReminder(r)
  <2> PICK d \in now .. now + Horizon, rep \in BOOLEAN :
         row' = [row EXCEPT ![r] = [NoRow EXCEPT !.status = "PENDING",
                                                 !.datetime = d,
                                                 !.repeat = rep]]
    BY <1>1 DEF CreateReminder
  <2>1. d \in Nat
    BY DEF TypeOK
  <2>2. [NoRow EXCEPT !.status = "PENDING", !.datetime = d, !.repeat = rep] \in Row
    BY <2>1 DEF NoRow, Row, Status
  <2> QED
    BY <1>1, <2>2 DEF CreateReminder, TypeOK, clientVars, hist
<1>2. CASE UpdateReminder(r)
  <2> PICK d \in now + 1 .. now + Horizon, rep \in BOOLEAN :
         row' = [row EXCEPT ![r] = Edited(row[r], d, rep)]
    BY <1>2 DEF UpdateReminder
  <2>1. d \in Nat
    BY DEF TypeOK
  <2>2. Edited(row[r], d, rep) \in Row
    BY <2>1, EditedType DEF TypeOK
  <2> QED
    BY <1>2, <2>2 DEF UpdateReminder, TypeOK, clientVars
<1>3. CASE DeleteReminder(r)
  <2>1. [row[r] EXCEPT !.deleted = TRUE] \in Row
    BY DeletedType DEF TypeOK
  <2> QED
    BY <1>3, <2>1 DEF DeleteReminder, TypeOK, clientVars, hist
<1> QED
  BY <1>1, <1>2, <1>3 DEF Owner

\* The two shapes a claiming statement takes.
LEMMA TypeClaim ==
  ASSUME TypeOK, NEW todo \in SUBSET Action, ClaimRows(todo),
         UNCHANGED <<now, clientVars>>
  PROVE  TypeOK'
<1>1. row' \in [Reminders -> Row]
  <2>1. \A r \in Reminders : Claimed(row[r], cron.at) \in Row
    BY ClaimedType DEF TypeOK
  <2> QED
    BY <2>1 DEF ClaimRows, TypeOK
<1>2. cron' \in [pc : {"idle", "claim", "push"}, at : Nat, todo : SUBSET Action]
  BY DEF ClaimRows, TypeOK
<1>3. claims' \in [Reminders -> Nat]
  BY DEF ClaimRows, TypeOK
<1> QED
  BY <1>1, <1>2, <1>3 DEF ClaimRows, TypeOK, clientVars

LEMMA TypeCron ==
  ASSUME TypeOK, Cron
  PROVE  TypeOK'
<1>1. CASE StartTick
  <2>1. row' \in [Reminders -> Row]
    <3>1. \A r \in Reminders : Reclaimed(row[r]) \in Row
      BY ReclaimedType DEF TypeOK
    <3>2. CASE row' = [r \in Reminders |->
                  IF Stale(row[r], now) THEN Reclaimed(row[r]) ELSE row[r]]
      BY <3>1, <3>2 DEF TypeOK
    <3> QED
      BY <1>1, <3>2 DEF StartTick, TypeOK
  <2>2. cron' \in [pc : {"idle", "claim", "push"}, at : Nat, todo : SUBSET Action]
    BY <1>1 DEF StartTick, TypeOK
  <2> QED
    BY <1>1, <2>1, <2>2 DEF StartTick, TypeOK, clientVars, hist
<1>2. CASE ClaimDueReminders
  <2> DEFINE todo == {[rem |-> r, claim |-> claims[r] + 1] : r \in DueNow}
  <2>1. todo \in SUBSET Action
    BY DEF Action, DueNow, TypeOK
  <2>2. ClaimRows(todo) /\ UNCHANGED <<now, clientVars>>
    BY <1>2 DEF ClaimDueReminders
  <2> QED
    BY <2>1, <2>2, TypeClaim
<1>3. CASE ClaimFails
  <2>1. CASE ClaimRows({})
    BY <1>3, <2>1, TypeClaim DEF ClaimFails
  <2>2. CASE cron' = [cron EXCEPT !.pc = "idle"] /\ UNCHANGED <<row, hist>>
    BY <1>3, <2>2 DEF ClaimFails, TypeOK, clientVars, hist
  <2> QED
    BY <1>3, <2>1, <2>2 DEF ClaimFails
<1>4. ASSUME NEW a \in cron.todo, PushAction(a) PROVE TypeOK'
  <2>1. buffer' \in [Clients -> Seq(Action)]
    <3>1. a \in Action
      BY DEF TypeOK
    <3>2. \A c \in Clients : Append(buffer[c], a) \in Seq(Action)
      BY <3>1 DEF TypeOK
    <3> QED
      BY <1>4, <3>2 DEF PushAction, TypeOK
  <2>2. cron' \in [pc : {"idle", "claim", "push"}, at : Nat, todo : SUBSET Action]
    BY <1>4 DEF PushAction, TypeOK
  <2> QED
    BY <1>4, <2>1, <2>2 DEF PushAction, TypeOK, hist
<1> QED
  BY <1>1, <1>2, <1>3, <1>4 DEF Cron

LEMMA TypeClient ==
  ASSUME TypeOK, NEW c \in Clients, Client(c)
  PROVE  TypeOK'
<1>1. CASE OpenStream(c)
  BY <1>1 DEF OpenStream, TypeOK, hist
<1>2. CASE BreakStream(c)
  BY <1>2 DEF BreakStream, TypeOK, hist
<1>3. CASE ReceiveAction(c)
  <2>1. Head(buffer[c]) \in Action /\ Tail(buffer[c]) \in Seq(Action)
    BY <1>3 DEF ReceiveAction, TypeOK
  <2> DEFINE a == Head(buffer[c])
  <2>2. a.rem \in Reminders /\ a.claim \in Nat
    BY <2>1 DEF Action
  <2>3. [client |-> c, rem |-> a.rem, claim |-> a.claim, phase |-> "received",
         delivered |-> FALSE, repeat |-> FALSE] \in Work
    BY <2>2 DEF Work
  <2>4. work' \in SUBSET Work
    BY <1>3, <2>3 DEF ReceiveAction, TypeOK
  <2> QED
    BY <1>3, <2>1, <2>4 DEF ReceiveAction, TypeOK, hist
<1>4. CASE ClientCrash(c)
  BY <1>4 DEF ClientCrash, TypeOK, hist
<1> QED
  BY <1>1, <1>2, <1>3, <1>4 DEF Client

LEMMA TypeHandling ==
  ASSUME TypeOK, NEW w \in work, Handling(w)
  PROVE  TypeOK'
<1>0. w \in Work
  BY DEF TypeOK
<1>1. CASE PostNotification(w)
  <2>1. work' \in SUBSET Work
    BY <1>0, <1>1 DEF PostNotification, TypeOK, Work
  <2> QED
    BY <1>1, <2>1 DEF PostNotification, TypeOK, hist
<1>2. CASE ConfirmLost(w)
  BY <1>2 DEF ConfirmLost, TypeOK, hist
<1>3. CASE ConfirmRead(w)
  <2>1. row[w.rem].repeat \in BOOLEAN
    BY <1>0 DEF TypeOK, Work, Row
  <2>2. [w EXCEPT !.phase = "read", !.repeat = row[w.rem].repeat] \in Work
    BY <1>0, <2>1 DEF Work
  <2>3. work' \in SUBSET Work
    BY <1>3, <2>2 DEF ConfirmRead, TypeOK
  <2> QED
    BY <1>3, <2>3 DEF ConfirmRead, TypeOK, hist
<1>4. CASE ConfirmFailed(w)
  <2>1. Advanced(row[w.rem], "FAILED") \in Row
    BY <1>0, AdvancedType DEF TypeOK, Work, Status
  <2>2. row' \in [Reminders -> Row]
    BY <1>0, <1>4, <2>1 DEF ConfirmFailed, TypeOK, Work
  <2>3. closed' \in [Reminders -> SUBSET Nat]
    BY <1>0, <1>4 DEF ConfirmFailed, TypeOK, Work
  <2> QED
    BY <1>4, <2>2, <2>3 DEF ConfirmFailed, TypeOK
<1>5. CASE ConfirmDelivered(w)
  <2>1. row' \in [Reminders -> Row]
    <3>1. Advanced(row[w.rem], "DELIVERED") \in Row
      BY <1>0, AdvancedType DEF TypeOK, Work, Status
    <3>2. \A next \in now + 1 .. now + Horizon : Rescheduled(row[w.rem], next) \in Row
      <4> SUFFICES ASSUME NEW next \in now + 1 .. now + Horizon
                   PROVE  Rescheduled(row[w.rem], next) \in Row
        OBVIOUS
      <4>1. next \in Nat
        BY DEF TypeOK
      <4> QED
        BY <1>0, <4>1, RescheduledType DEF TypeOK, Work
    <3>3. CASE row' = [row EXCEPT ![w.rem] = Advanced(row[w.rem], "DELIVERED")]
      BY <3>1, <3>3 DEF TypeOK
    <3>4. ASSUME NEW next \in now + 1 .. now + Horizon,
                 row' = [row EXCEPT ![w.rem] = Rescheduled(row[w.rem], next)]
          PROVE  row' \in [Reminders -> Row]
      BY <3>2, <3>4 DEF TypeOK
    <3> QED
      BY <1>0, <1>5, <3>3, <3>4 DEF ConfirmDelivered, TypeOK, Work
  <2>2. closed' \in [Reminders -> SUBSET Nat] /\ records' \in [Reminders -> Nat]
    BY <1>0, <1>5 DEF ConfirmDelivered, TypeOK, Work
  <2> QED
    BY <1>5, <2>1, <2>2 DEF ConfirmDelivered, TypeOK
<1>6. CASE ConfirmNoOp(w)
  BY <1>6 DEF ConfirmNoOp, TypeOK, hist
<1> QED
  BY <1>1, <1>2, <1>3, <1>4, <1>5, <1>6 DEF Handling

LEMMA TypeNext == TypeOK /\ [Next]_vars => TypeOK'
<1> SUFFICES ASSUME TypeOK, [Next]_vars PROVE TypeOK'
  OBVIOUS
<1>1. CASE ServerCrash
  BY <1>1 DEF ServerCrash, TypeOK, Idle, hist
<1>2. CASE Clock
  BY <1>2 DEF Clock, TypeOK, clientVars, hist
<1>3. CASE UNCHANGED vars
  BY <1>3 DEF vars, TypeOK, hist
<1> QED
  BY <1>1, <1>2, <1>3, TypeOwner, TypeCron, TypeClient, TypeHandling DEF Next

\* Type correctness, for every value of the constants.
THEOREM TypeCorrect == Spec => []TypeOK
  BY TypeInit, TypeNext, PTL DEF Spec

-----------------------------------------------------------------------------
(* What one step of the system can do to one reminder.                     *)

Kept(r) == /\ claims'[r] = claims[r]
           /\ records'[r] = records[r]
           /\ edits'[r] = edits[r]

Untouched(r) == row'[r] = row[r] /\ Kept(r)

MCreate(r) == /\ row[r].status = "NONE"
              /\ \E d \in Nat, rep \in BOOLEAN :
                   row'[r] = [NoRow EXCEPT !.status = "PENDING",
                                           !.datetime = d, !.repeat = rep]
              /\ Kept(r)

MEdit(r) == /\ row[r].status # "NONE"
            /\ ~row[r].deleted
            /\ \E d \in Nat, rep \in BOOLEAN : row'[r] = Edited(row[r], d, rep)
            /\ claims'[r] = claims[r]
            /\ records'[r] = records[r]
            /\ edits'[r] = edits[r] + 1

MDelete(r) == /\ row[r].status # "NONE"
              /\ ~row[r].deleted
              /\ row'[r] = [row[r] EXCEPT !.deleted = TRUE]
              /\ Kept(r)

MReclaim(r) == /\ row[r].status = "SENT"
               /\ ~row[r].deleted
               /\ row'[r] = Reclaimed(row[r])
               /\ Kept(r)

MClaim(r) == /\ row[r].status = "PENDING"
             /\ ~row[r].deleted
             /\ \E t \in Nat : row'[r] = Claimed(row[r], t)
             /\ claims'[r] = claims[r] + 1
             /\ records'[r] = records[r]
             /\ edits'[r] = edits[r]

MFail(r) == /\ Open(row[r])
            /\ row'[r] = Advanced(row[r], "FAILED")
            /\ Kept(r)

MDeliver(r) == /\ Open(row[r])
               /\ \/ row'[r] = Advanced(row[r], "DELIVERED")
                  \/ /\ \E w \in work : w.rem = r /\ w.phase = "read" /\ w.repeat
                     /\ \E next \in Nat : row'[r] = Rescheduled(row[r], next)
               /\ claims'[r] = claims[r]
               /\ records'[r] = records[r] + 1
               /\ edits'[r] = edits[r]

Move(r) == \/ Untouched(r)
           \/ MCreate(r)
           \/ MEdit(r)
           \/ MDelete(r)
           \/ MReclaim(r)
           \/ MClaim(r)
           \/ MFail(r)
           \/ MDeliver(r)

LEMMA OwnerMoves ==
  ASSUME TypeOK, NEW q \in Reminders, Owner(q), NEW r \in Reminders
  PROVE  Move(r)
<1>1. CASE CreateReminder(q)
  <2> PICK d \in now .. now + Horizon, rep \in BOOLEAN :
         row' = [row EXCEPT ![q] = [NoRow EXCEPT !.status = "PENDING",
                                                 !.datetime = d,
                                                 !.repeat = rep]]
    BY <1>1 DEF CreateReminder
  <2>1. d \in Nat
    BY DEF TypeOK
  <2>2. row[q].status = "NONE" /\ Kept(r)
    BY <1>1 DEF CreateReminder, Kept, hist
  <2>3. r # q => Untouched(r)
    BY <2>2 DEF TypeOK, Untouched
  <2>4. row'[q] = [NoRow EXCEPT !.status = "PENDING", !.datetime = d, !.repeat = rep]
    BY DEF TypeOK
  <2>5. r = q => MCreate(r)
    BY <2>1, <2>2, <2>4 DEF MCreate
  <2> QED
    BY <2>3, <2>5 DEF Move
<1>2. CASE UpdateReminder(q)
  <2> PICK d \in now + 1 .. now + Horizon, rep \in BOOLEAN :
         row' = [row EXCEPT ![q] = Edited(row[q], d, rep)]
    BY <1>2 DEF UpdateReminder
  <2>1. d \in Nat
    BY DEF TypeOK
  <2>2. row[q].status # "NONE" /\ ~row[q].deleted
    BY <1>2 DEF UpdateReminder
  <2>3. r # q => Untouched(r)
    BY <1>2 DEF UpdateReminder, TypeOK, Untouched, Kept
  <2>4. /\ row'[q] = Edited(row[q], d, rep)
        /\ claims' = claims /\ records' = records /\ edits'[q] = edits[q] + 1
    BY <1>2 DEF UpdateReminder, TypeOK
  <2>5. r = q => MEdit(r)
    BY <2>1, <2>2, <2>4 DEF MEdit
  <2> QED
    BY <2>3, <2>5 DEF Move
<1>3. CASE DeleteReminder(q)
  BY <1>3 DEF DeleteReminder, TypeOK, Move, Untouched, MDelete, Kept, hist
<1> QED
  BY <1>1, <1>2, <1>3 DEF Owner

LEMMA ClaimMoves ==
  ASSUME TypeOK, NEW todo, ClaimRows(todo), NEW r \in Reminders
  PROVE  Move(r)
<1>1. /\ row'[r] = IF r \in DueNow THEN Claimed(row[r], cron.at) ELSE row[r]
      /\ claims'[r] = IF r \in DueNow THEN claims[r] + 1 ELSE claims[r]
      /\ records' = records /\ edits' = edits
  BY DEF ClaimRows
<1>2. CASE r \notin DueNow
  BY <1>1, <1>2 DEF Move, Untouched, Kept
<1>3. CASE r \in DueNow
  <2>1. row[r].status = "PENDING" /\ ~row[r].deleted /\ cron.at \in Nat
    BY <1>3 DEF DueNow, Due, TypeOK
  <2> QED
    BY <1>1, <1>3, <2>1 DEF Move, MClaim
<1> QED
  BY <1>2, <1>3

LEMMA CronMoves ==
  ASSUME TypeOK, Cron, NEW r \in Reminders
  PROVE  Move(r)
<1>1. CASE StartTick
  <2>1. Kept(r)
    BY <1>1 DEF StartTick, Kept, hist
  <2>2. row'[r] = row[r] \/ (Stale(row[r], now) /\ row'[r] = Reclaimed(row[r]))
    BY <1>1 DEF StartTick
  <2>3. Stale(row[r], now) => row[r].status = "SENT" /\ ~row[r].deleted
    BY DEF Stale
  <2> QED
    BY <2>1, <2>2, <2>3 DEF Move, Untouched, MReclaim
<1>2. CASE ClaimDueReminders
  BY <1>2, ClaimMoves DEF ClaimDueReminders
<1>3. CASE ClaimFails
  <2>1. CASE ClaimRows({})
    BY <2>1, ClaimMoves
  <2>2. CASE UNCHANGED <<row, hist>>
    BY <2>2 DEF Move, Untouched, Kept, hist
  <2> QED
    BY <1>3, <2>1, <2>2 DEF ClaimFails
<1>4. ASSUME NEW a \in cron.todo, PushAction(a) PROVE Move(r)
  BY <1>4 DEF PushAction, Move, Untouched, Kept, hist
<1> QED
  BY <1>1, <1>2, <1>3, <1>4 DEF Cron

LEMMA ClientMoves ==
  ASSUME TypeOK, NEW c \in Clients, Client(c), NEW r \in Reminders
  PROVE  Move(r)
  BY DEF Client, OpenStream, BreakStream, ReceiveAction, ClientCrash,
         Move, Untouched, Kept, hist

LEMMA HandlingMoves ==
  ASSUME TypeOK, NEW w \in work, Handling(w), NEW r \in Reminders
  PROVE  Move(r)
<1>0. w.rem \in Reminders
  BY DEF TypeOK, Work
<1>1. CASE PostNotification(w)
  BY <1>1 DEF PostNotification, hist, Move, Untouched, Kept
<1>2. CASE ConfirmLost(w)
  BY <1>2 DEF ConfirmLost, Move, Untouched, Kept, hist
<1>3. CASE ConfirmRead(w)
  BY <1>3 DEF ConfirmRead, Move, Untouched, Kept, hist
<1>4. CASE ConfirmFailed(w)
  <2>1. Kept(r) /\ Open(row[w.rem])
    BY <1>4 DEF ConfirmFailed, Kept
  <2>2. r # w.rem => Untouched(r)
    BY <1>4, <2>1 DEF ConfirmFailed, TypeOK, Untouched
  <2>3. r = w.rem => MFail(r)
    BY <1>0, <1>4, <2>1 DEF ConfirmFailed, TypeOK, MFail
  <2> QED
    BY <2>2, <2>3 DEF Move
<1>5. CASE ConfirmDelivered(w)
  <2>1. /\ w.phase = "read" /\ Open(row[w.rem])
        /\ claims' = claims /\ edits' = edits
        /\ records' = [records EXCEPT ![w.rem] = records[w.rem] + 1]
    BY <1>5 DEF ConfirmDelivered
  <2>2. CASE row' = [row EXCEPT ![w.rem] = Advanced(row[w.rem], "DELIVERED")]
    <3>1. r # w.rem => Untouched(r)
      BY <1>0, <2>1, <2>2 DEF TypeOK, Untouched, Kept
    <3>2. r = w.rem => MDeliver(r)
      BY <1>0, <2>1, <2>2 DEF TypeOK, MDeliver
    <3> QED
      BY <3>1, <3>2 DEF Move
  <2>3. ASSUME w.repeat, NEW next \in now + 1 .. now + Horizon,
               row' = [row EXCEPT ![w.rem] = Rescheduled(row[w.rem], next)]
        PROVE  Move(r)
    <3>1. next \in Nat
      BY DEF TypeOK
    <3>2. r # w.rem => Untouched(r)
      BY <1>0, <2>1, <2>3 DEF TypeOK, Untouched, Kept
    <3>3. row'[w.rem] = Rescheduled(row[w.rem], next)
      BY <1>0, <2>3 DEF TypeOK
    <3>4. records'[w.rem] = records[w.rem] + 1
      BY <1>0, <2>1 DEF TypeOK
    <3>5. r = w.rem => MDeliver(r)
      BY <2>1, <2>3, <3>1, <3>3, <3>4 DEF MDeliver
    <3> QED
      BY <3>2, <3>5 DEF Move
  <2> QED
    BY <1>5, <2>2, <2>3 DEF ConfirmDelivered
<1>6. CASE ConfirmNoOp(w)
  BY <1>6 DEF ConfirmNoOp, Move, Untouched, Kept, hist
<1> QED
  BY <1>1, <1>2, <1>3, <1>4, <1>5, <1>6 DEF Handling

LEMMA EveryStepMoves ==
  ASSUME TypeOK, [Next]_vars
  PROVE  \A r \in Reminders : Move(r)
<1> SUFFICES ASSUME NEW r \in Reminders PROVE Move(r)
  OBVIOUS
<1>1. CASE ServerCrash
  BY <1>1 DEF ServerCrash, Move, Untouched, Kept, hist
<1>2. CASE Clock
  BY <1>2 DEF Clock, Move, Untouched, Kept, hist
<1>3. CASE UNCHANGED vars
  BY <1>3 DEF vars, Move, Untouched, Kept, hist
<1> QED
  BY <1>1, <1>2, <1>3, OwnerMoves, CronMoves, ClientMoves, HandlingMoves DEF Next

-----------------------------------------------------------------------------
(* The claim stamp.                                                        *)

Stamped(x) == (x.claimedAt # None) <=> (x.status = "SENT")

LEMMA MoveKeepsStamp ==
  ASSUME TypeOK, NEW r \in Reminders, Stamped(row[r]), Move(r)
  PROVE  Stamped(row'[r])
<1>0. row[r] \in Row
  BY DEF TypeOK
<1>1. CASE Untouched(r)
  BY <1>1 DEF Untouched
<1>2. CASE MCreate(r)
  BY <1>2 DEF MCreate, NoRow, Stamped
<1>3. CASE MEdit(r)
  <2> PICK d \in Nat, rep \in BOOLEAN : row'[r] = Edited(row[r], d, rep)
    BY <1>3 DEF MEdit
  <2>1. row'[r].status = "PENDING" /\ row'[r].claimedAt = None
    BY <1>0 DEF Edited, Row
  <2> QED
    BY <2>1 DEF Stamped
<1>4. CASE MDelete(r)
  <2>1. row'[r] = [row[r] EXCEPT !.deleted = TRUE]
    BY <1>4 DEF MDelete
  <2>2. row'[r].status = row[r].status /\ row'[r].claimedAt = row[r].claimedAt
    BY <1>0, <2>1 DEF Row
  <2> QED
    BY <2>2 DEF Stamped
<1>5. CASE MReclaim(r)
  <2>1. row'[r] = Reclaimed(row[r])
    BY <1>5 DEF MReclaim
  <2>2. row'[r].status # "SENT" /\ row'[r].claimedAt = None
    BY <1>0, <2>1 DEF Reclaimed, Row
  <2> QED
    BY <2>2 DEF Stamped
<1>6. CASE MClaim(r)
  <2> PICK t \in Nat : row'[r] = Claimed(row[r], t)
    BY <1>6 DEF MClaim
  <2>1. row'[r].status = "SENT" /\ row'[r].claimedAt = t
    BY <1>0 DEF Claimed, Row
  <2>2. t # None
    BY NoneAssumption
  <2> QED
    BY <2>1, <2>2 DEF Stamped
<1>7. CASE MFail(r)
  <2>1. row'[r] = Advanced(row[r], "FAILED")
    BY <1>7 DEF MFail
  <2>2. row'[r].status = "FAILED" /\ row'[r].claimedAt = None
    BY <1>0, <2>1 DEF Advanced, Row
  <2> QED
    BY <2>2 DEF Stamped
<1>8. CASE MDeliver(r)
  <2>1. CASE row'[r] = Advanced(row[r], "DELIVERED")
    <3>1. row'[r].status = "DELIVERED" /\ row'[r].claimedAt = None
      BY <1>0, <2>1 DEF Advanced, Row
    <3> QED
      BY <3>1 DEF Stamped
  <2>2. CASE \E next \in Nat : row'[r] = Rescheduled(row[r], next)
    <3> PICK next \in Nat : row'[r] = Rescheduled(row[r], next)
      BY <2>2
    <3>1. row'[r].status = "PENDING" /\ row'[r].claimedAt = None
      BY <1>0 DEF Rescheduled, Row
    <3> QED
      BY <3>1 DEF Stamped
  <2> QED
    BY <1>8, <2>1, <2>2 DEF MDeliver
<1> QED
  BY <1>1, <1>2, <1>3, <1>4, <1>5, <1>6, <1>7, <1>8 DEF Move

\* A row has a claim instant exactly while it is SENT: no SENT row is out of
\* the reclaim's reach.
THEOREM ClaimStampCorrect == Spec => []ClaimStampMarksSent
<1>1. Init => ClaimStampMarksSent
  BY DEF Init, NoRow, ClaimStampMarksSent
<1>2. TypeOK /\ ClaimStampMarksSent /\ [Next]_vars => ClaimStampMarksSent'
  <2> SUFFICES ASSUME TypeOK, ClaimStampMarksSent, [Next]_vars, NEW r \in Reminders
               PROVE  Stamped(row'[r])
    BY DEF ClaimStampMarksSent, Stamped
  <2>1. Stamped(row[r])
    BY DEF ClaimStampMarksSent, Stamped
  <2> QED
    BY <2>1, EveryStepMoves, MoveKeepsStamp
<1> QED
  BY <1>1, <1>2, TypeCorrect, PTL DEF Spec

-----------------------------------------------------------------------------
(* The attempt counter.                                                    *)

Capped(x) == /\ x.attempts <= MaxDeliveryAttempts
             /\ x.status = "PENDING" => x.attempts < MaxDeliveryAttempts

LEMMA ClaimedAttempts ==
  ASSUME NEW x \in Row, NEW t \in Nat
  PROVE  /\ Claimed(x, t).status = "SENT"
         /\ Claimed(x, t).attempts = x.attempts + 1
         /\ Claimed(x, t).repeat = x.repeat
         /\ Claimed(x, t).deleted = x.deleted
  BY DEF Claimed, Row

\* What a confirmed row looks like.
LEMMA DeliverFields ==
  ASSUME NEW r \in Reminders, row[r] \in Row, MDeliver(r)
  PROVE  /\ row[r].status = "SENT"
         /\ ~row[r].deleted
         /\ row'[r].deleted = row[r].deleted
         /\ row'[r].repeat = row[r].repeat
         /\ \/ row'[r].status = "DELIVERED" /\ row'[r].attempts = row[r].attempts
            \/ row'[r].status = "PENDING" /\ row'[r].attempts = 0
<1>1. row[r].status = "SENT" /\ ~row[r].deleted
  BY DEF MDeliver, Open
<1>2. CASE row'[r] = Advanced(row[r], "DELIVERED")
  BY <1>1, <1>2 DEF Advanced, Row
<1>3. CASE \E next \in Nat : row'[r] = Rescheduled(row[r], next)
  BY <1>1, <1>3 DEF Rescheduled, Row
<1> QED
  BY <1>2, <1>3 DEF MDeliver

LEMMA MoveKeepsCap ==
  ASSUME TypeOK, NEW r \in Reminders, Capped(row[r]), Move(r)
  PROVE  Capped(row'[r])
<1>0. row[r] \in Row /\ row[r].attempts \in Nat
  BY DEF TypeOK, Row
<1>1. CASE Untouched(r)
  BY <1>1 DEF Untouched
<1>2. CASE MCreate(r)
  BY <1>2 DEF MCreate, NoRow, Capped
<1>3. CASE MEdit(r)
  BY <1>0, <1>3 DEF MEdit, Edited, Row, Capped
<1>4. CASE MDelete(r)
  BY <1>0, <1>4 DEF MDelete, Row, Capped
<1>5. CASE MReclaim(r)
  BY <1>0, <1>5 DEF MReclaim, Reclaimed, Row, Capped
<1>6. CASE MClaim(r)
  BY <1>0, <1>6, ClaimedAttempts DEF MClaim, Capped
<1>7. CASE MFail(r)
  BY <1>0, <1>7 DEF MFail, Advanced, Row, Capped
<1>8. CASE MDeliver(r)
  BY <1>0, <1>8, DeliverFields DEF Capped
<1> QED
  BY <1>1, <1>2, <1>3, <1>4, <1>5, <1>6, <1>7, <1>8 DEF Move

\* The counter never passes maxDeliveryAttempts, and a PENDING row has an
\* attempt left.
THEOREM AttemptsCapCorrect == Spec => []AttemptsWithinCap
<1>1. Init => AttemptsWithinCap
  BY DEF Init, NoRow, AttemptsWithinCap
<1>2. TypeOK /\ AttemptsWithinCap /\ [Next]_vars => AttemptsWithinCap'
  <2> SUFFICES ASSUME TypeOK, AttemptsWithinCap, [Next]_vars, NEW r \in Reminders
               PROVE  Capped(row'[r])
    BY DEF AttemptsWithinCap, Capped
  <2>1. Capped(row[r])
    BY DEF AttemptsWithinCap, Capped
  <2> QED
    BY <2>1, EveryStepMoves, MoveKeepsCap
<1> QED
  BY <1>1, <1>2, TypeCorrect, PTL DEF Spec

-----------------------------------------------------------------------------
(* One analytics record per claim.                                         *)

Recorded(x, rec, cl) == rec + (IF x.status = "SENT" THEN 1 ELSE 0) <= cl

LEMMA MoveKeepsRecorded ==
  ASSUME TypeOK, NEW r \in Reminders, Move(r),
         Recorded(row[r], records[r], claims[r])
  PROVE  Recorded(row'[r], records'[r], claims'[r])
<1>0. row[r] \in Row /\ records[r] \in Nat /\ claims[r] \in Nat
  BY DEF TypeOK
<1>1. CASE Untouched(r)
  BY <1>1 DEF Untouched, Kept
<1>2. CASE MCreate(r)
  BY <1>0, <1>2 DEF MCreate, NoRow, Recorded, Kept
<1>3. CASE MEdit(r)
  BY <1>0, <1>3 DEF MEdit, Edited, Row, Recorded
<1>4. CASE MDelete(r)
  BY <1>0, <1>4 DEF MDelete, Row, Recorded, Kept
<1>5. CASE MReclaim(r)
  BY <1>0, <1>5 DEF MReclaim, Reclaimed, Row, Recorded, Kept
<1>6. CASE MClaim(r)
  <2>1. row'[r].status = "SENT"
    BY <1>0, <1>6, ClaimedAttempts DEF MClaim
  <2> QED
    BY <1>0, <1>6, <2>1 DEF MClaim, Recorded
<1>7. CASE MFail(r)
  BY <1>0, <1>7 DEF MFail, Advanced, Row, Recorded, Kept
<1>8. CASE MDeliver(r)
  <2>1. row[r].status = "SENT" /\ row'[r].status # "SENT"
    BY <1>0, <1>8, DeliverFields
  <2> QED
    BY <1>0, <1>8, <2>1 DEF MDeliver, Recorded
<1> QED
  BY <1>1, <1>2, <1>3, <1>4, <1>5, <1>6, <1>7, <1>8 DEF Move

\* However many clients confirm it, and however late, a claim is recorded as
\* delivered at most once.
THEOREM OneRecordCorrect == Spec => []OneRecordPerClaim
<1>1. Init => OneRecordPerClaim
  BY DEF Init, NoRow, OneRecordPerClaim
<1>2. TypeOK /\ OneRecordPerClaim /\ [Next]_vars => OneRecordPerClaim'
  <2> SUFFICES ASSUME TypeOK, OneRecordPerClaim, [Next]_vars, NEW r \in Reminders
               PROVE  Recorded(row'[r], records'[r], claims'[r])
    BY DEF OneRecordPerClaim, Recorded
  <2>1. Recorded(row[r], records[r], claims[r])
    BY DEF OneRecordPerClaim, Recorded
  <2> QED
    BY <2>1, EveryStepMoves, MoveKeepsRecorded
<1> QED
  BY <1>1, <1>2, TypeCorrect, PTL DEF Spec

-----------------------------------------------------------------------------
(* Settled and deleted rows.                                               *)

LEMMA MoveIsFinal ==
  ASSUME TypeOK, NEW r \in Reminders, Move(r)
  PROVE  /\ row[r].deleted /\ row[r].status # "NONE" => row'[r] = row[r]
         /\ (/\ row[r].status \in {"DELIVERED", "FAILED"}
             /\ row'[r].status # row[r].status)
              => edits'[r] > edits[r]
<1>0. row[r] \in Row /\ edits[r] \in Nat
  BY DEF TypeOK
<1>1. CASE Untouched(r)
  BY <1>1 DEF Untouched
<1>2. CASE MCreate(r)
  BY <1>2 DEF MCreate
<1>3. CASE MEdit(r)
  BY <1>0, <1>3 DEF MEdit
<1>4. CASE MDelete(r)
  BY <1>0, <1>4 DEF MDelete, Row
<1>5. CASE MReclaim(r)
  BY <1>5 DEF MReclaim
<1>6. CASE MClaim(r)
  BY <1>6 DEF MClaim
<1>7. CASE MFail(r)
  BY <1>7 DEF MFail, Open
<1>8. CASE MDeliver(r)
  BY <1>8 DEF MDeliver, Open
<1> QED
  BY <1>1, <1>2, <1>3, <1>4, <1>5, <1>6, <1>7, <1>8 DEF Move

\* Only a row that was inserted is ever deleted.
UnusedAlive == \A r \in Reminders : row[r].status = "NONE" => row[r] = NoRow

LEMMA UnusedAliveCorrect == Spec => []UnusedAlive
<1>1. Init => UnusedAlive
  BY DEF Init, UnusedAlive
<1>2. TypeOK /\ UnusedAlive /\ [Next]_vars => UnusedAlive'
  <2> SUFFICES ASSUME TypeOK, UnusedAlive, [Next]_vars, NEW r \in Reminders,
                      row'[r].status = "NONE"
               PROVE  row'[r] = NoRow
    BY DEF UnusedAlive
  <2>0. row[r] \in Row /\ Move(r)
    BY EveryStepMoves DEF TypeOK
  <2>1. CASE Untouched(r)
    BY <2>1 DEF Untouched, UnusedAlive
  <2>2. CASE MCreate(r)
    BY <2>2 DEF MCreate, NoRow
  <2>3. CASE MEdit(r)
    BY <2>0, <2>3 DEF MEdit, Edited, Row
  <2>4. CASE MDelete(r)
    BY <2>0, <2>4 DEF MDelete, Row
  <2>5. CASE MReclaim(r)
    BY <2>0, <2>5 DEF MReclaim, Reclaimed, Row
  <2>6. CASE MClaim(r)
    BY <2>0, <2>6, ClaimedAttempts DEF MClaim
  <2>7. CASE MFail(r)
    BY <2>0, <2>7 DEF MFail, Advanced, Row
  <2>8. CASE MDeliver(r)
    BY <2>0, <2>8, DeliverFields
  <2> QED
    BY <2>0, <2>1, <2>2, <2>3, <2>4, <2>5, <2>6, <2>7, <2>8 DEF Move
<1> QED
  BY <1>1, <1>2, TypeCorrect, PTL DEF Spec

\* A settled row is moved by its owner only, a deleted one by nobody.
THEOREM SettledIsFinalCorrect == Spec => SettledIsFinal
<1>1. TypeOK /\ UnusedAlive /\ [Next]_vars =>
        [\A r \in Reminders :
           /\ row[r].deleted => row'[r] = row[r]
           /\ (/\ row[r].status \in {"DELIVERED", "FAILED"}
               /\ row'[r].status # row[r].status)
                => edits'[r] > edits[r]]_vars
  <2> SUFFICES ASSUME TypeOK, UnusedAlive, [Next]_vars, NEW r \in Reminders
               PROVE  /\ row[r].deleted => row'[r] = row[r]
                      /\ (/\ row[r].status \in {"DELIVERED", "FAILED"}
                          /\ row'[r].status # row[r].status)
                           => edits'[r] > edits[r]
    OBVIOUS
  <2>1. row[r].deleted => row[r].status # "NONE"
    BY DEF UnusedAlive, NoRow
  <2> QED
    BY <2>1, EveryStepMoves, MoveIsFinal
<1> QED
  BY <1>1, TypeCorrect, UnusedAliveCorrect, PTL DEF Spec, SettledIsFinal

-----------------------------------------------------------------------------
(* The budget of claims.                                                   *)

\* A handler that read a repeat is about to write to a repeat, unless the owner
\* edited the row in between.
SnapshotHolds ==
  \A w \in work :
    (w.phase = "read" /\ w.repeat /\ edits[w.rem] = 0) => row[w.rem].repeat

\* Without edits and repeats the attempt counter counts all claims there were.
CounterIsTotal ==
  \A r \in Reminders :
    (edits[r] = 0 /\ ~row[r].repeat) => claims[r] = row[r].attempts

\* A row that is not there yet has no claim.
UnusedUnclaimed == \A r \in Reminders : row[r].status = "NONE" => claims[r] = 0

BudgetInv == SnapshotHolds /\ CounterIsTotal /\ UnusedUnclaimed

\* What a step leaves of the repeat of a row, short of an edit.
LEMMA MoveKeepsRepeat ==
  ASSUME TypeOK, UnusedAlive, NEW r \in Reminders, Move(r), edits'[r] = 0
  PROVE  edits[r] = 0 /\ (row[r].repeat => row'[r].repeat)
<1>0. row[r] \in Row /\ edits[r] \in Nat
  BY DEF TypeOK
<1>1. CASE Untouched(r)
  BY <1>1 DEF Untouched, Kept
<1>2. CASE MCreate(r)
  BY <1>2 DEF MCreate, Kept, UnusedAlive, NoRow
<1>3. CASE MEdit(r)
  BY <1>0, <1>3 DEF MEdit
<1>4. CASE MDelete(r)
  BY <1>0, <1>4 DEF MDelete, Kept, Row
<1>5. CASE MReclaim(r)
  BY <1>0, <1>5 DEF MReclaim, Reclaimed, Kept, Row
<1>6. CASE MClaim(r)
  BY <1>0, <1>6, ClaimedAttempts DEF MClaim
<1>7. CASE MFail(r)
  BY <1>0, <1>7 DEF MFail, Advanced, Kept, Row
<1>8. CASE MDeliver(r)
  BY <1>0, <1>8, DeliverFields DEF MDeliver
<1> QED
  BY <1>1, <1>2, <1>3, <1>4, <1>5, <1>6, <1>7, <1>8 DEF Move

\* A handler in "read" was there before the step, or has just loaded the row.
LEMMA ReadersAre ==
  ASSUME TypeOK, [Next]_vars, NEW v \in work', v.phase = "read", v.repeat
  PROVE  v \in work \/ (row[v.rem].repeat /\ row' = row)
<1>1. ASSUME NEW r \in Reminders, Owner(r) PROVE v \in work
  BY <1>1 DEF Owner, CreateReminder, UpdateReminder, DeleteReminder, clientVars
<1>2. CASE Cron
  BY <1>2 DEF Cron, StartTick, ClaimDueReminders, ClaimFails, PushAction, clientVars
<1>3. ASSUME NEW c \in Clients, Client(c) PROVE v \in work
  BY <1>3 DEF Client, OpenStream, BreakStream, ReceiveAction, ClientCrash
<1>4. ASSUME NEW w \in work, Handling(w)
      PROVE  v \in work \/ (row[v.rem].repeat /\ row' = row)
  <2>0. w \in Work
    BY DEF TypeOK
  <2>1. CASE PostNotification(w)
    <3>1. ASSUME NEW ok \in BOOLEAN, v = [w EXCEPT !.phase = "posted", !.delivered = ok]
          PROVE  FALSE
      BY <2>0, <3>1 DEF Work
    <3> QED
      BY <2>1, <3>1 DEF PostNotification
  <2>2. CASE ConfirmLost(w)
    BY <2>2 DEF ConfirmLost
  <2>3. CASE ConfirmRead(w)
    <3>1. CASE v \in work
      BY <3>1
    <3>2. CASE v = [w EXCEPT !.phase = "read", !.repeat = row[w.rem].repeat]
      <4>1. v.rem = w.rem /\ v.repeat = row[w.rem].repeat
        BY <2>0, <3>2 DEF Work
      <4> QED
        BY <2>3, <4>1 DEF ConfirmRead
    <3> QED
      BY <2>3, <3>1, <3>2 DEF ConfirmRead
  <2>4. CASE ConfirmFailed(w)
    BY <2>4 DEF ConfirmFailed
  <2>5. CASE ConfirmDelivered(w)
    BY <2>5 DEF ConfirmDelivered
  <2>6. CASE ConfirmNoOp(w)
    BY <2>6 DEF ConfirmNoOp
  <2> QED
    BY <1>4, <2>1, <2>2, <2>3, <2>4, <2>5, <2>6 DEF Handling
<1>5. CASE ServerCrash
  BY <1>5 DEF ServerCrash
<1>6. CASE Clock
  BY <1>6 DEF Clock, clientVars
<1>7. CASE UNCHANGED vars
  BY <1>7 DEF vars
<1> QED
  BY <1>1, <1>2, <1>3, <1>4, <1>5, <1>6, <1>7 DEF Next

LEMMA MoveKeepsCounter ==
  ASSUME TypeOK, UnusedAlive, BudgetInv, NEW r \in Reminders, Move(r),
         edits'[r] = 0, ~row'[r].repeat
  PROVE  claims'[r] = row'[r].attempts
<1>0. row[r] \in Row /\ claims[r] \in Nat /\ row[r].attempts \in Nat
  BY DEF TypeOK, Row
<1>1. edits[r] = 0 /\ ~row[r].repeat
  BY MoveKeepsRepeat
<1>2. claims[r] = row[r].attempts
  BY <1>1 DEF BudgetInv, CounterIsTotal
<1>3. CASE Untouched(r)
  BY <1>2, <1>3 DEF Untouched, Kept
<1>4. CASE MCreate(r)
  BY <1>4 DEF MCreate, Kept, BudgetInv, UnusedUnclaimed, NoRow
<1>5. CASE MEdit(r)
  BY <1>1, <1>5 DEF MEdit
<1>6. CASE MDelete(r)
  BY <1>0, <1>2, <1>6 DEF MDelete, Kept, Row
<1>7. CASE MReclaim(r)
  BY <1>0, <1>2, <1>7 DEF MReclaim, Reclaimed, Kept, Row
<1>8. CASE MClaim(r)
  BY <1>0, <1>2, <1>8, ClaimedAttempts DEF MClaim
<1>9. CASE MFail(r)
  BY <1>0, <1>2, <1>9 DEF MFail, Advanced, Kept, Row
<1>10. CASE MDeliver(r)
  <2>1. ~\E w \in work : w.rem = r /\ w.phase = "read" /\ w.repeat
    BY <1>1 DEF BudgetInv, SnapshotHolds
  <2>2. row'[r] = Advanced(row[r], "DELIVERED") /\ claims'[r] = claims[r]
    BY <1>10, <2>1 DEF MDeliver
  <2> QED
    BY <1>0, <1>2, <2>2 DEF Advanced, Row
<1> QED
  BY <1>3, <1>4, <1>5, <1>6, <1>7, <1>8, <1>9, <1>10 DEF Move

LEMMA MoveKeepsUnclaimed ==
  ASSUME TypeOK, BudgetInv, NEW r \in Reminders, Move(r), row'[r].status = "NONE"
  PROVE  claims'[r] = 0
<1>0. row[r] \in Row
  BY DEF TypeOK
<1>1. CASE Untouched(r)
  BY <1>1 DEF Untouched, Kept, BudgetInv, UnusedUnclaimed
<1>2. CASE MCreate(r)
  BY <1>2 DEF MCreate, NoRow
<1>3. CASE MEdit(r)
  BY <1>0, <1>3 DEF MEdit, Edited, Row
<1>4. CASE MDelete(r)
  BY <1>0, <1>4 DEF MDelete, Row
<1>5. CASE MReclaim(r)
  BY <1>0, <1>5 DEF MReclaim, Reclaimed, Row
<1>6. CASE MClaim(r)
  BY <1>0, <1>6, ClaimedAttempts DEF MClaim
<1>7. CASE MFail(r)
  BY <1>0, <1>7 DEF MFail, Advanced, Row
<1>8. CASE MDeliver(r)
  BY <1>0, <1>8, DeliverFields
<1> QED
  BY <1>1, <1>2, <1>3, <1>4, <1>5, <1>6, <1>7, <1>8 DEF Move

LEMMA BudgetInvCorrect == Spec => []BudgetInv
<1>1. Init => BudgetInv
  BY DEF Init, NoRow, BudgetInv, SnapshotHolds, CounterIsTotal, UnusedUnclaimed
<1>2. TypeOK /\ TypeOK' /\ UnusedAlive /\ BudgetInv /\ [Next]_vars => BudgetInv'
  <2> SUFFICES ASSUME TypeOK, TypeOK', UnusedAlive, BudgetInv, [Next]_vars
               PROVE  BudgetInv'
    OBVIOUS
  <2>1. ASSUME NEW v \in work', v.phase = "read", v.repeat, edits'[v.rem] = 0
        PROVE  row'[v.rem].repeat
    <3>1. v.rem \in Reminders
      BY DEF TypeOK, Work
    <3>2. edits[v.rem] = 0 /\ (row[v.rem].repeat => row'[v.rem].repeat)
      BY <2>1, <3>1, EveryStepMoves, MoveKeepsRepeat
    <3>3. CASE v \in work
      BY <2>1, <3>2, <3>3 DEF BudgetInv, SnapshotHolds
    <3>4. CASE row[v.rem].repeat
      BY <3>2, <3>4
    <3> QED
      BY <2>1, <3>3, <3>4, ReadersAre
  <2>2. CounterIsTotal'
    BY EveryStepMoves, MoveKeepsCounter DEF CounterIsTotal
  <2>3. UnusedUnclaimed'
    BY EveryStepMoves, MoveKeepsUnclaimed DEF UnusedUnclaimed
  <2> QED
    BY <2>1, <2>2, <2>3 DEF BudgetInv, SnapshotHolds
<1> QED
  BY <1>1, <1>2, TypeCorrect, UnusedAliveCorrect, PTL DEF Spec

\* A one-shot nobody edits is delivered at most maxDeliveryAttempts times.
THEOREM ClaimBudgetCorrect == Spec => []ClaimBudget
<1>1. BudgetInv /\ AttemptsWithinCap => ClaimBudget
  BY DEF BudgetInv, CounterIsTotal, AttemptsWithinCap, ClaimBudget
<1> QED
  BY <1>1, BudgetInvCorrect, AttemptsCapCorrect, PTL

-----------------------------------------------------------------------------
(* The table implements the life of a reminder.                            *)

PhaseOf(x) == IF x.deleted THEN "DELETED" ELSE x.status

LEMMA MoveIsLife ==
  ASSUME TypeOK, UnusedAlive, AttemptsWithinCap, NEW r \in Reminders, Move(r)
  PROVE  LET p == PhaseOf(row[r])    n == row[r].attempts
             q == PhaseOf(row'[r])   m == row'[r].attempts
         IN \/ p # "DELETED" /\ q = "PENDING" /\ m = 0
            \/ p \notin {"NONE", "DELETED"} /\ q = "DELETED" /\ m = n
            \/ /\ p = "PENDING" /\ n < MaxDeliveryAttempts
               /\ q = "SENT" /\ m = n + 1
            \/ /\ p = "SENT" /\ n < MaxDeliveryAttempts
               /\ q = "PENDING" /\ m = n
            \/ p = "SENT" /\ q \in {"DELIVERED", "FAILED"} /\ m = n
            \/ q = p /\ m = n
<1>0. row[r] \in Row /\ row[r].attempts \in Nat
  BY DEF TypeOK, Row
<1>1. CASE Untouched(r)
  BY <1>1 DEF Untouched
<1>2. CASE MCreate(r)
  BY <1>2 DEF MCreate, UnusedAlive, NoRow, PhaseOf
<1>3. CASE MEdit(r)
  <2>1. ~row[r].deleted /\ row[r].status # "DELETED"
    BY <1>0, <1>3 DEF MEdit, Row, Status
  <2>2. /\ row'[r].status = "PENDING" /\ ~row'[r].deleted
        /\ row'[r].attempts = 0
    BY <1>0, <1>3 DEF MEdit, Edited, Row
  <2> QED
    BY <2>1, <2>2 DEF PhaseOf
<1>4. CASE MDelete(r)
  BY <1>0, <1>4 DEF MDelete, Row, Status, PhaseOf
<1>5. CASE MReclaim(r)
  BY <1>0, <1>5 DEF MReclaim, Reclaimed, Row, PhaseOf
<1>6. CASE MClaim(r)
  <2>1. /\ row[r].status = "PENDING" /\ ~row[r].deleted
        /\ row'[r].status = "SENT" /\ ~row'[r].deleted
        /\ row'[r].attempts = row[r].attempts + 1
    BY <1>0, <1>6, ClaimedAttempts DEF MClaim
  <2>2. row[r].attempts < MaxDeliveryAttempts
    BY <2>1 DEF AttemptsWithinCap
  <2> QED
    BY <2>1, <2>2 DEF PhaseOf
<1>7. CASE MFail(r)
  BY <1>0, <1>7 DEF MFail, Open, Advanced, Row, PhaseOf
<1>8. CASE MDeliver(r)
  BY <1>0, <1>8, DeliverFields DEF PhaseOf
<1> QED
  BY <1>1, <1>2, <1>3, <1>4, <1>5, <1>6, <1>7, <1>8 DEF Move

\* Claims, reclaims, confirmations, edits and deletions, in any interleaving,
\* are steps of ReminderLifecycle.
THEOREM LifecycleCorrect == Spec => LifecycleSpec
<1>1. Init => Lifecycle!Init
  BY DEF Init, Lifecycle!Init, NoRow
<1>2. TypeOK /\ UnusedAlive /\ AttemptsWithinCap /\ [Next]_vars => Lifecycle!Next
  <2> SUFFICES ASSUME TypeOK, UnusedAlive, AttemptsWithinCap, [Next]_vars,
                      NEW r \in Reminders
               PROVE  \/ Lifecycle!Arm(r)
                      \/ Lifecycle!Delete(r)
                      \/ Lifecycle!Deliver(r)
                      \/ Lifecycle!Retry(r)
                      \/ Lifecycle!Settle(r)
                      \/ Lifecycle!Same(r)
    BY DEF Lifecycle!Next
  <2>1. Move(r)
    BY EveryStepMoves
  <2> QED
    BY <2>1, MoveIsLife DEF PhaseOf, Lifecycle!Arm, Lifecycle!Delete, Lifecycle!Alive,
       Lifecycle!Deliver, Lifecycle!Retry, Lifecycle!Settle, Lifecycle!Same
<1> QED
  BY <1>1, <1>2, TypeCorrect, UnusedAliveCorrect, AttemptsCapCorrect, PTL
     DEF Spec, LifecycleSpec, Lifecycle!Spec

=============================================================================
