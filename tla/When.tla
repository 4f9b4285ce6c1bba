-------------------------------- MODULE When --------------------------------
(***************************************************************************)
(* The times people write: a length such as 4M2d8h30s, a date, or a phrase *)
(* of English, tried in this order.  A length is read character by         *)
(* character with the arithmetic of Go's durations, which wraps; a date is *)
(* a list of numerals.  The width of a duration is that of Schedule.       *)
(***************************************************************************)
EXTENDS Schedule, SequencesExt

CONSTANTS
  Unit,      \* the units of a length, in ticks
  IntRange,  \* an int is below this
  ThisYear,  \* of now, where the caller is
  Texts      \* bound: the texts that are read below

ASSUME UnitAssumption == \A u \in DOMAIN Unit : Unit[u] \in Nat

MaxInt == HalfRange - 1

Digit == [c \in {"0", "1", "2", "3", "4", "5", "6", "7", "8", "9"} |->
            CASE c = "0" -> 0 [] c = "1" -> 1 [] c = "2" -> 2 [] c = "3" -> 3
              [] c = "4" -> 4 [] c = "5" -> 5 [] c = "6" -> 6 [] c = "7" -> 7
              [] c = "8" -> 8 [] c = "9" -> 9]

Refused == [way |-> "refused"]
After(span) == [way |-> "after", span |-> span]
On(date, clock, zone) == [way |-> "on", date |-> date, clock |-> clock, zone |-> zone]

-----------------------------------------------------------------------------
(* Lengths.                                                                *)

\* value and digits are of the number that is being read.
Start == [ok |-> TRUE, value |-> 0, digits |-> FALSE, seen |-> {}, total |-> 0]

Stop == [Start EXCEPT !.ok = FALSE]

\* Mutant of ReadDigit: the number may outgrow its width.
ReadDigitUnguarded(s, d) ==
  [s EXCEPT !.value = Wrapped(s.value * 10 + d), !.digits = TRUE]

ReadDigit(s, d) ==
  IF s.value > (MaxInt - d) \div 10 THEN Stop
  ELSE [s EXCEPT !.value = Wrapped(s.value * 10 + d), !.digits = TRUE]

AddPart(s, u, part) ==
  IF part > 0 /\ s.total > MaxInt - part THEN Stop
  ELSE [Start EXCEPT !.seen = s.seen \cup {u}, !.total = Wrapped(s.total + part)]

ReadUnit(s, u) ==
  IF ~s.digits \/ u \notin DOMAIN Unit \/ u \in s.seen THEN Stop
  ELSE IF s.value # 0 /\ Unit[u] > MaxInt \div s.value THEN Stop
  ELSE AddPart(s, u, Wrapped(s.value * Unit[u]))

Read(s, c) ==
  IF ~s.ok THEN s
  ELSE IF c \in DOMAIN Digit THEN ReadDigit(s, Digit[c])
  ELSE ReadUnit(s, c)

ParseDuration(text) ==
  LET end == FoldLeft(Read, Start, text)
  IN IF end.ok /\ ~end.digits /\ end.total > 0 THEN After(end.total) ELSE Refused

-----------------------------------------------------------------------------
(* Dates, year first or day first.  A clock is <<>> or the hour, the minute *)
(* and perhaps the second.                                                  *)

DaysIn(year, month) ==
  CASE month \in {4, 6, 9, 11} -> 30
    [] month = 2 -> IF year % 4 = 0 /\ (year % 100 # 0 \/ year % 400 = 0) THEN 29 ELSE 28
    [] OTHER -> 31

IsTime(clock) ==
  \A i \in DOMAIN clock : clock[i] \in IF i = 1 THEN 0..23 ELSE 0..59

IsDate(year, month, day) == month \in 1..12 /\ day \in 1 .. DaysIn(year, month)

\* The length of the clock and whether there is an offset.
Layouts == {<<3, TRUE>>, <<3, FALSE>>, <<2, FALSE>>, <<0, FALSE>>}

ParseISO(text) ==
  IF /\ <<Len(text.clock), text.offset>> \in Layouts
     /\ IsDate(text.date[1], text.date[2], text.date[3])
     /\ IsTime(text.clock)
    THEN On(text.date, text.clock, IF text.offset THEN "offset" ELSE "caller")
    ELSE Refused

Numeric(numeral) == numeral # <<>> /\ Range(numeral) \subseteq DOMAIN Digit

\* It does not notice that the number outgrows its width.
Atoi(numeral) ==
  FoldLeft(LAMBDA n, c : ((n * 10 + Digit[c] + IntRange) % (2 * IntRange)) - IntRange,
           0, numeral)

\* time.Date: a day past the end of its month is one of the next.
Normal(year, month, day) ==
  IF day <= DaysIn(year, month) THEN <<month, day>>
  ELSE <<(month % 12) + 1, day - DaysIn(year, month)>>

Century(year) == IF year < 100 THEN year + 2000 ELSE year

\* Of two or three parts, day first.
ParseSlashDate(text) ==
  IF ~\A numeral \in Range(text.parts \o text.clock) : Numeric(numeral) THEN Refused
  ELSE LET parts == [i \in DOMAIN text.parts |-> Atoi(text.parts[i])]
           clock == [i \in DOMAIN text.clock |-> Atoi(text.clock[i])]
           year  == IF Len(parts) = 2 THEN ThisYear ELSE Century(parts[3])
       IN IF /\ Len(clock) \in {0, 2}
             /\ parts[2] \in 1..12 /\ parts[1] \in 1..31 /\ IsTime(clock)
             /\ Normal(year, parts[2], parts[1]) = <<parts[2], parts[1]>>
            THEN On(<<year, parts[2], parts[1]>>, clock, "caller")
            ELSE Refused

-----------------------------------------------------------------------------
\* A length has no separator and each kind of date has its own, so that no parser
\* takes what another is for; the one for phrases takes whatever it finds
\* something in.
ParseWhen(text, phrase) ==
  LET exact == CASE text.form = "length" -> ParseDuration(text.chars)
                 [] text.form = "iso"    -> ParseISO(text)
                 [] text.form = "slash"  -> ParseSlashDate(text)
  IN IF exact # Refused THEN exact
     ELSE IF phrase THEN [way |-> "phrase"]
     ELSE Refused

-----------------------------------------------------------------------------
(* What is meant, with numbers of any size.                                *)

\* The value of the digits from i to j.
Number(text, i, j) ==
  FoldLeft(LAMBDA n, k : n * 10 + Digit[text[k]], 0, [k \in 1 .. j - i + 1 |-> i + k - 1])

Units(text) == {k \in DOMAIN text : text[k] \in DOMAIN Unit}

\* Every unit has a number before it, no unit comes twice, and nothing is left over.
IsLength(text) ==
  /\ text # <<>>
  /\ \A k \in DOMAIN text : k \in Units(text) \/ text[k] \in DOMAIN Digit
  /\ Len(text) \in Units(text)
  /\ \A k \in Units(text) : k > 1 /\ k - 1 \notin Units(text)
  /\ \A j, k \in Units(text) : text[j] = text[k] => j = k

Meant(text) ==
  LET from(k) == CHOOSE i \in 1..k : /\ i = 1 \/ i - 1 \in Units(text)
                                     /\ \A l \in i .. k - 1 : l \notin Units(text)
  IN FoldLeft(LAMBDA n, k : n + IF k \in Units(text)
                                  THEN Unit[text[k]] * Number(text, from(k), k - 1) ELSE 0,
              0, [k \in DOMAIN text |-> k])

Value(numeral) == Number(numeral, 1, Len(numeral))

\* The date a text stands for, if it is one.
Written(text) ==
  LET parts == [i \in DOMAIN text.parts |-> Value(text.parts[i])]
  IN On(<<IF Len(parts) = 2 THEN ThisYear ELSE Century(parts[3]), parts[2], parts[1]>>,
        [i \in DOMAIN text.clock |-> Value(text.clock[i])], "caller")

Reads(text, exact, meant, way) ==
  \A phrase \in BOOLEAN :
    IF exact THEN ParseWhen(text, phrase) = meant ELSE ParseWhen(text, phrase).way # way

\* What is read is what was written.  A length is taken exactly if it is one and the
\* sum of its parts fits a duration, and as that sum, whatever overflows on the way.
\* Numerals that fit an int are taken exactly if they are a date of the calendar,
\* and as that date, day first.  What can be read exactly is never left to the
\* parser that guesses.
ReadsAsWritten(text) ==
  CASE text.form = "length" ->
         LET exact == IsLength(text.chars) /\ Meant(text.chars) \in 1..MaxInt
         IN Reads(text, exact, After(Meant(text.chars)), "after")
    [] text.form = "slash" ->
         LET numerals == Range(text.parts \o text.clock)
             numeric  == \A numeral \in numerals : Numeric(numeral)
             date     == Written(text).date
             exact    == /\ numeric
                         /\ IsDate(date[1], date[2], date[3])
                         /\ Len(text.clock) \in {0, 2} /\ IsTime(Written(text).clock)
         IN (numeric => \A numeral \in numerals : Value(numeral) < IntRange)
              => Reads(text, exact, Written(text), "on")
    [] text.form = "iso" ->
         \A phrase \in BOOLEAN :
           LET read == ParseWhen(text, phrase) IN
             read.way = "on" => /\ read.date = text.date
                                /\ text.offset <=> read.zone = "offset"
=============================================================================
