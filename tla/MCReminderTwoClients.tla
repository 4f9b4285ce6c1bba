------------------------ MODULE MCReminderTwoClients ------------------------
(* Bounds for TLC.  Reminder takes of a repeat only that it moves to a later *)
(* instant, and of an edit that it names one; Schedule and When, which say   *)
(* to which, are compared beside it, one sample in a behaviour.              *)
EXTENDS MCReminder, When

MCInstants == 0..20
MCDelays   == {2, 4, 6}

\* Two with one gap, one with two, one that skips an interval, one that is over
\* and one that never comes.
MCCalendars == {{t \in 0..24 : t % 3 = 1}, {t \in 0..24 : t % 4 = 0},
                {t \in 0..24 : t % 6 \in {0, 1}}, 0..24 \ 3..9, {5}, {}}

MCUnit == [s |-> 1, m |-> 2, h |-> 5]

\* Lengths of up to five characters: numbers, products and sums that just fit and
\* that do not, in every order.
MCLengths == [form : {"length"}, chars : BoundedSeq({"0", "1", "3", "9", "s", "m", "h", "x"}, 5)]

Numerals == {<<"0">>, <<"1">>, <<"2">>, <<"1", "2">>, <<"1", "3">>, <<"2", "9">>, <<"3", "1">>,
             <<"3", "2">>, <<"x">>, <<>>}
Years == {<<"2", "4">>, <<"2", "3">>, <<"1", "9", "0", "0">>, <<"1", "0", "0">>}
Clocks == {<<>>, <<<<"2", "3">>, <<"5", "9">>>>, <<<<"2", "4">>, <<"0">>>>,
           <<<<"0">>, <<"6", "0">>>>, <<<<"1">>, <<"x">>>>, <<<<"1">>>>,
           <<<<"4", "0", "9", "6">>, <<"1">>>>}

MCDates == [form : {"slash"}, clock : Clocks,
            parts : (Numerals \X Numerals) \cup (Numerals \X Numerals \X Years)]

MCISOs == [form : {"iso"}, date : {2023, 2024} \X {1, 2, 13} \X {28, 29, 31}, offset : BOOLEAN,
           clock : {<<>>, <<23>>, <<23, 59>>, <<23, 59, 0>>, <<24, 0>>}]

MCTexts == MCLengths \cup MCDates \cup MCISOs

MCInit == Init /\ sample \in {None} \cup Repeats \cup Texts

Compared == sample # None /\ UNCHANGED <<vars, sample>>

MCNext == Compared \/ (sample = None /\ Next /\ UNCHANGED sample)

MCSpec == MCInit /\ [][MCNext]_<<vars, sample>>

\* A time that is written is read as what it says, or not at all (ParseWhen; see
\* ReadsAsWritten).
WhatIsReadWasWritten == sample \in Texts => ReadsAsWritten(sample)
=============================================================================
