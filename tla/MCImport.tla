------------------------------ MODULE MCImport ------------------------------
EXTENDS Import, ReminderNumbers, TLC

CONSTANTS c1, c2, g1, u1, p1, i1, L1, F1, F2, T1, T2, R1, S1, h, ph

MCCreates == {c1, c2}
MCRegistrations == {g1}
MCUid == c1 :> u1 @@ c2 :> u1 @@ g1 :> u1
MCOrigin == c1 :> p1 @@ c2 :> p1
MCTarget == c1 :> p1 @@ c2 :> p1
MCGuild == p1 :> i1
MCHash == F1 :> h @@ F2 :> h
MCRunsOf(S) == S \X (1..MaxRuns)
MCImported == MCRunsOf({L1})
MCImports == MCRunsOf({R1})
MCOwners == MCRegistrations \cup MCImported

MCWork ==
  << [kind |-> "instance", instance |-> i1],
     [kind |-> "user", user |-> L1],
     [kind |-> "identity", user |-> L1, uid |-> u1],
     [kind |-> "destination", destination |-> p1],
     [kind |-> "file", file |-> F1],
     [kind |-> "file", file |-> F2],
     [kind |-> "trigger", trigger |-> T1, user |-> L1, phrase |-> ph, file |-> F1, reply |-> FALSE],
     [kind |-> "trigger", trigger |-> T2, user |-> L1, phrase |-> ph, file |-> F2, reply |-> TRUE],
     [kind |-> "stats", trigger |-> T1],
     [kind |-> "reminder", reminder |-> R1, user |-> L1],
     [kind |-> "staging", id |-> S1] >>
MCLate == {10}

\* Two parts: the import beside the server, and reminders named by their numbers.
\* A behaviour is of one of them; they share the rows of ReminderQuota.  In the
\* second the import's rows are held and rolled back: a committed one, which the
\* tables of the first part do not know, is a row like any other.  Two owners and
\* one row of the import are enough for a number to have two bearers.
Two == {Nobody, g1, <<L1, 1>>}

VARIABLE part

allVars == <<vars, numbersVars, part>>

MCInit == ImportInit /\ NumbersInit /\ part \in {"import", "numbers"}

MCNext ==
  \/ part = "import" /\ Next /\ UNCHANGED <<numbersVars, part>>
  \/ /\ part = "numbers" /\ NumbersNext /\ UNCHANGED <<directoryVars, importVars, part>>
     /\ \A i \in Imports : ~Committed(i)'
     /\ \A i \in Rows : owner'[i] \in Two /\ (owner'[i] # Nobody => i # <<R1, 2>>)
     /\ \A a \in Asks : ask'[a].at = "idle" \/ ask'[a].who \in Two

MCSpec == MCInit /\ [][MCNext]_allVars

\* Two creates that ask the same.
Symmetry == Permutations(MCCreates)
=============================================================================
