--------------------------- MODULE MCRepostIndex ---------------------------
(* Bounds for TLC.                                                         *)
EXTENDS RepostIndex, TLC

CONSTANTS i1, i2, i3, u1, u2, p1, p2, b1, b2, b3

\* One page in two forms, beside an excluded one; images one, two and three
\* bits apart; the second guild sees what the first does.
MCPosts ==
  {[author |-> u1, instance |-> i1, items |-> <<[page |-> p1, form |-> 1]>>],
   [author |-> u2, instance |-> i1,
    items |-> <<[page |-> p2, form |-> 1], [page |-> p1, form |-> 2]>>],
   [author |-> u1, instance |-> i1, items |-> <<[bytes |-> b1]>>],
   [author |-> u2, instance |-> i1, items |-> <<[bytes |-> b2]>>],
   [author |-> u1, instance |-> i1, items |-> <<[bytes |-> b3]>>],
   [author |-> u2, instance |-> i2, items |-> <<[bytes |-> b1]>>]}

MCPHash == (b1 :> {}) @@ (b2 :> {0}) @@ (b3 :> {1, 2})

MCKeepAll == [i \in {i1, i2} |-> None]

MCRetentionDays == [i \in {i1, i2, i3} |-> IF i = i3 THEN 0 ELSE 1]

\* One file of one user in two guilds, the second of which keeps 0 days.
MCTwoGuilds ==
  {[author |-> u1, instance |-> i, items |-> <<[bytes |-> b1]>>] : i \in {i1, i3}}

\* Believed within the tolerance, replaced beyond it.
MCClaims == {-2, -1}
MCHonest == {0}

Symmetry == Permutations(Messages)
=============================================================================
