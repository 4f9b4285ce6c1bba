----------------------------- MODULE Perceptual -----------------------------
(***************************************************************************)
(* Perceptual hashes as package repost handles them: a hash cut into       *)
(* disjoint chunks, each an indexed column, and distances graded into      *)
(* confidence tiers whose bounds come from the environment.                *)
(*                                                                         *)
(* The code has ChunkCount = 8 and Width = 8; a hash is here the set of    *)
(* the positions of its one bits.                                          *)
(***************************************************************************)
EXTENDS Integers, FiniteSets

CONSTANTS
  ChunkCount,                         \* chunks of a hash
  Width,                              \* bits of a chunk
  TierIdentical, TierHigh, TierProbable  \* the configured bounds, any integers

ASSUME ChunksAssumption == ChunkCount \in Nat \ {0} /\ Width \in Nat \ {0}
ASSUME TiersAssumption  == /\ TierIdentical \in Int
                           /\ TierHigh \in Int
                           /\ TierProbable \in Int

ChunkIndex == 0 .. ChunkCount - 1
Bits == 0 .. ChunkCount * Width - 1
Hash == SUBSET Bits

ChunkOf(b) == b \div Width

Chunks(h) == [i \in ChunkIndex |-> {b \in h : ChunkOf(b) = i}]

Differing(a, b) == (a \ b) \cup (b \ a)

Distance(a, b) == Cardinality(Differing(a, b))

\* The OR over the columns c0 .. c7.
SharesChunk(a, b) == \E i \in ChunkIndex : Chunks(a)[i] = Chunks(b)[i]

MaxDistance == ChunkCount - 1

\* Mutant of Clamp: no upper bound.
ClampBelowOnly(v) == IF v < 0 THEN 0 ELSE v

Clamp(v) == IF v < 0 THEN 0 ELSE IF v > MaxDistance THEN MaxDistance ELSE v

AtLeast(low, v) == IF v < low THEN low ELSE v

\* Tiers.Normalise of the configured bounds.
Identical == Clamp(TierIdentical)
High      == AtLeast(Identical, Clamp(TierHigh))
Probable  == AtLeast(High, Clamp(TierProbable))

Grade(d) ==
  IF d <= Identical THEN "IDENTICAL"
  ELSE IF d <= High THEN "HIGH"
  ELSE IF d <= Probable THEN "PROBABLE"
  ELSE "UNSPECIFIED"
=============================================================================
