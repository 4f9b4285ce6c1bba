---------------------------- MODULE RepostProofs ----------------------------
(***************************************************************************)
(* Theorems of repost detection.                                           *)
(*                                                                         *)
(* The chunk index loses nothing: for every chunk count, width and         *)
(* configuration, a pair of hashes the lookup would accept by its distance *)
(* is a pair its indexed columns offer.                                    *)
(*                                                                         *)
(* And for any messages, guilds, posts, retentions and limits, the index   *)
(* built on it finds what it should, and the sweep takes what it may.      *)
(*                                                                         *)
(* A link has one identity: what a rewrite changes, the first stage, the   *)
(* query's bag or the rule of its host does away with, and what a sentence *)
(* adds, the client cuts off, however the link itself ends.                *)
(***************************************************************************)
EXTENDS RepostIndex, Canonical, FiniteSetTheorems, SequenceTheorems, WellFoundedInduction, TLAPS

(* A pair of hashes differs in finitely many bits.                         *)
LEMMA DistanceFinite ==
  ASSUME NEW a \in Hash, NEW b \in Hash
  PROVE  IsFiniteSet(Differing(a, b)) /\ Differing(a, b) \subseteq Bits
<1>1. ChunkCount * Width \in Int
  BY ChunksAssumption
<1>2. ChunkCount * Width - 1 \in Int
  BY <1>1
<1>3. IsFiniteSet(Bits)
  BY <1>2, FS_Interval DEF Bits
<1>4. Differing(a, b) \subseteq Bits
  BY DEF Hash, Differing
<1> QED
  BY <1>3, <1>4, FS_Subset

(* The normalised tiers are ascending and within the distance the chunks   *)
(* cover, whatever integers the environment holds.                         *)
THEOREM TiersOrdered ==
  0 <= Identical /\ Identical <= High /\ High <= Probable /\ Probable <= MaxDistance
<1>1. MaxDistance \in Nat
  BY ChunksAssumption DEF MaxDistance
<1>2. \A v \in Int : Clamp(v) \in Int /\ 0 <= Clamp(v) /\ Clamp(v) <= MaxDistance
  BY <1>1 DEF Clamp
<1>3. \A lo, v \in Int : AtLeast(lo, v) \in {lo, v} /\ lo <= AtLeast(lo, v)
  BY DEF AtLeast
<1>4. Identical \in Int /\ 0 <= Identical /\ Identical <= MaxDistance
  BY <1>2, TiersAssumption DEF Identical
<1>5. High \in Int /\ Identical <= High /\ High <= MaxDistance
  BY <1>2, <1>3, <1>4, TiersAssumption DEF High
<1>6. Probable \in Int /\ High <= Probable /\ Probable <= MaxDistance
  BY <1>2, <1>3, <1>5, TiersAssumption DEF Probable
<1> QED
  BY <1>4, <1>5, <1>6

(* Hashes that differ in fewer bits than there are chunks agree on a whole *)
(* chunk.                                                                  *)
LEMMA Pigeonhole ==
  ASSUME NEW a \in Hash, NEW b \in Hash, Distance(a, b) <= MaxDistance
  PROVE  SharesChunk(a, b)
<1> DEFINE D == Differing(a, b)
           Hit == {ChunkOf(x) : x \in D}
<1>1. ChunkCount \in Nat /\ ChunkCount > 0
  BY ChunksAssumption
<1>2. IsFiniteSet(D)
  BY DistanceFinite
<1>4. IsFiniteSet(Hit) /\ Cardinality(Hit) <= Cardinality(D)
  <2> DEFINE f == [x \in D |-> ChunkOf(x)]
  <2>1. f \in Surjection(D, Hit)
    BY DEF Surjection
  <2> QED
    BY <1>2, <2>1, FS_Surjection
<1>5. Cardinality(ChunkIndex) = ChunkCount
  <2>1. Cardinality(0 .. ChunkCount - 1) = (ChunkCount - 1) - 0 + 1
    BY <1>1, FS_Interval
  <2> QED
    BY <1>1, <2>1 DEF ChunkIndex
<1>6. Cardinality(D) \in Nat /\ Cardinality(Hit) \in Nat
  BY <1>2, <1>4, FS_CardinalityType
<1>7. Cardinality(Hit) < ChunkCount
  BY <1>1, <1>4, <1>6 DEF Distance, MaxDistance
<1>8. ~(ChunkIndex \subseteq Hit)
  BY <1>1, <1>4, <1>5, <1>6, <1>7, FS_Subset
<1>9. PICK i \in ChunkIndex : i \notin Hit
  BY <1>8
<1>10. \A x : ChunkOf(x) = i => (x \in a <=> x \in b)
  BY <1>9 DEF Differing
<1>11. Chunks(a)[i] = Chunks(b)[i]
  BY <1>9, <1>10 DEF Chunks
<1> QED
  BY <1>9, <1>11 DEF SharesChunk

(* MatchRepostByPerceptualHash finds by its indexed columns every hash     *)
(* within the configured distance: the clamp is what makes the filter on   *)
(* chunks lose no match.                                                   *)
THEOREM IndexRecall ==
  ASSUME NEW a \in Hash, NEW b \in Hash, Distance(a, b) <= Probable
  PROVE  SharesChunk(a, b)
<1>1. IsFiniteSet(Differing(a, b))
  BY DistanceFinite
<1>2. Distance(a, b) \in Nat
  BY <1>1, FS_CardinalityType DEF Distance
<1>3. MaxDistance \in Int /\ Probable \in Int
  BY ChunksAssumption, TiersAssumption
    DEF MaxDistance, Probable, High, Identical, AtLeast, Clamp
<1>4. Distance(a, b) <= MaxDistance
  BY <1>2, <1>3, TiersOrdered
<1> QED
  BY <1>4, Pigeonhole

-----------------------------------------------------------------------------
(* The first in an order.                                                  *)

\* A set of naturals has a least one.
LEMMA Least ==
  ASSUME NEW S, S \subseteq Nat, S # {}
  PROVE  \E x \in S : \A y \in S : x <= y
<1>1. PICK R : R = {ss \in Nat \X Nat : ss[1] < ss[2]}
  OBVIOUS
<1>2. IsWellFoundedOn(R, Nat)
  BY <1>1, NatLessThanWellFounded DEF OpToRel
<1>3. PICK x \in S : \A y \in S : ~(<<y, x>> \in R)
  BY <1>2, WFMin
<1>4. \A y \in S : ~(y < x)
  BY <1>1, <1>3
<1>5. x \in Nat /\ \A y \in S : y \in Nat
  BY <1>3
<1>6. \A y \in S : x <= y
  BY <1>4, <1>5
<1> QED
  BY <1>3, <1>6

\* Entries that do not lie arbitrarily far back have an oldest.
LEMMA OldestIsThere ==
  ASSUME NEW S, S # {}, NEW low \in Int, \A e \in S : e.posted \in Int /\ e.posted + low >= 0
  PROVE  Oldest(S) # {}
<1>1. PICK T : T = {e.posted + low : e \in S}
  OBVIOUS
<1>2. T \subseteq Nat /\ T # {}
  BY <1>1
<1>3. PICK t \in T : \A y \in T : t <= y
  BY <1>2, Least
<1>4. PICK e \in S : t = e.posted + low
  BY <1>1, <1>3
<1>5. \A f \in S : e.posted <= f.posted
  <2>1. TAKE f \in S
  <2>2. e.posted + low <= f.posted + low
    BY <1>1, <1>3, <1>4
  <2> QED
    BY <2>2, <1>4
<1> QED
  BY <1>4, <1>5 DEF Oldest

\* Entries with a fingerprint have a closest to any other.
LEMMA ClosestIsThere ==
  ASSUME NEW S, S # {}, NEW h \in Hash, \A e \in S : e.phash \in Hash
  PROVE  Closest(S, h) # {}
<1>1. PICK T : T = {Distance(e.phash, h) : e \in S}
  OBVIOUS
<1>2. \A e \in S : Distance(e.phash, h) \in Nat
  BY DistanceFinite, FS_CardinalityType DEF Distance
<1>3. T \subseteq Nat /\ T # {}
  BY <1>1, <1>2
<1>4. PICK t \in T : \A y \in T : t <= y
  BY <1>3, Least
<1>5. PICK e \in S : t = Distance(e.phash, h)
  BY <1>1, <1>4
<1>6. \A f \in S : Distance(e.phash, h) <= Distance(f.phash, h)
  BY <1>1, <1>4, <1>5
<1> QED
  BY <1>5, <1>6 DEF Closest

-----------------------------------------------------------------------------
(* The index and the sweep.                                                *)

Active(c) == c.pc \in {"next", "hash", "insert"}

\* What a check has taken from its message: it has one, and what is left of a
\* creation's candidates is some of them.
BegunInv ==
  \A p \in Procs :
    /\ check[p].pc # "none" => msg[p[1]] # None
    /\ Active(check[p]) /\ p[2] = "create"
         => Len(check[p].todo) <= Len(msg[p[1]].items)

\* Time: nothing was checked or listed ahead of the clock, and the time a message
\* claims is within the tolerance of the one it was checked at.
TimeInv ==
  /\ sweep.at <= now
  /\ \A e \in entries : e.checked <= e.posted + Tolerance
  /\ \A p \in Procs : check[p].at <= check[p].posted + Tolerance

\* An entry is as its message was: by its key.
KeyInv == \A e \in entries : e.key = IdentityOf(e.item)

\* The entries a creation will add are none of those anybody has seen.
Behind(e, m) ==
  /\ check[<<m, "create">>].pc # "none"
  /\ Active(check[<<m, "create">>]) => e.id[2] < Position(<<m, "create">>)

SeenInv ==
  /\ \A e \in entries : Behind(e, e.id[1])
  /\ \A p \in Procs : \A e \in check[p].before : Behind(e, e.id[1])

Theirs(e, p) == e.instance = Instance(p) /\ e.author # Author(p)

HashOK(p) ==
  check[p].pc = "hash" =>
    /\ Fingerprint(Item(p)) # None
    /\ \A e \in check[p].before \cap entries : Theirs(e, p) => e.key # IdentityOf(Item(p))

HashInv == \A p \in Procs : HashOK(p)

MatchInv == TypeOK /\ BegunInv /\ TimeInv /\ KeyInv /\ SeenInv /\ HashInv /\ FlaggedIffIndexed

-----------------------------------------------------------------------------
(* Types.                                                                  *)

\* What a post is.
LEMMA PostFacts ==
  ASSUME NEW x \in Posts
  PROVE  x # None /\ x.items \in Seq(Items) /\ x.items \in Candidates
BY ItemsAssumption DEF Candidates

\* The candidate at the head of a check.
LEMMA HeadFacts ==
  ASSUME NEW s \in Seq(Items), s # <<>>
  PROVE  /\ Head(s) \in Items /\ Tail(s) \in Seq(Items)
         /\ Len(s) \in Nat \ {0} /\ Len(Tail(s)) = Len(s) - 1
<1>1. Head(s) \in Items /\ Tail(s) \in Seq(Items) /\ Len(Tail(s)) = Len(s) - 1
  BY HeadTailProperties
<1>2. Len(s) \in Nat /\ Len(Tail(s)) \in Nat
  BY <1>1, LenProperties
<1> QED
  BY <1>1, <1>2

\* A step of one check leaves the others.
Only(p) ==
  /\ check' = [q \in Procs |-> IF q = p THEN check'[p] ELSE check[q]]
  /\ check'[p] \in Check

LEMMA OnlyTyped ==
  ASSUME TypeOK, NEW p \in Procs, Only(p)
  PROVE  /\ check' \in [Procs -> Check]
         /\ \A q \in Procs \ {p} : check'[q] = check[q]
BY DEF TypeOK, Only

LEMMA IdleIsCheck == Idle \in Check
BY ItemsAssumption DEF Idle, Check

\* A check that begins, or is dropped.
LEMMA BeginShape ==
  ASSUME TypeOK, NEW p \in Procs, NEW s \in Seq(Items), check[p].pc = "none", Begin(p, s)
  PROVE  /\ Only(p)
         /\ check'[p].found = None
         /\ \/ /\ check'[p].pc = "next" /\ check'[p].todo = s
               /\ check'[p].before = {}
               /\ check'[p].at <= check'[p].posted + Tolerance
            \/ /\ check'[p].pc = "done" /\ check'[p].before = check[p].before
               /\ check'[p].at = check[p].at /\ check'[p].posted = check[p].posted
<1> USE DEF TypeOK
<1>1. ASSUME NEW claim \in Claims,
             check' = [check EXCEPT ![p] = [Idle EXCEPT !.pc = "next", !.todo = s,
                                            !.posted = PostedAt(claim), !.at = now]]
      PROVE  /\ Only(p) /\ check'[p].found = None
             /\ check'[p].pc = "next" /\ check'[p].todo = s /\ check'[p].before = {}
             /\ check'[p].at <= check'[p].posted + Tolerance
  <2>1. PICK t \in Int : t = PostedAt(claim) /\ now <= t + Tolerance
    <3>1. PostedAt(claim) \in Int /\ now <= PostedAt(claim) + Tolerance
      BY RepostAssumption DEF PostedAt
    <3> QED
      BY <3>1
  <2>2. PICK c \in Check : c = [Idle EXCEPT !.pc = "next", !.todo = s, !.posted = t, !.at = now]
    BY IdleIsCheck DEF Check
  <2>3. check' = [check EXCEPT ![p] = c]
    BY <1>1, <2>1, <2>2
  <2>4. c.found = None /\ c.pc = "next" /\ c.todo = s /\ c.before = {} /\ c.posted = t /\ c.at = now
    BY <2>2 DEF Idle
  <2> QED
    BY <2>1, <2>3, <2>4 DEF Only
<1>2. ASSUME check' = [check EXCEPT ![p].pc = "done"]
      PROVE  /\ Only(p) /\ check'[p].found = None
             /\ check'[p].pc = "done" /\ check'[p].before = check[p].before
             /\ check'[p].at = check[p].at /\ check'[p].posted = check[p].posted
  <2>1. PICK c \in Check : c = [check[p] EXCEPT !.pc = "done"]
    BY DEF Check
  <2>2. check' = [check EXCEPT ![p] = c]
    BY <1>2, <2>1
  <2>3. /\ c.found = check[p].found /\ c.pc = "done" /\ c.before = check[p].before
        /\ c.at = check[p].at /\ c.posted = check[p].posted
    BY <2>1 DEF Check
  <2> QED
    BY <2>1, <2>2, <2>3 DEF Only
<1> QED
  BY <1>1, <1>2 DEF Begin

\* A candidate that is skipped.
LEMMA SkipShape ==
  ASSUME TypeOK, NEW p \in Procs, Skip(p)
  PROVE  /\ Only(p)
         /\ check[p].pc = "next" /\ check'[p].pc = "next"
         /\ check[p].todo # <<>> /\ check'[p].todo = Tail(check[p].todo)
         /\ check'[p].found = None /\ check'[p].before = check[p].before
         /\ check'[p].at = check[p].at /\ check'[p].posted = check[p].posted
<1> USE DEF TypeOK
<1>1. /\ check[p].pc = "next" /\ check[p].todo # <<>>
      /\ check' = [check EXCEPT ![p].todo = Tail(@)]
  BY DEF Skip
<1>2. PICK s \in Seq(Items) : s = Tail(check[p].todo)
  BY <1>1, HeadFacts DEF Check
<1>3. PICK c \in Check : c = [check[p] EXCEPT !.todo = s]
  BY DEF Check
<1>4. check' = [check EXCEPT ![p] = c]
  BY <1>1, <1>2, <1>3
<1>5. /\ c.pc = check[p].pc /\ c.todo = s /\ c.found = check[p].found
      /\ c.before = check[p].before /\ c.at = check[p].at /\ c.posted = check[p].posted
  BY <1>3 DEF Check
<1> QED
  BY <1>1, <1>2, <1>3, <1>4, <1>5 DEF Only

\* A candidate that is looked up by its identity.
LEMMA ExactShape ==
  ASSUME TypeOK, NEW p \in Procs, MatchExact(p)
  PROVE  /\ Only(p)
         /\ check[p].pc = "next" /\ check[p].found = None
         /\ check[p].todo # <<>> /\ check'[p].todo = check[p].todo
         /\ check'[p].at = check[p].at /\ check'[p].posted = check[p].posted
         /\ \/ /\ check'[p].pc = "insert" /\ check'[p].found \in Exact(p)
               /\ check'[p].before = check[p].before
            \/ /\ check'[p].found = None /\ Exact(p) = {} /\ check'[p].before = entries
               /\ \/ Fingerprint(Item(p)) = None /\ check'[p].pc = "insert"
                  \/ Fingerprint(Item(p)) # None /\ check'[p].pc = "hash"
            \/ /\ check'[p].pc = "insert" /\ check'[p].found = None /\ check'[p].failed
               /\ check'[p].before = check[p].before
<1> USE DEF TypeOK
<1>0. check[p].pc = "next" /\ check[p].todo # <<>> /\ check[p].found = None
  BY DEF MatchExact
<1>1. CASE \E e \in Oldest(Exact(p)) :
             check' = [check EXCEPT ![p].pc = "insert", ![p].found = e]
  <2>1. PICK e \in Exact(p) : check' = [check EXCEPT ![p].pc = "insert", ![p].found = e]
    BY <1>1 DEF Oldest
  <2>2. e \in Entry
    BY <2>1 DEF Exact, Others
  <2>3. PICK c \in Check : c = [check[p] EXCEPT !.pc = "insert", !.found = e]
    BY <2>2 DEF Check
  <2>4. check' = [check EXCEPT ![p] = c]
    BY <2>1, <2>3
  <2>5. /\ c.pc = "insert" /\ c.todo = check[p].todo /\ c.found = e
        /\ c.before = check[p].before /\ c.at = check[p].at /\ c.posted = check[p].posted
    BY <2>3 DEF Check
  <2> QED
    BY <1>0, <2>1, <2>3, <2>4, <2>5 DEF Only
<1>2. CASE /\ Exact(p) = {}
           /\ check' = [check EXCEPT
                ![p].pc = IF Fingerprint(Item(p)) = None THEN "insert" ELSE "hash",
                ![p].before = entries]
  <2>1. PICK pc \in {"insert", "hash"} :
          pc = IF Fingerprint(Item(p)) = None THEN "insert" ELSE "hash"
    OBVIOUS
  <2>2. PICK c \in Check : c = [check[p] EXCEPT !.pc = pc, !.before = entries]
    BY DEF Check
  <2>3. check' = [check EXCEPT ![p] = c]
    BY <1>2, <2>1, <2>2
  <2>4. /\ c.pc = pc /\ c.todo = check[p].todo /\ c.found = check[p].found
        /\ c.before = entries /\ c.at = check[p].at /\ c.posted = check[p].posted
    BY <2>2 DEF Check
  <2> QED
    BY <1>0, <1>2, <2>1, <2>2, <2>3, <2>4 DEF Only
<1>3. CASE check' = [check EXCEPT ![p].pc = "insert", ![p].failed = TRUE]
  <2>1. PICK c \in Check : c = [check[p] EXCEPT !.pc = "insert", !.failed = TRUE]
    BY DEF Check
  <2>2. check' = [check EXCEPT ![p] = c]
    BY <1>3, <2>1
  <2>3. /\ c.pc = "insert" /\ c.todo = check[p].todo /\ c.found = check[p].found /\ c.failed
        /\ c.before = check[p].before /\ c.at = check[p].at /\ c.posted = check[p].posted
    BY <2>1 DEF Check
  <2> QED
    BY <1>0, <2>1, <2>2, <2>3 DEF Only
<1> QED
  BY <1>1, <1>2, <1>3 DEF MatchExact

\* The fingerprint of the candidate at the head of a check.
LEMMA FingerprintType ==
  ASSUME TypeOK, NEW p \in Procs, check[p].todo # <<>>
  PROVE  Item(p) \in Items /\ Fingerprint(Item(p)) \in Hash \cup {None}
<1>1. Item(p) \in Items
  BY HeadFacts DEF TypeOK, Check, Item
<1> QED
  BY <1>1, ItemsAssumption

\* Entries lie no further back than the tolerance before the first instant.
LEMMA PostedBound ==
  ASSUME TypeOK, TimeInv, NEW e \in entries
  PROVE  e.posted \in Int /\ e.posted + Tolerance >= 0
<1>1. e.posted \in Int /\ e.checked \in Nat /\ e.checked <= e.posted + Tolerance
  BY DEF TypeOK, Entry, TimeInv
<1> QED
  BY <1>1, RepostAssumption

\* The lookup by fingerprint fails to answer only if there is nothing near.
LEMMA NearestIsThere ==
  ASSUME TypeOK, TimeInv, NEW p \in Procs,
         Near(p) # {}, NEW h \in Hash
  PROVE  Oldest(Closest(Near(p), h)) # {}
<1>1. \A e \in Near(p) : e \in entries /\ e.phash \in Hash
  BY DEF Near, Others, TypeOK, Entry
<1>2. PICK S : S = Closest(Near(p), h)
  OBVIOUS
<1>3. S # {}
  BY <1>1, <1>2, ClosestIsThere
<1>4. \A e \in S : e \in entries
  BY <1>1, <1>2 DEF Closest
<1>5. \A e \in S : e.posted \in Int /\ e.posted + Tolerance >= 0
  BY <1>4, PostedBound
<1>6. Tolerance \in Int
  BY RepostAssumption
<1>7. Oldest(S) # {}
  BY <1>3, <1>5, <1>6, OldestIsThere
<1> QED
  BY <1>2, <1>7

\* What is near is graded.
LEMMA NearIsGraded ==
  ASSUME NEW a \in Hash, NEW b \in Hash, Distance(a, b) <= Probable
  PROVE  Grade(Distance(a, b)) # "UNSPECIFIED"
BY DEF Grade

\* A candidate that is looked up by its fingerprint.
LEMMA PerceptualShape ==
  ASSUME TypeOK, TimeInv, HashInv, NEW p \in Procs, MatchPerceptual(p)
  PROVE  /\ Only(p)
         /\ check[p].pc = "hash" /\ check'[p].pc = "insert"
         /\ check[p].todo # <<>> /\ check'[p].todo = check[p].todo
         /\ check'[p].before = check[p].before
         /\ check'[p].at = check[p].at /\ check'[p].posted = check[p].posted
         /\ \/ check'[p].found \in Near(p)
            \/ check'[p].found = None /\ Near(p) = {}
            \/ check'[p].found = None /\ check'[p].failed
<1> USE DEF TypeOK
<1>0. check[p].pc = "hash" /\ check[p].todo # <<>> /\ check[p].found = None
  BY DEF MatchPerceptual
<1>1. PICK h \in Hash : h = Fingerprint(Item(p))
  BY <1>0, FingerprintType DEF HashInv, HashOK
<1>2. CASE \E e \in Oldest(Closest(Near(p), h)) :
             check' = [check EXCEPT ![p].pc = "insert", ![p].phash = h,
                                    ![p].found = IF Grade(Distance(e.phash, h)) = "UNSPECIFIED"
                                                 THEN None ELSE e]
  <2>1. PICK e \in Near(p) :
          check' = [check EXCEPT ![p].pc = "insert", ![p].phash = h,
                                 ![p].found = IF Grade(Distance(e.phash, h)) = "UNSPECIFIED"
                                              THEN None ELSE e]
    BY <1>2 DEF Oldest, Closest
  <2>2. e \in Entry /\ e.phash # None /\ Distance(e.phash, h) <= Probable
    BY <1>1, <2>1 DEF Near, Others
  <2>3. e.phash \in Hash
    BY <2>2 DEF Entry
  <2>4. Grade(Distance(e.phash, h)) # "UNSPECIFIED"
    BY <2>2, <2>3, NearIsGraded
  <2>5. PICK c \in Check : c = [check[p] EXCEPT !.pc = "insert", !.phash = h, !.found = e]
    BY <2>2 DEF Check
  <2>6. check' = [check EXCEPT ![p] = c]
    BY <2>1, <2>4, <2>5
  <2>7. /\ c.pc = "insert" /\ c.todo = check[p].todo /\ c.found = e
        /\ c.before = check[p].before /\ c.at = check[p].at /\ c.posted = check[p].posted
    BY <2>5 DEF Check
  <2> QED
    BY <1>0, <2>1, <2>5, <2>6, <2>7 DEF Only
<1>3. CASE /\ Oldest(Closest(Near(p), h)) = {}
           /\ check' = [check EXCEPT ![p].pc = "insert", ![p].phash = h]
  <2>1. PICK c \in Check : c = [check[p] EXCEPT !.pc = "insert", !.phash = h]
    BY DEF Check
  <2>2. check' = [check EXCEPT ![p] = c]
    BY <1>3, <2>1
  <2>3. /\ c.pc = "insert" /\ c.todo = check[p].todo /\ c.found = check[p].found
        /\ c.before = check[p].before /\ c.at = check[p].at /\ c.posted = check[p].posted
    BY <2>1 DEF Check
  <2>4. Near(p) = {}
    BY <1>3, NearestIsThere
  <2> QED
    BY <1>0, <2>1, <2>2, <2>3, <2>4 DEF Only
<1>4. CASE check' = [check EXCEPT ![p].pc = "insert", ![p].phash = h, ![p].failed = TRUE]
  <2>1. PICK c \in Check : c = [check[p] EXCEPT !.pc = "insert", !.phash = h, !.failed = TRUE]
    BY DEF Check
  <2>2. check' = [check EXCEPT ![p] = c]
    BY <1>4, <2>1
  <2>3. /\ c.pc = "insert" /\ c.todo = check[p].todo /\ c.found = check[p].found /\ c.failed
        /\ c.before = check[p].before /\ c.at = check[p].at /\ c.posted = check[p].posted
    BY <2>1 DEF Check
  <2> QED
    BY <1>0, <2>1, <2>2, <2>3 DEF Only
<1> QED
  BY <1>1, <1>2, <1>3, <1>4 DEF MatchPerceptual

\* A candidate that was answered, and indexed or not.
LEMMA IndexShape ==
  ASSUME TypeOK, NEW p \in Procs, Index(p)
  PROVE  /\ Only(p)
         /\ check[p].pc = "insert" /\ check'[p].pc = "next"
         /\ check[p].todo # <<>> /\ check'[p].todo = Tail(check[p].todo)
         /\ check'[p].found = None /\ check'[p].before = {}
         /\ check'[p].at = check[p].at /\ check'[p].posted = check[p].posted
         /\ \/ p[2] = "create" /\ entries' = entries \cup {Row(p)}
            \/ entries' = entries
<1> USE DEF TypeOK
<1>1. /\ check[p].pc = "insert" /\ check[p].todo # <<>> /\ check' = Answered(p)
      /\ \/ p[2] = "create" /\ entries' = entries \cup {Row(p)}
         \/ entries' = entries
  BY DEF Index
<1>2. PICK s \in Seq(Items) : s = Tail(check[p].todo)
  BY <1>1, HeadFacts DEF Check
<1>3. PICK c \in Check : c = [check[p] EXCEPT !.pc = "next", !.todo = s, !.phash = None,
                                 !.found = None, !.failed = FALSE, !.before = {}]
  BY DEF Check
<1>4. check' = [check EXCEPT ![p] = c]
  BY <1>1, <1>2, <1>3 DEF Answered
<1>5. /\ c.pc = "next" /\ c.todo = s /\ c.found = None /\ c.before = {}
      /\ c.at = check[p].at /\ c.posted = check[p].posted
  BY <1>3 DEF Check
<1> QED
  BY <1>1, <1>2, <1>3, <1>4, <1>5 DEF Only

\* A check that ends.
LEMMA FinishShape ==
  ASSUME TypeOK, NEW p \in Procs, Finish(p)
  PROVE  /\ Only(p)
         /\ check[p].pc = "next" /\ check'[p].pc = "done"
         /\ check'[p].found = None /\ check'[p].before = {}
         /\ check'[p].at = 0 /\ check'[p].posted = 0
<1> USE DEF TypeOK
<1>1. PICK c \in Check : c = [Idle EXCEPT !.pc = "done"]
  BY IdleIsCheck DEF Check
<1>2. check[p].pc = "next" /\ check' = [check EXCEPT ![p] = c]
  BY <1>1 DEF Finish
<1>3. c.pc = "done" /\ c.found = None /\ c.before = {} /\ c.at = 0 /\ c.posted = 0
  BY <1>1 DEF Idle
<1> QED
  BY <1>1, <1>2, <1>3 DEF Only

\* What is written is an entry.
LEMMA RowType ==
  ASSUME TypeOK, BegunInv, NEW p \in Procs, check[p].pc = "insert", p[2] = "create"
  PROVE  Row(p) \in Entry /\ Position(p) \in Nat
<1> USE DEF TypeOK
<1>1. check[p].todo # <<>> /\ check[p] \in Check /\ p[1] \in Messages
  BY DEF Procs
<1>2. PICK x \in Posts : x = msg[p[1]]
  BY <1>1 DEF BegunInv
<1>3. Item(p) \in Items /\ Len(check[p].todo) \in Nat
  BY <1>1, HeadFacts DEF Item, Check
<1>4. Len(x.items) \in Nat
  BY PostFacts, LenProperties
<1>5. Len(check[p].todo) <= Len(x.items)
  BY <1>1, <1>2 DEF BegunInv, Active
<1>6. Position(p) \in Nat
  BY <1>2, <1>3, <1>4, <1>5 DEF Position
<1>7. Author(p) \in {y.author : y \in Posts} /\ Instance(p) \in Instances
  BY <1>2, RepostAssumption DEF Author, Instance
<1>8. IdentityOf(Item(p)) \in {IdentityOf(y) : y \in Items}
  BY <1>3
<1>9. check[p].phash \in Hash \cup {None} /\ check[p].posted \in Int /\ check[p].at \in Nat
  BY <1>1 DEF Check
<1> QED
  BY <1>1, <1>3, <1>6, <1>7, <1>8, <1>9 DEF Row, Entry

-----------------------------------------------------------------------------
(* What any step of a check does.                                          *)

Move(p) == Skip(p) \/ MatchExact(p) \/ MatchPerceptual(p) \/ Index(p) \/ Finish(p)

Grows(p) ==
  /\ check[p].pc = "insert" /\ p[2] = "create" /\ entries' = entries \cup {Row(p)}
  /\ check'[p].pc = "next" /\ Len(check'[p].todo) = Len(check[p].todo) - 1

LEMMA MoveShape ==
  ASSUME MatchInv, NEW p \in Procs, Move(p)
  PROVE  /\ Only(p) /\ UNCHANGED <<msg, sweep, now>>
         /\ Active(check[p]) /\ check'[p].pc # "none"
         /\ Active(check'[p]) => Len(check'[p].todo) <= Len(check[p].todo)
         /\ check'[p].at <= check'[p].posted + Tolerance
         /\ check'[p].before \subseteq check[p].before \cup entries
         /\ check'[p].found # None => check'[p].pc = "insert"
         /\ check'[p].pc \in {"hash", "insert"} => check'[p].todo # <<>>
         /\ entries' = entries \/ Grows(p)
<1> USE DEF MatchInv, Active
<1>0. /\ check[p].at <= check[p].posted + Tolerance
      /\ check[p].todo \in Seq(Items) /\ Len(check[p].todo) \in Nat
  BY LenProperties DEF TimeInv, TypeOK, Check
<1>1. CASE Skip(p)
  <2>1. entries' = entries /\ UNCHANGED <<msg, sweep, now>>
    BY <1>1 DEF Skip
  <2>2. check[p].todo # <<>> /\ check'[p].todo = Tail(check[p].todo)
    BY <1>1, SkipShape
  <2>3. Len(check'[p].todo) <= Len(check[p].todo)
    BY <1>0, <2>2, HeadFacts
  <2> QED
    BY <1>0, <1>1, <2>1, <2>3, SkipShape
<1>2. CASE MatchExact(p)
  <2>1. entries' = entries /\ UNCHANGED <<msg, sweep, now>>
    BY <1>2 DEF MatchExact
  <2> QED
    BY <1>0, <1>2, <2>1, ExactShape
<1>3. CASE MatchPerceptual(p)
  <2>1. entries' = entries /\ UNCHANGED <<msg, sweep, now>>
    BY <1>3 DEF MatchPerceptual
  <2> QED
    BY <1>0, <1>3, <2>1, PerceptualShape
<1>4. CASE Index(p)
  <2>1. UNCHANGED <<msg, sweep, now>>
    BY <1>4 DEF Index
  <2>2. check[p].todo # <<>> /\ check'[p].todo = Tail(check[p].todo)
    BY <1>4, IndexShape
  <2>3. Len(check'[p].todo) = Len(check[p].todo) - 1
    BY <1>0, <2>2, HeadFacts
  <2> QED
    BY <1>0, <1>4, <2>1, <2>2, <2>3, IndexShape DEF Grows
<1>5. CASE Finish(p)
  <2>1. entries' = entries /\ UNCHANGED <<msg, sweep, now>>
    BY <1>5 DEF Finish
  <2>2. /\ Only(p) /\ check[p].pc = "next" /\ check'[p].pc = "done"
        /\ check'[p].found = None /\ check'[p].before = {}
        /\ check'[p].at = 0 /\ check'[p].posted = 0
    BY <1>5, FinishShape
  <2>3. check'[p].at <= check'[p].posted + Tolerance
    BY <2>2, RepostAssumption
  <2> QED
    BY <2>1, <2>2, <2>3
<1> QED
  BY <1>1, <1>2, <1>3, <1>4, <1>5 DEF Move

\* A check that begins.
LEMMA OfferShape ==
  ASSUME MatchInv, NEW m \in Messages, Post(m) \/ Edit(m)
  PROVE  \E p \in Procs :
           /\ Only(p) /\ UNCHANGED <<entries, sweep, now>>
           /\ msg' \in [Messages -> Posts \cup {None}]
           /\ \A q \in Procs : check[q].pc # "none" => msg'[q[1]] = msg[q[1]]
           /\ check[p].pc = "none" /\ msg'[p[1]] # None
           /\ check'[p].found = None /\ check'[p].pc \in {"next", "done"}
           /\ check'[p].pc = "next" /\ p[2] = "create" => check'[p].todo = msg'[p[1]].items
           /\ check'[p].at <= check'[p].posted + Tolerance
           /\ check'[p].before \subseteq check[p].before
<1> USE DEF MatchInv, TypeOK
<1>1. CASE Post(m)
  <2>1. PICK x \in Posts : /\ msg' = [msg EXCEPT ![m] = x]
                           /\ Begin(<<m, "create">>, x.items)
    BY <1>1 DEF Post
  <2>2. PICK p \in Procs : p = <<m, "create">>
    BY DEF Procs, Kinds
  <2>3. msg[m] = None /\ p[1] = m /\ p[2] = "create"
    BY <1>1, <2>2 DEF Post
  <2>4. check[p].pc = "none"
    BY <2>3 DEF BegunInv
  <2>5. x # None /\ x.items \in Seq(Items)
    BY PostFacts
  <2>6. Begin(p, x.items)
    BY <2>1, <2>2
  <2>7. msg'[m] = x /\ \A q \in Procs : check[q].pc # "none" => msg'[q[1]] = msg[q[1]]
    BY <2>1, <2>3 DEF BegunInv, Procs
  <2>8. check[p].at <= check[p].posted + Tolerance
    BY DEF TimeInv
  <2>9. UNCHANGED <<entries, sweep, now>> /\ msg' \in [Messages -> Posts \cup {None}]
    BY <1>1, <2>1 DEF Post
  <2> QED
    BY <2>3, <2>4, <2>5, <2>6, <2>7, <2>8, <2>9, BeginShape
<1>2. CASE Edit(m)
  <2>1. PICK s \in Candidates : Begin(<<m, "update">>, s)
    BY <1>2 DEF Edit
  <2>2. PICK p \in Procs : p = <<m, "update">>
    BY DEF Procs, Kinds
  <2>3. msg[m] # None /\ check[p].pc = "none" /\ p[1] = m /\ p[2] = "update"
    BY <1>2, <2>2 DEF Edit
  <2>4. s \in Seq(Items)
    BY ItemsAssumption
  <2>5. Begin(p, s)
    BY <2>1, <2>2
  <2>6. check[p].at <= check[p].posted + Tolerance
    BY DEF TimeInv
  <2>7. UNCHANGED <<msg, entries, sweep, now>>
    BY <1>2 DEF Edit
  <2> QED
    BY <2>3, <2>4, <2>5, <2>6, <2>7, BeginShape
<1> QED
  BY <1>1, <1>2

-----------------------------------------------------------------------------
(* What nobody else disturbs.                                              *)

Good(p) == HashOK(p) /\ ~Missed(p) /\ ~Unjust(p)

LEMMA GoodMeans == HashInv /\ FlaggedIffIndexed <=> \A p \in Procs : Good(p)
BY DEF Good, HashInv, FlaggedIffIndexed

\* A check that does not move, of a message that does not change, stays right as
\* long as nothing it has seen comes back.
LEMMA GoodStays ==
  ASSUME TypeOK, NEW p \in Procs, Good(p), check'[p] = check[p],
         check[p].pc # "none" => msg'[p[1]] = msg[p[1]],
         check[p].before \cap entries' \subseteq entries
  PROVE  Good(p)'
<1>1. CASE check[p].pc = "none"
  <2>1. check'[p].pc = "none" /\ check'[p].found = None
    BY <1>1 DEF TypeOK
  <2> QED
    BY <2>1 DEF Good, HashOK, Missed, Unjust
<1>2. CASE check[p].pc # "none"
  <2>1. Author(p)' = Author(p) /\ Instance(p)' = Instance(p) /\ Item(p)' = Item(p)
    BY <1>2 DEF Author, Instance, Item
  <2>2. check'[p].before \cap entries' \subseteq check[p].before \cap entries
    OBVIOUS
  <2>3. HashOK(p)'
    BY <2>1, <2>2 DEF Good, HashOK, Theirs
  <2>4. ~Missed(p)'
    BY <2>1, <2>2 DEF Good, Missed
  <2>5. ~Unjust(p)'
    BY <2>1 DEF Good, Unjust
  <2> QED
    BY <2>3, <2>4, <2>5 DEF Good
<1> QED
  BY <1>1, <1>2

\* A position is passed for good.
LEMMA FurtherOn ==
  ASSUME NEW at \in Nat, NEW all \in Nat, NEW left \in Nat, NEW less \in Nat,
         at < all - left + 1, less <= left
  PROVE  at < all - less + 1
OBVIOUS

\* What a creation has left behind stays behind it.
LEMMA BehindStays ==
  ASSUME MatchInv, NEW p \in Procs, Only(p),
         \A q \in Procs : check[q].pc # "none" => msg'[q[1]] = msg[q[1]],
         check[p].pc # "none" =>
           \/ ~Active(check'[p]) /\ check'[p].pc # "none"
           \/ Active(check[p]) /\ Len(check'[p].todo) <= Len(check[p].todo)
              /\ check'[p].pc # "none",
         NEW e \in Entry, NEW m \in Messages, Behind(e, m)
  PROVE  Behind(e, m)'
<1> USE DEF MatchInv, TypeOK
<1>1. PICK c \in Procs : c = <<m, "create">>
  BY DEF Procs, Kinds
<1>2. check[c].pc # "none" /\ c[1] = m /\ msg'[m] = msg[m] /\ msg[m] \in Posts
  <2>1. check[c].pc # "none" /\ c[1] = m
    BY <1>1 DEF Behind
  <2> QED
    BY <2>1 DEF BegunInv
<1>3. Active(check[c]) => e.id[2] < Len(msg[m].items) - Len(check[c].todo) + 1
  BY <1>1, <1>2 DEF Behind, Position
<1>4. e.id[2] \in Nat /\ Len(msg[m].items) \in Nat
  BY <1>2, PostFacts, LenProperties DEF Entry
<1>5. Len(check[c].todo) \in Nat /\ Len(check'[c].todo) \in Nat
  BY OnlyTyped, LenProperties DEF Check
<1>6. /\ check'[c].pc # "none"
      /\ Active(check'[c]) => e.id[2] < Len(msg[m].items) - Len(check'[c].todo) + 1
  <2>1. CASE c = p
    <3>1. CASE ~Active(check'[p]) /\ check'[p].pc # "none"
      BY <2>1, <3>1
    <3>2. CASE /\ Active(check[p]) /\ Len(check'[p].todo) <= Len(check[p].todo)
               /\ check'[p].pc # "none"
      <4>1. e.id[2] < Len(msg[m].items) - Len(check[c].todo) + 1
        BY <1>3, <2>1, <3>2
      <4>2. Len(check'[c].todo) <= Len(check[c].todo)
        BY <2>1, <3>2
      <4>3. e.id[2] < Len(msg[m].items) - Len(check'[c].todo) + 1
        BY <1>4, <1>5, <4>1, <4>2, FurtherOn
      <4> QED
        BY <2>1, <3>2, <4>3
    <3> QED
      BY <1>2, <2>1, <3>1, <3>2
  <2>2. CASE c # p
    <3>1. check'[c] = check[c]
      BY <2>2, OnlyTyped
    <3> QED
      BY <1>2, <1>3, <3>1
  <2> QED
    BY <2>1, <2>2
<1> QED
  BY <1>1, <1>2, <1>6 DEF Behind, Position

-----------------------------------------------------------------------------
(* A step of a check keeps the invariant.                                  *)

\* The row a check is about to add has been seen by nobody.
LEMMA RowIsNew ==
  ASSUME MatchInv, NEW p \in Procs, check[p].pc = "insert", p[2] = "create"
  PROVE  Row(p) \notin entries /\ \A q \in Procs : Row(p) \notin check[q].before
<1>1. p = <<p[1], "create">> /\ Active(check[p]) /\ Row(p).id = <<p[1], Position(p)>>
  BY DEF Procs, Active, Row
<1>2. Position(p) \in Nat
  BY RowType DEF MatchInv
<1>3. ~Behind(Row(p), Row(p).id[1])
  BY <1>1, <1>2 DEF Behind
<1> QED
  BY <1>3 DEF MatchInv, SeenInv

\* And is behind it once it is added.
LEMMA RowIsBehind ==
  ASSUME MatchInv, NEW p \in Procs, Only(p), Grows(p), UNCHANGED msg,
         NEW e, e = Row(p)
  PROVE  Behind(e, p[1])'
<1>2. p = <<p[1], "create">> /\ p[1] \in Messages /\ e.id[2] = Position(p)
  BY DEF Procs, Grows, Row
<1>3. Position(p) \in Nat
  BY RowType DEF MatchInv, Grows
<1>4. PICK n \in Nat : n = Len(check[p].todo) /\ Len(check'[p].todo) = n - 1
  BY LenProperties DEF MatchInv, TypeOK, Check, Grows
<1>5. PICK l \in Nat : l = Len(msg[p[1]].items)
  <2>1. msg[p[1]] \in Posts
    BY <1>2 DEF MatchInv, TypeOK, BegunInv, Grows
  <2> QED
    BY <2>1, PostFacts, LenProperties
<1>6. e.id[2] < l - Len(check'[p].todo) + 1
  <2>1. Position(p) = l - n + 1
    BY <1>4, <1>5 DEF Position
  <2>2. e.id[2] = l - n + 1 /\ Len(check'[p].todo) = n - 1
    BY <1>2, <1>4, <2>1
  <2>3. l - n + 1 < l - (n - 1) + 1
    OBVIOUS
  <2> QED
    BY <2>2, <2>3
<1>7. Len(msg'[p[1]].items) = l
  BY <1>5
<1> QED
  BY <1>2, <1>6, <1>7 DEF Behind, Position, Grows

\* The checks of others stay right, and everything but the one that moves.
LEMMA MoveFrame ==
  ASSUME MatchInv, NEW p \in Procs, Move(p)
  PROVE  /\ TypeOK' /\ BegunInv' /\ TimeInv' /\ KeyInv' /\ SeenInv'
         /\ \A q \in Procs \ {p} : Good(q)'
<1> USE DEF MatchInv
<1>1. /\ Only(p) /\ UNCHANGED <<msg, sweep, now>>
      /\ Active(check[p]) /\ check'[p].pc # "none"
      /\ Active(check'[p]) => Len(check'[p].todo) <= Len(check[p].todo)
      /\ check'[p].at <= check'[p].posted + Tolerance
      /\ check'[p].before \subseteq check[p].before \cup entries
      /\ check'[p].found # None => check'[p].pc = "insert"
      /\ check'[p].pc \in {"hash", "insert"} => check'[p].todo # <<>>
  BY MoveShape
<1>2. /\ check' \in [Procs -> Check]
      /\ \A q \in Procs \ {p} : check'[q] = check[q]
  BY <1>1, OnlyTyped
<1>3. entries' = entries \/ Grows(p)
  BY MoveShape
<1>4. Grows(p) => Row(p) \in Entry
  BY RowType DEF Grows
<1>5. \A q \in Procs : check[q].before \cap entries' \subseteq entries
  BY <1>3, RowIsNew DEF Grows
<1>6. TypeOK'
  <2>1. entries' \subseteq Entry
    BY <1>3, <1>4 DEF TypeOK, Grows
  <2>2. \A q \in Procs : /\ check'[q].found # None => check'[q].pc = "insert"
                         /\ check'[q].pc \in {"hash", "insert"} => check'[q].todo # <<>>
    BY <1>1, <1>2 DEF TypeOK
  <2> QED
    BY <1>1, <1>2, <2>1, <2>2 DEF TypeOK
<1>7. BegunInv'
  <2>1. msg[p[1]] # None
    BY <1>1 DEF BegunInv, Active
  <2>2. Active(check'[p]) /\ p[2] = "create" => Len(check'[p].todo) <= Len(msg[p[1]].items)
    <3> SUFFICES ASSUME Active(check'[p]), p[2] = "create"
                 PROVE  Len(check'[p].todo) <= Len(msg[p[1]].items)
      OBVIOUS
    <3>1. Len(check'[p].todo) <= Len(check[p].todo)
      BY <1>1
    <3>2. Len(check[p].todo) <= Len(msg[p[1]].items)
      BY <1>1 DEF BegunInv
    <3>3. Len(check'[p].todo) \in Nat /\ Len(check[p].todo) \in Nat
      BY <1>2, LenProperties DEF TypeOK, Check
    <3>4. Len(msg[p[1]].items) \in Nat
      BY <2>1, PostFacts, LenProperties DEF TypeOK, Procs
    <3> QED
      BY <3>1, <3>2, <3>3, <3>4
  <2>3. \A q \in Procs : /\ check'[q].pc # "none" => msg'[q[1]] # None
                         /\ Active(check'[q]) /\ q[2] = "create"
                              => Len(check'[q].todo) <= Len(msg'[q[1]].items)
    BY <1>1, <1>2, <2>1, <2>2 DEF BegunInv
  <2> QED
    BY <2>3 DEF BegunInv, Active
<1>8. TimeInv'
  <2>1. ASSUME Grows(p) PROVE Row(p).checked <= Row(p).posted + Tolerance
    BY DEF Row, TimeInv
  <2>2. \A e \in entries' : e.checked <= e.posted + Tolerance
    BY <1>3, <2>1 DEF TimeInv, Grows
  <2>3. \A q \in Procs : check'[q].at <= check'[q].posted + Tolerance
    BY <1>1, <1>2 DEF TimeInv
  <2> QED
    BY <1>1, <2>2, <2>3 DEF TimeInv
<1>9. KeyInv'
  <2>1. Row(p).key = IdentityOf(Row(p).item)
    BY DEF Row
  <2>2. \A e \in entries' : e.key = IdentityOf(e.item)
    BY <1>3, <2>1 DEF KeyInv, Grows
  <2> QED
    BY <2>2 DEF KeyInv
<1>10. SeenInv'
  <2>1. ASSUME NEW e \in Entry, NEW m \in Messages, Behind(e, m) PROVE Behind(e, m)'
    BY <1>1, <2>1, BehindStays
  <2>2. \A e \in entries : e \in Entry /\ e.id[1] \in Messages
    BY DEF TypeOK, Entry
  <2>3. \A q \in Procs : \A e \in check[q].before : e \in Entry /\ e.id[1] \in Messages
    BY DEF TypeOK, Check, Entry
  <2>4. ASSUME NEW e \in entries PROVE Behind(e, e.id[1])'
    BY <2>1, <2>2 DEF SeenInv
  <2>5. ASSUME NEW e \in entries' PROVE Behind(e, e.id[1])'
    <3>1. CASE e \in entries
      BY <2>4, <3>1
    <3>2. CASE Grows(p) /\ e = Row(p)
      <4>1. Behind(e, p[1])'
        BY <1>1, <3>2, RowIsBehind
      <4>2. e.id[1] = p[1]
        BY <3>2 DEF Row
      <4> QED
        BY <4>1, <4>2
    <3> QED
      BY <1>3, <3>1, <3>2 DEF Grows
  <2>6. ASSUME NEW q \in Procs, NEW e \in check'[q].before PROVE Behind(e, e.id[1])'
    <3>1. e \in check[q].before \/ e \in entries
      BY <1>1, <1>2
    <3>2. CASE e \in check[q].before
      BY <2>1, <2>3, <3>2 DEF SeenInv
    <3> QED
      BY <2>4, <3>1, <3>2
  <2> QED
    BY <2>5, <2>6 DEF SeenInv
<1>11. ASSUME NEW q \in Procs \ {p} PROVE Good(q)'
  <2>1. Good(q) /\ check'[q] = check[q] /\ msg'[q[1]] = msg[q[1]]
    BY <1>1, <1>2, GoodMeans
  <2> QED
    BY <1>5, <2>1, GoodStays
<1> QED
  BY <1>6, <1>7, <1>8, <1>9, <1>10, <1>11

\* Who has its key is the same.
LEMMA KeyIsSame ==
  ASSUME NEW e \in Entry, NEW x \in Items, e.key = IdentityOf(e.item), e.key = IdentityOf(x)
  PROVE  Same(e, x)
<1>1. e.item \in Items
  BY DEF Entry
<1>2. \A a, b \in Items : IsLink(a) /\ ~IsLink(b) => a.page # b.bytes
  BY ItemsAssumption
<1>3. IdentityOf(e.item) = IdentityOf(x)
  OBVIOUS
<1>4. CASE IsLink(e.item) /\ IsLink(x)
  BY <1>3, <1>4 DEF IdentityOf, Same
<1>5. CASE ~IsLink(e.item) /\ ~IsLink(x)
  BY <1>3, <1>5 DEF IdentityOf, Same
<1>6. CASE IsLink(e.item) /\ ~IsLink(x)
  <2>1. e.item.page # x.bytes
    BY <1>1, <1>2, <1>6
  <2>2. <<e.item.page>> = <<x.bytes>>
    BY <1>3, <1>6 DEF IdentityOf
  <2> QED
    BY <2>1, <2>2
<1>7. CASE ~IsLink(e.item) /\ IsLink(x)
  <2>1. x.page # e.item.bytes
    BY <1>1, <1>2, <1>7
  <2>2. <<e.item.bytes>> = <<x.page>>
    BY <1>3, <1>7 DEF IdentityOf
  <2> QED
    BY <2>1, <2>2
<1> QED
  BY <1>4, <1>5, <1>6, <1>7

\* Who has not can only look like it.
LEMMA OnlyLooksSame ==
  ASSUME NEW e, NEW x, e.key = IdentityOf(e.item), e.key # IdentityOf(x), Same(e, x)
  PROVE  /\ ~IsLink(x) /\ e.phash # None /\ Fingerprint(x) # None
         /\ Distance(e.phash, Fingerprint(x)) <= Probable
<1>1. ~(IsLink(x) /\ IsLink(e.item) /\ e.item.page = x.page)
  BY DEF IdentityOf
<1>2. ~(~IsLink(x) /\ ~IsLink(e.item) /\ e.item.bytes = x.bytes)
  BY DEF IdentityOf
<1>3. e.phash # None /\ Fingerprint(x) # None /\ Distance(e.phash, Fingerprint(x)) <= Probable
  BY <1>1, <1>2 DEF Same
<1>4. ~IsLink(x)
  BY <1>3 DEF Fingerprint
<1> QED
  BY <1>3, <1>4

\* What stands to be answered is decided by the lookups.
LEMMA ExactGood ==
  ASSUME MatchInv, NEW p \in Procs, MatchExact(p)
  PROVE  Good(p)'
<1> USE DEF MatchInv
<1>1. /\ check[p].pc = "next" /\ check[p].todo # <<>> /\ check'[p].todo = check[p].todo
      /\ \/ /\ check'[p].pc = "insert" /\ check'[p].found \in Exact(p)
            /\ check'[p].before = check[p].before
         \/ /\ check'[p].found = None /\ Exact(p) = {} /\ check'[p].before = entries
            /\ \/ Fingerprint(Item(p)) = None /\ check'[p].pc = "insert"
               \/ Fingerprint(Item(p)) # None /\ check'[p].pc = "hash"
         \/ /\ check'[p].pc = "insert" /\ check'[p].found = None /\ check'[p].failed
            /\ check'[p].before = check[p].before
  BY ExactShape
<1>2. UNCHANGED <<msg, entries>>
  BY DEF MatchExact
<1>3. Author(p)' = Author(p) /\ Instance(p)' = Instance(p) /\ Item(p)' = Item(p)
  BY <1>1, <1>2 DEF Author, Instance, Item
<1>4. CASE check'[p].pc = "insert" /\ check'[p].found \in Exact(p)
  <2>1. PICK e \in entries : /\ e = check'[p].found /\ e.key = IdentityOf(Item(p))
                             /\ e.instance = Instance(p) /\ e.author # Author(p)
    BY <1>4 DEF Exact, Others
  <2>2. e \in Entry /\ e # None /\ e.key = IdentityOf(e.item)
    BY ItemsAssumption DEF TypeOK, KeyInv
  <2>3. Item(p) \in Items
    BY <1>1, FingerprintType
  <2>4. Same(e, Item(p))
    BY <2>1, <2>2, <2>3, KeyIsSame
  <2>5. ~Unjust(p)'
    BY <1>3, <2>1, <2>4 DEF Unjust
  <2>6. ~Missed(p)'
    BY <2>1, <2>2 DEF Missed
  <2> QED
    BY <1>4, <2>5, <2>6 DEF Good, HashOK
<1>5. CASE /\ check'[p].found = None /\ Exact(p) = {} /\ check'[p].before = entries
           /\ \/ Fingerprint(Item(p)) = None /\ check'[p].pc = "insert"
              \/ Fingerprint(Item(p)) # None /\ check'[p].pc = "hash"
  <2>1. \A e \in entries : Theirs(e, p) => e.key # IdentityOf(Item(p))
    BY <1>5 DEF Exact, Others, Theirs
  <2>2. ~Unjust(p)'
    BY <1>5 DEF Unjust
  <2>3. CASE Fingerprint(Item(p)) = None /\ check'[p].pc = "insert"
    <3>1. ASSUME NEW e \in entries, Theirs(e, p), Same(e, Item(p)) PROVE FALSE
      <4>1. e.key = IdentityOf(e.item) /\ e.key # IdentityOf(Item(p))
        BY <2>1, <3>1 DEF KeyInv
      <4> QED
        BY <2>3, <3>1, <4>1, OnlyLooksSame
    <3>2. ~Missed(p)'
      BY <1>2, <1>3, <1>5, <3>1 DEF Missed, Theirs
    <3> QED
      BY <2>2, <2>3, <3>2 DEF Good, HashOK
  <2>4. CASE Fingerprint(Item(p)) # None /\ check'[p].pc = "hash"
    <3>1. HashOK(p)'
      BY <1>2, <1>3, <1>5, <2>1, <2>4 DEF HashOK, Theirs
    <3>2. ~Missed(p)'
      BY <2>4 DEF Missed
    <3> QED
      BY <2>2, <3>1, <3>2 DEF Good
  <2> QED
    BY <1>5, <2>3, <2>4
<1>6. CASE check'[p].pc = "insert" /\ check'[p].found = None /\ check'[p].failed
  BY <1>6 DEF Good, HashOK, Missed, Unjust
<1> QED
  BY <1>1, <1>4, <1>5, <1>6

LEMMA PerceptualGood ==
  ASSUME MatchInv, NEW p \in Procs, MatchPerceptual(p)
  PROVE  Good(p)'
<1> USE DEF MatchInv
<1>1. /\ check[p].pc = "hash" /\ check'[p].pc = "insert"
      /\ check[p].todo # <<>> /\ check'[p].todo = check[p].todo
      /\ check'[p].before = check[p].before
      /\ \/ check'[p].found \in Near(p)
         \/ check'[p].found = None /\ Near(p) = {}
         \/ check'[p].found = None /\ check'[p].failed
  BY PerceptualShape
<1>2. UNCHANGED <<msg, entries>>
  BY DEF MatchPerceptual
<1>3. Author(p)' = Author(p) /\ Instance(p)' = Instance(p) /\ Item(p)' = Item(p)
  BY <1>1, <1>2 DEF Author, Instance, Item
<1>4. PICK h \in Hash : h = Fingerprint(Item(p)) /\ h # None
  BY <1>1, FingerprintType DEF HashInv, HashOK
<1>5. CASE check'[p].found \in Near(p)
  <2>1. PICK e \in entries : /\ e = check'[p].found
                             /\ e.instance = Instance(p) /\ e.author # Author(p)
                             /\ e.phash # None /\ Distance(e.phash, h) <= Probable
    BY <1>4, <1>5 DEF Near, Others
  <2>2. e # None
    BY ItemsAssumption DEF TypeOK
  <2>3. Same(e, Item(p))
    BY <1>4, <2>1 DEF Same
  <2>4. ~Unjust(p)'
    BY <1>3, <2>1, <2>3 DEF Unjust
  <2>5. ~Missed(p)'
    BY <2>1, <2>2 DEF Missed
  <2> QED
    BY <1>1, <2>4, <2>5 DEF Good, HashOK
<1>6. CASE check'[p].found = None /\ Near(p) = {}
  <2>1. ASSUME NEW e \in check[p].before \cap entries, Theirs(e, p), Same(e, Item(p))
        PROVE  FALSE
    <3>1. e.key = IdentityOf(e.item) /\ e.key # IdentityOf(Item(p))
      BY <1>1, <2>1 DEF KeyInv, HashInv, HashOK
    <3>2. e.phash # None /\ Distance(e.phash, h) <= Probable
      BY <1>4, <2>1, <3>1, OnlyLooksSame
    <3>3. e.phash \in Hash
      BY <3>2 DEF TypeOK, Entry
    <3>4. SharesChunk(e.phash, h)
      BY <3>2, <3>3, IndexRecall
    <3>5. e \in Near(p)
      BY <1>4, <2>1, <3>2, <3>4 DEF Near, Others, Theirs
    <3> QED
      BY <1>6, <3>5
  <2>2. ~Missed(p)'
    BY <1>1, <1>2, <1>3, <2>1 DEF Missed, Theirs
  <2>3. ~Unjust(p)'
    BY <1>6 DEF Unjust
  <2> QED
    BY <1>1, <2>2, <2>3 DEF Good, HashOK
<1>7. CASE check'[p].found = None /\ check'[p].failed
  BY <1>1, <1>7 DEF Good, HashOK, Missed, Unjust
<1> QED
  BY <1>1, <1>5, <1>6, <1>7

\* A step of a check.
LEMMA MoveInductive ==
  ASSUME MatchInv, NEW p \in Procs, Move(p)
  PROVE  MatchInv'
<1>1. Good(p)'
  <2>1. ASSUME check'[p].found = None, check'[p].pc \in {"next", "done"} PROVE Good(p)'
    BY <2>1 DEF Good, HashOK, Missed, Unjust
  <2>2. CASE Skip(p) \/ Index(p) \/ Finish(p)
    BY <2>1, <2>2, SkipShape, IndexShape, FinishShape DEF MatchInv
  <2> QED
    BY <2>2, ExactGood, PerceptualGood DEF Move
<1>2. \A q \in Procs : Good(q)'
  BY <1>1, MoveFrame
<1>3. HashInv' /\ FlaggedIffIndexed'
  BY <1>2 DEF Good, HashInv, FlaggedIffIndexed
<1> QED
  BY <1>3, MoveFrame DEF MatchInv

-----------------------------------------------------------------------------
(* The other steps.                                                        *)

\* A message that is posted or edited.
LEMMA OfferInductive ==
  ASSUME MatchInv, NEW m \in Messages, Post(m) \/ Edit(m)
  PROVE  MatchInv'
<1> USE DEF MatchInv
<1>1. PICK p \in Procs :
        /\ Only(p) /\ UNCHANGED <<entries, sweep, now>>
        /\ msg' \in [Messages -> Posts \cup {None}]
        /\ \A q \in Procs : check[q].pc # "none" => msg'[q[1]] = msg[q[1]]
        /\ check[p].pc = "none" /\ msg'[p[1]] # None
        /\ check'[p].found = None /\ check'[p].pc \in {"next", "done"}
        /\ check'[p].pc = "next" /\ p[2] = "create" => check'[p].todo = msg'[p[1]].items
        /\ check'[p].at <= check'[p].posted + Tolerance
        /\ check'[p].before \subseteq check[p].before
  BY OfferShape
<1>2. /\ check' \in [Procs -> Check]
      /\ \A q \in Procs \ {p} : check'[q] = check[q]
  BY <1>1, OnlyTyped
<1>3. TypeOK'
  <2>1. \A q \in Procs : /\ check'[q].found # None => check'[q].pc = "insert"
                         /\ check'[q].pc \in {"hash", "insert"} => check'[q].todo # <<>>
    BY <1>1, <1>2 DEF TypeOK
  <2> QED
    BY <1>1, <1>2, <2>1 DEF TypeOK
<1>4. BegunInv'
  <2>1. Active(check'[p]) /\ p[2] = "create"
          => Len(check'[p].todo) <= Len(msg'[p[1]].items)
    <3> SUFFICES ASSUME Active(check'[p]), p[2] = "create"
                 PROVE  Len(check'[p].todo) <= Len(msg'[p[1]].items)
      OBVIOUS
    <3>1. check'[p].todo = msg'[p[1]].items
      BY <1>1 DEF Active
    <3>2. Len(check'[p].todo) \in Nat
      BY <1>2, LenProperties DEF Check
    <3> QED
      BY <3>1, <3>2
  <2>2. \A q \in Procs : /\ check'[q].pc # "none" => msg'[q[1]] # None
                         /\ Active(check'[q]) /\ q[2] = "create"
                              => Len(check'[q].todo) <= Len(msg'[q[1]].items)
    <3> TAKE q \in Procs
    <3>1. CASE q = p
      BY <1>1, <2>1, <3>1
    <3>2. CASE q # p
      <4>1. check'[q] = check[q]
        BY <1>2, <3>2
      <4>2. Active(check[q]) => check[q].pc # "none"
        BY DEF Active
      <4> QED
        BY <1>1, <4>1, <4>2 DEF BegunInv
    <3> QED
      BY <3>1, <3>2
  <2> QED
    BY <2>2 DEF BegunInv, Active
<1>5. TimeInv'
  <2>1. \A q \in Procs : check'[q].at <= check'[q].posted + Tolerance
    BY <1>1, <1>2 DEF TimeInv
  <2> QED
    BY <1>1, <2>1 DEF TimeInv
<1>6. KeyInv'
  BY <1>1 DEF KeyInv
<1>7. SeenInv'
  <2>1. ASSUME NEW e \in Entry, NEW n \in Messages, Behind(e, n) PROVE Behind(e, n)'
    BY <1>1, <2>1, BehindStays
  <2>2. \A e \in entries : e \in Entry /\ e.id[1] \in Messages
    BY DEF TypeOK, Entry
  <2>3. \A q \in Procs : \A e \in check[q].before : e \in Entry /\ e.id[1] \in Messages
    BY DEF TypeOK, Check, Entry
  <2>4. ASSUME NEW e \in entries' PROVE Behind(e, e.id[1])'
    BY <1>1, <2>1, <2>2 DEF SeenInv
  <2>5. ASSUME NEW q \in Procs, NEW e \in check'[q].before PROVE Behind(e, e.id[1])'
    <3>1. e \in check[q].before
      BY <1>1, <1>2
    <3> QED
      BY <2>1, <2>3, <3>1 DEF SeenInv
  <2> QED
    BY <2>4, <2>5 DEF SeenInv
<1>8. \A q \in Procs : Good(q)'
  <2>1. Good(p)'
    BY <1>1 DEF Good, HashOK, Missed, Unjust
  <2>2. ASSUME NEW q \in Procs \ {p} PROVE Good(q)'
    <3>1. Good(q) /\ check'[q] = check[q]
      BY <1>2, GoodMeans
    <3> QED
      BY <1>1, <3>1, GoodStays
  <2> QED
    BY <2>1, <2>2
<1>9. HashInv' /\ FlaggedIffIndexed'
  BY <1>8 DEF Good, HashInv, FlaggedIffIndexed
<1> QED
  BY <1>3, <1>4, <1>5, <1>6, <1>7, <1>9

\* The sweep, and the clock: neither touches messages and checks, and entries only
\* go.
LEMMA AsideInductive ==
  ASSUME MatchInv, UNCHANGED <<msg, check>>, entries' \subseteq entries,
         sweep' \in [pc : {"idle", "list"}, todo : Seq(Retaining), at : Nat],
         now' \in Nat, sweep'.at <= now'
  PROVE  MatchInv'
<1> USE DEF MatchInv
<1>1. TypeOK'
  BY DEF TypeOK
<1>2. BegunInv' /\ KeyInv'
  BY DEF BegunInv, KeyInv, Active
<1>3. TimeInv'
  BY DEF TimeInv
<1>4. SeenInv'
  <2>1. \A e : Behind(e, e.id[1]) => Behind(e, e.id[1])'
    BY DEF Behind, Active, Position
  <2> QED
    BY <2>1 DEF SeenInv
<1>5. \A q \in Procs : Good(q)'
  BY GoodMeans, GoodStays
<1>6. HashInv' /\ FlaggedIffIndexed'
  BY <1>5 DEF Good, HashInv, FlaggedIffIndexed
<1> QED
  BY <1>1, <1>2, <1>3, <1>4, <1>6

\* A list of guilds, in any order.
LEMMA OrdersAreLists == \A s \in Orders(Retaining) : s \in Seq(Retaining)
<1>1. IsFiniteSet(Retaining)
  BY RepostAssumption, FS_Subset DEF Retaining
<1>2. Cardinality(Retaining) \in Nat
  BY <1>1, FS_CardinalityType
<1> QED
  BY <1>2, SeqDef DEF Orders

LEMMA SweepInductive ==
  ASSUME MatchInv,
         \/ StartSweep \/ EndSweep \/ CancelSweep \/ Tick
         \/ \E i \in Instances : DeleteBefore(i) \/ DeleteFails(i)
  PROVE  MatchInv'
<1> USE DEF MatchInv
<1>1. /\ sweep \in [pc : {"idle", "list"}, todo : Seq(Retaining), at : Nat]
      /\ sweep.at <= now /\ now \in Nat
  BY DEF TypeOK, TimeInv
<1>2. /\ Resting \in [pc : {"idle", "list"}, todo : Seq(Retaining), at : Nat]
      /\ Resting.at <= now
  BY <1>1 DEF Resting
<1>3. CASE StartSweep
  <2>1. PICK s \in Orders(Retaining) : sweep' = [pc |-> "list", todo |-> s, at |-> now]
    BY <1>3 DEF StartSweep
  <2>2. UNCHANGED <<msg, check, entries, now>>
    BY <1>3 DEF StartSweep
  <2>3. s \in Seq(Retaining)
    BY OrdersAreLists
  <2>4. sweep' \in [pc : {"idle", "list"}, todo : Seq(Retaining), at : Nat] /\ sweep'.at <= now'
    BY <1>1, <2>1, <2>2, <2>3
  <2> QED
    BY <1>1, <2>2, <2>4, AsideInductive
<1>4. CASE EndSweep \/ CancelSweep
  <2>1. sweep' = Resting /\ UNCHANGED <<msg, check, entries, now>>
    BY <1>4 DEF EndSweep, CancelSweep
  <2> QED
    BY <1>1, <1>2, <2>1, AsideInductive
<1>5. CASE Tick
  <2>1. now' = now + 1 /\ UNCHANGED <<msg, check, entries, sweep>>
    BY <1>5 DEF Tick
  <2>2. now' \in Nat /\ sweep'.at <= now'
    BY <1>1, <2>1
  <2> QED
    BY <1>1, <2>1, <2>2, AsideInductive
<1>6. ASSUME NEW i \in Instances, DeleteBefore(i) \/ DeleteFails(i)
      PROVE  MatchInv'
  <2>1. /\ sweep.todo # <<>> /\ sweep' = [sweep EXCEPT !.todo = Tail(@)]
        /\ entries' \subseteq entries /\ UNCHANGED <<msg, check, now>>
    BY <1>6 DEF DeleteBefore, DeleteFails
  <2>2. Tail(sweep.todo) \in Seq(Retaining)
    BY <1>1, <2>1, HeadTailProperties
  <2>3. sweep' \in [pc : {"idle", "list"}, todo : Seq(Retaining), at : Nat] /\ sweep'.at = sweep.at
    BY <1>1, <2>1, <2>2
  <2> QED
    BY <1>1, <2>1, <2>3, AsideInductive
<1> QED
  BY <1>3, <1>4, <1>5, <1>6

LEMMA MatchInductive == MatchInv /\ [Next]_vars => MatchInv'
<1> SUFFICES ASSUME MatchInv, [Next]_vars PROVE MatchInv'
  OBVIOUS
<1>1. CASE Next
  BY <1>1, OfferInductive, MoveInductive, SweepInductive DEF Next, Move
<1>2. CASE UNCHANGED vars
  <2>1. /\ sweep \in [pc : {"idle", "list"}, todo : Seq(Retaining), at : Nat]
        /\ sweep.at <= now /\ now \in Nat
    BY DEF MatchInv, TypeOK, TimeInv
  <2> QED
    BY <1>2, <2>1, AsideInductive DEF vars
<1> QED
  BY <1>1, <1>2

LEMMA MatchStart == Init => MatchInv
<1> SUFFICES ASSUME Init PROVE MatchInv
  OBVIOUS
<1>1. \A p \in Procs : check[p] = Idle
  BY DEF Init
<1>2. /\ Idle.pc = "none" /\ Idle.found = None /\ Idle.before = {}
      /\ Idle.at = 0 /\ Idle.posted = 0
  BY DEF Idle
<1>3. TypeOK
  <2>1. Resting \in [pc : {"idle", "list"}, todo : Seq(Retaining), at : Nat]
    BY DEF Resting
  <2> QED
    BY <1>1, <1>2, <2>1, IdleIsCheck DEF Init, TypeOK
<1>4. TimeInv
  <2>1. sweep.at <= now
    BY DEF Init, Resting
  <2>2. 0 <= 0 + Tolerance
    BY RepostAssumption
  <2> QED
    BY <1>1, <1>2, <2>1, <2>2 DEF Init, TimeInv
<1>5. BegunInv /\ KeyInv /\ SeenInv
  BY <1>1, <1>2 DEF BegunInv, KeyInv, SeenInv, Active, Init
<1>6. HashInv /\ FlaggedIffIndexed
  BY <1>1, <1>2 DEF HashInv, HashOK, FlaggedIffIndexed, Missed, Unjust
<1> QED
  BY <1>3, <1>4, <1>5, <1>6 DEF MatchInv

-----------------------------------------------------------------------------
(* The theorems.                                                           *)

LEMMA MatchAlways == Spec => []MatchInv
BY MatchStart, MatchInductive, PTL DEF Spec

\* Every reachable state of the index, the checks and the sweep is well typed.
THEOREM RepostTypeCorrect == Spec => []TypeOK
<1>1. MatchInv => TypeOK
  BY DEF MatchInv
<1> QED
  BY <1>1, MatchAlways, PTL

\* For any posts and hashes, any chunks and tiers, however checks, edits and sweeps
\* interleave: a post that is indexed as new matches nothing that was indexed
\* before its check and is still there, and what is flagged was posted by somebody
\* else in the guild and is the same.
THEOREM FlagsCorrect == Spec => []FlaggedIffIndexed
<1>1. MatchInv => FlaggedIffIndexed
  BY DEF MatchInv
<1> QED
  BY <1>1, MatchAlways, PTL

\* For any retentions, batches and tolerance: the sweep takes nothing before its
\* guild's retention is over, and nothing of a guild that keeps everything.
THEOREM SweepCorrect == Spec => SweptOnlyWhenPast
<1> DEFINE Swept == \A e \in entries \ entries' :
                      /\ RetentionDays[e.instance] > 0
                      /\ now - e.checked > RetentionDays[e.instance] - Tolerance
<1>1. MatchInv /\ Next => Swept
  <2> SUFFICES ASSUME MatchInv, Next, NEW e \in entries \ entries'
               PROVE  /\ RetentionDays[e.instance] > 0
                      /\ now - e.checked > RetentionDays[e.instance] - Tolerance
    OBVIOUS
  <2>1. PICK i \in Instances : DeleteBefore(i)
    <3>1. ASSUME NEW m \in Messages, Post(m) \/ Edit(m) PROVE FALSE
      BY <3>1 DEF Post, Edit
    <3>2. ASSUME NEW p \in Procs, Move(p) PROVE FALSE
      BY <3>2, MoveShape DEF Grows
    <3>3. ~(StartSweep \/ EndSweep \/ CancelSweep \/ Tick)
      BY DEF StartSweep, EndSweep, CancelSweep, Tick
    <3>4. \A i \in Instances : ~DeleteFails(i)
      BY DEF DeleteFails
    <3> QED
      BY <3>1, <3>2, <3>3, <3>4 DEF Next, Move
  <2>2. e \in Past(i) /\ sweep.todo # <<>> /\ i = Head(sweep.todo)
    BY <2>1 DEF DeleteBefore
  <2>3. i \in Retaining
    BY <2>2, HeadTailProperties DEF MatchInv, TypeOK
  <2>4. RetentionDays[i] \in Int
    BY <2>3, RepostAssumption DEF Retaining
  <2>5. RetentionDays[i] > 0 /\ e.instance = i /\ e.posted < sweep.at - RetentionDays[i]
    BY <2>2 DEF Past
  <2>6. /\ e.posted \in Int /\ e.checked \in Nat /\ sweep.at \in Nat /\ now \in Nat
        /\ e.checked <= e.posted + Tolerance /\ sweep.at <= now /\ Tolerance \in Nat
    BY RepostAssumption DEF MatchInv, TypeOK, TimeInv, Entry
  <2>7. now - e.checked > RetentionDays[i] - Tolerance
    BY <2>4, <2>5, <2>6
  <2> QED
    BY <2>5, <2>7
<1>2. MatchInv /\ [Next]_vars => [Swept]_vars
  BY <1>1
<1>3. [][Swept]_vars => SweptOnlyWhenPast
  BY PTL DEF SweptOnlyWhenPast
<1> QED
  BY <1>2, <1>3, MatchAlways, PTL DEF Spec

-----------------------------------------------------------------------------
(* The identity of a link.                                                 *)

\* The texts a link is made of: with those a rewrite puts in, which are strings, as
\* the provers need to be told.
Texts == STRING \cup {"", "www", "80", "443", "1", "utm_source", "ex", "t"}

Written == [scheme : {"http", "https"}, capitals : BOOLEAN, userinfo : BOOLEAN,
            host : Seq(Texts), port : Texts, path : Seq(Texts), slashes : Nat,
            query : Seq(Texts \X Texts), fragment : BOOLEAN,
            opens : Seq(Texts), ending : Seq(Texts)]

\* A sequence over some set is one over a larger.
LEMMA WiderSeq ==
  ASSUME NEW S, NEW T, S \subseteq T, NEW s \in Seq(S)
  PROVE  s \in Seq(T)
OBVIOUS

\* Every link is one.
LEMMA LinksAreWritten == \A l \in Link : l \in Written
<1>1. STRING \subseteq Texts
  BY DEF Texts
<1>2. \A s \in Seq(STRING) : s \in Seq(Texts)
  BY <1>1, WiderSeq
<1>3. \A s \in Seq(STRING \X STRING) : s \in Seq(Texts \X Texts)
  <2>1. STRING \X STRING \subseteq Texts \X Texts
    BY <1>1
  <2> QED BY <2>1, WiderSeq
<1> QED BY <1>1, <1>2, <1>3 DEF Link, Written

\* How often a character or a pair comes is a number.
LEMMA TimesCounts ==
  ASSUME NEW S, NEW s \in Seq(S), NEW c
  PROVE  /\ IsFiniteSet({n \in DOMAIN s : s[n] = c})
         /\ Times(s, c) \in Nat
<1>1. IsFiniteSet(1 .. Len(s)) /\ DOMAIN s = 1 .. Len(s)
  BY FS_Interval
<1>2. IsFiniteSet({n \in DOMAIN s : s[n] = c})
  BY <1>1, FS_Subset
<1> QED BY <1>2, FS_CardinalityType DEF Times

\* It is the same from the other end.
LEMMA TimesReversed ==
  ASSUME NEW S, NEW s \in Seq(S), NEW c
  PROVE  Times(Reverse(s), c) = Times(s, c)
<1> DEFINE A == {n \in DOMAIN s : s[n] = c}
           B == {n \in DOMAIN Reverse(s) : Reverse(s)[n] = c}
           f == [n \in A |-> Len(s) - n + 1]
<1>1. /\ Len(s) \in Nat /\ DOMAIN s = 1 .. Len(s) /\ DOMAIN Reverse(s) = 1 .. Len(s)
      /\ \A n \in 1 .. Len(s) : Reverse(s)[n] = s[Len(s) - n + 1]
  BY DEF Reverse
<1>2. f \in [A -> B]
  BY <1>1
<1>3. \A n, m \in A : f[n] = f[m] => n = m
  BY <1>1
<1>4. \A m \in B : \E n \in A : f[n] = m
  <2> SUFFICES ASSUME NEW m \in B PROVE \E n \in A : f[n] = m
    OBVIOUS
  <2>1. Len(s) - m + 1 \in A
    BY <1>1
  <2>2. f[Len(s) - m + 1] = m
    BY <1>1, <2>1
  <2> QED BY <2>1, <2>2
<1>5. IsFiniteSet(A)
  BY TimesCounts
<1> HIDE DEF A, B, f
<1>6. f \in Injection(A, B) /\ f \in Surjection(A, B)
  BY <1>2, <1>3, <1>4 DEF Injection, IsInjective, Surjection
<1>7. ExistsBijection(A, B)
  BY <1>6 DEF ExistsBijection, Bijection
<1>8. Cardinality(B) = Cardinality(A)
  BY <1>5, <1>7, FS_Bijection
<1> QED BY <1>8 DEF Times, A, B

\* A pair that tracks leaves no trace.
LEMMA TrackingGoes ==
  ASSUME NEW query \in Seq(Texts \X Texts), NEW pair \in Texts \X Texts, NEW known,
         IsTracking(pair[1], known)
  PROVE  NormalizedQuery(Append(query, pair), known) = NormalizedQuery(query, known)
<1> DEFINE longer == Append(query, pair)
           Kept(s) == {s[n] : n \in {k \in DOMAIN s : ~IsTracking(s[k][1], known)}}
<1>1. /\ Len(query) \in Nat /\ DOMAIN query = 1 .. Len(query)
      /\ DOMAIN longer = 1 .. Len(query) + 1
      /\ \A n \in DOMAIN query : longer[n] = query[n]
      /\ longer[Len(query) + 1] = pair
  OBVIOUS
<1> HIDE DEF longer
<1>2. Kept(longer) = Kept(query)
  BY <1>1
<1>3. \A p \in Kept(query) : {n \in DOMAIN longer : longer[n] = p} = {n \in DOMAIN query : query[n] = p}
  BY <1>1
<1>4. \A p \in Kept(query) : Times(longer, p) = Times(query, p)
  BY <1>3 DEF Times
<1>5. NormalizedQuery(longer, known) = [p \in Kept(longer) |-> Times(longer, p)]
  BY DEF NormalizedQuery
<1>6. NormalizedQuery(query, known) = [p \in Kept(query) |-> Times(query, p)]
  BY DEF NormalizedQuery
<1> HIDE DEF Kept
<1> QED BY <1>2, <1>4, <1>5, <1>6 DEF longer

\* Nor does the order of the pairs.
LEMMA OrderGoes ==
  ASSUME NEW query \in Seq(Texts \X Texts), NEW known
  PROVE  NormalizedQuery(Reverse(query), known) = NormalizedQuery(query, known)
<1> DEFINE Kept(s) == {s[n] : n \in {k \in DOMAIN s : ~IsTracking(s[k][1], known)}}
<1>1. /\ Len(query) \in Nat /\ DOMAIN query = 1 .. Len(query)
      /\ DOMAIN Reverse(query) = 1 .. Len(query)
      /\ \A n \in 1 .. Len(query) : Reverse(query)[n] = query[Len(query) - n + 1]
  BY DEF Reverse
<1>2. Kept(Reverse(query)) = Kept(query)
  <2>1. ASSUME NEW p \in Kept(query) PROVE p \in Kept(Reverse(query))
    <3>1. PICK n \in 1 .. Len(query) : p = query[n] /\ ~IsTracking(query[n][1], known)
      BY <1>1, <2>1
    <3>2. /\ Len(query) - n + 1 \in 1 .. Len(query)
          /\ Reverse(query)[Len(query) - n + 1] = query[n]
      <4>1. Len(query) - n + 1 \in 1 .. Len(query) /\ Len(query) - (Len(query) - n + 1) + 1 = n
        BY <1>1
      <4> QED BY <1>1, <4>1
    <3> QED BY <1>1, <3>1, <3>2
  <2>2. ASSUME NEW p \in Kept(Reverse(query)) PROVE p \in Kept(query)
    <3>1. PICK n \in 1 .. Len(query) :
            p = query[Len(query) - n + 1] /\ ~IsTracking(query[Len(query) - n + 1][1], known)
      BY <1>1, <2>2
    <3>2. Len(query) - n + 1 \in 1 .. Len(query)
      BY <1>1
    <3> QED BY <1>1, <3>1, <3>2
  <2> QED BY <2>1, <2>2
<1>3. \A p : Times(Reverse(query), p) = Times(query, p)
  BY TimesReversed
<1>4. NormalizedQuery(Reverse(query), known)
        = [p \in Kept(Reverse(query)) |-> Times(Reverse(query), p)]
  BY DEF NormalizedQuery
<1>5. NormalizedQuery(query, known) = [p \in Kept(query) |-> Times(query, p)]
  BY DEF NormalizedQuery
<1> HIDE DEF Kept
<1> QED BY <1>2, <1>3, <1>4, <1>5

\* What the first stage makes of a link.
LEMMA GenericParts ==
  ASSUME NEW l \in Written
  PROVE  /\ Generic(l).host = IF Len(l.host) > 1 /\ Head(l.host) = "www"
                                THEN Tail(l.host) ELSE l.host
         /\ Generic(l).port = IF l.port = DefaultPort[l.scheme] THEN "" ELSE l.port
         /\ Generic(l).slashes = IF l.slashes > 0 THEN l.slashes - 1 ELSE 0
         /\ Generic(l).scheme = l.scheme /\ Generic(l).path = l.path
         /\ Generic(l).ending = l.ending
BY DEF Generic, Written

\* Two links of one key: they differ in nothing that carries identity.
LEMMA SameKey ==
  ASSUME NEW l \in Written, NEW m \in Written,
         Generic(l).host = Generic(m).host, l.path = m.path,
         Generic(l).slashes = Generic(m).slashes, l.ending = m.ending,
         l.userinfo = m.userinfo,
         NormalizedQuery(l.query, Known(l)) = NormalizedQuery(m.query, Known(l)),
         \/ l.scheme = m.scheme /\ Generic(l).port = Generic(m).port
         \/ \E k \in Canonicalise(l) : k.source # "url"
  PROVE  Canonicalise(m) = Canonicalise(l)
<1> DEFINE query == NormalizedQuery(l.query, Known(l))
           IDs == Identities(Generic(l).host, l.path, DOMAIN query, l.ending)
<1>1. Known(m) = Known(l)
  BY DEF Known
<1>2. IsExcluded(Generic(m)) = IsExcluded(Generic(l))
  BY DEF IsExcluded
<1>3. IsPlatformDeepLink(Generic(m)) = IsPlatformDeepLink(Generic(l))
  BY GenericParts DEF IsPlatformDeepLink
<1>4. Supported(m) = Supported(l)
  BY DEF Supported, Written
<1>5. Canonicalise(l) = IF ~Supported(l) \/ IsExcluded(Generic(l)) \/ IsPlatformDeepLink(Generic(l))
                        THEN {} ELSE IF IDs # {} THEN IDs ELSE {Fallback(Generic(l), query)}
  BY DEF Canonicalise, Known
<1>6. Canonicalise(m) = IF ~Supported(m) \/ IsExcluded(Generic(m)) \/ IsPlatformDeepLink(Generic(m))
                        THEN {} ELSE IF IDs # {} THEN IDs ELSE {Fallback(Generic(m), query)}
  BY <1>1 DEF Canonicalise, Known
<1> HIDE DEF query, IDs
<1>7. CASE l.scheme = m.scheme /\ Generic(l).port = Generic(m).port
  <2>1. Fallback(Generic(m), query) = Fallback(Generic(l), query)
    BY <1>7, GenericParts DEF Fallback
  <2> QED BY <1>2, <1>3, <1>4, <1>5, <1>6, <2>1
<1>8. CASE \E k \in Canonicalise(l) : k.source # "url"
  <2>1. Fallback(Generic(l), query).source = "url"
    BY DEF Fallback
  <2> QED BY <1>2, <1>3, <1>4, <1>5, <1>6, <1>8, <2>1
<1> QED BY <1>7, <1>8

\* A link as it may come: typed, on some host, with what it ends in.
Proper(l) == l \in Written /\ l.host # <<>> /\ l.slashes < 2 /\ Whole(l)

\* Letter case, a "www.", the default port and the order of a query change nothing.
LEMMA RewritesKeep ==
  ASSUME NEW l, Proper(l), NEW m \in Rewritten(l)
  PROVE  Proper(m) /\ Canonicalise(m) = Canonicalise(l)
<1>1. /\ l \in Written /\ l.host \in Seq(Texts) /\ l.host # <<>> /\ l.slashes < 2 /\ l.slashes \in Nat
      /\ l.scheme \in {"http", "https"} /\ l.port \in Texts /\ l.query \in Seq(Texts \X Texts)
  BY DEF Proper, Written
<1>2. CASE m = [l EXCEPT !.capitals = TRUE]
  <2>1. /\ m \in Written /\ m.host = l.host /\ m.path = l.path /\ m.slashes = l.slashes
        /\ m.ending = l.ending /\ m.userinfo = l.userinfo /\ m.query = l.query
        /\ m.scheme = l.scheme /\ m.port = l.port /\ m.opens = l.opens
    BY <1>1, <1>2 DEF Written
  <2>2. Proper(m)
    BY <1>1, <2>1 DEF Proper, Whole
  <2>3. /\ Generic(m).host = Generic(l).host /\ Generic(m).port = Generic(l).port
        /\ Generic(m).slashes = Generic(l).slashes
    BY <1>1, <2>1, GenericParts
  <2> QED BY <1>1, <2>1, <2>2, <2>3, SameKey
<1>3. CASE Head(l.host) # "www" /\ m = [l EXCEPT !.host = <<"www">> \o @]
  <2> DEFINE host == <<"www">> \o l.host
  <2>1. /\ host \in Seq(Texts) /\ Len(host) > 1 /\ Head(host) = "www" /\ Tail(host) = l.host
        /\ host # <<>>
    <3> DEFINE www == <<"www">>
    <3>1. www \in Seq(Texts) /\ Len(www) = 1 /\ www[1] = "www"
      BY DEF Texts
    <3> HIDE DEF www
    <3>2. Len(l.host) \in Nat /\ Len(l.host) > 0
      BY <1>1
    <3>3. /\ www \o l.host \in Seq(Texts) /\ Len(www \o l.host) = 1 + Len(l.host)
          /\ \A i \in 1 .. 1 + Len(l.host) :
               (www \o l.host)[i] = IF i <= 1 THEN www[i] ELSE l.host[i - 1]
      <4>1. /\ www \o l.host \in Seq(Texts) /\ Len(www \o l.host) = Len(www) + Len(l.host)
            /\ \A i \in 1 .. Len(www) + Len(l.host) :
                 (www \o l.host)[i] = IF i <= Len(www) THEN www[i] ELSE l.host[i - Len(www)]
        BY <1>1, <3>1, ConcatProperties
      <4> QED BY <3>1, <4>1
    <3> HIDE DEF host
    <3>4. /\ host \in Seq(Texts) /\ Len(host) = 1 + Len(l.host) /\ host[1] = "www"
          /\ \A i \in 1 .. Len(l.host) : host[i + 1] = l.host[i]
      BY <3>1, <3>2, <3>3 DEF host, www
    <3>5. host # <<>> /\ Len(host) > 1 /\ Head(host) = "www"
      BY <3>2, <3>4
    <3>6. /\ Tail(host) \in Seq(Texts) /\ Len(Tail(host)) = Len(l.host)
          /\ \A i \in 1 .. Len(l.host) : Tail(host)[i] = l.host[i]
      BY <3>2, <3>4, <3>5, HeadTailProperties
    <3>7. Tail(host) = l.host
      BY <1>1, <3>6, SeqEqual
    <3> QED BY <3>4, <3>5, <3>7
  <2>2. m = [l EXCEPT !.host = host]
    BY <1>3
  <2> HIDE DEF host
  <2>3. /\ m \in Written /\ m.host = host /\ m.path = l.path /\ m.slashes = l.slashes
        /\ m.ending = l.ending /\ m.userinfo = l.userinfo /\ m.query = l.query
        /\ m.scheme = l.scheme /\ m.port = l.port /\ m.opens = l.opens
    BY <1>1, <2>1, <2>2 DEF Written
  <2>4. Proper(m)
    BY <1>1, <2>1, <2>3 DEF Proper, Whole
  <2>5. Generic(m).host = l.host /\ Generic(l).host = l.host
    BY <1>1, <1>3, <2>1, <2>3, GenericParts
  <2>6. Generic(m).port = Generic(l).port /\ Generic(m).slashes = Generic(l).slashes
    BY <1>1, <2>3, GenericParts
  <2> QED BY <1>1, <2>3, <2>4, <2>5, <2>6, SameKey
<1>4. CASE l.port = "" /\ m = [l EXCEPT !.port = DefaultPort[l.scheme]]
  <2>1. DefaultPort[l.scheme] \in Texts
    <3>1. DefaultPort["http"] = "80" /\ DefaultPort["https"] = "443"
      BY DEF DefaultPort
    <3>2. "80" \in Texts /\ "443" \in Texts
      BY DEF Texts
    <3> QED BY <1>1, <3>1, <3>2
  <2>2. /\ m \in Written /\ m.host = l.host /\ m.path = l.path /\ m.slashes = l.slashes
        /\ m.ending = l.ending /\ m.userinfo = l.userinfo /\ m.query = l.query
        /\ m.scheme = l.scheme /\ m.port = DefaultPort[l.scheme] /\ m.opens = l.opens
    BY <1>1, <1>4, <2>1 DEF Written
  <2>3. Proper(m)
    BY <1>1, <2>2 DEF Proper, Whole
  <2>4. Generic(m).port = "" /\ Generic(l).port = ""
    BY <1>1, <1>4, <2>2, GenericParts
  <2>5. Generic(m).host = Generic(l).host /\ Generic(m).slashes = Generic(l).slashes
    BY <1>1, <2>2, GenericParts
  <2> QED BY <1>1, <2>2, <2>3, <2>4, <2>5, SameKey
<1>5. CASE m = [l EXCEPT !.query = Reverse(@)]
  <2>1. Reverse(l.query) \in Seq(Texts \X Texts)
    BY <1>1 DEF Reverse
  <2>2. /\ m \in Written /\ m.host = l.host /\ m.path = l.path /\ m.slashes = l.slashes
        /\ m.ending = l.ending /\ m.userinfo = l.userinfo /\ m.query = Reverse(l.query)
        /\ m.scheme = l.scheme /\ m.port = l.port /\ m.opens = l.opens
    BY <1>1, <1>5, <2>1 DEF Written
  <2>3. Proper(m)
    BY <1>1, <2>2 DEF Proper, Whole
  <2>4. /\ Generic(m).host = Generic(l).host /\ Generic(m).port = Generic(l).port
        /\ Generic(m).slashes = Generic(l).slashes
    BY <1>1, <2>2, GenericParts
  <2>5. NormalizedQuery(m.query, Known(l)) = NormalizedQuery(l.query, Known(l))
    BY <1>1, <2>2, OrderGoes
  <2> QED BY <1>1, <2>2, <2>3, <2>4, <2>5, SameKey
<1> QED BY <1>2, <1>3, <1>4, <1>5 DEF Rewritten

\* A link with another pair, which tracks where it leads, has the key it had.
LEMMA PairsKeep ==
  ASSUME NEW l, Proper(l), NEW name \in Texts, IsTracking(name, Known(l))
  PROVE  LET m == [l EXCEPT !.query = Append(@, <<name, "1">>)]
         IN  Proper(m) /\ Canonicalise(m) = Canonicalise(l)
<1> DEFINE pair == <<name, "1">>
           m == [l EXCEPT !.query = Append(l.query, pair)]
<1>1. /\ l \in Written /\ l.host # <<>> /\ l.slashes < 2 /\ l.query \in Seq(Texts \X Texts)
  BY DEF Proper, Written
<1>2. pair \in Texts \X Texts /\ pair[1] = name
  <2>1. name \in Texts /\ "1" \in Texts
    BY DEF Texts
  <2> QED BY <2>1
<1> HIDE DEF pair
<1>3. Append(l.query, pair) \in Seq(Texts \X Texts)
  BY <1>1, <1>2
<1>4. /\ m \in Written /\ m.host = l.host /\ m.path = l.path /\ m.slashes = l.slashes
      /\ m.ending = l.ending /\ m.userinfo = l.userinfo /\ m.query = Append(l.query, pair)
      /\ m.scheme = l.scheme /\ m.port = l.port /\ m.opens = l.opens
  BY <1>1, <1>3 DEF Written
<1> HIDE DEF m
<1>5. Proper(m)
  BY <1>1, <1>4 DEF Proper, Whole
<1>6. /\ Generic(m).host = Generic(l).host /\ Generic(m).port = Generic(l).port
      /\ Generic(m).slashes = Generic(l).slashes
  BY <1>1, <1>4, GenericParts
<1>7. NormalizedQuery(m.query, Known(l)) = NormalizedQuery(l.query, Known(l))
  BY <1>1, <1>2, <1>4, TrackingGoes
<1>8. Proper(m) /\ Canonicalise(m) = Canonicalise(l)
  BY <1>1, <1>4, <1>5, <1>6, <1>7, SameKey
<1> QED BY <1>8 DEF m, pair

\* A fragment, a slash at the end and a pair that tracks anywhere change nothing.
LEMMA ExtensionsKeep ==
  ASSUME NEW l, Proper(l), NEW m \in Extended(l)
  PROVE  Proper(m) /\ Canonicalise(m) = Canonicalise(l)
<1>1. /\ l \in Written /\ l.host # <<>> /\ l.slashes < 2 /\ l.slashes \in Nat
  BY DEF Proper, Written
<1>2. CASE m = [l EXCEPT !.fragment = TRUE]
  <2>1. /\ m \in Written /\ m.host = l.host /\ m.path = l.path /\ m.slashes = l.slashes
        /\ m.ending = l.ending /\ m.userinfo = l.userinfo /\ m.query = l.query
        /\ m.scheme = l.scheme /\ m.port = l.port /\ m.opens = l.opens
    BY <1>1, <1>2 DEF Written
  <2>2. Proper(m)
    BY <1>1, <2>1 DEF Proper, Whole
  <2>3. /\ Generic(m).host = Generic(l).host /\ Generic(m).port = Generic(l).port
        /\ Generic(m).slashes = Generic(l).slashes
    BY <1>1, <2>1, GenericParts
  <2> QED BY <1>1, <2>1, <2>2, <2>3, SameKey
<1>3. CASE m = [l EXCEPT !.slashes = 1]
  <2>1. /\ m \in Written /\ m.host = l.host /\ m.path = l.path /\ m.slashes = 1
        /\ m.ending = l.ending /\ m.userinfo = l.userinfo /\ m.query = l.query
        /\ m.scheme = l.scheme /\ m.port = l.port /\ m.opens = l.opens
    BY <1>1, <1>3 DEF Written
  <2>2. Proper(m)
    BY <1>1, <2>1 DEF Proper, Whole
  <2>3. Generic(m).host = Generic(l).host /\ Generic(m).port = Generic(l).port
    BY <1>1, <2>1, GenericParts
  <2>4. Generic(m).slashes = 0 /\ Generic(l).slashes = 0
    <3>1. l.slashes = 0 \/ l.slashes = 1
      BY <1>1
    <3>2. Generic(m).slashes = IF m.slashes > 0 THEN m.slashes - 1 ELSE 0
      BY <2>1, GenericParts
    <3>3. Generic(l).slashes = IF l.slashes > 0 THEN l.slashes - 1 ELSE 0
      BY <1>1, GenericParts
    <3> QED BY <2>1, <3>1, <3>2, <3>3
  <2> QED BY <1>1, <2>1, <2>2, <2>3, <2>4, SameKey
<1>4. CASE m \in WithPair(l, {"utm_source", "ex"})
  <2>1. PICK name \in {"utm_source", "ex"} : m = [l EXCEPT !.query = Append(@, <<name, "1">>)]
    BY <1>4 DEF WithPair
  <2>2. name \in TrackingAlways /\ name \in Texts
    BY DEF TrackingAlways, Texts
  <2>3. IsTracking(name, Known(l))
    BY <2>2 DEF IsTracking
  <2> QED BY <2>1, <2>2, <2>3, PairsKeep
<1> QED BY <1>2, <1>3, <1>4 DEF Extended

\* And on a host that is known its own tracking, and the scheme of a link in which
\* an id is read.
LEMMA KnownRewritesKeep ==
  ASSUME NEW l, Proper(l), Known(l), NEW m \in KnownRewritten(l)
  PROVE  Proper(m) /\ Canonicalise(m) = Canonicalise(l)
<1>1. /\ l \in Written /\ l.host # <<>> /\ l.slashes < 2
  BY DEF Proper, Written
<1>2. CASE m \in WithPair(l, {"t"})
  <2>1. m = [l EXCEPT !.query = Append(@, <<"t", "1">>)]
    BY <1>2 DEF WithPair
  <2>2. "t" \in TrackingKnownHost
    BY DEF TrackingKnownHost
  <2>3. IsTracking("t", Known(l))
    BY <2>2 DEF IsTracking
  <2>4. "t" \in Texts
    BY DEF Texts
  <2> QED BY <2>1, <2>3, <2>4, PairsKeep
<1>3. CASE m = [l EXCEPT !.scheme = "http", !.port = ""] /\ \E k \in Canonicalise(l) : k.source # "url"
  <2>1. /\ m \in Written /\ m.host = l.host /\ m.path = l.path /\ m.slashes = l.slashes
        /\ m.ending = l.ending /\ m.userinfo = l.userinfo /\ m.query = l.query
        /\ m.opens = l.opens
    <3>1. m = [l EXCEPT !.scheme = "http", !.port = ""]
      BY <1>3
    <3>2. "http" \in {"http", "https"} /\ "" \in Texts
      BY DEF Texts
    <3> QED BY <1>1, <3>1, <3>2 DEF Written
  <2>2. Proper(m)
    BY <1>1, <2>1 DEF Proper, Whole
  <2>3. Generic(m).host = Generic(l).host /\ Generic(m).slashes = Generic(l).slashes
    BY <1>1, <2>1, GenericParts
  <2> QED BY <1>1, <1>3, <2>1, <2>2, <2>3, SameKey
<1> QED BY <1>2, <1>3 DEF KnownRewritten

-----------------------------------------------------------------------------
\* What may stand behind a link that is not of it.
Marks == Sentence \cup Closers

\* What is cut off a text that a link stands in is all that is not its own.
LEMMA TailGoes ==
  ASSUME NEW opens \in Seq(Texts), NEW e \in Seq(Texts), NEW t \in Seq(Marks),
         e # <<>> => Stays(opens, e),
         \A c \in Closers : Times(opens, c) <= Times(e, c)
  PROVE  Trimmed(opens, e \o t) = e
<1> DEFINE S == Texts \cup Marks
           chars == e \o t
           Pre(n) == SubSeq(chars, 1, n)
           kept == {n \in DOMAIN chars : Stays(opens, Pre(n))}
<1>1. e \in Seq(S) /\ t \in Seq(S) /\ opens \in Seq(S)
  BY WiderSeq
<1>2. /\ chars \in Seq(S) /\ Len(chars) = Len(e) + Len(t)
      /\ \A i \in 1 .. Len(e) + Len(t) : chars[i] = IF i <= Len(e) THEN e[i] ELSE t[i - Len(e)]
  BY <1>1, ConcatProperties
<1>3. Len(e) \in Nat /\ Len(t) \in Nat /\ DOMAIN chars = 1 .. Len(e) + Len(t)
  BY <1>1, <1>2
<1> HIDE DEF chars, S
<1>4. ASSUME NEW n \in 0 .. Len(e) + Len(t)
      PROVE  /\ Pre(n) \in Seq(S) /\ Len(Pre(n)) = n
             /\ \A i \in 1 .. n : Pre(n)[i] = chars[i]
  BY <1>2, <1>3, SubSeqProperties
<1>5. Pre(Len(e)) = e
  <2>1. /\ Pre(Len(e)) \in Seq(S) /\ Len(Pre(Len(e))) = Len(e)
        /\ \A i \in 1 .. Len(e) : Pre(Len(e))[i] = e[i]
    BY <1>2, <1>3, <1>4
  <2> QED BY <1>1, <2>1, SeqEqual
<1> HIDE DEF Pre
<1>6. ASSUME NEW n \in DOMAIN chars, n > Len(e) PROVE ~Stays(opens, Pre(n))
  <2>1. /\ n \in 0 .. Len(e) + Len(t) /\ n - Len(e) \in 1 .. Len(t) /\ n \in Nat /\ n > 0
        /\ n \in 1 .. Len(e) + Len(t)
    BY <1>3, <1>6
  <2>2. Pre(n) \in Seq(S) /\ Len(Pre(n)) = n /\ \A i \in 1 .. n : Pre(n)[i] = chars[i]
    BY <1>4, <2>1
  <2> DEFINE c == Last(Pre(n))
  <2>3. c = t[n - Len(e)]
    <3>1. c = Pre(n)[n] /\ Pre(n)[n] = chars[n]
      BY <2>1, <2>2 DEF Last
    <3> QED BY <1>2, <1>6, <2>1, <3>1
  <2>4. c \in Marks
    BY <2>1, <2>3
  <2> HIDE DEF c
  <2>5. CASE c \in Sentence
    BY <2>5 DEF Stays, c
  <2>6. CASE c \in Closers
    <3> DEFINE A == {k \in DOMAIN e : e[k] = c}
               B == {k \in DOMAIN Pre(n) : Pre(n)[k] = c}
    <3>1. IsFiniteSet(A) /\ IsFiniteSet(B) /\ Times(e, c) = Cardinality(A)
          /\ Times(Pre(n), c) = Cardinality(B)
      BY <1>1, <2>2, TimesCounts DEF Times
    <3>2. A \cup {n} \subseteq B
      <4>1. \A k \in DOMAIN e : k \in 1 .. n /\ Pre(n)[k] = e[k]
        BY <1>1, <1>2, <1>3, <2>1, <2>2, <1>6
      <4>2. Pre(n)[n] = c /\ DOMAIN Pre(n) = 1 .. n
        BY <1>2, <1>6, <2>1, <2>2, <2>3
      <4> QED BY <2>1, <4>1, <4>2
    <3>3. n \notin A
      BY <1>1, <1>3, <1>6
    <3> HIDE DEF A, B
    <3>4. Cardinality(A \cup {n}) = Cardinality(A) + 1 /\ IsFiniteSet(A \cup {n})
      BY <3>1, <3>3, FS_AddElement
    <3>5. Cardinality(A \cup {n}) <= Cardinality(B)
      BY <3>1, <3>2, FS_Subset
    <3>6. Times(opens, c) \in Nat /\ Cardinality(A) \in Nat /\ Cardinality(B) \in Nat
      BY <1>1, <3>1, TimesCounts, FS_CardinalityType
    <3>7. Times(opens, c) <= Cardinality(A)
      BY <2>6, <3>1
    <3>8. ~(Times(opens, c) >= Times(Pre(n), c))
      BY <3>1, <3>4, <3>5, <3>6, <3>7
    <3> QED BY <2>6, <3>8 DEF Stays, c
  <2> QED BY <2>4, <2>5, <2>6 DEF Marks
<1>7. Trimmed(opens, chars)
        = Pre(IF kept = {} THEN 0 ELSE CHOOSE n \in kept : \A k \in kept : k <= n)
  BY DEF Trimmed, Pre
<1>8. CASE e = <<>>
  <2>1. Len(e) = 0
    BY <1>8
  <2>2. kept = {}
    BY <1>3, <1>6, <2>1
  <2> QED BY <1>5, <1>7, <2>1, <2>2 DEF chars
<1>9. CASE e # <<>>
  <2>1. Len(e) \in kept
    BY <1>1, <1>3, <1>5, <1>9
  <2>2. \A k \in kept : k <= Len(e) /\ k \in Nat
    BY <1>3, <1>6
  <2> HIDE DEF kept
  <2>3. (CHOOSE n \in kept : \A k \in kept : k <= n) = Len(e)
    BY <2>1, <2>2
  <2> QED BY <1>5, <1>7, <2>1, <2>3 DEF chars
<1> QED BY <1>8, <1>9

\* A link that stands in a text once or twice is taken out of it once, as it is.
LEMMA TakenOutOnce ==
  ASSUME NEW l, Proper(l), NEW t \in Seq(Marks), NEW copies \in 1 .. 2
  PROVE  Extracted([n \in 1 .. copies |-> [link |-> l, tail |-> IF n = 1 THEN t ELSE <<>>]])
           = [n \in 1 .. 1 |-> l]
<1> DEFINE text == [n \in 1 .. copies |-> [link |-> l, tail |-> IF n = 1 THEN t ELSE <<>>]]
           read == [n \in DOMAIN text |->
                      [text[n].link EXCEPT
                         !.ending = Trimmed(text[n].link.opens, @ \o text[n].tail)]]
           Fresh == {n \in DOMAIN read : /\ read[n].scheme \in {"http", "https"}
                                         /\ \A k \in 1 .. n - 1 : read[k] # read[n]}
<1>1. /\ l \in Written /\ l.opens \in Seq(Texts) /\ l.ending \in Seq(Texts)
      /\ l.scheme \in {"http", "https"}
  BY DEF Proper, Written
<1>2. DOMAIN text = 1 .. copies /\ DOMAIN read = 1 .. copies /\ 1 \in 1 .. copies
  OBVIOUS
<1>3. ASSUME NEW n \in 1 .. copies PROVE read[n] = l
  <2>1. text[n].link = l /\ text[n].tail \in Seq(Marks)
    <3> DEFINE end == IF n = 1 THEN t ELSE <<>>
    <3>1. end \in Seq(Marks)
      OBVIOUS
    <3>2. text[n] = [link |-> l, tail |-> end]
      OBVIOUS
    <3> HIDE DEF end, text
    <3> QED BY <3>1, <3>2
  <2>2. Trimmed(l.opens, l.ending \o text[n].tail) = l.ending
    BY <1>1, <2>1, TailGoes DEF Proper, Whole
  <2>3. read[n] = [l EXCEPT !.ending = l.ending]
    BY <1>2, <2>1, <2>2
  <2> QED BY <1>1, <2>3 DEF Written
<1> HIDE DEF read
<1>4. Fresh = {1}
  BY <1>1, <1>2, <1>3
<1>5. Extracted(text) = [n \in 1 .. Cardinality(Fresh) |->
                           read[CHOOSE k \in Fresh : Cardinality({j \in Fresh : j <= k}) = n]]
  BY DEF Extracted, read
<1> HIDE DEF Fresh, text
<1>6. Cardinality(Fresh) = 1
  BY <1>4, FS_Singleton
<1>7. ASSUME NEW n \in 1 .. 1
      PROVE  read[CHOOSE k \in Fresh : Cardinality({j \in Fresh : j <= k}) = n] = l
  <2>1. {j \in Fresh : j <= 1} = {1} /\ n = 1
    BY <1>4
  <2>2. Cardinality({j \in Fresh : j <= 1}) = n
    BY <2>1, FS_Singleton
  <2>3. (CHOOSE k \in Fresh : Cardinality({j \in Fresh : j <= k}) = n) = 1
    BY <1>4, <2>2
  <2> QED BY <1>2, <1>3, <2>3
<1> QED BY <1>5, <1>6, <1>7 DEF text

\* What a message offers: the link first and nothing else that is one.
LEMMA OfferedFirst ==
  ASSUME NEW l, Proper(l), NEW t \in Seq(Marks), NEW copies \in 1 .. 2,
         NEW attachments \in 0 .. MaxAttachments,
         offered' = Offered([n \in 1 .. copies |->
                               [link |-> l, tail |-> IF n = 1 THEN t ELSE <<>>]], attachments)
  PROVE  /\ Len(offered') \in Nat \ {0} /\ DOMAIN offered' = 1 .. Len(offered')
         /\ offered' # <<>>
         /\ "url" \in DOMAIN offered'[1] /\ offered'[1].url = l
         /\ \A n \in DOMAIN offered' : n > 1 => "url" \notin DOMAIN offered'[n]
<1> DEFINE text == [n \in 1 .. copies |-> [link |-> l, tail |-> IF n = 1 THEN t ELSE <<>>]]
           one == [n \in 1 .. 1 |-> [url |-> l]]
           rest == [n \in 1 .. attachments |-> [attachment |-> n]]
           S == {[url |-> l]} \cup {[attachment |-> n] : n \in Nat}
           all == one \o rest
           most == IF Len(all) < MaxCandidates THEN Len(all) ELSE MaxCandidates
<1>1. Extracted(text) = [n \in 1 .. 1 |-> l]
  BY TakenOutOnce
<1>2. [n \in DOMAIN Extracted(text) |-> [url |-> Extracted(text)[n]]] = one
  <2> HIDE DEF text
  <2> QED BY <1>1
<1>3. Offered(text, attachments) = SubSeq(all, 1, most)
  <2> HIDE DEF text
  <2> QED BY <1>2 DEF Offered
<1>4. offered' = SubSeq(all, 1, most)
  BY <1>3
<1> HIDE DEF text
<1>5. attachments \in Nat /\ MaxCandidates \in Nat \ {0}
  BY CandidatesAssumption
<1>6. one \in Seq(S) /\ Len(one) = 1 /\ one[1] = [url |-> l]
  OBVIOUS
<1>7. rest \in Seq(S) /\ Len(rest) = attachments /\ \A n \in 1 .. attachments : rest[n] = [attachment |-> n]
  <2>1. \A n \in 1 .. attachments : [attachment |-> n] \in S
    <3> DEFINE R == {[attachment |-> n] : n \in Nat}
    <3>1. \A n \in 1 .. attachments : n \in Nat
      BY <1>5
    <3>2. \A n \in Nat : [attachment |-> n] \in R
      OBVIOUS
    <3>3. R \subseteq S
      OBVIOUS
    <3> HIDE DEF R, S
    <3> QED BY <3>1, <3>2, <3>3
  <2>2. DOMAIN rest = 1 .. attachments /\ \A n \in 1 .. attachments : rest[n] = [attachment |-> n]
    OBVIOUS
  <2> HIDE DEF S
  <2>3. rest \in [1 .. attachments -> S]
    BY <2>1
  <2>4. rest \in Seq(S)
    BY <1>5, <2>3
  <2>5. Len(rest) = attachments
    BY <1>5, <2>2, <2>4
  <2> QED BY <2>2, <2>4, <2>5
<1> HIDE DEF one, rest, S
<1>8. /\ all \in Seq(S) /\ Len(all) = 1 + attachments
      /\ \A i \in 1 .. 1 + attachments : all[i] = IF i <= 1 THEN one[i] ELSE rest[i - 1]
  <2>1. /\ all \in Seq(S) /\ Len(all) = Len(one) + Len(rest)
        /\ \A i \in 1 .. Len(one) + Len(rest) :
             all[i] = IF i <= Len(one) THEN one[i] ELSE rest[i - Len(one)]
    BY <1>6, <1>7, ConcatProperties
  <2> QED BY <1>6, <1>7, <2>1
<1> HIDE DEF all
<1>9. most \in Nat /\ most > 0 /\ most <= 1 + attachments
  BY <1>5, <1>8
<1> HIDE DEF most
<1>10. \A i \in 1 .. most : all[i] \in S
  BY <1>5, <1>8, <1>9
<1>11. /\ offered' \in Seq(S) /\ Len(offered') = most
       /\ \A i \in 1 .. most : offered'[i] = all[i]
  <2>1. 1 \in Int /\ most \in Int
    BY <1>9
  <2>2. /\ SubSeq(all, 1, most) \in Seq(S)
        /\ Len(SubSeq(all, 1, most)) = IF 1 <= most THEN most - 1 + 1 ELSE 0
        /\ \A i \in 1 .. most - 1 + 1 : SubSeq(all, 1, most)[i] = all[1 + i - 1]
    BY <1>10, <2>1, SubSeqProperties
  <2>3. /\ offered' \in Seq(S)
        /\ Len(offered') = IF 1 <= most THEN most - 1 + 1 ELSE 0
        /\ \A i \in 1 .. most - 1 + 1 : offered'[i] = all[1 + i - 1]
    BY <1>4, <2>2
  <2> QED BY <1>9, <2>3
<1>12. DOMAIN offered' = 1 .. most
  BY <1>11
<1>13. offered'[1] = [url |-> l]
  <2>1. 1 \in 1 .. most /\ 1 \in 1 .. 1 + attachments
    BY <1>5, <1>9
  <2>2. offered'[1] = all[1]
    BY <1>11, <2>1
  <2>3. all[1] = one[1]
    BY <1>8, <2>1
  <2> QED BY <1>6, <2>2, <2>3
<1>14. ASSUME NEW n \in 1 .. most, n > 1 PROVE "url" \notin DOMAIN offered'[n]
  <2>1. offered'[n] = rest[n - 1] /\ n - 1 \in 1 .. attachments
    <3>1. /\ n \in 1 .. 1 + attachments /\ ~(n <= 1) /\ n - 1 \in 1 .. attachments
      BY <1>5, <1>9, <1>14
    <3>2. all[n] = rest[n - 1]
      BY <1>8, <3>1
    <3> QED BY <1>11, <3>1, <3>2
  <2>2. offered'[n] = [attachment |-> n - 1]
    BY <1>7, <2>1
  <2> QED BY <2>2
<1>15. Len(offered') \in Nat \ {0} /\ offered' # <<>>
  BY <1>9, <1>11
<1>16. "url" \in DOMAIN offered'[1] /\ offered'[1].url = l
  BY <1>13
<1> QED BY <1>11, <1>12, <1>14, <1>15, <1>16

-----------------------------------------------------------------------------
\* How the link stands: written some way that its page goes by, with what the
\* message is about to end in, offered once, and looked up as what it is.
LinkInv ==
  /\ page \in Pages /\ Proper(link) /\ Canonicalise(link) = KeysOf[page]
  /\ tail \in Seq(Marks)
  /\ offered # Unposted =>
       /\ Len(offered) \in Nat /\ DOMAIN offered = 1 .. Len(offered)
       /\ "url" \in DOMAIN offered[1] /\ offered[1].url = link
       /\ \A n \in DOMAIN offered : n > 1 => "url" \notin DOMAIN offered[n]
  /\ keys \in Seq({Canonicalise(link), {}}) /\ Len(keys) <= Len(offered)
  /\ offered = Unposted => keys = <<>>
  /\ keys # <<>> => keys[1] = Canonicalise(link)

\* A page has the key of any of the links it is known by.
LEMMA KeyOfPage ==
  ASSUME NEW p \in Pages, NEW l \in Forms[p]
  PROVE  /\ KeysOf[p] = Canonicalise(l) /\ Proper(l)
         /\ KeysOf[p] = {} <=> p \in Unindexed
         /\ \A q \in Pages \ {p} : KeysOf[q] \cap KeysOf[p] = {}
<1>1. ASSUME NEW q \in Pages, NEW m \in Forms[q] PROVE KeysOf[q] = Canonicalise(m)
  <2>1. \A k \in Forms[q] : Canonicalise(k) = Canonicalise(m)
    BY <1>1, FormsAssumption
  <2>2. KeysOf[q] = UNION {Canonicalise(k) : k \in Forms[q]}
    BY DEF KeysOf
  <2> QED BY <1>1, <2>1, <2>2
<1>2. Proper(l)
  BY FormsAssumption, LinksAreWritten DEF Proper
<1>3. ASSUME NEW q \in Pages \ {p} PROVE KeysOf[q] \cap KeysOf[p] = {}
  <2>1. PICK m \in Forms[q] : TRUE
    BY FormsAssumption
  <2>2. Canonicalise(m) \cap Canonicalise(l) = {}
    BY FormsAssumption
  <2> QED BY <1>1, <2>1, <2>2
<1> QED BY <1>1, <1>2, <1>3, FormsAssumption

\* The invariant holds of a link before anybody shared it.
LEMMA LinkInitHolds == LinkInit => LinkInv
<1> SUFFICES ASSUME LinkInit PROVE LinkInv
  OBVIOUS
<1>1. page \in Pages /\ link \in Forms[page] /\ tail = <<>> /\ offered = Unposted /\ keys = <<>>
  BY DEF LinkInit
<1>2. KeysOf[page] = Canonicalise(link) /\ Proper(link)
  BY <1>1, KeyOfPage
<1>3. /\ tail \in Seq(Marks) /\ keys \in Seq({Canonicalise(link), {}})
      /\ Len(keys) <= Len(offered)
  BY <1>1 DEF Unposted
<1> QED BY <1>1, <1>2, <1>3 DEF LinkInv

\* Whoever writes the link another way leaves its page its key.
LEMMA RewriteKeeps == LinkInv /\ Rewrite => LinkInv'
<1> SUFFICES ASSUME LinkInv, Rewrite PROVE LinkInv'
  OBVIOUS
<1>1. /\ offered = Unposted /\ tail = <<>> /\ UNCHANGED <<page, tail, offered, keys>>
      /\ \/ link' \in Rewritten(link)
         \/ link' \in Extended(link)
         \/ Known(link) /\ link' \in KnownRewritten(link)
  BY DEF Rewrite
<1>2. Proper(link) /\ page \in Pages /\ Canonicalise(link) = KeysOf[page] /\ keys = <<>>
  BY <1>1 DEF LinkInv
<1>3. Proper(link') /\ Canonicalise(link') = Canonicalise(link)
  BY <1>1, <1>2, RewritesKeep, ExtensionsKeep, KnownRewritesKeep
<1>4. KeysOf' = KeysOf
  BY DEF KeysOf
<1>5. /\ tail' \in Seq(Marks) /\ keys' \in Seq({Canonicalise(link'), {}})
      /\ Len(keys') <= Len(offered')
  BY <1>1, <1>2 DEF Unposted
<1> QED BY <1>1, <1>2, <1>3, <1>4, <1>5 DEF LinkInv, Unposted

\* What it closes with is no part of it.
LEMMA PunctuateKeeps == LinkInv /\ Punctuate => LinkInv'
<1> SUFFICES ASSUME LinkInv, Punctuate PROVE LinkInv'
  OBVIOUS
<1>1. /\ offered = Unposted /\ UNCHANGED <<page, link, offered, keys>>
      /\ tail' \in {<<".">>, <<")">>, <<")", ".">>, <<"!", ")">>, <<"]", ",">>}
  BY DEF Punctuate
<1>2. {".", ")", "!", "]", ","} \subseteq Marks
  BY DEF Marks, Sentence, Closers
<1>3. \A a, b \in Marks : <<a>> \in Seq(Marks) /\ <<a, b>> \in Seq(Marks)
  OBVIOUS
<1>4. tail' \in Seq(Marks)
  BY <1>1, <1>2, <1>3
<1>5. KeysOf' = KeysOf
  BY DEF KeysOf
<1> QED BY <1>1, <1>4, <1>5 DEF LinkInv, Unposted

\* A message offers it first.
LEMMA PostKeepsLink == LinkInv /\ PostLink => LinkInv'
<1> SUFFICES ASSUME LinkInv, PostLink PROVE LinkInv'
  OBVIOUS
<1>1. /\ offered = Unposted /\ UNCHANGED <<page, link, tail, keys>>
      /\ \E copies \in 1 .. 2, attachments \in 0 .. MaxAttachments :
           offered' = Offered([n \in 1 .. copies |->
                                 [link |-> link, tail |-> IF n = 1 THEN tail ELSE <<>>]],
                              attachments)
  BY DEF PostLink
<1>2. Proper(link) /\ tail \in Seq(Marks) /\ keys = <<>>
  BY <1>1 DEF LinkInv
<1>3. /\ Len(offered') \in Nat /\ Len(offered') > 0 /\ DOMAIN offered' = 1 .. Len(offered')
      /\ "url" \in DOMAIN offered'[1] /\ offered'[1].url = link
      /\ \A n \in DOMAIN offered' : n > 1 => "url" \notin DOMAIN offered'[n]
      /\ offered' # <<>>
  <2>1. PICK copies \in 1 .. 2, attachments \in 0 .. MaxAttachments :
          offered' = Offered([n \in 1 .. copies |->
                                [link |-> link, tail |-> IF n = 1 THEN tail ELSE <<>>]],
                             attachments)
    BY <1>1
  <2>2. /\ Len(offered') \in Nat \ {0} /\ DOMAIN offered' = 1 .. Len(offered')
        /\ offered' # <<>>
        /\ "url" \in DOMAIN offered'[1] /\ offered'[1].url = link
        /\ \A n \in DOMAIN offered' : n > 1 => "url" \notin DOMAIN offered'[n]
    BY <1>2, <2>1, OfferedFirst
  <2> QED BY <2>2
<1>4. keys' = <<>> /\ Len(keys') <= Len(offered')
  BY <1>1, <1>2, <1>3
<1>5. KeysOf' = KeysOf
  BY DEF KeysOf
<1> QED BY <1>1, <1>3, <1>4, <1>5 DEF LinkInv, Unposted

\* And the server looks it up as its page, and nothing else as a link.
LEMMA IdentifyKeeps == LinkInv /\ Identify => LinkInv'
<1> SUFFICES ASSUME LinkInv, Identify PROVE LinkInv'
  OBVIOUS
<1> DEFINE candidate == offered[Len(keys) + 1]
           key == IF "url" \in DOMAIN candidate THEN Canonicalise(candidate.url) ELSE {}
           S == {Canonicalise(link), {}}
<1>1. /\ offered # Unposted /\ Len(keys) < Len(offered)
      /\ UNCHANGED <<page, link, tail, offered>>
  BY DEF Identify
<1>2. keys' = Append(keys, key)
  BY DEF Identify
<1>3. /\ Len(offered) \in Nat /\ DOMAIN offered = 1 .. Len(offered)
      /\ "url" \in DOMAIN offered[1] /\ offered[1].url = link
      /\ \A n \in DOMAIN offered : n > 1 => "url" \notin DOMAIN offered[n]
      /\ keys \in Seq(S) /\ Len(keys) \in Nat
      /\ keys # <<>> => keys[1] = Canonicalise(link)
  BY <1>1 DEF LinkInv
<1>4. key \in S /\ (Len(keys) = 0 => key = Canonicalise(link))
  <2>1. CASE Len(keys) = 0
    BY <1>3, <2>1
  <2>2. CASE Len(keys) # 0
    <3>1. Len(keys) + 1 \in DOMAIN offered /\ Len(keys) + 1 > 1
      BY <1>1, <1>3, <2>2
    <3>2. "url" \notin DOMAIN candidate
      BY <1>3, <3>1
    <3> QED BY <2>2, <3>2
  <2> QED BY <2>1, <2>2
<1> HIDE DEF key, S
<1>5. /\ keys' \in Seq(S) /\ Len(keys') = Len(keys) + 1 /\ keys' # <<>>
      /\ keys'[Len(keys) + 1] = key
      /\ \A n \in 1 .. Len(keys) : keys'[n] = keys[n]
  BY <1>2, <1>3, <1>4
<1>6. keys'[1] = Canonicalise(link)
  <2>1. CASE Len(keys) = 0
    BY <1>4, <1>5, <2>1
  <2>2. CASE Len(keys) # 0
    <3>1. keys # <<>> /\ 1 \in 1 .. Len(keys)
      BY <1>3, <2>2
    <3> QED BY <1>3, <1>5, <3>1
  <2> QED BY <2>1, <2>2
<1>7. Len(keys') <= Len(offered')
  BY <1>1, <1>3, <1>5
<1>8. KeysOf' = KeysOf
  BY DEF KeysOf
<1>9. page \in Pages /\ Proper(link) /\ Canonicalise(link) = KeysOf[page] /\ tail \in Seq(Marks)
  BY DEF LinkInv
<1> QED BY <1>1, <1>3, <1>5, <1>6, <1>7, <1>8, <1>9 DEF LinkInv, S

\* It can be taken out and shared again.
LEMMA ReshareKeeps == LinkInv /\ Reshare => LinkInv'
<1> SUFFICES ASSUME LinkInv, Reshare PROVE LinkInv'
  OBVIOUS
<1>1. offered' = Unposted /\ keys' = <<>> /\ tail' = <<>> /\ UNCHANGED <<page, link>>
  BY DEF Reshare
<1>2. KeysOf' = KeysOf
  BY DEF KeysOf
<1>3. keys' \in Seq({Canonicalise(link), {}}) /\ Len(keys') <= Len(offered') /\ tail' \in Seq(Marks)
  BY <1>1 DEF Unposted
<1> QED BY <1>1, <1>2, <1>3 DEF LinkInv

\* The invariant holds throughout.
LEMMA LinkInvariant == LinkSpec => []LinkInv
<1>1. LinkInv /\ UNCHANGED linkVars => LinkInv'
  BY DEF LinkInv, linkVars, KeysOf
<1>2. LinkInv /\ [LinkNext]_linkVars => LinkInv'
  BY <1>1, RewriteKeeps, PunctuateKeeps, PostKeepsLink, IdentifyKeeps, ReshareKeeps DEF LinkNext
<1> QED BY <1>2, LinkInitHolds, PTL DEF LinkSpec

-----------------------------------------------------------------------------
\* A host is of one rule at most.
LEMMA OneRule ==
  ASSUME NEW host, NEW r \in RulesOf(host), NEW s \in RulesOf(host)
  PROVE  r = s
<1>1. CASE {x \in DOMAIN SourceHosts : host \in SourceHosts[x]} = {}
  BY <1>1 DEF RulesOf
<1>2. CASE {x \in DOMAIN SourceHosts : host \in SourceHosts[x]} # {}
  <2>1. /\ r \in DOMAIN SourceHosts /\ host \in SourceHosts[r]
        /\ s \in DOMAIN SourceHosts /\ host \in SourceHosts[s]
    BY <1>2 DEF RulesOf
  <2> DEFINE names == {"youtube", "youtu_be", "twitter", "reddit", "redd_it", "twitch", "clips",
                       "tiktok", "vm_tiktok", "instagram", "bluesky"}
  <2>2. DOMAIN SourceHosts = names
    BY DEF SourceHosts
  <2>3. ASSUME NEW x \in names, host \in SourceHosts[x]
        PROVE  /\ x = "youtube" => host \in {<<"youtube", "com">>, <<"m", "youtube", "com">>,
                     <<"music", "youtube", "com">>, <<"youtube-nocookie", "com">>}
               /\ x = "youtu_be" => host = <<"youtu", "be">>
               /\ x = "twitter" => \E h \in {"twitter", "x", "fxtwitter", "vxtwitter",
                                             "fixupx", "twittpr"} : host = <<h, "com">>
               /\ x = "reddit" => host \in {<<"reddit", "com">>, <<"old", "reddit", "com">>,
                     <<"new", "reddit", "com">>, <<"np", "reddit", "com">>}
               /\ x = "redd_it" => host \in {<<"redd", "it">>, <<"i", "redd", "it">>,
                                             <<"v", "redd", "it">>}
               /\ x = "twitch" => host = <<"twitch", "tv">>
               /\ x = "clips" => host = <<"clips", "twitch", "tv">>
               /\ x = "tiktok" => host = <<"tiktok", "com">>
               /\ x = "vm_tiktok" => host \in {<<"vm", "tiktok", "com">>, <<"vt", "tiktok", "com">>}
               /\ x = "instagram" => host \in {<<"instagram", "com">>, <<"ddinstagram", "com">>}
               /\ x = "bluesky" => host = <<"bsky", "app">>
    BY <2>3 DEF SourceHosts, Under
  <2>4. ASSUME NEW x \in names, host \in SourceHosts[x]
        PROVE  /\ x = "youtube" => host[1] \in {"youtube", "youtube-nocookie"} \/ host[2] = "youtube"
               /\ x = "youtu_be" => host[1] = "youtu"
               /\ x = "twitter" => host[1] \in {"twitter", "x", "fxtwitter", "vxtwitter",
                                                "fixupx", "twittpr"} /\ host[2] = "com"
               /\ x = "reddit" => host[1] = "reddit" \/ host[2] = "reddit"
               /\ x = "redd_it" => host[1] = "redd" \/ host[2] = "redd"
               /\ x = "twitch" => host[1] = "twitch"
               /\ x = "clips" => host[1] = "clips"
               /\ x = "tiktok" => host[1] = "tiktok"
               /\ x = "vm_tiktok" => host[2] = "tiktok"
               /\ x = "instagram" => host[1] \in {"instagram", "ddinstagram"}
               /\ x = "bluesky" => host[1] = "bsky"
    BY <2>3, <2>4
  <2> QED BY <2>1, <2>2, <2>3, <2>4
<1> QED BY <1>1, <1>2

\* So a link has one key at most.
LEMMA OneKey == \A l : Cardinality(Canonicalise(l)) <= 1
<1> SUFFICES ASSUME NEW l PROVE Cardinality(Canonicalise(l)) <= 1
  OBVIOUS
<1>1. \A host, path, pairs, ending :
        \A i, j \in Identities(host, path, pairs, ending) : i = j
  <2> SUFFICES ASSUME NEW host, NEW path, NEW pairs, NEW ending,
                      NEW i \in Identities(host, path, pairs, ending),
                      NEW j \in Identities(host, path, pairs, ending)
               PROVE  i = j
    OBVIOUS
  <2>1. PICK r \in RulesOf(host) :
          i = [source |-> SourceOf(r), id |-> ExtractedID(r, path, pairs) \o ending]
    BY DEF Identities
  <2>2. PICK s \in RulesOf(host) :
          j = [source |-> SourceOf(s), id |-> ExtractedID(s, path, pairs) \o ending]
    BY DEF Identities
  <2>3. r = s
    BY OneRule
  <2> QED BY <2>1, <2>2, <2>3
<1>2. \A i, j \in Canonicalise(l) : i = j
  BY <1>1 DEF Canonicalise
<1>3. CASE Canonicalise(l) = {}
  BY <1>3, FS_EmptySet
<1>4. CASE Canonicalise(l) # {}
  <2>1. PICK k \in Canonicalise(l) : TRUE
    BY <1>4
  <2>2. Canonicalise(l) = {k}
    BY <1>2, <2>1
  <2> QED BY <2>2, FS_Singleton
<1> QED BY <1>3, <1>4

\* For any pages and any links they are first known by: however a link of theirs is
\* written, punctuated and shared again, a message offers it once, and it has one key
\* at most, which is its page's and no other's.
THEOREM IdentityCorrect == LinkSpec => []OneIdentity
<1>1. LinkInv => OneIdentity
  <2> SUFFICES ASSUME LinkInv PROVE OneIdentity
    OBVIOUS
  <2> DEFINE linked == {n \in DOMAIN keys : "url" \in DOMAIN offered[n]}
  <2>1. PICK l \in Forms[page] : TRUE
    BY FormsAssumption DEF LinkInv
  <2>2. /\ KeysOf[page] = {} <=> page \in Unindexed
        /\ \A q \in Pages \ {page} : KeysOf[q] \cap KeysOf[page] = {}
    BY <2>1, KeyOfPage DEF LinkInv
  <2> SUFFICES ASSUME NEW n \in linked
               PROVE  /\ keys[n] = KeysOf[page]
                      /\ Cardinality(keys[n]) <= 1
                      /\ keys[n] = {} <=> page \in Unindexed
                      /\ \A q \in Pages \ {page} : KeysOf[q] \cap keys[n] = {}
                      /\ linked = {n}
    BY DEF OneIdentity
  <2>3. /\ keys \in Seq({Canonicalise(link), {}}) /\ Len(keys) \in Nat
        /\ DOMAIN keys = 1 .. Len(keys) /\ keys # <<>> /\ 1 \in DOMAIN keys
    BY DEF LinkInv
  <2>4. offered # Unposted
    BY <2>3 DEF LinkInv
  <2>5. /\ Len(offered) \in Nat /\ DOMAIN offered = 1 .. Len(offered) /\ Len(keys) <= Len(offered)
        /\ "url" \in DOMAIN offered[1]
        /\ \A k \in DOMAIN offered : k > 1 => "url" \notin DOMAIN offered[k]
    BY <2>4 DEF LinkInv
  <2>6. linked = {1}
    BY <2>3, <2>5
  <2>7. keys[1] = Canonicalise(link) /\ Canonicalise(link) = KeysOf[page]
    BY <2>3 DEF LinkInv
  <2> HIDE DEF linked
  <2>8. n = 1
    BY <2>6
  <2> QED BY <2>2, <2>6, <2>7, <2>8, OneKey
<1> QED BY <1>1, LinkInvariant, PTL
=============================================================================
