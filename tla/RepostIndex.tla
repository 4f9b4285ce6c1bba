---------------------------- MODULE RepostIndex ----------------------------
(***************************************************************************)
(* Repost detection: the Discord client offers the links and attachments   *)
(* of every message, and of every edit, to CheckRepost, which looks each   *)
(* one up in the index of its guild and remembers it; the hourly sweep     *)
(* drops what the guild no longer keeps.                                   *)
(*                                                                         *)
(* The lookups and the insert of one candidate are separate statements,    *)
(* and the checks of several messages run side by side.                    *)
(***************************************************************************)
EXTENDS Perceptual, Sequences

CONSTANTS
  Messages,
  Instances,      \* guilds
  Posts,          \* what a message may be: author, instance and candidates
  Excluded,       \* pages on an excluded host, or deep links of the platform
  PHash,          \* perceptual hash of an attachment, None when it has none
  None,
  MaxChecks,      \* maxConcurrentRepostAttempts
  Tolerance,      \* postedAtTolerance
  Claims,         \* how far from the clock a message may claim to be posted
  RetentionDays,  \* per instance: the column, None for NULL
  BatchLimit,     \* entries one sweep drops of an instance
  MaxEdits,       \* bound: messages that are edited
  MaxTime         \* bound: the last instant the clock reaches

ASSUME RepostAssumption ==
  /\ MaxChecks \in Nat \ {0} /\ BatchLimit \in Nat \ {0}
  /\ Tolerance \in Nat /\ Claims \subseteq Int /\ MaxTime \in Nat
  /\ \A x \in Posts : x.instance \in Instances
  /\ IsFiniteSet(Instances)
  /\ RetentionDays \in [Instances -> Int \cup {None}]

VARIABLES
  msg,      \* the messages of the platform: who posted what where
  check,    \* goroutines inside attemptRepost, one per message and edit
  entries,  \* repost_entry, each row with its repost_fingerprint
  sweep,    \* the cron goroutine, inside sweepRepostEntries
  now       \* the clock, in days

vars == <<msg, check, entries, sweep, now>>

-----------------------------------------------------------------------------
(* Candidates.  A link is the page it leads to and the form it is written  *)
(* in: host spelling, tracking parameters, fragment.  An attachment is its *)
(* bytes.                                                                  *)

IsLink(x) == "page" \in DOMAIN x

Candidates == {x.items : x \in Posts}

Items == UNION {{s[n] : n \in 1 .. Len(s)} : s \in Candidates}

\* Canonicalise gives every form of a page one source_key; ContentHash.
IdentityOf(x) == IF IsLink(x) THEN <<x.page>> ELSE <<x.bytes>>

Fingerprint(x) == IF IsLink(x) THEN None ELSE PHash[x.bytes]

Kinds == {"create", "update"}
Procs == Messages \X Kinds

Idle == [pc |-> "none", todo |-> <<>>, posted |-> 0, phash |-> None,
         found |-> None, failed |-> FALSE, before |-> {}, at |-> 0]

Resting == [pc |-> "idle", todo |-> <<>>, at |-> 0]

\* id is history: the message and the position of the candidate in it; so are
\* item and checked, the instant its check began.
Entry == [id : Messages \X Nat, item : Items, author : {x.author : x \in Posts},
          instance : Instances, key : {IdentityOf(x) : x \in Items},
          phash : Hash \cup {None}, posted : Int, checked : Nat]

Check == [pc : {"none", "next", "hash", "insert", "done"}, todo : Seq(Items),
          posted : Int, phash : Hash \cup {None}, found : Entry \cup {None},
          failed : BOOLEAN, before : SUBSET Entry, at : Nat]

\* What a message offers is a sequence; a link is not taken for bytes, because
\* pages and contents are looked up in columns of their own.
ASSUME ItemsAssumption ==
  /\ None \notin Posts /\ None \notin Entry /\ \A h \in Hash : h # None
  /\ Candidates \subseteq Seq(Items)
  /\ \A x \in Items : Fingerprint(x) \in Hash \cup {None}
  /\ \A x, y \in Items : IsLink(x) /\ ~IsLink(y) => x.page # y.bytes

\* The guilds the sweep goes through.
Retaining == {i \in Instances : RetentionDays[i] # None}

\* The list comes in no particular order.
Orders(S) == {s \in [1 .. Cardinality(S) -> S] : \A a, b \in DOMAIN s : s[a] = s[b] => a = b}

TypeOK ==
  /\ msg \in [Messages -> Posts \cup {None}]
  /\ check \in [Procs -> Check]
  /\ \A p \in Procs :
       /\ check[p].found # None => check[p].pc = "insert"
       /\ check[p].pc \in {"hash", "insert"} => check[p].todo # <<>>
  /\ entries \subseteq Entry
  /\ sweep \in [pc : {"idle", "list"}, todo : Seq(Retaining), at : Nat]
  /\ now \in Nat

Init ==
  /\ msg = [m \in Messages |-> None]
  /\ check = [p \in Procs |-> Idle]
  /\ entries = {}
  /\ sweep = Resting
  /\ now = 0

Running == {p \in Procs : check[p].pc \in {"next", "hash", "insert"}}

-----------------------------------------------------------------------------
(* attemptRepost and CheckRepost.                                          *)

\* clampPostedAt
PostedAt(claim) ==
  IF -Tolerance <= claim /\ claim <= Tolerance THEN now + claim ELSE now

\* The check takes a slot, or is dropped because all are taken.
Begin(p, items) ==
  \/ /\ Cardinality(Running) < MaxChecks
     /\ \E claim \in Claims :
          check' = [check EXCEPT ![p] = [Idle EXCEPT !.pc = "next", !.todo = items,
                                       !.posted = PostedAt(claim), !.at = now]]
  \/ /\ Cardinality(Running) >= MaxChecks
     /\ check' = [check EXCEPT ![p].pc = "done"]

Post(m) ==
  /\ msg[m] = None
  /\ \E x \in Posts :
       /\ msg' = [msg EXCEPT ![m] = x]
       /\ Begin(<<m, "create">>, x.items)
  /\ UNCHANGED <<entries, sweep, now>>

\* An edit may bring other candidates, and may overtake the check of its
\* message.
Edit(m) ==
  /\ msg[m] # None
  /\ check[<<m, "update">>].pc = "none"
  /\ Cardinality({n \in Messages : check[<<n, "update">>].pc # "none"}) < MaxEdits
  /\ \E s \in Candidates : Begin(<<m, "update">>, s)
  /\ UNCHANGED <<msg, entries, sweep, now>>

Author(p)   == msg[p[1]].author
Instance(p) == msg[p[1]].instance
Item(p)     == Head(check[p].todo)
Position(p) == Len(msg[p[1]].items) - Len(check[p].todo) + 1

\* An excluded link, or an attachment whose download failed, has no identity.
Skip(p) ==
  /\ check[p].pc = "next"
  /\ check[p].todo # <<>>
  /\ IsLink(Item(p)) => Item(p).page \in Excluded
  /\ check' = [check EXCEPT ![p].todo = Tail(@)]
  /\ UNCHANGED <<msg, entries, sweep, now>>

Others(p) == {e \in entries : e.instance = Instance(p) /\ e.author # Author(p)}

Oldest(S) == {e \in S : \A f \in S : e.posted <= f.posted}

Exact(p) == {e \in Others(p) : e.key = IdentityOf(Item(p))}

\* By source_key or by content_hash.  Only an attachment nobody else posted
\* goes on to its fingerprint.
MatchExact(p) ==
  /\ check[p].pc = "next"
  /\ check[p].todo # <<>>
  /\ IsLink(Item(p)) => Item(p).page \notin Excluded
  /\ \/ \E e \in Oldest(Exact(p)) :
          check' = [check EXCEPT ![p].pc = "insert", ![p].found = e]
     \/ /\ Exact(p) = {}
        /\ check' = [check EXCEPT
             ![p].pc = IF Fingerprint(Item(p)) = None THEN "insert" ELSE "hash",
             ![p].before = entries]
     \/ check' = [check EXCEPT ![p].pc = "insert", ![p].failed = TRUE]
  /\ UNCHANGED <<msg, entries, sweep, now>>

Near(p) ==
  LET h == Fingerprint(Item(p)) IN
  {e \in Others(p) : /\ e.phash # None
                     /\ SharesChunk(e.phash, h)
                     /\ Distance(e.phash, h) <= Probable}

Closest(S, h) == {e \in S : \A f \in S : Distance(e.phash, h) <= Distance(f.phash, h)}

\* By fingerprint: the closest one, the oldest among ties.
MatchPerceptual(p) ==
  /\ check[p].pc = "hash"
  /\ LET h == Fingerprint(Item(p))
         hit == Oldest(Closest(Near(p), h))
         found(e) == IF Grade(Distance(e.phash, h)) = "UNSPECIFIED" THEN None ELSE e
     IN \/ \E e \in hit :
             check' = [check EXCEPT ![p].pc = "insert", ![p].phash = h,
                                    ![p].found = found(e)]
        \/ /\ hit = {}
           /\ check' = [check EXCEPT ![p].pc = "insert", ![p].phash = h]
        \/ check' = [check EXCEPT ![p].pc = "insert", ![p].phash = h,
                                  ![p].failed = TRUE]
  /\ UNCHANGED <<msg, entries, sweep, now>>

Row(p) == [id |-> <<p[1], Position(p)>>, item |-> Item(p), author |-> Author(p),
           instance |-> Instance(p), key |-> IdentityOf(Item(p)),
           phash |-> check[p].phash, posted |-> check[p].posted, checked |-> check[p].at]

Answered(p) ==
  [check EXCEPT ![p].pc = "next", ![p].todo = Tail(@), ![p].phash = None,
                ![p].found = None, ![p].failed = FALSE, ![p].before = {}]

\* CreateRepostEntry writes row and fingerprint in one transaction, or fails
\* and is logged; an edit writes nothing.
Index(p) ==
  /\ check[p].pc = "insert"
  /\ \/ p[2] = "create" /\ entries' = entries \cup {Row(p)}
     \/ UNCHANGED entries
  /\ check' = Answered(p)
  /\ UNCHANGED <<msg, sweep, now>>

\* All candidates are answered, or the deadline cut the rest off.
Finish(p) ==
  /\ check[p].pc = "next"
  /\ check' = [check EXCEPT ![p] = [Idle EXCEPT !.pc = "done"]]
  /\ UNCHANGED <<msg, entries, sweep, now>>

-----------------------------------------------------------------------------
(* sweepRepostEntries, on the hour.                                        *)

StartSweep ==
  /\ sweep.pc = "idle"
  /\ \E s \in Orders(Retaining) :
       sweep' = [pc |-> "list", todo |-> s, at |-> now]
  /\ UNCHANGED <<msg, check, entries, now>>

\* Mutant of Past: a retention of 0 days is taken at its word.
PastUnguarded(i) == {e \in entries : e.instance = i /\ e.posted < sweep.at - RetentionDays[i]}

\* What is past its window; an instance that keeps 0 days, or less, keeps
\* everything.
Past(i) ==
  {e \in entries : /\ RetentionDays[i] > 0
                   /\ e.instance = i
                   /\ e.posted < sweep.at - RetentionDays[i]}

\* The oldest ones, at most a batch.
DeleteBefore(i) ==
  /\ sweep.pc = "list"
  /\ sweep.todo # <<>> /\ i = Head(sweep.todo)
  /\ \E S \in SUBSET Past(i) :
       /\ Cardinality(S) = IF Cardinality(Past(i)) < BatchLimit
                           THEN Cardinality(Past(i)) ELSE BatchLimit
       /\ \A e \in S, f \in Past(i) \ S : e.posted <= f.posted
       /\ entries' = entries \ S
  /\ sweep' = [sweep EXCEPT !.todo = Tail(@)]
  /\ UNCHANGED <<msg, check, now>>

\* Mutant of DeleteFails: a failing instance aborts the rest.
DeleteFailsAbort(i) ==
  /\ sweep.pc = "list"
  /\ sweep.todo # <<>> /\ i = Head(sweep.todo)
  /\ RetentionDays[i] > 0
  /\ sweep' = [sweep EXCEPT !.todo = <<>>]
  /\ UNCHANGED <<msg, check, entries, now>>

DeleteFails(i) ==
  /\ sweep.pc = "list"
  /\ sweep.todo # <<>> /\ i = Head(sweep.todo)
  /\ RetentionDays[i] > 0
  /\ sweep' = [sweep EXCEPT !.todo = Tail(@)]
  /\ UNCHANGED <<msg, check, entries, now>>

EndSweep ==
  /\ sweep.pc = "list"
  /\ sweep.todo = <<>>
  /\ sweep' = Resting
  /\ UNCHANGED <<msg, check, entries, now>>

\* The server shuts down between two instances; the next one starts over.
CancelSweep ==
  /\ sweep.pc = "list"
  /\ sweep.todo # <<>>
  /\ sweep' = Resting
  /\ UNCHANGED <<msg, check, entries, now>>

Tick ==
  /\ now < MaxTime
  /\ now' = now + 1
  /\ UNCHANGED <<msg, check, entries, sweep>>

Next ==
  \/ \E m \in Messages : Post(m) \/ Edit(m)
  \/ \E p \in Procs : Skip(p) \/ MatchExact(p) \/ MatchPerceptual(p) \/ Index(p)
                      \/ Finish(p)
  \/ StartSweep \/ EndSweep \/ CancelSweep \/ Tick
  \/ \E i \in Instances : DeleteBefore(i) \/ DeleteFails(i)

Spec == Init /\ [][Next]_vars

\* The cron loop comes round every hour and goes through the list, whatever
\* its deletes do; the server is not shut down for ever.
Fairness ==
  /\ WF_vars(Tick)
  /\ WF_vars(StartSweep)
  /\ WF_vars(EndSweep)
  /\ WF_vars(\E i \in Instances : DeleteBefore(i) \/ DeleteFails(i))
  /\ <>[][~CancelSweep]_vars

FairSpec == Spec /\ Fairness
-----------------------------------------------------------------------------
(* Properties.                                                             *)

\* What a reader would call the same post, told from the items alone: e was
\* indexed with a fingerprint or not, as its own check left it.
Same(e, x) ==
  \/ IsLink(x) /\ IsLink(e.item) /\ e.item.page = x.page
  \/ ~IsLink(x) /\ ~IsLink(e.item) /\ e.item.bytes = x.bytes
  \/ /\ e.phash # None
     /\ Fingerprint(x) # None
     /\ Distance(e.phash, Fingerprint(x)) <= Probable

\* A candidate that was looked up without an error and is about to be indexed
\* as new: no entry of another author in the guild, indexed before the check
\* of the candidate began and still there, is the same post.
Missed(p) ==
  /\ check[p].pc = "insert" /\ ~check[p].failed /\ check[p].found = None
  /\ \E e \in check[p].before \cap entries :
       /\ e.instance = Instance(p)
       /\ e.author # Author(p)
       /\ Same(e, Item(p))

\* A match that names the caller's own post, one of another guild, or one that is
\* not the same.
Unjust(p) ==
  /\ check[p].found # None
  /\ \/ check[p].found.author = Author(p)
     \/ check[p].found.instance # Instance(p)
     \/ ~Same(check[p].found, Item(p))

\* What was indexed before is found, and what is found is a post of somebody
\* else in the guild that is the same: a message is never a repost of itself or
\* of its edits.  The chunk columns, the clamp of the tiers, the exclusion of the
\* author's own entries and the two stages of the lookup all stand between an
\* entry and its match.
FlaggedIffIndexed == \A p \in Procs : ~Missed(p) /\ ~Unjust(p)

\* The sweep takes an entry no sooner than its guild's retention after it was
\* posted, less the tolerance on the time its message claims, and never takes
\* one of a guild that keeps 0 days.
SweptOnlyWhenPast ==
  [][\A e \in entries \ entries' :
        /\ RetentionDays[e.instance] > 0
        /\ now - e.checked > RetentionDays[e.instance] - Tolerance]_vars

PastWindow(i) ==
  {e \in entries : /\ e.instance = i
                   /\ RetentionDays[i] \in Nat \ {0}
                   /\ e.posted < now - RetentionDays[i]}

\* Whatever is past its window is swept in the end, however small the batch,
\* if only the deletes of its own guild do not fail for ever: those of another
\* may.
PastEntriesGo ==
  \A i \in Instances : SF_vars(DeleteBefore(i)) => []<>(PastWindow(i) = {})
=============================================================================
