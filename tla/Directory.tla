------------------------------ MODULE Directory ------------------------------
(***************************************************************************)
(* Who calls and from where: the registration of a platform identity, the  *)
(* caller the clearance interceptor resolves, the rows of the guild and    *)
(* channel a call came from, and the cache that spares writing them again. *)
(*                                                                         *)
(* A channel is a destination and its guild an instance: both rows are     *)
(* written by one transaction (GetOrCreateDestinationByMeta).              *)
(***************************************************************************)
EXTENDS Integers, FiniteSets

CONSTANTS
  Registrations,  \* calls of Register, each with the account it may make
  Visits,         \* other calls
  Uid,            \* the platform identity of a registration or a visit
  Origin,         \* the channel a visit comes from; None in a direct message
  Target,         \* the channel its request names
  Guild,          \* the guild of a channel
  Imported,       \* the accounts an import may make
  None,
  Import,         \* the import, where a transaction is named
  MaxKnown,       \* originCacheMaxEntries
  EvictDivisor    \* originCacheEvictDivisor

ASSUME CallsAssumption == Registrations \cap Imported = {}
ASSUME CacheAssumption == MaxKnown \in Nat \ {0} /\ EvictDivisor \in Nat \ {0}
ASSUME NamesAssumption == /\ None \notin Registrations \cup Imported \cup {Import}
                          /\ Import \notin Registrations

Uids == {Uid[v] : v \in Registrations \cup Visits}

Channels == UNION {{Origin[v], Target[v]} : v \in Visits} \ {None}

\* The rows of a channel.
Place(channel) == {Guild[channel], channel}

Places == UNION {Place(channel) : channel \in Channels}

Accounts == Registrations \cup Imported

VARIABLES
  register,  \* where each registration is
  account,   \* user_account: its committed rows
  identity,  \* platform_user: the account of an identity
  pending,   \* the transaction that has inserted an identity and is open
  visit,     \* where each visit is
  caller,    \* the account it was resolved to
  place,     \* the committed rows of instance and destination
  locked,    \* those an open transaction of the import has written
  known      \* originCache.seen

directoryVars == <<register, account, identity, pending, visit, caller, place,
                   locked, known>>
registerVars  == <<register, account, identity, pending>>
visitVars     == <<visit, caller, place, known>>

-----------------------------------------------------------------------------
DirectoryTypeOK ==
  /\ register \in [Registrations -> {"new", "held", "ok", "exists"}]
  /\ account \in SUBSET Accounts
  /\ identity \in [Uids -> Accounts \cup {None}]
  /\ pending \in [Uids -> Registrations \cup {Import, None}]
  /\ visit \in [Visits -> {"new", "unseen", "written", "passed", "placed"}]
  /\ caller \in [Visits -> Accounts \cup {None}]
  /\ place \in SUBSET Places
  /\ locked \in SUBSET Places
  /\ known \in SUBSET Channels

DirectoryInit ==
  /\ register = [r \in Registrations |-> "new"]
  /\ account = {}
  /\ identity = [u \in Uids |-> None]
  /\ pending = [u \in Uids |-> None]
  /\ visit = [v \in Visits |-> "new"]
  /\ caller = [v \in Visits |-> None]
  /\ place = {}
  /\ locked = {}
  /\ known = {}

-----------------------------------------------------------------------------
(* Register.                                                               *)

\* The account and the identity, in one transaction.  The insert of the identity
\* waits for another that is open, and does nothing when there is one already:
\* then the account is rolled back.
InsertUser(r) ==
  /\ register[r] = "new"
  /\ pending[Uid[r]] = None
  /\ IF identity[Uid[r]] # None
       THEN register' = [register EXCEPT ![r] = "exists"] /\ UNCHANGED pending
       ELSE /\ register' = [register EXCEPT ![r] = "held"]
            /\ pending' = [pending EXCEPT ![Uid[r]] = r]
  /\ UNCHANGED <<account, identity, visitVars, locked>>

\* The answer may be lost when the commit was not; the client then registers
\* again, as it does on every reconnect.
CommitUser(r) ==
  /\ register[r] = "held"
  /\ account' = account \cup {r}
  /\ identity' = [identity EXCEPT ![Uid[r]] = r]
  /\ pending' = [pending EXCEPT ![Uid[r]] = None]
  /\ \E answer \in {"ok", "new"} : register' = [register EXCEPT ![r] = answer]
  /\ UNCHANGED <<visitVars, locked>>

FailUser(r) ==
  /\ register[r] = "held"
  /\ register' = [register EXCEPT ![r] = "new"]
  /\ pending' = [pending EXCEPT ![Uid[r]] = None]
  /\ UNCHANGED <<account, identity, visitVars, locked>>

-----------------------------------------------------------------------------
(* The interceptors, and the destination a handler writes.                 *)

Reach(v, at) == visit' = [visit EXCEPT ![v] = at]

\* A caller nobody registered is refused, and nothing is written for it.
Arrive(v) ==
  /\ visit[v] = "new"
  /\ identity[Uid[v]] # None
  /\ caller' = [caller EXCEPT ![v] = identity[Uid[v]]]
  /\ Reach(v, IF Origin[v] \in known \cup {None} THEN "passed" ELSE "unseen")
  /\ UNCHANGED <<registerVars, place, locked, known>>

\* Both upserts wait for a transaction that has written the same rows.
Bootstrap(v) ==
  /\ visit[v] = "unseen"
  /\ Place(Origin[v]) \cap locked = {}
  /\ place' = place \cup Place(Origin[v])
  /\ Reach(v, "written")
  /\ UNCHANGED <<registerVars, caller, locked, known>>

\* Mutant of BootstrapFails: the place is remembered all the same.
BootstrapFailsKnown(v) ==
  /\ visit[v] = "unseen"
  /\ \/ UNCHANGED place
     \/ Place(Origin[v]) \cap locked = {} /\ place' = place \cup Place(Origin[v])
  /\ Reach(v, "written")
  /\ UNCHANGED <<registerVars, caller, locked, known>>

\* The call goes on without.  The commit may have happened all the same.
BootstrapFails(v) ==
  /\ visit[v] = "unseen"
  /\ \/ UNCHANGED place
     \/ Place(Origin[v]) \cap locked = {} /\ place' = place \cup Place(Origin[v])
  /\ Reach(v, "passed")
  /\ UNCHANGED <<registerVars, caller, locked, known>>

\* A full cache drops some of its entries, whichever they are.
Evicted(seen) ==
  LET share == Cardinality(seen) \div EvictDivisor
      gone  == IF share = 0 THEN 1 ELSE share
  IN {kept \in SUBSET seen : Cardinality(kept) = Cardinality(seen) - gone}

Remember(v) ==
  /\ visit[v] = "written"
  /\ \E kept \in IF Cardinality(known) >= MaxKnown THEN Evicted(known) ELSE {known} :
       known' = kept \cup {Origin[v]}
  /\ Reach(v, "passed")
  /\ UNCHANGED <<registerVars, caller, place, locked>>

\* CreateReminder resolves its destination in a transaction of its own first.
Resolve(v) ==
  /\ visit[v] = "passed"
  /\ Place(Target[v]) \cap locked = {}
  /\ place' = place \cup Place(Target[v])
  /\ Reach(v, "placed")
  /\ UNCHANGED <<registerVars, caller, locked, known>>

\* The call has failed; its user may try again.
ResolveFails(v) ==
  /\ visit[v] = "passed"
  /\ \/ UNCHANGED place
     \/ Place(Target[v]) \cap locked = {} /\ place' = place \cup Place(Target[v])
  /\ Reach(v, "new")
  /\ UNCHANGED <<registerVars, caller, locked, known>>

DirectoryNext ==
  \/ \E r \in Registrations : InsertUser(r) \/ CommitUser(r) \/ FailUser(r)
  \/ \E v \in Visits : \/ Arrive(v) \/ Bootstrap(v) \/ BootstrapFails(v)
                       \/ Remember(v) \/ Resolve(v) \/ ResolveFails(v)

DirectorySpec == DirectoryInit /\ [][DirectoryNext]_directoryVars

-----------------------------------------------------------------------------
\* The cache never says of a place that its rows are there when they are not,
\* and never outgrows its limit: whatever calls overlap, fail or lose an answer.
CacheIsTrue ==
  /\ UNION {Place(channel) : channel \in known} \subseteq place
  /\ Cardinality(known) <= MaxKnown

=============================================================================
