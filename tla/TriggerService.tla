---------------------------- MODULE TriggerService ----------------------------
(***************************************************************************)
(* The handlers of the trigger service that users call by name: create,    *)
(* update, delete, get, list, execute, statistics, and the file behind a   *)
(* trigger.  Each is a few statements on the database with nothing that    *)
(* holds the rows between them, so calls interleave at every statement,    *)
(* and any statement may fail.                                             *)
(*                                                                         *)
(* The fetch of a file is in TriggerFiles, invalidation in TriggerCache    *)
(* and the handler of ordinary messages in TriggerPlayback.                *)
(***************************************************************************)
EXTENDS Integers, FiniteSets

CONSTANTS
  Calls,
  Asked,       \* what the calls may ask: functions from Calls to requests
  Ids,         \* the triggers there may be; numbers, for uuids are ordered
  Table,       \* the rows there are to begin with
  Users,
  Moderators,  \* those with the clearance that regular expressions need
  Guilds,
  Phrases,
  Compiles,    \* the phrases and modes trigger.Compile accepts
  Files,
  Instants,    \* creation times
  Limit,       \* rows to a page
  Nil

Modes == {"any", "exact", "regex"}

Omitted(S) == S \cup {Nil}

\* A request; a field a call has no use for is Nil.  ref: the trigger is named
\* by its short number.  reply: FALSE for an empty one.
Request ==
  [op : {"create", "update", "delete", "get", "list", "exec", "stats", "file"},
   user : Users, origin : Omitted(Guilds), guild : Omitted(Guilds),
   id : Omitted(Ids), ref : BOOLEAN, mine : BOOLEAN,
   phrase : Omitted(Phrases), mode : Omitted(Modes),
   reply : Omitted(BOOLEAN), file : Omitted(Files)]

Row == [phrase : Phrases, mode : Modes, reply : BOOLEAN, file : Omitted(Files),
        owner : Users, scope : SUBSET Guilds, created : Instants, live : BOOLEAN,
        version : Nat]

\* What CreateTrigger and UpdateTrigger let a user store.
Valid(phrase, mode, user) ==
  /\ <<phrase, mode>> \in Compiles
  /\ mode = "regex" => user \in Moderators

ASSUME ServiceAssumption ==
  /\ Asked \subseteq [Calls -> Request]
  /\ Ids \subseteq Nat /\ Instants \subseteq Nat /\ Limit \in Nat \ {0}
  /\ Compiles \subseteq Phrases \X Modes
  /\ Nil \notin Guilds /\ Nil \notin Phrases /\ Nil \notin Modes /\ Nil \notin Files
  /\ Nil \notin Row
  /\ Table \in [Ids -> Omitted(Row)]
  /\ \A t \in Ids : Table[t] # Nil =>
                      Valid(Table[t].phrase, Table[t].mode, Table[t].owner)

ASSUME TableAssumption == IsFiniteSet(Ids)

\* The statements of a handler, in order.
After ==
  [create |-> [new |-> "origin", origin |-> "insert", insert |-> "done"],
   update |-> [new |-> "resolve", resolve |-> "read", read |-> "scope",
               scope |-> "write", write |-> "done"],
   delete |-> [new |-> "resolve", resolve |-> "scope", scope |-> "remove",
               remove |-> "done"],
   get    |-> [new |-> "resolve", resolve |-> "read", read |-> "scope",
               scope |-> "origin", origin |-> "show", show |-> "done"],
   exec   |-> [new |-> "origin", origin |-> "resolve", resolve |-> "read",
               read |-> "scope", scope |-> "play", play |-> "record",
               record |-> "done"],
   list   |-> [new |-> "origin", origin |-> "page", page |-> "dress",
               dress |-> "done"],
   stats  |-> [new |-> "origin", origin |-> "count", count |-> "done"],
   file   |-> [new |-> "find", find |-> "origin", origin |-> "visible",
               visible |-> "stream", stream |-> "done"]]

Steps == {"new", "origin", "insert", "resolve", "read", "scope", "write", "remove",
          "show", "play", "record", "page", "dress", "count", "find", "visible",
          "stream", "done", "failed"}

VARIABLES
  asked,    \* the requests
  at,       \* per call: the statement it comes to next
  found,    \* per call: the row it read
  from,     \* per call: the instance its origin was resolved to
  offset,   \* per call: where its next page starts
  page,     \* per call: the rows of the page it dresses
  trigger,  \* the trigger table, with trigger_instance
  fires,    \* action_record: the fires of a trigger
  \* History, not in the program:
  told,     \* per call: what its answer shows
  could,    \* per call: what its user might see at some instant since it began
  raced,    \* triggers updated under a call that had read another phrase or mode
  walk      \* per listing: the rows when it began, those gone since, its filter

serviceVars == <<asked, at, found, from, offset, page, trigger, fires, told,
                 could, raced, walk>>

-----------------------------------------------------------------------------
Op(c) == asked[c].op

Go(c) == at' = [at EXCEPT ![c] = After[Op(c)][@]]

\* An error, of the request or of the database, ends the call.
Refuse(c) == at' = [at EXCEPT ![c] = "failed"]

\* GetTrigger reads no row that is deleted.
Live(t) == t # Nil /\ trigger[t] # Nil /\ trigger[t].live

\* What a call may show: a trigger of its user or of the guild it comes from,
\* to be played only that of the guild, and the files of either.
Sees(c, r) ==
  /\ r # Nil /\ r.live
  /\ \/ asked[c].origin \in r.scope
     \/ Op(c) # "exec" /\ asked[c].user = r.owner

Seen(c, table) ==
  LET S == {t \in Ids : Sees(c, table[t])} IN
    {<<t, table[t].version>> : t \in S} \cup {<<table[t].file>> : t \in S}

ServiceTypeOK ==
  /\ asked \in [Calls -> Request]
  /\ at \in [Calls -> Steps]
  /\ found \in [Calls -> Omitted(Row)]
  /\ from \in [Calls -> Omitted(Guilds)]
  /\ offset \in [Calls -> Nat]
  /\ page \in [Calls -> SUBSET (Ids \X Nat)]
  /\ trigger \in [Ids -> Omitted(Row)]
  /\ fires \in [Ids -> Nat]
  /\ raced \subseteq Ids

ServiceInit ==
  /\ asked \in Asked
  /\ at = [c \in Calls |-> "new"]
  /\ found = [c \in Calls |-> Nil]
  /\ from = [c \in Calls |-> Nil]
  /\ offset = [c \in Calls |-> 0]
  /\ page = [c \in Calls |-> {}]
  /\ trigger = Table
  /\ fires = [t \in Ids |-> 0]
  /\ told = [c \in Calls |-> {}]
  /\ could = [c \in Calls |-> {}]
  /\ raced = {}
  /\ walk = [c \in Calls |-> [start |-> {}, left |-> {}, steady |-> TRUE]]

-----------------------------------------------------------------------------
(* Steps that handlers share.                                              *)

\* The fields of a create are checked before anything else is done.
WellFormed(q) ==
  q.op = "create" =>
    /\ q.phrase # Nil
    /\ q.reply = TRUE \/ q.file # Nil
    /\ Valid(q.phrase, IF q.mode = Nil THEN "any" ELSE q.mode, q.user)

Begin(c) ==
  /\ at[c] = "new"
  /\ IF WellFormed(asked[c]) THEN Go(c) ELSE Refuse(c)
  /\ could' = [could EXCEPT ![c] = Seen(c, trigger)]
  /\ UNCHANGED <<asked, found, from, offset, page, trigger, fires, told, raced, walk>>

\* Any statement may fail.  A write whose answer is lost is the step itself; a
\* lookup of the origin and a record of a fire have failures of their own.
Fail(c) ==
  /\ at[c] \notin {"new", "origin", "record", "done", "failed"}
  /\ Refuse(c)
  /\ UNCHANGED <<asked, found, from, offset, page, trigger, fires, told, could,
                 raced, walk>>

\* callerOriginInstanceID: nothing for a direct message, or for a statement that
\* fails.  callerScopedInstance needs an origin, and no other guild named;
\* the others go on without one, and GetTrigger asks only for those who do not
\* own the trigger.
Origin(c) ==
  /\ at[c] = "origin"
  /\ \E g \in {asked[c].origin, Nil} :
       /\ from' = [from EXCEPT ![c] = g]
       /\ LET scoped  == g # Nil /\ asked[c].guild \in {Nil, g}
              visible == found[c].owner = asked[c].user \/ g \in found[c].scope
              passes  == IF Op(c) = "get" THEN visible
                         ELSE Op(c) \in {"create", "exec", "stats"} => scoped
          IN IF passes THEN Go(c) ELSE Refuse(c)
  /\ UNCHANGED <<asked, found, offset, page, trigger, fires, told, could, raced, walk>>

\* resolveTriggerID: a short number must be that of a live row; an id is taken
\* as it is.
ResolveTrigger(c) ==
  /\ at[c] = "resolve"
  /\ IF asked[c].ref /\ ~Live(asked[c].id) THEN Refuse(c) ELSE Go(c)
  /\ UNCHANGED <<asked, found, from, offset, page, trigger, fires, told, could,
                 raced, walk>>

\* What an update makes of a row.
Merged(r, q) ==
  [r EXCEPT !.phrase = IF q.phrase = Nil THEN @ ELSE q.phrase,
            !.mode = IF q.mode = Nil THEN @ ELSE q.mode,
            !.reply = IF q.reply = Nil THEN @ ELSE q.reply,
            !.file = IF q.file = Nil THEN @ ELSE q.file,
            !.version = @ + 1]

\* Mutant of Permits: the changed field is validated alone.
PermitsField(q, r) ==
  /\ r.owner = q.user
  /\ q.mode # Nil => Valid(Merged(r, q).phrase, Merged(r, q).mode, q.user)

\* UpdateTrigger's checks: the caller owns the row, and the phrase and mode that
\* would be stored go together, if either changes.
Permits(q, r) ==
  /\ r.owner = q.user
  /\ (q.phrase # Nil \/ q.mode # Nil) =>
       Valid(Merged(r, q).phrase, Merged(r, q).mode, q.user)

ReadRow(c) ==
  LET t == asked[c].id IN
  /\ at[c] = "read"
  /\ IF Live(t) /\ (Op(c) = "update" => Permits(asked[c], trigger[t]))
       THEN found' = [found EXCEPT ![c] = trigger[t]] /\ Go(c)
       ELSE Refuse(c) /\ UNCHANGED found
  /\ UNCHANGED <<asked, from, offset, page, trigger, fires, told, could, raced, walk>>

\* ListTriggerInstanceIDs; the rows of a scope are never changed.
ReadTriggerScope(c) ==
  /\ at[c] = "scope"
  /\ IF Op(c) = "exec" /\ from[c] \notin found[c].scope THEN Refuse(c) ELSE Go(c)
  /\ UNCHANGED <<asked, found, from, offset, page, trigger, fires, told, could,
                 raced, walk>>

\* Mutant of Listed: without a guild, everything is listed.
ListedAnywhere(c) ==
  {t \in Ids : /\ Live(t)
               /\ asked[c].mine => trigger[t].owner = asked[c].user
               /\ from[c] # Nil => from[c] \in trigger[t].scope}

\* The filter of ListTriggers: those of the guild, or else of the user.
Listed(c) ==
  {t \in Ids : /\ Live(t)
               /\ (asked[c].mine \/ from[c] = Nil) => trigger[t].owner = asked[c].user
               /\ from[c] # Nil => from[c] \in trigger[t].scope}

-----------------------------------------------------------------------------
(* Writes.                                                                 *)

\* uq_trigger_exact_phrase and chk_reply_or_file.
Storable(t, r) ==
  /\ r.reply \/ r.file # Nil
  /\ r.mode = "exact" =>
       \A s \in Ids \ {t} :
         ~(Live(s) /\ trigger[s].mode = "exact" /\ trigger[s].phrase = r.phrase)

Begun(c) == at[c] \notin {"new", "done", "failed"}

\* A committed write, and what the calls then running might see of it.
Store(t, r) ==
  LET table == [trigger EXCEPT ![t] = r] IN
  /\ trigger' = table
  /\ could' = [c \in Calls |-> IF Begun(c) THEN could[c] \cup Seen(c, table)
                               ELSE could[c]]
  /\ walk' = [c \in Calls |->
                IF ~r.live /\ t \in Listed(c)
                  THEN [walk[c] EXCEPT !.left = @ \cup {t}] ELSE walk[c]]

\* created_at is the instant the transaction began, which rows committed since
\* may have passed.
InsertTrigger(c) ==
  /\ at[c] = "insert"
  /\ LET q == asked[c] IN
     \E t \in {s \in Ids : trigger[s] = Nil}, when \in Instants :
       LET r == [phrase |-> q.phrase, mode |-> IF q.mode = Nil THEN "any" ELSE q.mode,
                 reply |-> q.reply = TRUE, file |-> q.file, owner |-> q.user,
                 scope |-> {from[c]}, created |-> when, live |-> TRUE, version |-> 0]
       IN IF Storable(t, r)
            THEN Store(t, r) /\ Go(c)
            ELSE Refuse(c) /\ UNCHANGED <<trigger, could, walk>>
  /\ UNCHANGED <<asked, found, from, offset, page, fires, told, raced>>

\* UpdateTriggerByUser: each field on its own, over whatever the row is by now.
WriteTrigger(c) ==
  LET t == asked[c].id
      r == trigger[t]
      s == Merged(r, asked[c])
  IN
  /\ at[c] = "write"
  /\ IF Live(t) /\ r.owner = asked[c].user /\ Storable(t, s)
       THEN /\ Store(t, s)
            /\ raced' = IF <<r.phrase, r.mode>> = <<found[c].phrase, found[c].mode>>
                          THEN raced ELSE raced \cup {t}
            /\ Go(c)
       ELSE Refuse(c) /\ UNCHANGED <<trigger, could, walk, raced>>
  /\ UNCHANGED <<asked, found, from, offset, page, fires, told>>

\* SoftDeleteTriggerByUser
RemoveTrigger(c) ==
  LET t == asked[c].id IN
  /\ at[c] = "remove"
  /\ IF Live(t) /\ trigger[t].owner = asked[c].user
       THEN Store(t, [trigger[t] EXCEPT !.live = FALSE]) /\ Go(c)
       ELSE Refuse(c) /\ UNCHANGED <<trigger, could, walk>>
  /\ UNCHANGED <<asked, found, from, offset, page, fires, told, raced>>

-----------------------------------------------------------------------------
(* Answers.                                                                *)

Tell(c, what) == told' = [told EXCEPT ![c] = @ \cup what]

\* GetTrigger: the row it read, with its file and its instances.
ShowTrigger(c) ==
  /\ at[c] = "show"
  /\ Tell(c, {<<asked[c].id, found[c].version>>, <<found[c].file>>})
  /\ Go(c)
  /\ UNCHANGED <<asked, found, from, offset, page, trigger, fires, could, raced, walk>>

\* ExecTrigger reads the row again, and answers with nothing when it is gone.
PlayTrigger(c) ==
  LET t == asked[c].id IN
  /\ at[c] = "play"
  /\ IF Live(t)
       THEN Tell(c, {<<t, trigger[t].version>>}
                    \cup IF trigger[t].reply THEN {} ELSE {<<trigger[t].file>>})
       ELSE UNCHANGED told
  /\ Go(c)
  /\ UNCHANGED <<asked, found, from, offset, page, trigger, fires, could, raced, walk>>

\* RecordTriggerFire, played or not; that it fails is only logged.
RecordFire(c) ==
  /\ at[c] = "record"
  /\ \E n \in {0, 1} : fires' = [fires EXCEPT ![asked[c].id] = @ + n]
  /\ Go(c)
  /\ UNCHANGED <<asked, found, from, offset, page, trigger, told, could, raced, walk>>

\* Mutant of Before: rows created together come in any order.
BeforeByDate(s, t) == trigger[s].created > trigger[t].created

\* ORDER BY created_at DESC, id DESC
Before(s, t) ==
  \/ trigger[s].created > trigger[t].created
  \/ trigger[s].created = trigger[t].created /\ s > t

\* The ways to put rows in the order asked for; one, when the order is total.
Orders(S) ==
  {f \in [1 .. Cardinality(S) -> S] :
     /\ \A i, j \in DOMAIN f : f[i] = f[j] => i = j
     /\ \A i, j \in DOMAIN f : Before(f[i], f[j]) => i < j}

ListPage(c) ==
  /\ at[c] = "page"
  /\ LET S == Listed(c) IN
     \E f \in Orders(S) :
       page' = [page EXCEPT ![c] =
                  {<<f[i], trigger[f[i]].version>> :
                     i \in {j \in DOMAIN f : offset[c] < j /\ j <= offset[c] + Limit}}]
  /\ walk' = [walk EXCEPT ![c] =
                IF offset[c] = 0
                  THEN [start |-> Listed(c), left |-> {}, steady |-> from[c] = asked[c].origin]
                  ELSE [start |-> walk[c].start, left |-> walk[c].left,
                        steady |-> walk[c].steady /\ from[c] = asked[c].origin]]
  /\ Go(c)
  /\ UNCHANGED <<asked, found, from, offset, trigger, fires, told, could, raced>>

\* The instances and the files of a page are read after it; then it is shown.
\* After a full page the user asks for the next.
DressPage(c) ==
  /\ at[c] = "dress"
  /\ Tell(c, page[c])
  /\ IF Cardinality(page[c]) = Limit
       THEN /\ offset' = [offset EXCEPT ![c] = @ + Limit]
            /\ at' = [at EXCEPT ![c] = "origin"]
       ELSE Go(c) /\ UNCHANGED offset
  /\ UNCHANGED <<asked, found, from, page, trigger, fires, could, raced, walk>>

\* ListTriggerStats
CountFires(c) ==
  /\ at[c] = "count"
  /\ Tell(c, {<<t, trigger[t].version>> :
                t \in {s \in Ids : Live(s) /\ from[c] \in trigger[s].scope /\ fires[s] > 0}})
  /\ Go(c)
  /\ UNCHANGED <<asked, found, from, offset, page, trigger, fires, could, raced, walk>>

FindFile(c) ==
  /\ at[c] = "find"
  /\ Go(c)
  /\ UNCHANGED <<asked, found, from, offset, page, trigger, fires, told, could,
                 raced, walk>>

\* FileVisibleToCaller
FileVisible(c) ==
  /\ at[c] = "visible"
  /\ IF \E t \in Ids : /\ Live(t) /\ trigger[t].file = asked[c].file
                       /\ \/ trigger[t].owner = asked[c].user
                          \/ from[c] \in trigger[t].scope
       THEN Go(c) ELSE Refuse(c)
  /\ UNCHANGED <<asked, found, from, offset, page, trigger, fires, told, could,
                 raced, walk>>

\* The chunks; a stream that breaks off is the call's failure.
StreamFile(c) ==
  /\ at[c] = "stream"
  /\ Tell(c, {<<asked[c].file>>})
  /\ Go(c)
  /\ UNCHANGED <<asked, found, from, offset, page, trigger, fires, could, raced, walk>>

ServiceStep(c) ==
  \/ Begin(c) \/ Fail(c) \/ Origin(c) \/ ResolveTrigger(c) \/ ReadRow(c)
  \/ ReadTriggerScope(c) \/ InsertTrigger(c) \/ WriteTrigger(c) \/ RemoveTrigger(c)
  \/ ShowTrigger(c) \/ PlayTrigger(c) \/ RecordFire(c) \/ ListPage(c) \/ DressPage(c)
  \/ CountFires(c) \/ FindFile(c) \/ FileVisible(c) \/ StreamFile(c)

ServiceNext == \E c \in Calls : ServiceStep(c)

ServiceSpec == ServiceInit /\ [][ServiceNext]_serviceVars

-----------------------------------------------------------------------------
(* Properties.                                                             *)

\* The phrase and the mode of a trigger go together, and a regular expression is
\* a moderator's, unless an update was written over a phrase or a mode it had
\* not read: cached candidates compile, whatever calls interleave but those two.
StoredTogether ==
  \A t \in Ids : Live(t) /\ t \notin raced =>
    Valid(trigger[t].phrase, trigger[t].mode, trigger[t].owner)

\* Page after page shows every trigger there was, but for one miss at most for
\* each that was deleted meanwhile: rows with the same creation time included,
\* and whatever is created meanwhile.
WalkMissesOnlyAfterDelete ==
  \A c \in Calls :
    (Op(c) = "list" /\ at[c] = "done" /\ walk[c].steady) =>
      LET shown == {x[1] : x \in told[c]}
          w     == walk[c]
      IN Cardinality(w.start \ (w.left \cup shown)) <= Cardinality(w.left)

\* No answer shows a trigger, a version of it or a file that its user might not
\* have seen at some instant of the call: nothing of another guild, nothing
\* deleted before, however reads and writes interleave.
AnswersAreInScope == \A c \in Calls : told[c] \subseteq could[c] \cup {<<Nil>>}
=============================================================================
