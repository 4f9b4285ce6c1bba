------------------------------- MODULE Import -------------------------------
(***************************************************************************)
(* The import of the legacy bot's data (ginbot-migrate) into the tables of *)
(* a server that may be running: all passes in one transaction, dry runs,  *)
(* runs that are cut off, and runs repeated with a later dump.             *)
(*                                                                         *)
(* Work is the dump, in the order of the passes; one action handles one    *)
(* row of it.  What the transaction has written is in tx until it commits. *)
(***************************************************************************)
EXTENDS Directory, ReminderQuota, Sequences

CONSTANTS
  Work,     \* the rows of the dump
  Late,     \* of these, the ones an earlier dump may lack
  Hash,     \* the content of a legacy file
  Uploaded, \* the contents people have uploaded before
  MaxRuns   \* bound: runs of the import

ASSUME RunsAssumption == MaxRuns \in Nat

\* The dump is a sequence; every run may make an account of a legacy user and a
\* row of a legacy reminder.
ASSUME WorkAssumption ==
  /\ Len(Work) \in Nat /\ DOMAIN Work = 1 .. Len(Work)
  /\ \A i \in DOMAIN Work, n \in 1 .. MaxRuns :
       /\ Work[i].kind = "user" => <<Work[i].user, n>> \in Imported
       /\ Work[i].kind = "reminder" => <<Work[i].reminder, n>> \in Imports

\* A create is a visit, and whoever has an account may own reminders.
ASSUME ServedAssumption == Creates \subseteq Visits /\ Accounts \subseteq Owners

VARIABLES
  run,       \* the run: its number, where it is, and whether it is a dry one
  absent,    \* the rows the present dump lacks
  tx,        \* what it has written
  idmap,     \* migration_id_map
  file,      \* the live rows of file, by content
  blob,      \* the contents in storage
  trigger,   \* the triggers imported
  seeded,    \* the action_record rows imported, by trigger
  staged,    \* the rows of the staging tables
  \* History, not in the program:
  cut        \* the contents stored by runs that were then cut off

importVars == <<run, absent, tx, idmap, file, blob, trigger, seeded,
                staged, cut>>
vars == <<directoryVars, quotaVars, importVars>>

-----------------------------------------------------------------------------
Table == {"account", "identity", "idmap", "file", "trigger", "seeded", "staged"}

Nothing == [t \in Table |-> {}]

\* A new row's id is the legacy id and the run that gave it: every run draws new
\* UUIDs.
Id(legacy) == <<legacy, run.number>>

ImportInit ==
  /\ DirectoryInit
  /\ QuotaInit
  /\ run = [number |-> 0, at |-> 0, dry |-> TRUE]
  /\ absent = Late
  /\ tx = Nothing
  /\ idmap = {}
  /\ file = Uploaded
  /\ blob = Uploaded
  /\ trigger = {}
  /\ seeded = {}
  /\ staged = {}
  /\ cut = {}

\* The in-memory maps of the migrator: what an earlier run or this one has
\* remembered of an entity.
Entries(entity, legacy) ==
  {e \in idmap \cup tx["idmap"] : e.entity = entity /\ e.legacy = legacy}

Mapped(entity, legacy) == Entries(entity, legacy) # {}

NewId(entity, legacy) == (CHOOSE e \in Entries(entity, legacy) : TRUE).id

Entry(entity, legacy, id) == [entity |-> entity, legacy |-> legacy, id |-> id]

Running == run.at > 0

row == Work[run.at]

\* Some row of the dump is the next one, and of this kind.
At(kind) == Running /\ run.at <= Len(Work) /\ row.kind = kind

Done == run' = [run EXCEPT !.at = @ + 1]

\* The statements of a row: rows added to some of the tables.
Write(added) ==
  /\ tx' = [t \in Table |-> tx[t] \cup IF t \in DOMAIN added THEN added[t] ELSE {}]
  /\ Done

Skip == UNCHANGED tx /\ Done

tables == <<idmap, file, trigger, seeded, staged>>

-----------------------------------------------------------------------------
(* A run.                                                                  *)

\* The dump may be a later one than the last.
Begin ==
  /\ ~Running
  /\ run.number < MaxRuns
  /\ \E dry \in BOOLEAN : run' = [number |-> run.number + 1, at |-> 1, dry |-> dry]
  /\ absent' \in SUBSET absent
  /\ UNCHANGED <<directoryVars, quotaVars, tx, tables, blob, cut>>

\* The row is not in this dump.
Absent ==
  /\ Running
  /\ run.at \in absent
  /\ Done
  /\ UNCHANGED <<directoryVars, quotaVars, absent, tx, tables, blob, cut>>

Present(kind) == At(kind) /\ run.at \notin absent

\* The upserts lock the rows until the end.
Upsert(at) ==
  /\ locked' = locked \cup {at}
  /\ Skip
  /\ UNCHANGED <<register, account, identity, pending, visitVars, quotaVars,
                 absent, tables, blob, cut>>

PassInstance == Present("instance") /\ Upsert(row.instance)

PassDestination == Present("destination") /\ Upsert(row.destination)

PassUser ==
  /\ Present("user")
  /\ IF Mapped("user", row.user) THEN Skip
     ELSE Write([account |-> {Id(row.user)},
                 idmap |-> {Entry("user", row.user, Id(row.user))}])
  /\ UNCHANGED <<directoryVars, quotaVars, absent, tables, blob, cut>>

\* An identity that is registered already keeps its account.
PassIdentity ==
  /\ Present("identity")
  /\ IF ~Mapped("user", row.user) \/ Mapped("identity", row.user)
       THEN Skip /\ UNCHANGED pending
       ELSE /\ pending[row.uid] = None
            /\ pending' = [pending EXCEPT ![row.uid] = Import]
            /\ Write([identity |-> IF identity[row.uid] # None THEN {}
                                   ELSE {<<row.uid, NewId("user", row.user)>>},
                      idmap |-> {Entry("identity", row.user, row.uid)}])
  /\ UNCHANGED <<register, account, identity, visitVars, locked, quotaVars,
                 absent, tables, blob, cut>>

Live(content) == content \in file \cup tx["file"]

\* Mutant of PassFile: a dry run stores as well.
PassFileDry ==
  /\ Present("file")
  /\ \/ /\ Skip
        /\ UNCHANGED blob
     \/ /\ ~Mapped("file", row.file)
        /\ Write([file |-> {Hash[row.file]},
                  idmap |-> {Entry("file", row.file, Hash[row.file])}])
        /\ blob' = blob \cup IF Live(Hash[row.file]) THEN {} ELSE {Hash[row.file]}
  /\ UNCHANGED <<directoryVars, quotaVars, absent, tables, cut>>

\* The bytes are stored by the run that inserts the row, before it commits.  A
\* file that is not on the disk is left to a later run.
PassFile ==
  /\ Present("file")
  /\ \/ /\ Skip
        /\ UNCHANGED blob
     \/ /\ ~Mapped("file", row.file)
        /\ Write([file |-> {Hash[row.file]},
                  idmap |-> {Entry("file", row.file, Hash[row.file])}])
        /\ blob' = blob \cup IF Live(Hash[row.file]) \/ run.dry
                               THEN {} ELSE {Hash[row.file]}
  /\ UNCHANGED <<directoryVars, quotaVars, absent, tables, cut>>

\* A skipped trigger is not remembered, so that a later run tries it again.
PassTrigger ==
  /\ Present("trigger")
  /\ IF \/ Mapped("trigger", row.trigger)
        \/ ~Mapped("user", row.user)
        \/ row.file # None /\ ~Mapped("file", row.file)
        \/ \E t \in trigger \cup tx["trigger"] : t.phrase = row.phrase
       THEN Skip
       ELSE Write([trigger |-> {[legacy |-> row.trigger, id |-> Id(row.trigger),
                                 phrase |-> row.phrase]},
                   idmap |-> {Entry("trigger", row.trigger, Id(row.trigger))}])
  /\ UNCHANGED <<directoryVars, quotaVars, absent, tables, blob, cut>>

\* Mutant of PassStats: the seeding is not remembered.
PassStatsAgain ==
  /\ Present("stats")
  /\ IF ~Mapped("trigger", row.trigger)
       THEN Skip
       ELSE Write([seeded |-> {Id(row.trigger)}])
  /\ UNCHANGED <<directoryVars, quotaVars, absent, tables, blob, cut>>

PassStats ==
  /\ Present("stats")
  /\ IF ~Mapped("trigger", row.trigger) \/ Mapped("stats", row.trigger)
       THEN Skip
       ELSE Write([seeded |-> {Id(row.trigger)},
                   idmap |-> {Entry("stats", row.trigger, row.trigger)}])
  /\ UNCHANGED <<directoryVars, quotaVars, absent, tables, blob, cut>>

\* Skipped, or numbered; the insert follows.
PassReminder ==
  /\ Present("reminder")
  /\ owner[Id(row.reminder)] = Nobody
  /\ IF Mapped("reminder", row.reminder) \/ ~Mapped("user", row.user)
       THEN Skip /\ UNCHANGED quotaVars
       ELSE /\ \E n \in 1..(Cardinality(Rows) + 1) :
                 ImportNumber(Id(row.reminder), NewId("user", row.user), n)
            /\ UNCHANGED <<run, tx>>
  /\ UNCHANGED <<directoryVars, absent, tables, blob, cut>>

InsertLegacy ==
  /\ Present("reminder")
  /\ ImportInsert(Id(row.reminder))
  /\ Write([idmap |-> {Entry("reminder", row.reminder, Id(row.reminder))}])
  /\ UNCHANGED <<directoryVars, absent, tables, blob, cut>>

\* Copied with its legacy id, once.
PassStaging ==
  /\ Present("staging")
  /\ IF row.id \in staged THEN Skip ELSE Write([staged |-> {row.id}])
  /\ UNCHANGED <<directoryVars, quotaVars, absent, tables, blob, cut>>

Parked == run' = [run EXCEPT !.at = 0] /\ tx' = Nothing

Unlock ==
  /\ locked' = {}
  /\ pending' = [u \in Uids |-> IF pending[u] = Import THEN None ELSE pending[u]]

\* The deferred rollback: of a dry run, of a run whose statement failed (as an
\* insert does whose number is taken), or of one that was stopped.
Rollback ==
  /\ Running
  /\ run.at > Len(Work) => run.dry
  /\ Parked
  /\ Unlock
  /\ ImportEnd("none")
  /\ cut' = IF run.dry THEN cut ELSE cut \cup tx["file"]
  /\ UNCHANGED <<register, account, identity, visitVars, absent, tables, blob>>

CommitImport ==
  /\ run.at > Len(Work)
  /\ ~run.dry
  /\ Parked
  /\ Unlock
  /\ ImportEnd("PENDING")
  /\ account' = account \cup tx["account"]
  /\ identity' = [u \in Uids |-> IF \E e \in tx["identity"] : e[1] = u
                                   THEN (CHOOSE e \in tx["identity"] : e[1] = u)[2]
                                   ELSE identity[u]]
  /\ place' = place \cup locked
  /\ idmap' = idmap \cup tx["idmap"]
  /\ file' = file \cup tx["file"]
  /\ trigger' = trigger \cup tx["trigger"]
  /\ seeded' = seeded \cup tx["seeded"]
  /\ staged' = staged \cup tx["staged"]
  /\ UNCHANGED <<register, visit, caller, known, absent, blob, cut>>

Migrate == \/ Begin \/ Absent \/ PassInstance \/ PassDestination \/ PassUser
           \/ PassIdentity \/ PassFile \/ PassTrigger \/ PassStats
           \/ PassReminder \/ InsertLegacy \/ PassStaging
           \/ Rollback \/ CommitImport

-----------------------------------------------------------------------------
(* The server beside it.                                                   *)

\* A create enters its transaction once its destination is there.
CreateEnters(c) ==
  /\ visit[c] = "placed"
  /\ Enter(c, caller[c])
  /\ UNCHANGED <<directoryVars, importVars>>

Served ==
  \/ DirectoryNext /\ UNCHANGED <<quotaVars, importVars>>
  \/ \E c \in Creates : \/ CreateEnters(c)
                        \/ Create(c) /\ UNCHANGED <<directoryVars, importVars>>
  \/ \E i \in Rows : Move(i) /\ UNCHANGED <<directoryVars, importVars>>

Next == Migrate \/ Served

Spec == ImportInit /\ [][Next]_vars

-----------------------------------------------------------------------------
\* A legacy row is imported at most once and never half: over dry runs, cut runs
\* and later dumps, the row of every user, trigger and reminder is there exactly
\* when the table of ids says so, and a trigger's counts are seeded once, with it.
ImportedOnce ==
  LET rows(entity) ==
        CASE entity = "user"     -> account \ Registrations
          [] entity = "trigger"  -> {t.id : t \in trigger}
          [] entity = "stats"    -> seeded
          [] entity = "reminder" -> {i \in Imports : Committed(i)}
  IN \A entity \in {"user", "trigger", "stats", "reminder"} :
       /\ {i[1] : i \in rows(entity)} = {e.legacy : e \in {e \in idmap : e.entity = entity}}
       /\ \A i, j \in rows(entity) : i[1] = j[1] => i = j

\* A file that is live has its bytes, and bytes without a file were stored by a
\* run that was cut off, or by the one that is under way: never by a dry run.
BlobsFollowFiles ==
  /\ file \subseteq blob
  /\ blob \subseteq file \cup cut \cup IF run.dry THEN {} ELSE tx["file"]

=============================================================================
