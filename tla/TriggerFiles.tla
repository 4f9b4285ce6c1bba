---------------------------- MODULE TriggerFiles ----------------------------
(***************************************************************************)
(* Files of triggers: the rows of the file table, deduplicated by content  *)
(* hash, the blobs beside them, the handlers of CreateTrigger,             *)
(* UpdateTrigger and DeleteTrigger that store and reference them, and the  *)
(* hourly sweep that collects the files no live trigger references.        *)
(*                                                                         *)
(* Row, blob and trigger are written by separate statements, and no lock   *)
(* or transaction spans two of them.                                       *)
(***************************************************************************)
EXTENDS Integers, FiniteSets

CONSTANTS
  Files,       \* file ids
  Hashes,      \* file contents, known by their hash; also the blobs' keys
  Triggers,    \* trigger ids
  Handlers,    \* concurrent CreateTrigger and UpdateTrigger calls
  None,        \* SQL NULL
  Grace,       \* age below which the sweep leaves a row alone
  BatchLimit,  \* files one sweep lists
  Patience,    \* deadline of a call, from its client
  MaxTime      \* bound: the last instant the clock reaches

ASSUME FilesAssumption  == None \notin Files \cup Hashes
ASSUME BatchAssumption  == BatchLimit \in Nat \ {0}
ASSUME TimesAssumption  == Grace \in Nat /\ Patience \in Nat /\ MaxTime \in Nat
\* orphanGracePeriod is an hour, defaultCallTimeout 30 seconds.
ASSUME PatienceAssumption == Patience <= Grace

VARIABLES
  file,      \* the file table
  trigger,   \* the trigger table
  blobs,     \* keys present in blob storage
  call,      \* per handler: what it has done so far
  sweep,     \* the cron goroutine, inside collectOrphanFiles()
  now,       \* the clock
  \* History, not in the program:
  stored,    \* file rows whose blob their uploader has written
  raced,     \* file rows stored while the sweep was about to delete their key
  leaked,    \* keys whose deletion failed or was cut short
  attached   \* per trigger: the instant it was given the file it has

hist == <<stored, raced, leaked, attached>>
vars == <<file, trigger, blobs, call, sweep, now, hist>>

-----------------------------------------------------------------------------
FileRow == [hash : Hashes \cup {None}, created : Nat, deleted : BOOLEAN]

TriggerRow == [state : {"NONE", "LIVE", "DELETED"}, file : Files \cup {None}]

\* A handler has fetched the content, then has a file row to put the blob of,
\* then has a file id to write into its trigger.
Call == [pc : {"idle", "fetched", "put", "write"}, trg : Triggers \cup {None},
         hash : Hashes \cup {None}, file : Files \cup {None}, at : Nat]

Ready == [pc |-> "idle", trg |-> None, hash |-> None, file |-> None, at |-> 0]

Resting == [pc |-> "idle", todo |-> {}, file |-> None]

TypeOK ==
  /\ file \in [Files -> FileRow]
  /\ trigger \in [Triggers -> TriggerRow]
  /\ blobs \subseteq Hashes
  /\ call \in [Handlers -> Call]
  /\ \A h \in Handlers : call[h].pc \in {"put", "write"} => call[h].file # None
  /\ sweep \in [pc : {"idle", "row", "blob"}, todo : SUBSET Files,
                file : Files \cup {None}]
  /\ sweep.pc = "blob" <=> sweep.file # None
  /\ now \in Nat
  /\ stored \subseteq Files
  /\ raced \subseteq Files
  /\ leaked \subseteq Hashes
  /\ attached \in [Triggers -> Nat]

Init ==
  /\ file = [f \in Files |-> [hash |-> None, created |-> 0, deleted |-> FALSE]]
  /\ trigger = [t \in Triggers |-> [state |-> "NONE", file |-> None]]
  /\ blobs = {}
  /\ call = [h \in Handlers |-> Ready]
  /\ sweep = Resting
  /\ now = 0
  /\ stored = {}
  /\ raced = {}
  /\ leaked = {}
  /\ attached = [t \in Triggers |-> 0]

Exists(f) == file[f].hash # None
LiveFile(f) == Exists(f) /\ ~file[f].deleted
Live(t) == trigger[t].state = "LIVE"

\* The file table's partial unique index lets one live row have a hash.
LiveFilesOf(k) == {f \in Files : LiveFile(f) /\ file[f].hash = k}

-----------------------------------------------------------------------------
(* CreateTrigger and UpdateTrigger with a file.                            *)

\* The fetch has succeeded.  A create has an id of its own, an update a live
\* trigger of the caller.
Fetch(h) ==
  /\ call[h].pc = "idle"
  /\ \E t \in Triggers, k \in Hashes :
       /\ \/ trigger[t].state = "NONE" /\ \A g \in Handlers : call[g].trg # t
          \/ Live(t)
       /\ call' = [call EXCEPT ![h] = [pc |-> "fetched", trg |-> t, hash |-> k,
                                       file |-> None, at |-> now]]
  /\ UNCHANGED <<file, trigger, blobs, sweep, now, hist>>

\* GetOrCreateFileByHash finds the live row of the hash, and leaves its
\* created_at alone ...
Dedupe(h) ==
  /\ call[h].pc = "fetched"
  /\ \E f \in LiveFilesOf(call[h].hash) :
       call' = [call EXCEPT ![h].pc = "write", ![h].file = f]
  /\ UNCHANGED <<file, trigger, blobs, sweep, now, hist>>

\* ... or inserts one.
Insert(h) ==
  /\ call[h].pc = "fetched"
  /\ LiveFilesOf(call[h].hash) = {}
  /\ \E f \in Files :
       /\ ~Exists(f)
       /\ file' = [file EXCEPT ![f] = [hash |-> call[h].hash, created |-> now,
                                       deleted |-> FALSE]]
       /\ call' = [call EXCEPT ![h].pc = "put", ![h].file = f]
  /\ UNCHANGED <<trigger, blobs, sweep, now, hist>>

\* Only the call that inserted the row writes the blob.
Put(h) ==
  /\ call[h].pc = "put"
  /\ blobs' = blobs \cup {call[h].hash}
  /\ call' = [call EXCEPT ![h].pc = "write"]
  /\ stored' = stored \cup {call[h].file}
  /\ raced' = IF /\ sweep.pc = "blob"
                 /\ file[sweep.file].hash = call[h].hash
                THEN raced \cup {call[h].file} ELSE raced
  /\ UNCHANGED <<file, trigger, sweep, now, leaked, attached>>

\* An update finds its trigger still live; an insert always does.
WriteTrigger(h) ==
  LET t == call[h].trg IN
  /\ call[h].pc = "write"
  /\ trigger[t].state # "DELETED"
  /\ trigger' = [trigger EXCEPT ![t] = [state |-> "LIVE", file |-> call[h].file]]
  /\ attached' = [attached EXCEPT ![t] = now]
  /\ call' = [call EXCEPT ![h] = Ready]
  /\ UNCHANGED <<file, blobs, sweep, now, stored, raced, leaked>>

\* A step of the call fails, the blob's or the trigger's: what it has written
\* stays.
Fail(h) ==
  /\ call[h].pc # "idle"
  /\ call' = [call EXCEPT ![h] = Ready]
  /\ UNCHANGED <<file, trigger, blobs, sweep, now, hist>>

DeleteTrigger(t) ==
  /\ Live(t)
  /\ trigger' = [trigger EXCEPT ![t].state = "DELETED"]
  /\ UNCHANGED <<file, blobs, call, sweep, now, hist>>

-----------------------------------------------------------------------------
(* The sweep: list once, then row before blob, file by file.               *)

\* Mutant of Expired: at the grace itself.
ExpiredAtGrace(f) == file[f].created <= now - Grace

Expired(f) == file[f].created < now - Grace

\* Mutant of Unreferenced: triggers that were deleted count too.
UnreferencedEver(f) == \A t \in Triggers : trigger[t].file # f

Unreferenced(f) == \A t \in Triggers : Live(t) => trigger[t].file # f

Orphans == {f \in Files : LiveFile(f) /\ Expired(f) /\ Unreferenced(f)}

\* The oldest BatchLimit of them.
Batch(S) ==
  /\ S \subseteq Orphans
  /\ Cardinality(S) = IF Cardinality(Orphans) < BatchLimit
                        THEN Cardinality(Orphans) ELSE BatchLimit
  /\ \A f \in S, g \in Orphans \ S : file[f].created <= file[g].created

ListOrphanFiles ==
  /\ sweep.pc = "idle"
  /\ Orphans # {}
  /\ \E S \in SUBSET Orphans :
       /\ Batch(S)
       /\ sweep' = [pc |-> "row", todo |-> S, file |-> None]
  /\ UNCHANGED <<file, trigger, blobs, call, now, hist>>

NextFile(todo) == [pc |-> IF todo = {} THEN "idle" ELSE "row",
                   todo |-> todo, file |-> None]

\* Mutant of SoftDeleteFile: the blob is left where it is.
SoftDeleteFileAlone(f) ==
  /\ sweep.pc = "row"
  /\ f \in sweep.todo
  /\ file' = [file EXCEPT ![f].deleted = TRUE]
  /\ sweep' = NextFile(sweep.todo \ {f})
  /\ UNCHANGED <<trigger, blobs, call, now, hist>>

\* The references are not looked at again.
SoftDeleteFile(f) ==
  /\ sweep.pc = "row"
  /\ f \in sweep.todo
  /\ file' = [file EXCEPT ![f].deleted = TRUE]
  /\ sweep' = [pc |-> "blob", todo |-> sweep.todo \ {f}, file |-> f]
  /\ UNCHANGED <<trigger, blobs, call, now, hist>>

\* The row is left to the next sweep, its blob with it.
SoftDeleteFails(f) ==
  /\ sweep.pc = "row"
  /\ f \in sweep.todo
  /\ sweep' = NextFile(sweep.todo \ {f})
  /\ UNCHANGED <<file, trigger, blobs, call, now, hist>>

\* By its key alone: a row of the same hash may have been inserted meanwhile.
DeleteBlob ==
  /\ sweep.pc = "blob"
  /\ blobs' = blobs \ {file[sweep.file].hash}
  /\ sweep' = NextFile(sweep.todo)
  /\ UNCHANGED <<file, trigger, call, now, hist>>

\* Nobody looks at that blob again.
DeleteBlobFails ==
  /\ sweep.pc = "blob"
  /\ sweep' = NextFile(sweep.todo)
  /\ leaked' = leaked \cup {file[sweep.file].hash}
  /\ UNCHANGED <<file, trigger, blobs, call, now, stored, raced, attached>>

\* The context ended: the remaining files wait for another sweep.
SweepStops ==
  /\ sweep.pc = "row"
  /\ sweep' = Resting
  /\ UNCHANGED <<file, trigger, blobs, call, now, hist>>

-----------------------------------------------------------------------------
Crash ==
  /\ call' = [h \in Handlers |-> Ready]
  /\ sweep' = Resting
  /\ leaked' = IF sweep.pc = "blob"
                 THEN leaked \cup {file[sweep.file].hash} ELSE leaked
  /\ UNCHANGED <<file, trigger, blobs, now, stored, raced, attached>>

\* A call does not outlive its deadline.
Clock ==
  /\ now < MaxTime
  /\ \A h \in Handlers : call[h].pc # "idle" => now < call[h].at + Patience
  /\ now' = now + 1
  /\ UNCHANGED <<file, trigger, blobs, call, sweep, hist>>

-----------------------------------------------------------------------------
Handling(h) == Fetch(h) \/ Dedupe(h) \/ Insert(h) \/ Put(h) \/ WriteTrigger(h)
               \/ Fail(h)

Sweeping == \/ ListOrphanFiles
            \/ \E f \in sweep.todo : SoftDeleteFile(f) \/ SoftDeleteFails(f)
            \/ DeleteBlob
            \/ DeleteBlobFails
            \/ SweepStops

Next == \/ \E h \in Handlers : Handling(h)
        \/ \E t \in Triggers : DeleteTrigger(t)
        \/ Sweeping
        \/ Crash
        \/ Clock

Spec == Init /\ [][Next]_vars

-----------------------------------------------------------------------------
(* Safety.                                                                 *)

\* A trigger that got its file before the file's row was older than the grace
\* keeps it: no sweep takes a file from under it, however list, reference and
\* soft delete interleave.
GraceProtects ==
  \A t \in Triggers :
    LET f == trigger[t].file IN
    (Live(t) /\ attached[t] <= file[f].created + Grace) => ~file[f].deleted

StoredBlobStays == \A f \in stored \ raced : LiveFile(f) => file[f].hash \in blobs

NoBlobStranded ==
  \A k \in blobs \ leaked :
    \/ LiveFilesOf(k) # {}
    \/ sweep.pc = "blob" /\ file[sweep.file].hash = k

\* Blobs are deleted by key and rows of one content follow each other, and yet a
\* live row whose blob was written still has it, unless it was written between the
\* sweep's two deletes of its predecessor; and no blob outlives its last live row,
\* unless its deletion failed or was cut short.  A late Put cannot strand one:
\* calls end before the grace does.
BlobsFollowRows == StoredBlobStays /\ NoBlobStranded

-----------------------------------------------------------------------------
(* Liveness.  The hourly sweep keeps starting and the database does not     *)
(* fail for ever.                                                          *)

Fairness == /\ SF_vars(ListOrphanFiles)
            /\ \A f \in Files : SF_vars(f \in sweep.todo /\ SoftDeleteFile(f))
            /\ WF_vars(DeleteBlob \/ DeleteBlobFails)

FairSpec == Spec /\ Fairness

Abandoned(f) ==
  /\ LiveFile(f)
  /\ file[f].created < now - Grace
  /\ \A t \in Triggers : trigger[t].state = "LIVE" => trigger[t].file # f

\* An abandoned file is collected, or referenced again, although a sweep takes
\* only the oldest few and starts over whenever it fails or stops.
AbandonedIsCollected == \A f \in Files : Abandoned(f) ~> ~Abandoned(f)

-----------------------------------------------------------------------------
(* A statement of the repository that the code does not keep.              *)

\* "reports inserted so the caller knows whether it must also write the blob":
\* a call that is told not to write it finds it written, or being written.
DedupedFileHasBlob ==
  \A h \in Handlers :
    (call[h].pc = "write" /\ LiveFile(call[h].file)) =>
      \/ call[h].hash \in blobs
      \/ \E g \in Handlers : call[g].pc = "put" /\ call[g].file = call[h].file
=============================================================================
