------------------------- MODULE TriggerFilesProofs -------------------------
(***************************************************************************)
(* Theorems of TriggerFiles, for any files, contents, triggers and         *)
(* handlers, any grace no shorter than a call, and any batch.              *)
(***************************************************************************)
EXTENDS TriggerFiles, TLAPS

USE FilesAssumption, BatchAssumption, TimesAssumption, PatienceAssumption

-----------------------------------------------------------------------------
(* The inductive invariant, part by part.                                  *)

\* The sweep has it on its list, or has taken it.
Doomed(f) == f \in sweep.todo \/ file[f].deleted

\* A file the sweep has picked is past its grace, and the live triggers that have
\* it got it after that.
GraceInv ==
  \A f \in Files : Doomed(f) =>
    /\ Exists(f)
    /\ file[f].created + Grace < now
    /\ \A t \in Triggers :
         (Live(t) /\ trigger[t].file = f) => attached[t] > file[f].created + Grace

\* A call is within its deadline, and knows its row by its hash; the row it is to
\* write the blob of is one it inserted.
CallInv ==
  \A h \in Handlers :
    /\ call[h].pc # "idle" => call[h].at <= now /\ now <= call[h].at + Patience
    /\ call[h].pc # "idle" => call[h].hash \in Hashes
    /\ call[h].pc = "put" => /\ file[call[h].file].hash = call[h].hash
                             /\ call[h].at <= file[call[h].file].created

\* The partial unique index; the rows that were stored are rows, and those on the
\* sweep's list are live, because only the sweep deletes one.
RowsInv ==
  /\ \A f, g \in Files :
       (LiveFile(f) /\ LiveFile(g) /\ file[f].hash = file[g].hash) => f = g
  /\ \A f \in stored : Exists(f)
  /\ \A f \in sweep.todo : LiveFile(f)

\* Between its two deletes the sweep has no other live row of the content before
\* it, except one whose blob is not written or was written just now.
BetweenInv ==
  sweep.pc = "blob" =>
    /\ Exists(sweep.file)
    /\ \A f \in Files :
         (LiveFile(f) /\ file[f].hash = file[sweep.file].hash) => f \notin stored \ raced

\* A trigger that was written has a file.
FileInv == \A t \in Triggers : Live(t) => trigger[t].file \in Files

Inv == TypeOK /\ FileInv /\ GraceInv /\ CallInv /\ RowsInv /\ BetweenInv /\ BlobsFollowRows

-----------------------------------------------------------------------------
(* Types.                                                                  *)

LEMMA TypeInit == Init => TypeOK
  BY DEF Init, TypeOK, FileRow, TriggerRow, Call, Ready, Resting

\* What a call that is under way carries.
LEMMA UnderWay ==
  ASSUME TypeOK, CallInv, NEW h \in Handlers, call[h].pc # "idle"
  PROVE  /\ call[h].hash \in Hashes
         /\ call[h].pc \in {"put", "write"} => call[h].file \in Files
  BY DEF TypeOK, CallInv, Call

\* A call that has got its row.
LEMMA WithRow ==
  ASSUME NEW c \in Call, NEW f \in Files, NEW p \in {"put", "write"}
  PROVE  [c EXCEPT !.pc = p, !.file = f] \in Call
  BY DEF Call

LEMMA HandlingType ==
  ASSUME TypeOK, CallInv, NEW h \in Handlers, Handling(h)
  PROVE  TypeOK'
<1> USE DEF TypeOK, hist
<1>1. CASE Fetch(h)
  BY <1>1 DEF Fetch, Call
<1>2. CASE Dedupe(h)
  <2>1. PICK f \in Files : call' = [call EXCEPT ![h].pc = "write", ![h].file = f]
    BY <1>2 DEF Dedupe, LiveFilesOf
  <2>2. call' \in [Handlers -> Call]
    <3>1. [call[h] EXCEPT !.pc = "write", !.file = f] \in Call
      BY WithRow
    <3> QED
      BY <2>1, <3>1
  <2>3. \A g \in Handlers : call'[g].pc \in {"put", "write"} => call'[g].file # None
    <3>1. f # None /\ call'[h].file = f
      BY <2>1 DEF Call
    <3>2. \A g \in Handlers \ {h} : call'[g] = call[g]
      BY <2>1
    <3> QED
      BY <3>1, <3>2
  <2> QED
    BY <1>2, <2>2, <2>3 DEF Dedupe
<1>3. CASE Insert(h)
  <2>1. PICK f \in Files :
          /\ file' = [file EXCEPT ![f] = [hash |-> call[h].hash, created |-> now,
                                          deleted |-> FALSE]]
          /\ call' = [call EXCEPT ![h].pc = "put", ![h].file = f]
    BY <1>3 DEF Insert
  <2>2. call' \in [Handlers -> Call]
    <3>1. [call[h] EXCEPT !.pc = "put", !.file = f] \in Call
      BY WithRow
    <3> QED
      BY <2>1, <3>1
  <2>3. \A g \in Handlers : call'[g].pc \in {"put", "write"} => call'[g].file # None
    <3>1. f # None /\ call'[h].file = f
      BY <2>1 DEF Call
    <3>2. \A g \in Handlers \ {h} : call'[g] = call[g]
      BY <2>1
    <3> QED
      BY <3>1, <3>2
  <2>4. call[h].hash \in Hashes
    BY <1>3, UnderWay DEF Insert
  <2>5. file' \in [Files -> FileRow]
    BY <2>1, <2>4 DEF FileRow
  <2> QED
    BY <1>3, <2>2, <2>3, <2>5 DEF Insert
<1>4. CASE Put(h)
  <2>1. call' \in [Handlers -> Call]
    BY <1>4 DEF Put, Call
  <2>2. \A g \in Handlers : call'[g].pc \in {"put", "write"} => call'[g].file # None
    BY <1>4 DEF Put, Call
  <2>3. blobs' \subseteq Hashes /\ stored' \subseteq Files /\ raced' \subseteq Files
    BY <1>4, UnderWay DEF Put
  <2> QED
    BY <1>4, <2>1, <2>2, <2>3 DEF Put
<1>5. CASE WriteTrigger(h)
  <2>1. call' \in [Handlers -> Call]
    BY <1>5 DEF WriteTrigger, Call, Ready
  <2>2. \A g \in Handlers : call'[g].pc \in {"put", "write"} => call'[g].file # None
    BY <1>5 DEF WriteTrigger, Call, Ready
  <2>3. trigger' \in [Triggers -> TriggerRow]
    BY <1>5, UnderWay DEF WriteTrigger, TriggerRow
  <2>4. attached' \in [Triggers -> Nat]
    BY <1>5 DEF WriteTrigger
  <2> QED
    BY <1>5, <2>1, <2>2, <2>3, <2>4 DEF WriteTrigger
<1>6. CASE Fail(h)
  BY <1>6 DEF Fail, Call, Ready
<1> QED
  BY <1>1, <1>2, <1>3, <1>4, <1>5, <1>6 DEF Handling

\* What the sweep does with its list.
LEMMA SweepingType ==
  ASSUME TypeOK, BetweenInv, Sweeping
  PROVE  TypeOK'
<1> USE DEF TypeOK, hist
<1>1. CASE ListOrphanFiles
  BY <1>1 DEF ListOrphanFiles, Orphans
<1>2. ASSUME NEW f \in sweep.todo, SoftDeleteFile(f)
      PROVE  TypeOK'
  BY <1>2 DEF SoftDeleteFile, FileRow
<1>3. ASSUME NEW f \in sweep.todo, SoftDeleteFails(f)
      PROVE  TypeOK'
  BY <1>3 DEF SoftDeleteFails, NextFile
<1>4. CASE DeleteBlob
  BY <1>4 DEF DeleteBlob, NextFile
<1>5. CASE DeleteBlobFails
  <2>1. file[sweep.file].hash \in Hashes
    BY <1>5 DEF DeleteBlobFails, BetweenInv, Exists, FileRow
  <2> QED
    BY <1>5, <2>1 DEF DeleteBlobFails, NextFile
<1>6. CASE SweepStops
  BY <1>6 DEF SweepStops, Resting
<1> QED
  BY <1>1, <1>2, <1>3, <1>4, <1>5, <1>6 DEF Sweeping

LEMMA TypeStep ==
  ASSUME TypeOK, CallInv, BetweenInv, [Next]_vars
  PROVE  TypeOK'
<1> USE DEF TypeOK, hist
<1>1. CASE \E h \in Handlers : Handling(h)
  BY <1>1, HandlingType
<1>2. CASE \E t \in Triggers : DeleteTrigger(t)
  BY <1>2 DEF DeleteTrigger, TriggerRow
<1>3. CASE Sweeping
  BY <1>3, SweepingType
<1>4. CASE Crash
  <2>1. sweep.pc = "blob" => file[sweep.file].hash \in Hashes
    BY DEF BetweenInv, Exists, FileRow
  <2>2. leaked' \subseteq Hashes
    BY <1>4, <2>1 DEF Crash
  <2> QED
    BY <1>4, <2>2 DEF Crash, Ready, Resting, Call
<1>5. CASE Clock
  BY <1>5 DEF Clock
<1>6. CASE UNCHANGED vars
  BY <1>6 DEF vars
<1> QED
  BY <1>1, <1>2, <1>3, <1>4, <1>5, <1>6 DEF Next

-----------------------------------------------------------------------------
(* The rows a call stands on.                                              *)

LEMMA CallHandling ==
  ASSUME TypeOK, CallInv, NEW h \in Handlers, Handling(h)
  PROVE  CallInv'
<1> USE DEF TypeOK, CallInv, Call, hist
<1>1. CASE Fetch(h)
  BY <1>1 DEF Fetch
<1>2. CASE Dedupe(h)
  BY <1>2 DEF Dedupe, LiveFilesOf
<1>3. CASE Insert(h)
  <2>1. PICK f \in Files :
          /\ ~Exists(f)
          /\ file' = [file EXCEPT ![f] = [hash |-> call[h].hash, created |-> now,
                                          deleted |-> FALSE]]
          /\ call' = [call EXCEPT ![h].pc = "put", ![h].file = f]
    BY <1>3 DEF Insert
  <2>2. \A g \in Handlers : call[g].pc = "put" => call[g].file # f /\ call[g].file \in Files
    BY <2>1, UnderWay DEF Exists
  <2>3. call[h].pc = "fetched" /\ now' = now
    BY <1>3 DEF Insert
  <2> QED
    BY <2>1, <2>2, <2>3
<1>4. CASE Put(h)
  BY <1>4 DEF Put
<1>5. CASE WriteTrigger(h)
  BY <1>5 DEF WriteTrigger, Ready
<1>6. CASE Fail(h)
  BY <1>6 DEF Fail, Ready
<1> QED
  BY <1>1, <1>2, <1>3, <1>4, <1>5, <1>6 DEF Handling

\* A soft delete changes nothing else of a row.
LEMMA DeletedRow ==
  ASSUME TypeOK, NEW f \in Files, file' = [file EXCEPT ![f].deleted = TRUE]
  PROVE  /\ \A g \in Files : /\ file'[g].hash = file[g].hash
                             /\ file'[g].created = file[g].created
                             /\ g # f => file'[g] = file[g]
         /\ file'[f].deleted
  BY DEF TypeOK, FileRow

LEMMA CallStep ==
  ASSUME TypeOK, CallInv, [Next]_vars
  PROVE  CallInv'
<1> USE DEF hist
<1>1. CASE \E h \in Handlers : Handling(h)
  BY <1>1, CallHandling
<1>2. CASE UNCHANGED <<file, call, now>>
  BY <1>2 DEF CallInv
<1>3. ASSUME NEW f \in sweep.todo, SoftDeleteFile(f)
      PROVE  CallInv'
  <2>1. f \in Files /\ file' = [file EXCEPT ![f].deleted = TRUE]
    BY <1>3 DEF SoftDeleteFile, TypeOK
  <2>2. UNCHANGED <<call, now>>
    BY <1>3 DEF SoftDeleteFile
  <2>3. \A h \in Handlers : call[h].pc = "put" => call[h].file \in Files
    BY UnderWay
  <2> QED
    BY <2>1, <2>2, <2>3, DeletedRow DEF CallInv
<1>4. CASE Crash
  BY <1>4 DEF Crash, CallInv, Ready
<1>5. CASE Clock
  BY <1>5 DEF Clock, CallInv, TypeOK, Call
<1>6. CASE Sweeping
  BY <1>2, <1>3, <1>6 DEF Sweeping, ListOrphanFiles, SoftDeleteFails, DeleteBlob,
                          DeleteBlobFails, SweepStops
<1> QED
  BY <1>1, <1>2, <1>4, <1>5, <1>6 DEF Next, DeleteTrigger, vars

\* The row of a blob that is still to be written is younger than the grace, so
\* that no sweep has picked it.
LEMMA PutIsLive ==
  ASSUME TypeOK, GraceInv, CallInv, NEW h \in Handlers, call[h].pc = "put"
  PROVE  LiveFile(call[h].file) /\ file[call[h].file].hash = call[h].hash
<1> DEFINE f == call[h].file
<1>1. f \in Files /\ call[h].hash \in Hashes
  BY UnderWay
<1>2. /\ now <= call[h].at + Patience
      /\ call[h].at <= file[f].created
      /\ file[f].hash = call[h].hash
  BY DEF CallInv
<1>3. now <= file[f].created + Grace
  BY <1>1, <1>2 DEF TypeOK, FileRow, Call
<1>4. ~Doomed(f)
  BY <1>1, <1>3 DEF GraceInv, TypeOK, FileRow
<1> QED
  BY <1>1, <1>2, <1>4 DEF LiveFile, Exists, Doomed

-----------------------------------------------------------------------------
(* The grace.                                                              *)

LEMMA FileStep ==
  ASSUME TypeOK, CallInv, FileInv, [Next]_vars
  PROVE  FileInv'
<1> USE DEF FileInv, Live
<1>1. ASSUME NEW h \in Handlers, WriteTrigger(h)
      PROVE  FileInv'
  BY <1>1, UnderWay DEF WriteTrigger, TypeOK
<1>2. ASSUME NEW t \in Triggers, DeleteTrigger(t)
      PROVE  FileInv'
  BY <1>2 DEF DeleteTrigger, TypeOK, TriggerRow
<1>3. CASE UNCHANGED trigger
  BY <1>3
<1> QED
  BY <1>1, <1>2, <1>3 DEF Next, Handling, Fetch, Dedupe, Insert, Put, Fail, Sweeping,
     ListOrphanFiles, SoftDeleteFile, SoftDeleteFails, DeleteBlob, DeleteBlobFails,
     SweepStops, Crash, Clock, vars

LEMMA GraceHandling ==
  ASSUME TypeOK, CallInv, GraceInv, NEW h \in Handlers, Handling(h)
  PROVE  GraceInv'
<1> USE DEF hist
<1>1. CASE Fetch(h) \/ Dedupe(h) \/ Put(h) \/ Fail(h)
  <2>1. UNCHANGED <<file, trigger, sweep, now, attached>>
    BY <1>1 DEF Fetch, Dedupe, Put, Fail
  <2> QED
    BY <2>1 DEF GraceInv, Doomed, Exists, Live
<1>2. CASE Insert(h)
  <2>1. PICK f \in Files :
          /\ ~Exists(f)
          /\ file' = [file EXCEPT ![f] = [hash |-> call[h].hash, created |-> now,
                                          deleted |-> FALSE]]
    BY <1>2 DEF Insert
  <2>2. UNCHANGED <<trigger, sweep, now, attached>>
    BY <1>2 DEF Insert
  <2>3. f \notin sweep.todo
    BY <2>1 DEF GraceInv, Doomed
  <2>4. \A g \in Files : Doomed(g)' => g # f /\ Doomed(g) /\ file'[g] = file[g]
    BY <2>1, <2>2, <2>3 DEF Doomed, TypeOK
  <2> QED
    BY <2>2, <2>4 DEF GraceInv, Exists, Live
<1>3. CASE WriteTrigger(h)
  <2>1. UNCHANGED <<file, sweep, now>>
    BY <1>3 DEF WriteTrigger
  <2>2. \A t \in Triggers :
          \/ trigger'[t] = trigger[t] /\ attached'[t] = attached[t]
          \/ attached'[t] = now
    BY <1>3 DEF WriteTrigger, TypeOK
  <2> QED
    BY <2>1, <2>2 DEF GraceInv, Doomed, Exists, Live, TypeOK, FileRow
<1> QED
  BY <1>1, <1>2, <1>3 DEF Handling

LEMMA GraceSweeping ==
  ASSUME TypeOK, GraceInv, Sweeping
  PROVE  GraceInv'
<1> USE DEF hist
<1>1. CASE ListOrphanFiles
  <2>1. PICK S \in SUBSET Orphans : sweep' = [pc |-> "row", todo |-> S, file |-> None]
    BY <1>1 DEF ListOrphanFiles
  <2>2. UNCHANGED <<file, trigger, now, attached>>
    BY <1>1 DEF ListOrphanFiles
  <2>3. ASSUME NEW f \in Files, Doomed(f)'
        PROVE  /\ Exists(f)
               /\ file[f].created + Grace < now
               /\ \A t \in Triggers : (Live(t) /\ trigger[t].file = f) =>
                    attached[t] > file[f].created + Grace
    <3>1. CASE f \in S
      <4>1. Exists(f) /\ Expired(f) /\ Unreferenced(f)
        BY <3>1 DEF Orphans, LiveFile
      <4> QED
        BY <4>1 DEF Expired, Unreferenced, TypeOK, FileRow
    <3>2. CASE file[f].deleted
      BY <3>2 DEF GraceInv, Doomed
    <3> QED
      BY <2>1, <2>2, <2>3, <3>1, <3>2 DEF Doomed
  <2> QED
    BY <2>2, <2>3 DEF GraceInv, Exists, Live
<1>2. ASSUME NEW f \in sweep.todo, SoftDeleteFile(f)
      PROVE  GraceInv'
  <2>1. /\ f \in Files
        /\ file' = [file EXCEPT ![f].deleted = TRUE]
        /\ sweep'.todo \subseteq sweep.todo
        /\ UNCHANGED <<trigger, now, attached>>
    BY <1>2 DEF SoftDeleteFile, TypeOK
  <2>2. \A g \in Files : Doomed(g)' => Doomed(g)
    BY <2>1, DeletedRow DEF Doomed
  <2> QED
    BY <2>1, <2>2, DeletedRow DEF GraceInv, Exists, Live
<1>3. CASE UNCHANGED <<file, trigger, now, attached>> /\ sweep'.todo \subseteq sweep.todo
  BY <1>3 DEF GraceInv, Doomed, Exists, Live
<1>4. CASE \/ \E f \in sweep.todo : SoftDeleteFails(f)
           \/ DeleteBlob \/ DeleteBlobFails \/ SweepStops
  <2>1. UNCHANGED <<file, trigger, now, attached>>
    BY <1>4 DEF SoftDeleteFails, DeleteBlob, DeleteBlobFails, SweepStops
  <2>2. sweep'.todo \subseteq sweep.todo
    BY <1>4 DEF SoftDeleteFails, DeleteBlob, DeleteBlobFails, SweepStops, NextFile,
                Resting
  <2> QED
    BY <1>3, <2>1, <2>2
<1> QED
  BY <1>1, <1>2, <1>4 DEF Sweeping

LEMMA GraceStep ==
  ASSUME TypeOK, CallInv, GraceInv, [Next]_vars
  PROVE  GraceInv'
<1> USE DEF hist
<1>1. CASE \E h \in Handlers : Handling(h)
  BY <1>1, GraceHandling
<1>2. CASE \E t \in Triggers : DeleteTrigger(t)
  BY <1>2 DEF DeleteTrigger, GraceInv, Doomed, Exists, Live, TypeOK, TriggerRow
<1>3. CASE Sweeping
  BY <1>3, GraceSweeping
<1>4. CASE Crash
  BY <1>4 DEF Crash, Resting, GraceInv, Doomed, Exists, Live
<1>5. CASE Clock
  BY <1>5 DEF Clock, GraceInv, Doomed, Exists, Live, TypeOK, FileRow
<1>6. CASE UNCHANGED vars
  BY <1>6 DEF vars, GraceInv, Doomed, Exists, Live
<1> QED
  BY <1>1, <1>2, <1>3, <1>4, <1>5, <1>6 DEF Next

-----------------------------------------------------------------------------
(* Rows and blobs.                                                         *)

LEMMA RowsHandling ==
  ASSUME TypeOK, CallInv, GraceInv, RowsInv, BetweenInv, BlobsFollowRows,
         NEW h \in Handlers, Handling(h)
  PROVE  RowsInv' /\ BetweenInv' /\ BlobsFollowRows'
<1> USE DEF hist
<1>1. CASE Fetch(h) \/ Dedupe(h) \/ WriteTrigger(h) \/ Fail(h)
  <2>1. UNCHANGED <<file, stored, raced, sweep, blobs, leaked>>
    BY <1>1 DEF Fetch, Dedupe, WriteTrigger, Fail
  <2> QED
    BY <2>1 DEF RowsInv, BetweenInv, BlobsFollowRows, StoredBlobStays, NoBlobStranded,
                LiveFile, Exists, LiveFilesOf
<1>2. CASE Insert(h)
  <2>1. PICK f \in Files :
          /\ ~Exists(f)
          /\ file' = [file EXCEPT ![f] = [hash |-> call[h].hash, created |-> now,
                                          deleted |-> FALSE]]
    BY <1>2 DEF Insert
  <2>2. LiveFilesOf(call[h].hash) = {} /\ UNCHANGED <<stored, raced, sweep, blobs, leaked>>
    BY <1>2 DEF Insert
  <2>3. call[h].hash \in Hashes
    BY <1>2, UnderWay DEF Insert
  <2>4. \A g \in Files : g # f => file'[g] = file[g]
    BY <2>1 DEF TypeOK
  <2>5. file'[f].hash = call[h].hash /\ LiveFile(f)' /\ Exists(f)'
    BY <2>1, <2>3 DEF TypeOK, LiveFile, Exists
  <2>6. f \notin stored /\ f \notin sweep.todo
    BY <2>1 DEF RowsInv, LiveFile
  <2>7. \A g \in Files : g # f => LiveFile(g)' = LiveFile(g) /\ Exists(g)' = Exists(g)
    BY <2>4 DEF LiveFile, Exists
  <2>8. RowsInv'
    BY <2>2, <2>4, <2>5, <2>6, <2>7 DEF RowsInv, LiveFilesOf, TypeOK
  <2>9. BetweenInv'
    <3>1. sweep.pc = "blob" => sweep.file \in Files /\ sweep.file # f
      BY <2>1 DEF BetweenInv, TypeOK
    <3> QED
      BY <2>2, <2>4, <2>6, <2>7, <3>1 DEF BetweenInv
  <2>10. StoredBlobStays'
    BY <2>2, <2>4, <2>6, <2>7 DEF BlobsFollowRows, StoredBlobStays, TypeOK
  <2>11. NoBlobStranded'
    <3> SUFFICES ASSUME NEW k \in blobs \ leaked
                 PROVE  \/ LiveFilesOf(k)' # {}
                        \/ sweep'.pc = "blob" /\ file'[sweep'.file].hash = k
      BY <2>2 DEF NoBlobStranded
    <3>1. CASE \E g \in Files : LiveFile(g) /\ file[g].hash = k
      <4>1. PICK g \in Files : LiveFile(g) /\ file[g].hash = k
        BY <3>1
      <4>2. g # f
        BY <2>1, <4>1 DEF LiveFile
      <4> QED
        BY <2>4, <2>7, <4>1, <4>2 DEF LiveFilesOf
    <3>2. CASE sweep.pc = "blob" /\ file[sweep.file].hash = k
      <4>1. sweep.file \in Files /\ sweep.file # f
        BY <2>1, <3>2 DEF BetweenInv, TypeOK
      <4> QED
        BY <2>2, <2>4, <3>2, <4>1
    <3> QED
      BY <3>1, <3>2 DEF BlobsFollowRows, NoBlobStranded, LiveFilesOf
  <2> QED
    BY <2>8, <2>9, <2>10, <2>11 DEF BlobsFollowRows
<1>3. CASE Put(h)
  <2>1. /\ blobs' = blobs \cup {call[h].hash}
        /\ stored' = stored \cup {call[h].file}
        /\ raced' = IF sweep.pc = "blob" /\ file[sweep.file].hash = call[h].hash
                      THEN raced \cup {call[h].file} ELSE raced
        /\ UNCHANGED <<file, sweep, leaked>>
    BY <1>3 DEF Put
  <2>2. /\ call[h].file \in Files
        /\ LiveFile(call[h].file)
        /\ file[call[h].file].hash = call[h].hash
    BY <1>3, PutIsLive, UnderWay DEF Put
  <2>3. RowsInv'
    BY <2>1, <2>2 DEF RowsInv, LiveFile, Exists
  <2>4. BetweenInv'
    BY <2>1, <2>2 DEF BetweenInv, LiveFile, Exists
  <2>5. StoredBlobStays'
    BY <2>1, <2>2 DEF BlobsFollowRows, StoredBlobStays, LiveFile, Exists
  <2>6. NoBlobStranded'
    BY <2>1, <2>2 DEF BlobsFollowRows, NoBlobStranded, LiveFilesOf, LiveFile, Exists
  <2> QED
    BY <2>3, <2>4, <2>5, <2>6 DEF BlobsFollowRows
<1> QED
  BY <1>1, <1>2, <1>3 DEF Handling

LEMMA RowsSweeping ==
  ASSUME TypeOK, GraceInv, RowsInv, BetweenInv, BlobsFollowRows, Sweeping
  PROVE  RowsInv' /\ BetweenInv' /\ BlobsFollowRows'
<1> USE DEF hist, TypeOK
<1>1. CASE /\ sweep.pc # "blob"
           /\ sweep'.pc # "blob"
           /\ \A f \in sweep'.todo : LiveFile(f)
           /\ UNCHANGED <<file, stored, raced, blobs, leaked>>
  BY <1>1 DEF RowsInv, BetweenInv, BlobsFollowRows, StoredBlobStays, NoBlobStranded,
              LiveFile, Exists, LiveFilesOf
<1>2. CASE ListOrphanFiles \/ SweepStops \/ \E f \in sweep.todo : SoftDeleteFails(f)
  <2>1. sweep.pc # "blob" /\ UNCHANGED <<file, stored, raced, blobs, leaked>>
    BY <1>2 DEF ListOrphanFiles, SweepStops, SoftDeleteFails
  <2>2. sweep'.pc # "blob" /\ \A f \in sweep'.todo : LiveFile(f)
    BY <1>2 DEF ListOrphanFiles, SweepStops, SoftDeleteFails, NextFile, Resting,
                Orphans, RowsInv
  <2> QED
    BY <1>1, <2>1, <2>2
<1>3. ASSUME NEW f \in sweep.todo, SoftDeleteFile(f)
      PROVE  RowsInv' /\ BetweenInv' /\ BlobsFollowRows'
  <2>1. /\ f \in Files
        /\ file' = [file EXCEPT ![f].deleted = TRUE]
        /\ sweep.pc = "row" /\ sweep'.pc = "blob" /\ sweep'.file = f
        /\ UNCHANGED <<stored, raced, blobs, leaked>>
    BY <1>3 DEF SoftDeleteFile
  <2>2. /\ \A g \in Files : /\ file'[g].hash = file[g].hash
                            /\ g # f => file'[g] = file[g]
        /\ file'[f].deleted
    BY <2>1, DeletedRow
  <2>3. \A g \in Files : LiveFile(g)' <=> (LiveFile(g) /\ g # f)
    BY <2>2 DEF LiveFile, Exists
  <2>4. LiveFile(f) /\ sweep'.todo = sweep.todo \ {f}
    BY <1>3 DEF RowsInv, SoftDeleteFile
  <2>5. RowsInv'
    BY <2>1, <2>2, <2>3, <2>4 DEF RowsInv, Exists
  <2>6. BetweenInv'
    <3>1. Exists(f)'
      BY <2>1, <2>2, <2>4 DEF LiveFile, Exists
    <3>2. \A g \in Files : ~(LiveFile(g)' /\ file'[g].hash = file'[f].hash)
      BY <2>1, <2>2, <2>3, <2>4 DEF RowsInv
    <3> QED
      BY <2>1, <3>1, <3>2 DEF BetweenInv
  <2>7. StoredBlobStays'
    BY <2>1, <2>2, <2>3 DEF BlobsFollowRows, StoredBlobStays
  <2>8. NoBlobStranded'
    BY <2>1, <2>2, <2>3 DEF BlobsFollowRows, NoBlobStranded, LiveFilesOf
  <2> QED
    BY <2>5, <2>6, <2>7, <2>8 DEF BlobsFollowRows
<1>4. CASE DeleteBlob
  <2>1. /\ sweep.pc = "blob"
        /\ blobs' = blobs \ {file[sweep.file].hash}
        /\ sweep'.pc # "blob" /\ sweep'.todo = sweep.todo
        /\ UNCHANGED <<file, stored, raced, leaked>>
    BY <1>4 DEF DeleteBlob, NextFile
  <2>2. RowsInv' /\ BetweenInv'
    BY <2>1 DEF RowsInv, BetweenInv, LiveFile, Exists
  <2>3. StoredBlobStays'
    BY <2>1 DEF BetweenInv, BlobsFollowRows, StoredBlobStays, LiveFile, Exists
  <2>4. NoBlobStranded'
    BY <2>1 DEF BlobsFollowRows, NoBlobStranded, LiveFilesOf, LiveFile, Exists
  <2> QED
    BY <2>2, <2>3, <2>4 DEF BlobsFollowRows
<1>5. CASE DeleteBlobFails
  <2>1. /\ sweep.pc = "blob"
        /\ leaked' = leaked \cup {file[sweep.file].hash}
        /\ sweep'.pc # "blob" /\ sweep'.todo = sweep.todo
        /\ UNCHANGED <<file, stored, raced, blobs>>
    BY <1>5 DEF DeleteBlobFails, NextFile
  <2>2. RowsInv' /\ BetweenInv'
    BY <2>1 DEF RowsInv, BetweenInv, LiveFile, Exists
  <2>3. StoredBlobStays' /\ NoBlobStranded'
    BY <2>1 DEF BlobsFollowRows, StoredBlobStays, NoBlobStranded, LiveFilesOf, LiveFile,
                Exists
  <2> QED
    BY <2>2, <2>3 DEF BlobsFollowRows
<1> QED
  BY <1>2, <1>3, <1>4, <1>5 DEF Sweeping

LEMMA RowsStep ==
  ASSUME TypeOK, CallInv, GraceInv, RowsInv, BetweenInv, BlobsFollowRows, [Next]_vars
  PROVE  RowsInv' /\ BetweenInv' /\ BlobsFollowRows'
<1> USE DEF hist
<1>1. CASE \E h \in Handlers : Handling(h)
  BY <1>1, RowsHandling
<1>2. CASE (\E t \in Triggers : DeleteTrigger(t)) \/ Clock \/ UNCHANGED vars
  <2>1. UNCHANGED <<file, stored, raced, sweep, blobs, leaked>>
    BY <1>2 DEF DeleteTrigger, Clock, vars
  <2> QED
    BY <2>1 DEF RowsInv, BetweenInv, BlobsFollowRows, StoredBlobStays, NoBlobStranded,
                LiveFile, Exists, LiveFilesOf
<1>3. CASE Sweeping
  BY <1>3, RowsSweeping
<1>4. CASE Crash
  <2>1. /\ sweep' = Resting
        /\ leaked' = IF sweep.pc = "blob" THEN leaked \cup {file[sweep.file].hash}
                                          ELSE leaked
        /\ UNCHANGED <<file, stored, raced, blobs>>
    BY <1>4 DEF Crash
  <2>2. RowsInv' /\ BetweenInv'
    BY <2>1 DEF RowsInv, BetweenInv, LiveFile, Exists, Resting
  <2>3. StoredBlobStays' /\ NoBlobStranded'
    BY <2>1 DEF BlobsFollowRows, StoredBlobStays, NoBlobStranded, LiveFilesOf, LiveFile,
                Exists
  <2> QED
    BY <2>2, <2>3 DEF BlobsFollowRows
<1> QED
  BY <1>1, <1>2, <1>3, <1>4 DEF Next

-----------------------------------------------------------------------------
(* The theorems.                                                           *)

LEMMA InvInit == Init => Inv
<1> SUFFICES ASSUME Init PROVE Inv
  OBVIOUS
<1>1. TypeOK
  BY TypeInit
<1>2. FileInv /\ GraceInv /\ RowsInv /\ BetweenInv
  BY DEF Init, FileInv, Live, GraceInv, Doomed, RowsInv, BetweenInv, Resting, LiveFile, Exists
<1>3. CallInv
  BY DEF Init, CallInv, Ready
<1>4. BlobsFollowRows
  BY DEF Init, BlobsFollowRows, StoredBlobStays, NoBlobStranded
<1> QED
  BY <1>1, <1>2, <1>3, <1>4 DEF Inv

LEMMA Invariant == Spec => []Inv
<1>1. Init => Inv
  BY InvInit
<1>2. Inv /\ [Next]_vars => Inv'
  BY TypeStep, CallStep, FileStep, GraceStep, RowsStep DEF Inv
<1> QED
  BY <1>1, <1>2, PTL DEF Spec

\* Every reachable state of the trigger files is well typed.
THEOREM FilesTypeCorrect == Spec => []TypeOK
<1>1. Inv => TypeOK
  BY DEF Inv
<1> QED
  BY <1>1, Invariant, PTL

\* For any handlers and any batch: a live trigger that got its file before the row
\* was older than the grace never has a deleted row.
THEOREM GraceCorrect == Spec => []GraceProtects
<1>1. Inv => GraceProtects
  <2> SUFFICES ASSUME Inv, NEW t \in Triggers, Live(t),
                      attached[t] <= file[trigger[t].file].created + Grace,
                      file[trigger[t].file].deleted
               PROVE  FALSE
    BY DEF GraceProtects, Inv, TypeOK
  <2>1. trigger[t].file \in Files
    BY DEF Inv, FileInv
  <2> QED
    BY <2>1 DEF Inv, GraceInv, Doomed, TypeOK, FileRow
<1> QED
  BY <1>1, Invariant, PTL

\* For any interleaving of uploads with the sweep's two deletes: a live row whose
\* blob was written has it unless it was written between the two, and no blob
\* outlives its last live row unless its deletion did not happen.
THEOREM BlobsCorrect == Spec => []BlobsFollowRows
<1>1. Inv => BlobsFollowRows
  BY DEF Inv
<1> QED
  BY <1>1, Invariant, PTL

=============================================================================
