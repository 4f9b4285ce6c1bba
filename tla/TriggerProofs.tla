----------------------------- MODULE TriggerProofs -----------------------------
(***************************************************************************)
(* What is proved of the trigger handlers, of playback, and of how Discord *)
(* has its commands answered, for any calls, messages, users and triggers. *)
(*                                                                         *)
(* TriggerService: its types; the phrase and the mode of a trigger that    *)
(* was not updated under another's feet go together; and an answer shows   *)
(* nothing its user might not have seen; and a listing misses no more rows *)
(* than were deleted under it.  The first needs that a call that may       *)
(* create has passed the checks of a create, and one past its read those   *)
(* of an update for the row it read; the second, that the scope of a row   *)
(* is that of the row as it was read; the third, that the rows it has      *)
(* passed by, unshown, are at any time no more than the deleted ones.      *)
(*                                                                         *)
(* TriggerPlayback: its types with the count of slots, the spacing of      *)
(* forced fires, whose response an undo deletes, and that what is posted   *)
(* is fresh.                                                               *)
(*                                                                         *)
(* Interactions, for any definitions, any folding of names and any         *)
(* catalogue whose commands fit their handlers: every way to name a        *)
(* command leads to it and to no other, what is for its invoker stays so,  *)
(* and an answer is whole and true.  The first needs that no two that are  *)
(* registered share a name, or a group and its subcommand; the others, how *)
(* far a command has come, what was acknowledged and to whom, and that the *)
(* texts that stand are the first ones of the answer, in order.            *)
(***************************************************************************)
EXTENDS TriggerService, TriggerPlayback, Interactions, FiniteSetTheorems,
        WellFoundedInduction, TLAPS

\* A call is at a statement of its handler.
Planned(c) == at[c] \in DOMAIN After[Op(c)] \cup {"done", "failed"}

\* What the checks before a statement have established.
Checked(c) ==
  /\ (Op(c) = "create" /\ at[c] \in {"origin", "insert"}) => WellFormed(asked[c])
  /\ at[c] = "insert" => from[c] \in Guilds
  /\ (Op(c) = "update" /\ at[c] \in {"scope", "write"}) =>
       found[c] \in Row /\ Permits(asked[c], found[c])

Paired(t) == (Live(t) /\ t \notin raced) =>
               Valid(trigger[t].phrase, trigger[t].mode, trigger[t].owner)

ServiceInv ==
  /\ ServiceTypeOK
  /\ \A c \in Calls : Planned(c) /\ Checked(c)
  /\ \A t \in Ids : Paired(t)

Ops == {"create", "update", "delete", "get", "list", "exec", "stats", "file"}

-----------------------------------------------------------------------------
\* Each statement of a handler is followed by one of the same handler, and the
\* writes come after their checks.
LEMMA Order ==
  ASSUME NEW op \in Ops, NEW s \in DOMAIN After[op]
  PROVE  /\ After[op][s] \in DOMAIN After[op] \cup {"done"}
         /\ DOMAIN After[op] \subseteq Steps \ {"done", "failed"}
         /\ After[op][s] = "insert" => op = "create" /\ s = "origin"
         /\ After[op][s] = "origin" /\ op = "create" => s = "new"
         /\ op = "update" /\ After[op][s] = "scope" => s = "read"
         /\ After[op][s] = "write" => op = "update" /\ s = "scope"
         /\ s = "insert" => op = "create"
         /\ s = "write" => op = "update"
<1>1. CASE op = "create" BY <1>1 DEF After, Steps
<1>2. CASE op = "update" BY <1>2 DEF After, Steps
<1>3. CASE op = "delete" BY <1>3 DEF After, Steps
<1>4. CASE op = "get" BY <1>4 DEF After, Steps
<1>5. CASE op = "list" BY <1>5 DEF After, Steps
<1>6. CASE op = "exec" BY <1>6 DEF After, Steps
<1>7. CASE op = "stats" BY <1>7 DEF After, Steps
<1>8. CASE op = "file" BY <1>8 DEF After, Steps
<1> QED BY <1>1, <1>2, <1>3, <1>4, <1>5, <1>6, <1>7, <1>8 DEF Ops

\* Every handler starts with a statement of its own.
LEMMA Starts == \A op \in Ops : "new" \in DOMAIN After[op]
BY DEF After, Ops

\* An update of a row is a row, of the same owner, live as before.
LEMMA MergedIsRow ==
  ASSUME NEW r \in Row, NEW q \in Request
  PROVE  /\ Merged(r, q) \in Row
         /\ Merged(r, q).owner = r.owner
         /\ Merged(r, q).live = r.live
         /\ Merged(r, q).scope = r.scope
         /\ Merged(r, q).phrase = IF q.phrase = Nil THEN r.phrase ELSE q.phrase
         /\ Merged(r, q).mode = IF q.mode = Nil THEN r.mode ELSE q.mode
<1>1. r.version + 1 \in Nat BY DEF Row
<1> QED BY <1>1 DEF Row, Request, Merged, Omitted

\* A call at a statement knows its place in its handler.
LEMMA Placed ==
  ASSUME ServiceTypeOK, NEW c \in Calls, Planned(c), at[c] \notin {"done", "failed"}
  PROVE  Op(c) \in Ops /\ at[c] \in DOMAIN After[Op(c)]
BY DEF ServiceTypeOK, Planned, Request, Ops, Op

\* A statement that leaves every other call alone, and establishes for its own
\* what the next statement relies on, keeps the calls as they should be.
LEMMA Moves ==
  ASSUME ServiceTypeOK, \A d \in Calls : Planned(d) /\ Checked(d),
         NEW c \in Calls, at[c] \notin {"done", "failed"}, Go(c) \/ Refuse(c),
         asked' = asked,
         \A d \in Calls \ {c} : found'[d] = found[d] /\ from'[d] = from[d],
         (Go(c) /\ Op(c) = "create" /\ at[c] = "new") => WellFormed(asked[c]),
         (Go(c) /\ at[c] = "origin" /\ Op(c) = "create") => from'[c] \in Guilds,
         (Go(c) /\ at[c] = "read" /\ Op(c) = "update") =>
           found'[c] \in Row /\ Permits(asked[c], found'[c]),
         at[c] # "read" => found'[c] = found[c]
  PROVE  at' \in [Calls -> Steps] /\ \A d \in Calls : Planned(d)' /\ Checked(d)'
<1>1. Op(c) \in Ops /\ at[c] \in DOMAIN After[Op(c)] BY Placed
<1>2. /\ at \in [Calls -> Steps]
      /\ at' = [at EXCEPT ![c] = at'[c]]
      /\ Go(c) => at'[c] = After[Op(c)][at[c]]
      /\ Refuse(c) => at'[c] = "failed"
  BY DEF ServiceTypeOK, Go, Refuse
<1>3. at'[c] \in DOMAIN After[Op(c)] \cup {"done", "failed"}
  BY <1>1, <1>2, Order
<1>4. at'[c] \in Steps BY <1>1, <1>2, <1>3, Order DEF Steps
<1>5. \A d \in Calls \ {c} : Planned(d)' /\ Checked(d)'
  BY <1>2 DEF Planned, Checked, Op
<1>6. Planned(c)' BY <1>3 DEF Planned, Op
<1>7. Checked(c)'
  <2>1. CASE Refuse(c) BY <2>1, <1>2 DEF Checked
  <2>2. CASE Go(c)
    <3>1. at'[c] = After[Op(c)][at[c]] BY <2>2, <1>2
    <3>2. (Op(c) = "create" /\ at'[c] \in {"origin", "insert"}) => WellFormed(asked[c])
      BY <1>1, <2>2, <3>1, Order DEF Checked
    <3>3. at'[c] = "insert" => from'[c] \in Guilds
      <4>1. at'[c] = "insert" => Op(c) = "create" /\ at[c] = "origin"
        <5>1. After[Op(c)][at[c]] = "insert" => Op(c) = "create" /\ at[c] = "origin"
          BY <1>1, Order
        <5> QED BY <3>1, <5>1
      <4> QED BY <2>2, <4>1
    <3>4. (Op(c) = "update" /\ at'[c] \in {"scope", "write"}) =>
            found'[c] \in Row /\ Permits(asked[c], found'[c])
      BY <1>1, <2>2, <3>1, Order DEF Checked
    <3> QED BY <3>2, <3>3, <3>4 DEF Checked, Op
  <2> QED BY <2>1, <2>2
<1> QED BY <1>2, <1>4, <1>5, <1>6, <1>7

\* A call that is refused has not gone on.
LEMMA Either ==
  ASSUME ServiceTypeOK, NEW c \in Calls, Planned(c), at[c] \notin {"done", "failed"},
         Refuse(c)
  PROVE  ~Go(c)
<1>1. Op(c) \in Ops /\ at[c] \in DOMAIN After[Op(c)] BY Placed
<1>2. After[Op(c)][at[c]] # "failed" BY <1>1, Order
<1> QED BY <1>2 DEF Go, Refuse, ServiceTypeOK

-----------------------------------------------------------------------------
\* The rows there are to begin with are valid, and no call has checked anything.
LEMMA InitHolds == ServiceInit => ServiceInv
<1> SUFFICES ASSUME ServiceInit PROVE ServiceInv OBVIOUS
<1>1. asked \in [Calls -> Request] BY ServiceAssumption DEF ServiceInit
<1>2. trigger \in [Ids -> Omitted(Row)] BY ServiceAssumption DEF ServiceInit
<1>3. ServiceTypeOK BY <1>1, <1>2 DEF ServiceInit, ServiceTypeOK, Steps, Omitted
<1>4. ASSUME NEW c \in Calls PROVE Planned(c) /\ Checked(c)
  <2>1. Op(c) \in Ops BY <1>1 DEF Request, Op, Ops
  <2> QED BY <2>1, Starts DEF ServiceInit, Planned, Checked
<1>5. ASSUME NEW t \in Ids PROVE Paired(t)
  BY ServiceAssumption DEF ServiceInit, Paired, Live
<1> QED BY <1>3, <1>4, <1>5 DEF ServiceInv

\* A statement that writes no trigger keeps them paired.
LEMMA NoWrite ==
  ASSUME \A t \in Ids : Paired(t), UNCHANGED <<trigger, raced>>
  PROVE  \A t \in Ids : Paired(t)'
BY DEF Paired, Live

\* The statements that write no trigger.
LEMMA ReadsHold ==
  ASSUME ServiceInv, NEW c \in Calls,
         \/ Begin(c) \/ Fail(c) \/ Origin(c) \/ ResolveTrigger(c) \/ ReadRow(c)
         \/ ReadTriggerScope(c) \/ ShowTrigger(c) \/ PlayTrigger(c) \/ RecordFire(c)
         \/ ListPage(c) \/ DressPage(c) \/ CountFires(c) \/ FindFile(c)
         \/ FileVisible(c) \/ StreamFile(c)
  PROVE  ServiceInv'
<1> USE DEF ServiceInv
<1> DEFINE Kept == \A d \in Calls : Planned(d)' /\ Checked(d)'
<1>0. UNCHANGED <<asked, trigger, raced>>
  BY DEF Begin, Fail, Origin, ResolveTrigger, ReadRow, ReadTriggerScope, ShowTrigger,
         PlayTrigger, RecordFire, ListPage, DressPage, CountFires, FindFile,
         FileVisible, StreamFile
<1>1. \A t \in Ids : Paired(t)' BY <1>0, NoWrite
<1>2. CASE Begin(c)
  <2>1. at[c] = "new" /\ UNCHANGED <<asked, found, from>> /\ (Go(c) \/ Refuse(c))
    BY <1>2 DEF Begin
  <2>2. Go(c) => WellFormed(asked[c]) BY <1>2, <2>1, Either DEF Begin
  <2>3. at' \in [Calls -> Steps] /\ Kept BY <2>1, <2>2, Moves
  <2> QED BY <1>0, <1>1, <1>2, <2>3 DEF Begin, ServiceTypeOK
<1>3. CASE Fail(c)
  <2>1. Refuse(c) /\ at[c] \notin {"done", "failed"} /\ UNCHANGED <<asked, found, from>>
    BY <1>3 DEF Fail
  <2>2. ~Go(c) BY <2>1, Either
  <2>3. at' \in [Calls -> Steps] /\ Kept BY <2>1, <2>2, Moves
  <2> QED BY <1>0, <1>1, <1>3, <2>3 DEF Fail, ServiceTypeOK
<1>4. CASE Origin(c)
  <2>1. PICK g \in {asked[c].origin, Nil} :
           /\ from' = [from EXCEPT ![c] = g]
           /\ \/ Refuse(c)
              \/ Go(c) /\ (Op(c) = "create" => g # Nil)
    BY <1>4 DEF Origin
  <2>2. g \in Omitted(Guilds) BY DEF ServiceTypeOK, Request, Omitted
  <2>3. from' \in [Calls -> Omitted(Guilds)] /\ from'[c] = g
    BY <2>1, <2>2 DEF ServiceTypeOK
  <2>4. Op(c) = "create" /\ Go(c) => g \in Guilds
    <3>1. at[c] = "origin" BY <1>4 DEF Origin
    <3>2. Go(c) => ~Refuse(c) BY <3>1, Either
    <3> QED BY <2>1, <2>2, <3>2 DEF Omitted
  <2>5. at' \in [Calls -> Steps] /\ Kept
    BY <1>4, <2>1, <2>3, <2>4, Moves DEF Origin, ServiceTypeOK
  <2> QED BY <1>0, <1>1, <1>4, <2>3, <2>5 DEF Origin, ServiceTypeOK
<1>5. CASE ResolveTrigger(c)
  <2>1. at' \in [Calls -> Steps] /\ Kept BY <1>5, Moves DEF ResolveTrigger
  <2> QED BY <1>0, <1>1, <1>5, <2>1 DEF ResolveTrigger, ServiceTypeOK
<1>6. CASE ReadRow(c)
  <2>1. CASE Refuse(c) /\ UNCHANGED found
    <3>1. at[c] = "read" BY <1>6 DEF ReadRow
    <3>2. ~Go(c) BY <2>1, <3>1, Either
    <3>3. at' \in [Calls -> Steps] /\ Kept
      BY <1>6, <2>1, <3>1, <3>2, Moves DEF ReadRow
    <3> QED BY <1>0, <1>1, <1>6, <2>1, <3>3 DEF ReadRow, ServiceTypeOK
  <2>2. CASE /\ Live(asked[c].id)
             /\ Op(c) = "update" => Permits(asked[c], trigger[asked[c].id])
             /\ found' = [found EXCEPT ![c] = trigger[asked[c].id]]
             /\ Go(c)
    <3>1. asked[c].id \in Ids BY <2>2 DEF Live, ServiceTypeOK, Request, Omitted
    <3>2. trigger[asked[c].id] \in Row BY <2>2, <3>1 DEF Live, ServiceTypeOK, Omitted
    <3>3. found' \in [Calls -> Omitted(Row)] /\ found'[c] = trigger[asked[c].id]
      BY <2>2, <3>2 DEF ServiceTypeOK, Omitted
    <3>4. at' \in [Calls -> Steps] /\ Kept
      BY <1>6, <2>2, <3>2, <3>3, Moves DEF ReadRow, ServiceTypeOK
    <3> QED BY <1>0, <1>1, <1>6, <3>3, <3>4 DEF ReadRow, ServiceTypeOK
  <2> QED BY <1>6, <2>1, <2>2 DEF ReadRow
<1>7. CASE ReadTriggerScope(c)
  <2>1. at' \in [Calls -> Steps] /\ Kept BY <1>7, Moves DEF ReadTriggerScope
  <2> QED BY <1>0, <1>1, <1>7, <2>1 DEF ReadTriggerScope, ServiceTypeOK
<1>8. CASE ShowTrigger(c)
  <2>1. at' \in [Calls -> Steps] /\ Kept BY <1>8, Moves DEF ShowTrigger
  <2> QED BY <1>0, <1>1, <1>8, <2>1 DEF ShowTrigger, ServiceTypeOK
<1>9. CASE PlayTrigger(c)
  <2>1. at' \in [Calls -> Steps] /\ Kept BY <1>9, Moves DEF PlayTrigger
  <2> QED BY <1>0, <1>1, <1>9, <2>1 DEF PlayTrigger, ServiceTypeOK
<1>10. CASE RecordFire(c)
  <2>1. at' \in [Calls -> Steps] /\ Kept BY <1>10, Moves DEF RecordFire
  <2>2. fires' \in [Ids -> Nat]
    <3>1. PICK n \in {0, 1} : fires' = [fires EXCEPT ![asked[c].id] = @ + n]
      BY <1>10 DEF RecordFire
    <3>2. fires \in [Ids -> Nat] BY DEF ServiceTypeOK
    <3>3. \A t \in Ids : fires[t] + n \in Nat BY <3>2
    <3> QED BY <3>1, <3>2, <3>3
  <2> QED BY <1>0, <1>1, <1>10, <2>1, <2>2 DEF RecordFire, ServiceTypeOK
<1>11. CASE ListPage(c)
  <2>1. at' \in [Calls -> Steps] /\ Kept BY <1>11, Moves DEF ListPage
  <2>2. page' \in [Calls -> SUBSET (Ids \X Nat)]
    <3>1. PICK f \in Orders(Listed(c)) :
            page' = [page EXCEPT ![c] =
                      {<<f[i], trigger[f[i]].version>> :
                         i \in {j \in DOMAIN f : offset[c] < j /\ j <= offset[c] + Limit}}]
      BY <1>11 DEF ListPage
    <3>2. ASSUME NEW i \in DOMAIN f PROVE <<f[i], trigger[f[i]].version>> \in Ids \X Nat
      <4>1. f[i] \in Listed(c) BY DEF Orders
      <4>2. f[i] \in Ids /\ trigger[f[i]] \in Row
        BY <4>1 DEF Listed, Live, ServiceTypeOK, Omitted
      <4> QED BY <4>2 DEF Row
    <3> QED BY <3>1, <3>2 DEF ServiceTypeOK
  <2> QED BY <1>0, <1>1, <1>11, <2>1, <2>2 DEF ListPage, ServiceTypeOK
<1>12. CASE DressPage(c)
  <2>1. CASE Go(c) /\ UNCHANGED offset
    <3>1. at' \in [Calls -> Steps] /\ Kept BY <1>12, <2>1, Moves DEF DressPage
    <3> QED BY <1>0, <1>1, <1>12, <2>1, <3>1 DEF DressPage, ServiceTypeOK
  <2>2. CASE /\ offset' = [offset EXCEPT ![c] = @ + Limit]
             /\ at' = [at EXCEPT ![c] = "origin"]
    <3>1. Op(c) = "list"
      <4>1. Op(c) \in Ops /\ "dress" \in DOMAIN After[Op(c)]
        BY <1>12, Placed DEF DressPage
      <4> QED BY <4>1 DEF After, Ops
    <3>2. offset' \in [Calls -> Nat] BY <2>2, ServiceAssumption DEF ServiceTypeOK
    <3>3. at' \in [Calls -> Steps] BY <2>2 DEF ServiceTypeOK, Steps
    <3>4. at'[c] = "origin" /\ "origin" \in DOMAIN After["list"]
      BY <2>2 DEF ServiceTypeOK, After
    <3>5. Planned(c)' /\ Checked(c)' BY <1>0, <3>1, <3>4 DEF Planned, Checked, Op
    <3>6. UNCHANGED <<found, from>> BY <1>12 DEF DressPage
    <3>7. \A d \in Calls \ {c} : Planned(d)' /\ Checked(d)'
      BY <1>0, <2>2, <3>6 DEF Planned, Checked, Op, ServiceTypeOK
    <3> QED BY <1>0, <1>1, <1>12, <3>2, <3>3, <3>5, <3>7 DEF DressPage, ServiceTypeOK
  <2> QED BY <1>12, <2>1, <2>2 DEF DressPage
<1>13. CASE CountFires(c)
  <2>1. at' \in [Calls -> Steps] /\ Kept BY <1>13, Moves DEF CountFires
  <2> QED BY <1>0, <1>1, <1>13, <2>1 DEF CountFires, ServiceTypeOK
<1>14. CASE FindFile(c)
  <2>1. at' \in [Calls -> Steps] /\ Kept BY <1>14, Moves DEF FindFile
  <2> QED BY <1>0, <1>1, <1>14, <2>1 DEF FindFile, ServiceTypeOK
<1>15. CASE FileVisible(c)
  <2>1. at' \in [Calls -> Steps] /\ Kept BY <1>15, Moves DEF FileVisible
  <2> QED BY <1>0, <1>1, <1>15, <2>1 DEF FileVisible, ServiceTypeOK
<1>16. CASE StreamFile(c)
  <2>1. at' \in [Calls -> Steps] /\ Kept BY <1>16, Moves DEF StreamFile
  <2> QED BY <1>0, <1>1, <1>16, <2>1 DEF StreamFile, ServiceTypeOK
<1> QED BY <1>2, <1>3, <1>4, <1>5, <1>6, <1>7, <1>8, <1>9, <1>10, <1>11, <1>12,
           <1>13, <1>14, <1>15, <1>16

\* A create stores what its checks have passed.
LEMMA InsertHolds ==
  ASSUME ServiceInv, NEW c \in Calls, InsertTrigger(c)
  PROVE  ServiceInv'
<1> USE DEF ServiceInv
<1> DEFINE q == asked[c]
<1>0. at[c] = "insert" /\ UNCHANGED <<asked, found, from, offset, page, fires, told, raced>>
  BY DEF InsertTrigger
<1>1. Go(c) \/ Refuse(c) BY DEF InsertTrigger
<1>2. at' \in [Calls -> Steps] /\ \A d \in Calls : Planned(d)' /\ Checked(d)'
  BY <1>0, <1>1, Moves
<1>3. Op(c) = "create" BY <1>0, Placed, Order
<1>4. q \in Request BY DEF ServiceTypeOK
<1>5. /\ q.phrase \in Phrases
      /\ Valid(q.phrase, IF q.mode = Nil THEN "any" ELSE q.mode, q.user)
  BY <1>0, <1>3, <1>4 DEF Checked, WellFormed, Op, Request, Omitted
<1>6. CASE UNCHANGED trigger
  BY <1>0, <1>2, <1>6, NoWrite DEF ServiceTypeOK
<1>7. CASE ~UNCHANGED trigger
  <2>1. PICK t \in {s \in Ids : trigger[s] = Nil}, when \in Instants :
          Store(t, [phrase |-> q.phrase, mode |-> IF q.mode = Nil THEN "any" ELSE q.mode,
                    reply |-> q.reply = TRUE, file |-> q.file, owner |-> q.user,
                    scope |-> {from[c]}, created |-> when, live |-> TRUE, version |-> 0])
    BY <1>7 DEF InsertTrigger
  <2> DEFINE r == [phrase |-> q.phrase, mode |-> IF q.mode = Nil THEN "any" ELSE q.mode,
                   reply |-> q.reply = TRUE, file |-> q.file, owner |-> q.user,
                   scope |-> {from[c]}, created |-> when, live |-> TRUE, version |-> 0]
  <2>2. trigger' = [trigger EXCEPT ![t] = r] BY <2>1 DEF Store
  <2>3. from[c] \in Guilds BY <1>0 DEF Checked
  <2>4. (IF q.mode = Nil THEN "any" ELSE q.mode) \in Modes
    BY <1>4 DEF Request, Omitted, Modes
  <2>5. r \in Row BY <1>4, <1>5, <2>3, <2>4 DEF Row, Request
  <2>6. Valid(r.phrase, r.mode, r.owner) BY <1>5
  <2> HIDE DEF r
  <2>7. trigger' \in [Ids -> Omitted(Row)] BY <2>2, <2>5 DEF ServiceTypeOK, Omitted
  <2>8. \A s \in Ids : Paired(s)' BY <1>0, <2>2, <2>6 DEF Paired, Live, ServiceTypeOK
  <2> QED BY <1>0, <1>2, <2>7, <2>8 DEF ServiceTypeOK
<1> QED BY <1>6, <1>7

\* An update stores what its checks have passed, if the row is as it was read.
LEMMA WriteHolds ==
  ASSUME ServiceInv, NEW c \in Calls, WriteTrigger(c)
  PROVE  ServiceInv'
<1> USE DEF ServiceInv
<1> DEFINE q == asked[c]
           t == asked[c].id
           r == trigger[t]
<1>0. at[c] = "write" /\ UNCHANGED <<asked, found, from, offset, page, fires, told>>
  BY DEF WriteTrigger
<1>1. Go(c) \/ Refuse(c) BY DEF WriteTrigger
<1>2. at' \in [Calls -> Steps] /\ \A d \in Calls : Planned(d)' /\ Checked(d)'
  BY <1>0, <1>1, Moves
<1>3. CASE UNCHANGED <<trigger, raced>>
  BY <1>0, <1>2, <1>3, NoWrite DEF ServiceTypeOK
<1>4. CASE /\ Live(t) /\ r.owner = q.user
           /\ Store(t, Merged(r, q))
           /\ raced' = IF <<r.phrase, r.mode>> = <<found[c].phrase, found[c].mode>>
                         THEN raced ELSE raced \cup {t}
  <2>1. t \in Ids /\ r \in Row /\ q \in Request
    BY <1>4 DEF Live, ServiceTypeOK, Request, Omitted
  <2>2. Merged(r, q) \in Row /\ Merged(r, q).owner = r.owner
    BY <2>1, MergedIsRow
  <2>3. trigger' = [trigger EXCEPT ![t] = Merged(r, q)] BY <1>4 DEF Store
  <2>4. trigger' \in [Ids -> Omitted(Row)] BY <2>2, <2>3 DEF ServiceTypeOK, Omitted
  <2>5. raced' \in SUBSET Ids /\ raced \subseteq raced' BY <1>4, <2>1 DEF ServiceTypeOK
  <2>6. Paired(t)'
    <3> SUFFICES ASSUME t \notin raced'
                 PROVE  Valid(Merged(r, q).phrase, Merged(r, q).mode, Merged(r, q).owner)
      BY <1>0, <2>1, <2>3 DEF Paired, ServiceTypeOK
    <3>1. r.phrase = found[c].phrase /\ r.mode = found[c].mode /\ t \notin raced
      BY <1>4
    <3>2. Op(c) = "update" BY <1>0, Placed, Order
    <3>3. found[c] \in Row /\ Permits(q, found[c]) BY <1>0, <3>2 DEF Checked
    <3>4. /\ Merged(r, q).phrase = Merged(found[c], q).phrase
          /\ Merged(r, q).mode = Merged(found[c], q).mode
      BY <2>1, <3>1, <3>3, MergedIsRow
    <3>5. CASE q.phrase = Nil /\ q.mode = Nil
      <4>1. Valid(r.phrase, r.mode, r.owner) BY <1>4, <2>1, <3>1 DEF Paired
      <4> QED BY <2>1, <2>2, <3>5, <4>1, MergedIsRow
    <3>6. CASE q.phrase # Nil \/ q.mode # Nil
      <4>1. Valid(Merged(found[c], q).phrase, Merged(found[c], q).mode, q.user)
        BY <3>3, <3>6 DEF Permits
      <4> QED BY <1>4, <2>2, <3>4, <4>1
    <3> QED BY <3>5, <3>6
  <2>7. \A s \in Ids \ {t} : Paired(s)'
    BY <2>1, <2>3, <2>5 DEF Paired, Live, ServiceTypeOK
  <2> QED BY <1>0, <1>2, <2>4, <2>5, <2>6, <2>7 DEF ServiceTypeOK
<1> QED BY <1>3, <1>4 DEF WriteTrigger

\* A delete leaves every other trigger as it is.
LEMMA RemoveHolds ==
  ASSUME ServiceInv, NEW c \in Calls, RemoveTrigger(c)
  PROVE  ServiceInv'
<1> USE DEF ServiceInv
<1> DEFINE t == asked[c].id
<1>0. /\ at[c] = "remove"
      /\ UNCHANGED <<asked, found, from, offset, page, fires, told, raced>>
  BY DEF RemoveTrigger
<1>1. Go(c) \/ Refuse(c) BY DEF RemoveTrigger
<1>2. at' \in [Calls -> Steps] /\ \A d \in Calls : Planned(d)' /\ Checked(d)'
  BY <1>0, <1>1, Moves
<1>3. CASE UNCHANGED trigger
  BY <1>0, <1>2, <1>3, NoWrite DEF ServiceTypeOK
<1>4. CASE Live(t) /\ Store(t, [trigger[t] EXCEPT !.live = FALSE])
  <2>1. t \in Ids /\ trigger[t] \in Row
    BY <1>4 DEF Live, ServiceTypeOK, Request, Omitted
  <2>2. [trigger[t] EXCEPT !.live = FALSE] \in Row
        /\ ~[trigger[t] EXCEPT !.live = FALSE].live
    BY <2>1 DEF Row
  <2>3. trigger' = [trigger EXCEPT ![t] = [trigger[t] EXCEPT !.live = FALSE]]
    BY <1>4 DEF Store
  <2>4. trigger' \in [Ids -> Omitted(Row)] BY <2>2, <2>3 DEF ServiceTypeOK, Omitted
  <2>5. \A s \in Ids : Paired(s)'
    BY <1>0, <2>1, <2>2, <2>3 DEF Paired, Live, ServiceTypeOK
  <2> QED BY <1>0, <1>2, <2>4, <2>5 DEF ServiceTypeOK
<1> QED BY <1>3, <1>4 DEF RemoveTrigger

\* Every step keeps the invariant.
LEMMA ServiceInductive == ServiceInv /\ [ServiceNext]_serviceVars => ServiceInv'
<1> SUFFICES ASSUME ServiceInv, [ServiceNext]_serviceVars PROVE ServiceInv' OBVIOUS
<1>1. CASE UNCHANGED serviceVars
  BY <1>1 DEF serviceVars, ServiceInv, ServiceTypeOK, Planned, Checked, Paired, Live, Op
<1>2. CASE ServiceNext
  <2>1. PICK c \in Calls : ServiceStep(c) BY <1>2 DEF ServiceNext
  <2> QED BY <2>1, ReadsHold, InsertHolds, WriteHolds, RemoveHolds DEF ServiceStep
<1> QED BY <1>1, <1>2

\* The invariant holds in every reachable state.
LEMMA ServiceInvariant == ServiceSpec => []ServiceInv
BY InitHolds, ServiceInductive, PTL DEF ServiceSpec

\* TriggerService is well typed, for any calls, users and triggers.
THEOREM ServiceTypeCorrect == ServiceSpec => []ServiceTypeOK
<1>1. ServiceInv => ServiceTypeOK BY DEF ServiceInv
<1> QED BY <1>1, ServiceInvariant, PTL

\* Whatever calls interleave, a trigger no update raced for has a phrase that
\* compiles in its mode, and a moderator's if that mode is regex.
THEOREM StoredTogetherCorrect == ServiceSpec => []StoredTogether
<1>1. ServiceInv => StoredTogether BY DEF ServiceInv, StoredTogether, Paired
<1> QED BY <1>1, ServiceInvariant, PTL

-----------------------------------------------------------------------------
(* What answers show.                                                      *)

\* Statements of a get and of an execution that rely on the row that was read.
HasRow(c) ==
  \/ Op(c) = "get" /\ at[c] \in {"scope", "origin", "show"}
  \/ Op(c) = "exec" /\ at[c] \in {"scope", "play"}

\* The row was live when it was read, its scope is still that, and whoever may see
\* it might have seen what it was read as.
ReadAsSeen(c) ==
  LET t == asked[c].id
      r == found[c]
  IN
  /\ t \in Ids /\ trigger[t] \in Row
  /\ r \in Row /\ r.live /\ trigger[t].scope = r.scope
  /\ Sees(c, r) => <<t, r.version>> \in could[c] /\ <<r.file>> \in could[c]

\* What the checks before an answer have established.
Approved(c) ==
  /\ HasRow(c) => ReadAsSeen(c)
  /\ (Op(c) = "get" /\ at[c] = "show") => Sees(c, found[c])
  /\ (Op(c) = "exec" /\ at[c] = "play") => from[c] \in found[c].scope
  /\ at[c] = "stream" => <<asked[c].file>> \in could[c]

\* Between its statements, a call keeps only what its user might have seen.
Carries(c) ==
  /\ from[c] \in {asked[c].origin, Nil}
  /\ at[c] = "new" => told[c] = {} /\ page[c] = {}
  /\ page[c] \subseteq could[c]
  /\ told[c] \subseteq could[c] \cup {<<Nil>>}

ScopeInv ==
  /\ told = [c \in Calls |-> told[c]] /\ could = [c \in Calls |-> could[c]]
  /\ \A c \in Calls : Begun(c) => Seen(c, trigger) \subseteq could[c]
  /\ \A c \in Calls : Carries(c)
  /\ \A c \in Calls : Approved(c)

\* Which statement an answer, or the check before it, follows.
LEMMA AnswerOrder ==
  ASSUME NEW op \in Ops, NEW s \in DOMAIN After[op]
  PROVE  /\ After[op][s] # "new" /\ After[op][s] # "failed"
         /\ op \in {"get", "exec"} /\ After[op][s] = "scope" => s = "read"
         /\ op = "get" /\ After[op][s] = "origin" => s = "scope"
         /\ op = "get" /\ After[op][s] = "show" => s = "origin"
         /\ op = "exec" /\ After[op][s] = "play" => s = "scope"
         /\ After[op][s] = "stream" => s = "visible"
         /\ s = "show" => op = "get"
         /\ s = "play" => op = "exec"
         /\ s \in {"page", "dress"} => op = "list"
         /\ s \in {"visible", "stream"} => op = "file"
<1>1. CASE op = "create" BY <1>1 DEF After
<1>2. CASE op = "update" BY <1>2 DEF After
<1>3. CASE op = "delete" BY <1>3 DEF After
<1>4. CASE op = "get" BY <1>4 DEF After
<1>5. CASE op = "list" BY <1>5 DEF After
<1>6. CASE op = "exec" BY <1>6 DEF After
<1>7. CASE op = "stats" BY <1>7 DEF After
<1>8. CASE op = "file" BY <1>8 DEF After
<1> QED BY <1>1, <1>2, <1>3, <1>4, <1>5, <1>6, <1>7, <1>8 DEF Ops

\* What a user sees of the table is his to see.
LEMMA SeenOf ==
  ASSUME NEW c \in Calls, NEW t \in Ids, Sees(c, trigger[t])
  PROVE  /\ <<t, trigger[t].version>> \in Seen(c, trigger)
         /\ <<trigger[t].file>> \in Seen(c, trigger)
BY DEF Seen

\* At the start nothing is told.
LEMMA ScopeInit == ServiceInit => ScopeInv
<1> SUFFICES ASSUME ServiceInit PROVE ScopeInv OBVIOUS
<1>1. /\ told = [c \in Calls |-> {}] /\ could = [c \in Calls |-> {}]
      /\ page = [c \in Calls |-> {}] /\ from = [c \in Calls |-> Nil]
      /\ at = [c \in Calls |-> "new"]
  BY DEF ServiceInit
<1>2. \A c \in Calls : ~Begun(c) /\ Carries(c) BY <1>1 DEF Begun, Carries
<1>3. \A c \in Calls : Approved(c) BY <1>1 DEF Approved, HasRow
<1>4. told = [c \in Calls |-> told[c]] /\ could = [c \in Calls |-> could[c]] BY <1>1
<1> QED BY <1>2, <1>3, <1>4 DEF ScopeInv

\* The rows keep their scope, and what might be seen is not forgotten.
Stays ==
  /\ \A t \in Ids : trigger[t] \in Row =>
       trigger'[t] \in Row /\ trigger'[t].scope = trigger[t].scope
  /\ \A c \in Calls : at[c] # "new" => could[c] \subseteq could'[c]

\* A call that another's statement leaves alone.
LEMMA Bystander ==
  ASSUME ScopeInv, NEW d \in Calls, asked' = asked,
         at'[d] = at[d], found'[d] = found[d], from'[d] = from[d],
         page'[d] = page[d], told'[d] = told[d], Stays,
         at[d] = "new" => could'[d] = could[d]
  PROVE  Carries(d)' /\ Approved(d)'
<1>1. could[d] \subseteq could'[d] BY DEF Stays
<1>2. Carries(d)' BY <1>1 DEF ScopeInv, Carries
<1>3. HasRow(d)' = HasRow(d) BY DEF HasRow, Op
<1>4. ReadAsSeen(d) => ReadAsSeen(d)' BY <1>1 DEF ReadAsSeen, Sees, Op, Stays
<1> QED BY <1>1, <1>2, <1>3, <1>4 DEF ScopeInv, Approved, Sees, Op

\* A statement that goes on with what its answer relies on, or is refused.
LEMMA ScopeMoves ==
  ASSUME ServiceInv, ScopeInv, NEW c \in Calls, Begun(c), Go(c) \/ Refuse(c),
         asked' = asked, Stays,
         Go(c) /\ at[c] = "read" /\ Op(c) \in {"get", "exec"} => ReadAsSeen(c)',
         at[c] # "read" => found'[c] = found[c],
         at[c] # "origin" => from'[c] = from[c],
         Go(c) /\ Op(c) = "get" /\ at[c] = "origin" => Sees(c, found[c]),
         Go(c) /\ Op(c) = "exec" /\ at[c] = "scope" => from[c] \in found[c].scope,
         Go(c) /\ at[c] = "visible" => <<asked[c].file>> \in could[c]
  PROVE  /\ Approved(c)'
         /\ at'[c] # "new"
         /\ \A d \in Calls \ {c} : at'[d] = at[d]
<1>1. Op(c) \in Ops /\ at[c] \in DOMAIN After[Op(c)]
  BY Placed DEF ServiceInv, Begun
<1>2. \A d \in Calls \ {c} : at'[d] = at[d] BY DEF Go, Refuse, ServiceInv, ServiceTypeOK
<1>3. could[c] \subseteq could'[c] BY DEF Stays, Begun
<1>4. CASE Refuse(c)
  <2>1. at'[c] = "failed" BY <1>4 DEF Refuse, ServiceInv, ServiceTypeOK
  <2> QED BY <1>2, <2>1 DEF Approved, HasRow
<1>5. CASE Go(c)
  <2>1. at'[c] = After[Op(c)][at[c]] BY <1>5 DEF Go, ServiceInv, ServiceTypeOK
  <2>2. at'[c] # "new" BY <1>1, <2>1, AnswerOrder
  <2>3. HasRow(c)' => ReadAsSeen(c)'
    <3>1. HasRow(c)' => (at[c] = "read" /\ Op(c) \in {"get", "exec"}) \/ HasRow(c)
      <4>1. at'[c] = "scope" /\ Op(c) \in {"get", "exec"} => at[c] = "read"
        BY <1>1, <2>1, AnswerOrder
      <4>2. at'[c] = "origin" /\ Op(c) = "get" => at[c] = "scope"
        BY <1>1, <2>1, AnswerOrder
      <4>3. at'[c] = "show" /\ Op(c) = "get" => at[c] = "origin"
        BY <1>1, <2>1, AnswerOrder
      <4>4. at'[c] = "play" /\ Op(c) = "exec" => at[c] = "scope"
        BY <1>1, <2>1, AnswerOrder
      <4> QED BY <4>1, <4>2, <4>3, <4>4 DEF HasRow, Op
    <3>2. HasRow(c) /\ at[c] # "read" => ReadAsSeen(c)'
      <4>1. HasRow(c) => ReadAsSeen(c) BY DEF ScopeInv, Approved
      <4> QED BY <1>3, <4>1 DEF ReadAsSeen, Sees, Op, Stays
    <3> QED BY <1>5, <3>1, <3>2 DEF HasRow
  <2>4. (Op(c) = "get" /\ at'[c] = "show") => Sees(c, found'[c])
    <3>1. Op(c) = "get" /\ at'[c] = "show" => at[c] = "origin" BY <1>1, <2>1, AnswerOrder
    <3> QED BY <1>5, <3>1
  <2>5. (Op(c) = "exec" /\ at'[c] = "play") => from'[c] \in found'[c].scope
    <3>1. Op(c) = "exec" /\ at'[c] = "play" => at[c] = "scope" BY <1>1, <2>1, AnswerOrder
    <3> QED BY <1>5, <3>1
  <2>6. at'[c] = "stream" => <<asked[c].file>> \in could'[c]
    <3>1. at'[c] = "stream" => at[c] = "visible" BY <1>1, <2>1, AnswerOrder
    <3> QED BY <1>3, <1>5, <3>1
  <2> QED BY <1>2, <2>2, <2>3, <2>4, <2>5, <2>6 DEF Approved, Sees, Op
<1> QED BY <1>4, <1>5

\* What a create stores is a row.
LEMMA NewIsRow ==
  ASSUME ServiceInv, NEW c \in Calls, at[c] = "insert", NEW when \in Instants
  PROVE  [phrase |-> asked[c].phrase,
          mode |-> IF asked[c].mode = Nil THEN "any" ELSE asked[c].mode,
          reply |-> asked[c].reply = TRUE, file |-> asked[c].file, owner |-> asked[c].user,
          scope |-> {from[c]}, created |-> when, live |-> TRUE, version |-> 0] \in Row
<1> DEFINE q == asked[c]
<1>1. Op(c) = "create" BY Placed, Order DEF ServiceInv
<1>2. q \in Request BY DEF ServiceInv, ServiceTypeOK
<1>3. q.phrase \in Phrases
  BY <1>1, <1>2 DEF ServiceInv, Checked, WellFormed, Op, Request, Omitted
<1>4. from[c] \in Guilds BY DEF ServiceInv, Checked
<1>5. (IF q.mode = Nil THEN "any" ELSE q.mode) \in Modes
  BY <1>2 DEF Request, Omitted, Modes
<1> QED BY <1>2, <1>3, <1>4, <1>5 DEF Row, Request

\* A statement that changes no row and nothing of another call.
LEMMA QuietStep ==
  ASSUME ScopeInv, NEW c \in Calls, Begun(c), UNCHANGED <<asked, trigger, could>>,
         \A d \in Calls \ {c} : /\ at'[d] = at[d] /\ found'[d] = found[d] /\ from'[d] = from[d]
                                /\ page'[d] = page[d] /\ told'[d] = told[d],
         told' = [d \in Calls |-> told'[d]],
         Carries(c)', Approved(c)'
  PROVE  ScopeInv'
<1>1. Stays BY DEF Stays
<1>2. \A d \in Calls \ {c} : Carries(d)' /\ Approved(d)' BY <1>1, Bystander
<1>3. \A d \in Calls : Begun(d)' => Begun(d) BY DEF Begun
<1>4. \A d \in Calls : Seen(d, trigger)' = Seen(d, trigger) BY DEF Seen, Sees, Op
<1>5. \A d \in Calls : Begun(d)' => Seen(d, trigger)' \subseteq could'[d]
  BY <1>3, <1>4 DEF ScopeInv
<1>6. could' = [d \in Calls |-> could'[d]] BY DEF ScopeInv
<1> QED BY <1>2, <1>5, <1>6 DEF ScopeInv

\* A call begins with what its user sees of the table as it is.
LEMMA BeginScope ==
  ASSUME ServiceInv, ScopeInv, NEW c \in Calls, Begin(c)
  PROVE  ScopeInv'
<1>1. /\ at[c] = "new" /\ (Go(c) \/ Refuse(c))
      /\ UNCHANGED <<asked, found, from, page, trigger, told>>
      /\ could' = [could EXCEPT ![c] = Seen(c, trigger)]
  BY DEF Begin
<1>2. /\ \A d \in Calls \ {c} : at'[d] = at[d] /\ could'[d] = could[d]
      /\ could'[c] = Seen(c, trigger) /\ could' = [d \in Calls |-> could'[d]]
  BY <1>1 DEF Go, Refuse, ServiceInv, ServiceTypeOK, ScopeInv
<1>3. Op(c) \in Ops /\ at[c] \in DOMAIN After[Op(c)]
  BY <1>1, Placed DEF ServiceInv
<1>4. at'[c] = "failed" \/ at'[c] = After[Op(c)]["new"]
  BY <1>1 DEF Go, Refuse, ServiceInv, ServiceTypeOK
<1>5. at'[c] # "new" /\ ~HasRow(c)' /\ at'[c] # "stream"
      /\ (Op(c) = "get" => at'[c] # "show") /\ (Op(c) = "exec" => at'[c] # "play")
  BY <1>1, <1>3, <1>4, AnswerOrder DEF HasRow, Op
<1>6. Carries(c)' /\ Approved(c)'
  BY <1>1, <1>5 DEF ScopeInv, Carries, Approved, Op
<1>7. Stays BY <1>1, <1>2 DEF Stays
<1>8. \A d \in Calls \ {c} : Carries(d)' /\ Approved(d)'
  BY <1>1, <1>2, <1>7, Bystander
<1>9. \A d \in Calls : Seen(d, trigger)' = Seen(d, trigger) BY <1>1 DEF Seen, Sees, Op
<1>10. \A d \in Calls : Begun(d)' => Seen(d, trigger)' \subseteq could'[d]
  BY <1>2, <1>9 DEF ScopeInv, Begun
<1> QED BY <1>1, <1>2, <1>6, <1>8, <1>10 DEF ScopeInv

\* A write is seen by whoever may see it, at the instant of the write.
LEMMA StoreScope ==
  ASSUME ServiceInv, ScopeInv, NEW c \in Calls, Begun(c), NEW t \in Ids, NEW r \in Row,
         at[c] \in {"insert", "write", "remove"},
         trigger[t] # Nil => trigger[t].scope = r.scope,
         Store(t, r), Go(c), UNCHANGED <<asked, found, from, page, told>>
  PROVE  ScopeInv'
<1>1. trigger' = [trigger EXCEPT ![t] = r]
  BY DEF Store
<1>2. \A d \in Calls : could'[d] = IF Begun(d) THEN could[d] \cup Seen(d, trigger') ELSE could[d]
  BY DEF Store
<1>3. could' = [d \in Calls |-> could'[d]] BY DEF Store
<1>4. Stays
  BY <1>1, <1>2, ServiceAssumption DEF Stays, ServiceInv, ServiceTypeOK
<1>5. /\ Approved(c)' /\ at'[c] # "new"
      /\ \A d \in Calls \ {c} : at'[d] = at[d]
  BY <1>4, ScopeMoves
<1>6. \A d \in Calls \ {c} : Carries(d)' /\ Approved(d)'
  BY <1>2, <1>4, <1>5, Bystander DEF Begun
<1>7. Carries(c)' BY <1>2, <1>5 DEF ScopeInv, Carries
<1>8. \A d \in Calls : Begun(d)' => Begun(d) BY <1>5 DEF Begun
<1>9. \A d \in Calls : Seen(d, trigger)' = Seen(d, trigger') BY DEF Seen, Sees, Op
<1>10. \A d \in Calls : Begun(d)' => Seen(d, trigger)' \subseteq could'[d]
  BY <1>2, <1>8, <1>9
<1> QED BY <1>3, <1>5, <1>6, <1>7, <1>10 DEF ScopeInv

\* The writes.
LEMMA WritesScope ==
  ASSUME ServiceInv, ScopeInv, NEW c \in Calls,
         InsertTrigger(c) \/ WriteTrigger(c) \/ RemoveTrigger(c)
  PROVE  ScopeInv'
<1> DEFINE q == asked[c]
<1>1. /\ at[c] \in {"insert", "write", "remove"}
      /\ UNCHANGED <<asked, found, from, page, told>>
  BY DEF InsertTrigger, WriteTrigger, RemoveTrigger
<1>2. Begun(c) BY <1>1 DEF Begun
<1>3. CASE Refuse(c) /\ UNCHANGED <<trigger, could>>
  <2>1. Stays BY <1>3 DEF Stays
  <2>2. at'[c] = "failed" /\ \A d \in Calls \ {c} : at'[d] = at[d]
    BY <1>3 DEF Refuse, ServiceInv, ServiceTypeOK
  <2>3. Approved(c)' BY <2>2 DEF Approved, HasRow
  <2>4. Carries(c)' BY <1>1, <1>3, <2>2 DEF ScopeInv, Carries
  <2>5. told' = [d \in Calls |-> told'[d]] BY <1>1 DEF ScopeInv
  <2> QED BY <1>1, <1>2, <1>3, <2>2, <2>3, <2>4, <2>5, QuietStep
<1>4. ASSUME NEW t \in Ids, NEW r \in Row, trigger[t] # Nil => trigger[t].scope = r.scope,
             Store(t, r), Go(c)
      PROVE  ScopeInv'
  BY <1>1, <1>2, <1>4, StoreScope
<1>5. CASE InsertTrigger(c)
  <2>1. CASE \E t \in {s \in Ids : trigger[s] = Nil}, when \in Instants :
               /\ Store(t, [phrase |-> q.phrase, mode |-> IF q.mode = Nil THEN "any" ELSE q.mode,
                            reply |-> q.reply = TRUE, file |-> q.file, owner |-> q.user,
                            scope |-> {from[c]}, created |-> when, live |-> TRUE, version |-> 0])
               /\ Go(c)
    <3> PICK t \in {s \in Ids : trigger[s] = Nil}, when \in Instants :
               /\ Store(t, [phrase |-> q.phrase, mode |-> IF q.mode = Nil THEN "any" ELSE q.mode,
                            reply |-> q.reply = TRUE, file |-> q.file, owner |-> q.user,
                            scope |-> {from[c]}, created |-> when, live |-> TRUE, version |-> 0])
               /\ Go(c)
      BY <2>1
    <3> DEFINE r == [phrase |-> q.phrase, mode |-> IF q.mode = Nil THEN "any" ELSE q.mode,
                     reply |-> q.reply = TRUE, file |-> q.file, owner |-> q.user,
                     scope |-> {from[c]}, created |-> when, live |-> TRUE, version |-> 0]
    <3>1. at[c] = "insert" BY <1>5 DEF InsertTrigger
    <3>2. r \in Row BY <3>1, NewIsRow
    <3> HIDE DEF r
    <3>3. Store(t, r) BY DEF r
    <3> QED BY <1>4, <3>2, <3>3
  <2> QED BY <1>3, <1>5, <2>1 DEF InsertTrigger
<1>6. CASE WriteTrigger(c)
  <2> DEFINE t == asked[c].id
  <2>1. CASE Live(t) /\ Store(t, Merged(trigger[t], asked[c])) /\ Go(c)
    <3>1. t \in Ids /\ trigger[t] \in Row /\ asked[c] \in Request
      BY <2>1 DEF Live, ServiceInv, ServiceTypeOK, Request, Omitted
    <3>2. Merged(trigger[t], asked[c]) \in Row /\ Merged(trigger[t], asked[c]).scope = trigger[t].scope
      BY <3>1, MergedIsRow
    <3> QED BY <1>4, <2>1, <3>1, <3>2
  <2> QED BY <1>3, <1>6, <2>1 DEF WriteTrigger
<1>7. CASE RemoveTrigger(c)
  <2> DEFINE t == asked[c].id
             r == [trigger[t] EXCEPT !.live = FALSE]
  <2>1. CASE Live(t) /\ Store(t, r) /\ Go(c)
    <3>1. t \in Ids /\ trigger[t] \in Row
      BY <2>1 DEF Live, ServiceInv, ServiceTypeOK, Request, Omitted
    <3>2. r \in Row /\ r.scope = trigger[t].scope BY <3>1 DEF Row
    <3> QED BY <1>4, <2>1, <3>1, <3>2
  <2> QED BY <1>3, <1>7, <2>1 DEF RemoveTrigger
<1> QED BY <1>5, <1>6, <1>7

\* The statements between: lookups, and checks.
LEMMA ChecksScope ==
  ASSUME ServiceInv, ScopeInv, NEW c \in Calls,
         \/ Fail(c) \/ Origin(c) \/ ResolveTrigger(c) \/ ReadRow(c) \/ ReadTriggerScope(c)
         \/ RecordFire(c) \/ FindFile(c) \/ FileVisible(c)
  PROVE  ScopeInv'
<1>1. /\ at[c] \notin {"new", "done", "failed"} /\ (Go(c) \/ Refuse(c))
      /\ UNCHANGED <<asked, page, trigger, told, could>>
  BY DEF Fail, Origin, ResolveTrigger, ReadRow, ReadTriggerScope, RecordFire, FindFile,
         FileVisible
<1>2. Begun(c) BY <1>1 DEF Begun
<1>3. Op(c) \in Ops /\ at[c] \in DOMAIN After[Op(c)] BY <1>1, Placed DEF ServiceInv
<1>4. Go(c) => ~Refuse(c) BY <1>1, Either DEF ServiceInv
<1>5. \A d \in Calls \ {c} : found'[d] = found[d] /\ from'[d] = from[d]
  BY DEF Fail, Origin, ResolveTrigger, ReadRow, ReadTriggerScope, RecordFire, FindFile,
         FileVisible, ServiceInv, ServiceTypeOK
<1>6. asked[c] \in Request /\ from[c] \in {asked[c].origin, Nil} /\ Seen(c, trigger) \subseteq could[c]
  BY <1>2 DEF ServiceInv, ServiceTypeOK, ScopeInv, Carries
<1>7. from'[c] \in {asked[c].origin, Nil} /\ (at[c] # "origin" => from'[c] = from[c])
  <2>1. CASE Origin(c)
    BY <2>1 DEF Origin, ServiceInv, ServiceTypeOK
  <2>2. CASE ~Origin(c)
    BY <1>6, <2>2 DEF Fail, ResolveTrigger, ReadRow, ReadTriggerScope, RecordFire, FindFile,
           FileVisible
  <2> QED BY <2>1, <2>2
<1>8. at[c] # "read" => found'[c] = found[c]
  BY DEF Fail, Origin, ResolveTrigger, ReadRow, ReadTriggerScope, RecordFire, FindFile,
         FileVisible
<1>9. Go(c) /\ at[c] = "read" /\ Op(c) \in {"get", "exec"} => ReadAsSeen(c)'
  <2> SUFFICES ASSUME Go(c), at[c] = "read", Op(c) \in {"get", "exec"} PROVE ReadAsSeen(c)'
    OBVIOUS
  <2> DEFINE t == asked[c].id
  <2>1. Live(t) /\ found' = [found EXCEPT ![c] = trigger[t]]
    BY <1>4 DEF Fail, Origin, ResolveTrigger, ReadRow, ReadTriggerScope, RecordFire,
                FindFile, FileVisible
  <2>2. t \in Ids /\ trigger[t] \in Row /\ trigger[t].live
    BY <1>6, <2>1 DEF Live, ServiceInv, ServiceTypeOK, Request, Omitted
  <2>3. found'[c] = trigger[t] BY <2>1 DEF ServiceInv, ServiceTypeOK
  <2>4. Sees(c, trigger[t]) => /\ <<t, trigger[t].version>> \in could[c]
                               /\ <<trigger[t].file>> \in could[c]
    BY <1>6, <2>2, SeenOf
  <2> QED BY <1>1, <2>2, <2>3, <2>4 DEF ReadAsSeen, Sees, Op
<1>10. Go(c) /\ Op(c) = "get" /\ at[c] = "origin" => Sees(c, found[c])
  <2> SUFFICES ASSUME Go(c), Op(c) = "get", at[c] = "origin" PROVE Sees(c, found[c])
    OBVIOUS
  <2>1. found[c] \in Row /\ found[c].live
    BY DEF ScopeInv, Approved, HasRow, ReadAsSeen
  <2>2. PICK g \in {asked[c].origin, Nil} :
          found[c].owner = asked[c].user \/ g \in found[c].scope
    BY <1>4 DEF Fail, Origin, ResolveTrigger, ReadRow, ReadTriggerScope, RecordFire,
                FindFile, FileVisible
  <2>3. Nil \notin found[c].scope BY <2>1, ServiceAssumption DEF Row
  <2>4. found[c] # Nil BY <2>1, ServiceAssumption
  <2> QED BY <2>1, <2>2, <2>3, <2>4 DEF Sees
<1>11. Go(c) /\ Op(c) = "exec" /\ at[c] = "scope" => from[c] \in found[c].scope
  BY <1>4 DEF Fail, Origin, ResolveTrigger, ReadRow, ReadTriggerScope, RecordFire,
              FindFile, FileVisible
<1>12. Go(c) /\ at[c] = "visible" => <<asked[c].file>> \in could[c]
  <2> SUFFICES ASSUME Go(c), at[c] = "visible" PROVE <<asked[c].file>> \in could[c]
    OBVIOUS
  <2>1. PICK t \in Ids : /\ Live(t) /\ trigger[t].file = asked[c].file
                         /\ trigger[t].owner = asked[c].user \/ from[c] \in trigger[t].scope
    BY <1>4 DEF Fail, Origin, ResolveTrigger, ReadRow, ReadTriggerScope, RecordFire,
                FindFile, FileVisible
  <2>2. trigger[t] \in Row BY <2>1 DEF Live, ServiceInv, ServiceTypeOK, Omitted
  <2>3. Nil \notin trigger[t].scope BY <2>2, ServiceAssumption DEF Row
  <2>4. Op(c) = "file" BY <1>3, AnswerOrder
  <2>5. Sees(c, trigger[t]) BY <1>6, <2>1, <2>3, <2>4 DEF Sees, Live
  <2> QED BY <1>6, <2>1, <2>5, SeenOf
<1>13. Stays BY <1>1 DEF Stays
<1>14. /\ Approved(c)' /\ at'[c] # "new"
       /\ \A d \in Calls \ {c} : at'[d] = at[d]
  BY <1>1, <1>2, <1>7, <1>8, <1>9, <1>10, <1>11, <1>12, <1>13, ScopeMoves
<1>15. Carries(c)' BY <1>1, <1>7, <1>14 DEF ScopeInv, Carries
<1>16. told' = [d \in Calls |-> told'[d]] BY <1>1 DEF ScopeInv
<1> QED BY <1>1, <1>2, <1>5, <1>14, <1>15, <1>16, QuietStep

\* What is told is of what its user might have seen.
LEMMA Told ==
  ASSUME ScopeInv, NEW c \in Calls, NEW what, what \subseteq could[c] \cup {<<Nil>>},
         Tell(c, what), UNCHANGED could
  PROVE  /\ told' = [d \in Calls |-> told'[d]]
         /\ \A d \in Calls \ {c} : told'[d] = told[d]
         /\ told'[c] \subseteq could'[c] \cup {<<Nil>>}
BY DEF ScopeInv, Carries, Tell

\* The answers.
LEMMA AnswersScope ==
  ASSUME ServiceInv, ScopeInv, NEW c \in Calls,
         ShowTrigger(c) \/ PlayTrigger(c) \/ DressPage(c) \/ CountFires(c) \/ StreamFile(c)
  PROVE  ScopeInv'
<1>1. /\ at[c] \in {"show", "play", "dress", "count", "stream"}
      /\ UNCHANGED <<asked, found, from, page, trigger, could>>
  BY DEF ShowTrigger, PlayTrigger, DressPage, CountFires, StreamFile
<1>2. Begun(c) BY <1>1 DEF Begun
<1>3. Op(c) \in Ops /\ at[c] \in DOMAIN After[Op(c)] BY <1>1, Placed DEF ServiceInv
<1>4. Seen(c, trigger) \subseteq could[c] BY <1>2 DEF ScopeInv
<1>5. /\ told' = [d \in Calls |-> told'[d]]
      /\ \A d \in Calls \ {c} : told'[d] = told[d]
      /\ told'[c] \subseteq could'[c] \cup {<<Nil>>}
  <2>1. CASE ShowTrigger(c)
    <3>1. at[c] = "show" /\ Op(c) = "get" BY <1>3, <2>1, AnswerOrder DEF ShowTrigger
    <3>2. {<<asked[c].id, found[c].version>>, <<found[c].file>>} \subseteq could[c]
      BY <3>1 DEF ScopeInv, Approved, HasRow, ReadAsSeen
    <3> QED BY <1>1, <2>1, <3>2, Told DEF ShowTrigger
  <2>2. CASE PlayTrigger(c)
    <3> DEFINE t == asked[c].id
    <3>1. at[c] = "play" /\ Op(c) = "exec" BY <1>3, <2>2, AnswerOrder DEF PlayTrigger
    <3>2. /\ t \in Ids /\ trigger[t] \in Row /\ trigger[t].scope = found[c].scope
          /\ from[c] \in trigger[t].scope
      BY <3>1 DEF ScopeInv, Approved, HasRow, ReadAsSeen
    <3>3. from[c] = asked[c].origin
      BY <3>2, ServiceAssumption DEF Row, ScopeInv, Carries
    <3>4. Live(t) => {<<t, trigger[t].version>>, <<trigger[t].file>>} \subseteq could[c]
      <4> SUFFICES ASSUME Live(t)
                   PROVE  {<<t, trigger[t].version>>, <<trigger[t].file>>} \subseteq could[c]
        OBVIOUS
      <4>1. Sees(c, trigger[t]) BY <3>2, <3>3 DEF Sees, Live
      <4> QED BY <1>4, <3>2, <4>1, SeenOf
    <3>5. CASE Live(t)
      <4> DEFINE what == {<<t, trigger[t].version>>}
                           \cup IF trigger[t].reply THEN {} ELSE {<<trigger[t].file>>}
      <4>1. what \subseteq could[c] \cup {<<Nil>>} BY <3>4, <3>5
      <4>2. Tell(c, what) BY <2>2, <3>5 DEF PlayTrigger
      <4> HIDE DEF what
      <4> QED BY <1>1, <4>1, <4>2, Told
    <3>6. CASE ~Live(t)
      <4>1. told' = told BY <2>2, <3>6 DEF PlayTrigger
      <4> QED BY <1>1, <4>1 DEF ScopeInv, Carries
    <3> QED BY <3>5, <3>6
  <2>3. CASE DressPage(c)
    <3>1. page[c] \subseteq could[c] BY DEF ScopeInv, Carries
    <3> QED BY <1>1, <2>3, <3>1, Told DEF DressPage
  <2>4. CASE CountFires(c)
    <3> DEFINE S == {s \in Ids : Live(s) /\ from[c] \in trigger[s].scope /\ fires[s] > 0}
               what == {<<t, trigger[t].version>> : t \in S}
    <3>1. ASSUME NEW t \in S PROVE <<t, trigger[t].version>> \in could[c]
      <4>1. t \in Ids /\ trigger[t] \in Row /\ from[c] \in trigger[t].scope /\ trigger[t] # Nil
            /\ trigger[t].live
        BY DEF Live, ServiceInv, ServiceTypeOK, Omitted
      <4>2. from[c] = asked[c].origin
        BY <4>1, ServiceAssumption DEF Row, ScopeInv, Carries
      <4>3. Sees(c, trigger[t]) BY <4>1, <4>2 DEF Sees
      <4> QED BY <1>4, <4>1, <4>3, SeenOf
    <3>2. Tell(c, what) BY <2>4 DEF CountFires
    <3>3. what \subseteq could[c] BY <3>1
    <3> HIDE DEF what
    <3> QED BY <1>1, <3>2, <3>3, Told
  <2>5. CASE StreamFile(c)
    <3>1. <<asked[c].file>> \in could[c] BY <2>5 DEF StreamFile, ScopeInv, Approved
    <3> QED BY <1>1, <2>5, <3>1, Told DEF StreamFile
  <2> QED BY <2>1, <2>2, <2>3, <2>4, <2>5
<1>6. Approved(c)' /\ at'[c] # "new" /\ \A d \in Calls \ {c} : at'[d] = at[d]
  <2>1. CASE Go(c)
    <3>1. Stays BY <1>1 DEF Stays
    <3> QED BY <1>1, <1>2, <2>1, <3>1, ScopeMoves
  <2>2. CASE at[c] = "dress" /\ at' = [at EXCEPT ![c] = "origin"]
    <3>1. Op(c) = "list" BY <1>3, <2>2, AnswerOrder
    <3> QED BY <1>1, <2>2, <3>1 DEF Approved, HasRow, Op, ServiceInv, ServiceTypeOK
  <2> QED BY <2>1, <2>2 DEF ShowTrigger, PlayTrigger, DressPage, CountFires, StreamFile
<1>7. Carries(c)' BY <1>1, <1>5, <1>6 DEF ScopeInv, Carries
<1> QED BY <1>1, <1>2, <1>5, <1>6, <1>7, QuietStep

\* A page lists what its user may see.
LEMMA PageScope ==
  ASSUME ServiceInv, ScopeInv, NEW c \in Calls, ListPage(c)
  PROVE  ScopeInv'
<1>1. /\ at[c] = "page" /\ Go(c)
      /\ UNCHANGED <<asked, found, from, trigger, told, could>>
  BY DEF ListPage
<1>2. Begun(c) BY <1>1 DEF Begun
<1>3. Op(c) = "list" BY <1>1, Placed, AnswerOrder DEF ServiceInv
<1>4. Seen(c, trigger) \subseteq could[c] BY <1>2 DEF ScopeInv
<1>5. ASSUME NEW t \in Listed(c) PROVE <<t, trigger[t].version>> \in could[c]
  <2>1. t \in Ids /\ trigger[t] # Nil /\ trigger[t].live BY DEF Listed, Live
  <2>2. trigger[t].owner = asked[c].user \/ (from[c] # Nil /\ from[c] \in trigger[t].scope)
    BY DEF Listed
  <2>3. Sees(c, trigger[t]) BY <1>3, <2>1, <2>2 DEF Sees, ScopeInv, Carries
  <2> QED BY <1>4, <2>1, <2>3, SeenOf
<1>6. PICK f \in Orders(Listed(c)) :
        page' = [page EXCEPT ![c] =
                  {<<f[i], trigger[f[i]].version>> :
                     i \in {j \in DOMAIN f : offset[c] < j /\ j <= offset[c] + Limit}}]
  BY DEF ListPage
<1>7. \A i \in DOMAIN f : f[i] \in Listed(c) BY DEF Orders
<1>8. page'[c] \subseteq could[c] /\ \A d \in Calls \ {c} : page'[d] = page[d]
  BY <1>5, <1>6, <1>7 DEF ServiceInv, ServiceTypeOK
<1>9. Stays BY <1>1 DEF Stays
<1>10. Approved(c)' /\ at'[c] # "new" /\ \A d \in Calls \ {c} : at'[d] = at[d]
  BY <1>1, <1>2, <1>9, ScopeMoves
<1>11. Carries(c)' BY <1>1, <1>8, <1>10 DEF ScopeInv, Carries
<1>12. told' = [d \in Calls |-> told'[d]] BY <1>1 DEF ScopeInv
<1> QED BY <1>1, <1>2, <1>8, <1>10, <1>11, <1>12, QuietStep

\* Every step keeps what calls carry in scope.
LEMMA ScopeInductive == ServiceInv /\ ScopeInv /\ [ServiceNext]_serviceVars => ScopeInv'
<1> SUFFICES ASSUME ServiceInv, ScopeInv, [ServiceNext]_serviceVars PROVE ScopeInv' OBVIOUS
<1>1. CASE UNCHANGED serviceVars
  BY <1>1 DEF serviceVars, ScopeInv, Begun, Carries, Approved, HasRow, ReadAsSeen, Seen, Sees, Op
<1>2. CASE ServiceNext
  <2>1. PICK c \in Calls : ServiceStep(c) BY <1>2 DEF ServiceNext
  <2> QED BY <2>1, BeginScope, WritesScope, ChecksScope, AnswersScope, PageScope DEF ServiceStep
<1> QED BY <1>1, <1>2

\* No answer shows what its user might not have seen at some instant of its call,
\* however reads and writes interleave: what was read before a check is no more
\* than what the check lets through, and what is read after it is of the same scope.
THEOREM AnswersCorrect == ServiceSpec => []AnswersAreInScope
<1>1. ScopeInv => AnswersAreInScope BY DEF ScopeInv, Carries, AnswersAreInScope
<1> QED BY <1>1, ServiceInvariant, ScopeInit, ScopeInductive, PTL DEF ServiceSpec

-----------------------------------------------------------------------------
(* A listing.  A page is the rows of an interval of ranks: how many rows    *)
(* come before.  A row that is due has been there since the listing began   *)
(* and was not shown; it is passed when its rank is behind the offset.      *)

\* The order of a listing: the newest first, of a date the highest number.
Precedes(table, s, t) ==
  \/ table[s].created > table[t].created
  \/ table[s].created = table[t].created /\ s > t

Rank(table, L, t) == Cardinality({s \in L : Precedes(table, s, t)})

Due(w, shown) == w.start \ (w.left \cup shown)

Passed(table, L, w, shown, o) == {x \in Due(w, shown) : Rank(table, L, x) < o}

\* Up to an offset no more rows were passed than were deleted.
Course(L, table, w, shown, o) ==
  /\ Due(w, shown) \subseteq L
  /\ Cardinality(Passed(table, L, w, shown, o)) <= Cardinality(w.left)

Walk == [start : SUBSET Ids, left : SUBSET Ids, steady : BOOLEAN]

Dated(table, L) == \A t \in L : table[t].created \in Nat

\* Rows there are, which are numbers.
LEMMA RowsFinite ==
  ASSUME NEW S \in SUBSET Ids
  PROVE  IsFiniteSet(S) /\ Cardinality(S) \in Nat /\ S \subseteq Nat
BY TableAssumption, ServiceAssumption, FS_Subset, FS_CardinalityType

\* A set grows by one at most.
LEMMA OneMore ==
  ASSUME NEW S, IsFiniteSet(S), NEW x
  PROVE  /\ IsFiniteSet(S \cup {x}) /\ Cardinality(S \cup {x}) \in Nat
         /\ Cardinality(S) \in Nat /\ Cardinality(S \cup {x}) <= Cardinality(S) + 1
<1>1. IsFiniteSet(S \cup {x}) /\ Cardinality(S) \in Nat /\ Cardinality(S \cup {x}) \in Nat
  BY FS_AddElement, FS_CardinalityType
<1>2. Cardinality(S \cup {x}) = IF x \in S THEN Cardinality(S) ELSE Cardinality(S) + 1
  BY FS_AddElement
<1>3. CASE x \in S BY <1>1, <1>2, <1>3
<1>4. CASE x \notin S BY <1>1, <1>2, <1>4
<1> QED BY <1>1, <1>3, <1>4

\* Only so many rows come before one.
LEMMA RankIsNat ==
  ASSUME NEW L \in SUBSET Ids, NEW table, NEW t PROVE Rank(table, L, t) \in Nat
<1>1. {s \in L : Precedes(table, s, t)} \in SUBSET Ids
  OBVIOUS
<1> QED BY <1>1, RowsFinite DEF Rank

\* No two rows have the same rank.
LEMMA RankIsOwn ==
  ASSUME NEW L \in SUBSET Ids, NEW table, Dated(table, L), NEW s \in L, NEW t \in L,
         Rank(table, L, s) = Rank(table, L, t)
  PROVE  s = t
<1>1. ASSUME NEW x \in L, NEW y \in L, Precedes(table, x, y)
      PROVE  Rank(table, L, x) # Rank(table, L, y)
  <2> DEFINE A == {z \in L : Precedes(table, z, x)}
             B == {z \in L : Precedes(table, z, y)}
  <2>1. A \subseteq B /\ x \in B /\ x \notin A
    <3>1. \A z \in L : z \in Nat /\ table[z].created \in Nat
      BY RowsFinite DEF Dated
    <3> QED BY <1>1, <3>1 DEF Precedes
  <2>2. IsFiniteSet(B) /\ B \in SUBSET Ids
    BY RowsFinite
  <2>3. Cardinality(A) # Cardinality(B)
    BY <2>1, <2>2, FS_Subset
  <2> QED BY <2>3 DEF Rank
<1>2. s # t => Precedes(table, s, t) \/ Precedes(table, t, s)
  <2>1. s \in Nat /\ t \in Nat /\ table[s].created \in Nat /\ table[t].created \in Nat
    BY RowsFinite DEF Dated
  <2> QED BY <2>1 DEF Precedes
<1> QED BY <1>1, <1>2

\* Rows are put where their rank is.
LEMMA Positions ==
  ASSUME NEW L \in SUBSET Ids, Dated(trigger, L), NEW f \in Orders(L)
  PROVE  /\ f \in [1 .. Cardinality(L) -> L]
         /\ \A i, j \in 1 .. Cardinality(L) : f[i] = f[j] => i = j
         /\ \A t \in L : \E i \in 1 .. Cardinality(L) : f[i] = t
         /\ \A i \in 1 .. Cardinality(L) : Rank(trigger, L, f[i]) = i - 1
<1> DEFINE n == Cardinality(L)
<1>1. n \in Nat /\ IsFiniteSet(L)
  BY RowsFinite
<1>2. /\ f \in [1 .. n -> L]
      /\ \A i, j \in 1 .. n : f[i] = f[j] => i = j
      /\ \A i, j \in 1 .. n : Before(f[i], f[j]) => i < j
  BY DEF Orders
<1>3. f \in Injection(1 .. n, L)
  BY <1>2 DEF Injection, IsInjective
<1>4. IsFiniteSet(1 .. n) /\ Cardinality(1 .. n) = n
  BY <1>1, FS_Interval
<1>5. f \in Surjection(1 .. n, L)
  BY <1>1, <1>3, <1>4, FS_Injection
<1>6. \A t \in L : \E i \in 1 .. n : f[i] = t
  BY <1>5 DEF Surjection
<1>7. ASSUME NEW i \in 1 .. n PROVE Rank(trigger, L, f[i]) = i - 1
  <2> DEFINE B == {s \in L : Precedes(trigger, s, f[i])}
             g == [j \in 1 .. (i - 1) |-> f[j]]
  <2>1. \A x, y \in L : x # y => Before(x, y) \/ Before(y, x)
    <3>1. \A z \in L : z \in Nat /\ trigger[z].created \in Nat
      BY RowsFinite DEF Dated
    <3> QED BY <3>1 DEF Before
  <2>2. \A j \in 1 .. n : Before(f[j], f[i]) <=> j < i
    <3>1. SUFFICES ASSUME NEW j \in 1 .. n, j < i PROVE Before(f[j], f[i])
      BY <1>2
    <3>2. f[j] # f[i] /\ f[j] \in L /\ f[i] \in L
      BY <1>1, <1>2, <3>1
    <3>3. ~Before(f[i], f[j])
      BY <1>1, <1>2, <3>1
    <3> QED BY <2>1, <3>2, <3>3
  <2>3. \A s \in L : Precedes(trigger, s, f[i]) <=> Before(s, f[i])
    BY DEF Precedes, Before
  <2>4. \A j \in 1 .. (i - 1) : j \in 1 .. n /\ j < i
    BY <1>1
  <2>5. g \in Injection(1 .. (i - 1), B)
    <3>1. \A j \in 1 .. (i - 1) : f[j] \in B
      BY <1>2, <2>2, <2>3, <2>4
    <3>2. g \in [1 .. (i - 1) -> B]
      BY <3>1
    <3> QED BY <1>2, <2>4, <3>2 DEF Injection, IsInjective
  <2>6. ASSUME NEW s \in B PROVE \E j \in 1 .. (i - 1) : g[j] = s
    <3>1. PICK j \in 1 .. n : f[j] = s
      BY <1>6
    <3>2. j < i
      BY <2>2, <2>3, <3>1
    <3>3. j \in 1 .. (i - 1)
      BY <1>1, <3>2
    <3> QED BY <3>1, <3>3
  <2>7. g \in Bijection(1 .. (i - 1), B)
    BY <2>5, <2>6 DEF Bijection, Surjection, Injection
  <2>8. ExistsBijection(1 .. (i - 1), B)
    BY <2>7 DEF ExistsBijection
  <2>9. i - 1 \in Nat
    BY <1>1
  <2> HIDE DEF B, g
  <2>10. Cardinality(B) = i - 1
    BY <2>8, <2>9, FS_CountingElements
  <2> QED BY <2>10 DEF B, Rank
<1> QED BY <1>2, <1>6, <1>7

\* Rows that are added do not let a row pass unseen.
LEMMA CourseGrows ==
  ASSUME NEW L \in SUBSET Ids, NEW M \in SUBSET Ids, L \subseteq M,
         NEW table, NEW after, \A t \in L : after[t].created = table[t].created,
         NEW w \in Walk, NEW shown, NEW o \in Nat, Course(L, table, w, shown, o)
  PROVE  Course(M, after, w, shown, o)
<1>1. Due(w, shown) \subseteq L
  BY DEF Course
<1>2. ASSUME NEW x \in L PROVE Rank(table, L, x) <= Rank(after, M, x)
  <2>1. {s \in L : Precedes(table, s, x)} \subseteq {s \in M : Precedes(after, s, x)}
    BY <1>2 DEF Precedes
  <2>2. {s \in M : Precedes(after, s, x)} \in SUBSET Ids
    OBVIOUS
  <2> QED BY <2>1, <2>2, RowsFinite, FS_Subset DEF Rank
<1>3. Passed(after, M, w, shown, o) \subseteq Passed(table, L, w, shown, o)
  BY <1>1, <1>2, RankIsNat DEF Passed
<1>4. Passed(table, L, w, shown, o) \in SUBSET Ids
  BY DEF Passed, Due, Walk
<1>5. Cardinality(Passed(after, M, w, shown, o)) <= Cardinality(Passed(table, L, w, shown, o))
  BY <1>3, <1>4, RowsFinite, FS_Subset
<1>6. /\ Cardinality(w.left) \in Nat /\ Cardinality(Passed(table, L, w, shown, o)) \in Nat
      /\ Cardinality(Passed(after, M, w, shown, o)) \in Nat
  BY <1>3, <1>4, RowsFinite DEF Walk
<1> QED BY <1>1, <1>5, <1>6 DEF Course

\* A row that is deleted lets one row pass, that whose rank the offset was.
LEMMA CourseShrinks ==
  ASSUME NEW L \in SUBSET Ids, NEW y \in L,
         NEW table, Dated(table, L),
         NEW after, \A t \in L : after[t].created = table[t].created,
         NEW w \in Walk, NEW v \in Walk, y \notin w.left,
         v.start = w.start, v.left = w.left \cup {y},
         NEW shown, NEW o \in Nat, Course(L, table, w, shown, o)
  PROVE  Course(L \ {y}, after, v, shown, o)
<1> DEFINE M == L \ {y}
           P == Passed(table, L, w, shown, o)
           Q == Passed(after, M, v, shown, o)
<1>1. Due(w, shown) \subseteq L /\ Due(v, shown) = Due(w, shown) \ {y}
  BY DEF Course, Due
<1>2. ASSUME NEW x \in L PROVE Rank(table, L, x) <= Rank(after, M, x) + 1
  <2> DEFINE A == {s \in L : Precedes(table, s, x)}
             B == {s \in M : Precedes(after, s, x)}
  <2>1. A \subseteq B \cup {y}
    BY <1>2 DEF Precedes
  <2>2. B \in SUBSET Ids /\ A \in SUBSET Ids
    OBVIOUS
  <2>3. IsFiniteSet(B) /\ Cardinality(B) \in Nat /\ Cardinality(A) \in Nat
    BY <2>2, RowsFinite
  <2> HIDE DEF A, B
  <2>4. IsFiniteSet(B \cup {y}) /\ Cardinality(B \cup {y}) <= Cardinality(B) + 1
    BY <2>3, OneMore
  <2>5. Cardinality(B \cup {y}) \in Nat
    BY <2>3, OneMore
  <2>6. Cardinality(A) <= Cardinality(B \cup {y})
    BY <2>1, <2>4, FS_Subset
  <2>7. Cardinality(A) <= Cardinality(B) + 1
    BY <2>3, <2>4, <2>5, <2>6
  <2> QED BY <2>7 DEF Rank, A, B
<1>3. \A x \in L : Rank(table, L, x) \in Nat /\ Rank(after, M, x) \in Nat
  BY RankIsNat
<1>4. \A x \in Q : x \in Due(w, shown) /\ x \in L /\ (x \in P \/ Rank(table, L, x) = o)
  <2> SUFFICES ASSUME NEW x \in Q
               PROVE  x \in Due(w, shown) /\ x \in L /\ (x \in P \/ Rank(table, L, x) = o)
    OBVIOUS
  <2>1. x \in Due(w, shown) /\ x \in L /\ Rank(after, M, x) < o
    BY <1>1 DEF Passed
  <2>2. Rank(table, L, x) < o \/ Rank(table, L, x) = o
    <3>1. Rank(table, L, x) <= Rank(after, M, x) + 1
      BY <1>2, <2>1
    <3>2. Rank(table, L, x) \in Nat /\ Rank(after, M, x) \in Nat
      BY <1>3, <2>1
    <3> HIDE DEF M
    <3> QED BY <2>1, <3>1, <3>2
  <2> QED BY <2>1, <2>2 DEF Passed
<1>5. PICK z : Q \subseteq P \cup {z}
  <2>1. CASE \E x \in Q : Rank(table, L, x) = o
    <3>1. PICK x \in Q : Rank(table, L, x) = o
      BY <2>1
    <3>2. \A t \in Q : t \in P \/ t = x
      BY <1>4, <3>1, RankIsOwn
    <3> QED BY <3>2
  <2>2. CASE ~\E x \in Q : Rank(table, L, x) = o
    <3>1. Q \subseteq P
      BY <1>4, <2>2
    <3> QED BY <3>1
  <2> QED BY <2>1, <2>2
<1>6. P \in SUBSET Ids /\ w.left \in SUBSET Ids /\ Q \in SUBSET Ids
  BY <1>1 DEF Passed, Due, Walk
<1>7. /\ IsFiniteSet(P) /\ Cardinality(P) \in Nat /\ Cardinality(Q) \in Nat
      /\ IsFiniteSet(w.left) /\ Cardinality(w.left) \in Nat
  BY <1>6, RowsFinite
<1>8. IsFiniteSet(P \cup {z}) /\ Cardinality(P \cup {z}) <= Cardinality(P) + 1
  <2> HIDE DEF P
  <2> QED BY <1>7, OneMore
<1>9. Cardinality(Q) <= Cardinality(P \cup {z}) /\ Cardinality(P \cup {z}) \in Nat
  BY <1>5, <1>8, FS_Subset, FS_CardinalityType
<1>10. Cardinality(v.left) = Cardinality(w.left) + 1
  BY <1>7, FS_AddElement
<1>11. Cardinality(P) <= Cardinality(w.left)
  BY DEF Course
<1>12. Cardinality(Q) <= Cardinality(v.left)
  <2> HIDE DEF P, Q
  <2> QED BY <1>7, <1>8, <1>9, <1>10, <1>11
<1>13. Due(v, shown) \subseteq M
  BY <1>1
<1> QED BY <1>12, <1>13 DEF Course

\* The page behind an offset, in an order of the rows.
Shelf(f, o) ==
  {<<f[i], trigger[f[i]].version>> : i \in {j \in DOMAIN f : o < j /\ j <= o + Limit}}

\* A page shows the rows of its ranks; a short one the last of them.
LEMMA CoursePage ==
  ASSUME NEW L \in SUBSET Ids, Dated(trigger, L), NEW f \in Orders(L),
         NEW w \in Walk, NEW shown, NEW o \in Nat, Course(L, trigger, w, shown, o),
         NEW P, P = Shelf(f, o),
         NEW more, more = shown \cup {x[1] : x \in P}
  PROVE  /\ Course(L, trigger, w, more, o + Limit)
         /\ Cardinality(P) # Limit => Cardinality(Due(w, more)) <= Cardinality(w.left)
<1> DEFINE n == Cardinality(L)
<1>1. /\ n \in Nat /\ Limit \in Nat \ {0}
      /\ f \in [1 .. n -> L]
      /\ \A i, j \in 1 .. n : f[i] = f[j] => i = j
      /\ \A t \in L : \E i \in 1 .. n : f[i] = t
      /\ \A i \in 1 .. n : Rank(trigger, L, f[i]) = i - 1
  BY Positions, RowsFinite, ServiceAssumption
<1>0. P = {<<f[i], trigger[f[i]].version>> : i \in {j \in DOMAIN f : o < j /\ j <= o + Limit}}
  BY DEF Shelf
<1> HIDE DEF n
<1>2. Due(w, shown) \subseteq L /\ Due(w, more) \subseteq Due(w, shown)
  BY DEF Course, Due
<1>3. ASSUME NEW i \in 1 .. n, o < i, i <= o + Limit
      PROVE  f[i] \in more
  <2>1. <<f[i], trigger[f[i]].version>> \in P
    <3>1. i \in {j \in DOMAIN f : o < j /\ j <= o + Limit}
      BY <1>1, <1>3
    <3> QED BY <1>0, <3>1
  <2>2. <<f[i], trigger[f[i]].version>>[1] = f[i]
    OBVIOUS
  <2> QED BY <2>1, <2>2
<1>4. ASSUME NEW x \in Due(w, more), Rank(trigger, L, x) < o + Limit
      PROVE  x \in Passed(trigger, L, w, shown, o)
  <2>1. x \in L /\ x \in Due(w, shown) /\ x \notin more
    BY <1>2, <1>4 DEF Due
  <2>2. PICK i \in 1 .. n : f[i] = x
    BY <1>1, <2>1
  <2>3. Rank(trigger, L, x) = i - 1
    BY <1>1, <2>2
  <2>4. ~(o < i /\ i <= o + Limit)
    BY <1>3, <2>1, <2>2
  <2>5. Rank(trigger, L, x) < o
    BY <1>1, <1>4, <2>3, <2>4
  <2> QED BY <2>1, <2>5 DEF Passed
<1> DEFINE old == Passed(trigger, L, w, shown, o)
<1>5. /\ old \in SUBSET Ids /\ IsFiniteSet(old) /\ Cardinality(old) \in Nat
      /\ Cardinality(w.left) \in Nat /\ Cardinality(old) <= Cardinality(w.left)
  BY <1>2, RowsFinite DEF Passed, Walk, Course
<1>6. ASSUME NEW T \in SUBSET old PROVE Cardinality(T) <= Cardinality(w.left)
  <2>1. Cardinality(T) <= Cardinality(old) /\ Cardinality(T) \in Nat
    BY <1>5, FS_Subset, RowsFinite
  <2> HIDE DEF old
  <2> QED BY <1>5, <2>1
<1>7. Course(L, trigger, w, more, o + Limit)
  <2>1. Passed(trigger, L, w, more, o + Limit) \subseteq old
    BY <1>4 DEF Passed
  <2> QED BY <1>2, <1>6, <2>1 DEF Course
<1>8. CASE n < o + Limit
  <2>1. ASSUME NEW x \in Due(w, more) PROVE x \in old
    <3>1. PICK i \in 1 .. n : f[i] = x
      BY <1>1, <1>2
    <3>2. Rank(trigger, L, x) < o + Limit
      BY <1>1, <1>8, <3>1
    <3> QED BY <1>4, <3>2
  <2>2. Due(w, more) \subseteq old
    BY <2>1
  <2> QED BY <1>6, <1>7, <2>2
<1>9. CASE n >= o + Limit
  <2> DEFINE g == [k \in 1 .. Limit |-> <<f[o + k], trigger[f[o + k]].version>>]
  <2>1. \A k \in 1 .. Limit : o + k \in 1 .. n /\ o < o + k /\ o + k <= o + Limit
    BY <1>1, <1>9
  <2>2. g \in [1 .. Limit -> P]
    BY <1>0, <1>1, <2>1
  <2>3. ASSUME NEW k \in 1 .. Limit, NEW l \in 1 .. Limit, g[k] = g[l] PROVE k = l
    <3>1. f[o + k] = f[o + l]
      BY <2>3
    <3>2. o + k = o + l
      BY <1>1, <2>1, <3>1
    <3> QED BY <3>2
  <2>4. ASSUME NEW x \in P PROVE \E k \in 1 .. Limit : g[k] = x
    <3>1. PICK i \in 1 .. n : /\ o < i /\ i <= o + Limit
                             /\ x = <<f[i], trigger[f[i]].version>>
      BY <1>0, <1>1
    <3>2. i - o \in 1 .. Limit /\ o + (i - o) = i
      BY <1>1, <3>1
    <3>3. g[i - o] = x
      BY <3>1, <3>2
    <3> QED BY <3>2, <3>3
  <2>5. g \in Bijection(1 .. Limit, P)
    BY <2>2, <2>3, <2>4 DEF Bijection, Injection, Surjection, IsInjective
  <2>6. ExistsBijection(1 .. Limit, P)
    BY <2>5 DEF ExistsBijection
  <2>7. Cardinality(P) = Limit
    BY <1>1, <2>6, FS_CountingElements
  <2> QED BY <1>7, <2>7
<1>10. n < o + Limit \/ n >= o + Limit
  BY <1>1
<1> QED BY <1>8, <1>9, <1>10

-----------------------------------------------------------------------------
\* What a listing has shown, and what it will have with the page it dresses.
ShownTo(c) == {x[1] : x \in told[c]}

Dressed(c) == ShownTo(c) \cup {x[1] : x \in page[c]}

\* No more rows are due than were deleted.
Few(w, shown) == Cardinality(Due(w, shown)) <= Cardinality(w.left)

\* A listing is on its course between its pages, and while it dresses one.
Walking(c) ==
  /\ at[c] = "new" => offset[c] = 0
  /\ at[c] = "origin" /\ offset[c] > 0 /\ walk[c].steady => from[c] = asked[c].origin
  /\ (at[c] \in {"origin", "page"} /\ offset[c] > 0 /\ walk[c].steady
       /\ from[c] = asked[c].origin)
        => Course(Listed(c), trigger, walk[c], ShownTo(c), offset[c])
  /\ at[c] = "dress" /\ walk[c].steady =>
       /\ from[c] = asked[c].origin
       /\ Course(Listed(c), trigger, walk[c], Dressed(c), offset[c] + Limit)
       /\ Cardinality(page[c]) # Limit => Few(walk[c], Dressed(c))
  /\ at[c] = "done" /\ walk[c].steady => Few(walk[c], ShownTo(c))

\* What was deleted under a listing stays deleted.
Gone(c) == \A t \in walk[c].left : trigger[t] # Nil /\ ~trigger[t].live

\* The inductive invariant of the walks.
WalkInv ==
  /\ walk \in [Calls -> Walk]
  /\ \A c \in Calls : Gone(c)
  /\ \A c \in Calls : Op(c) = "list" => Walking(c)

\* A deletion under a listing excuses one more miss.
LEMMA FewStays ==
  ASSUME NEW w \in Walk, NEW v \in Walk, v.start = w.start, w.left \subseteq v.left,
         NEW shown, Few(w, shown)
  PROVE  Few(v, shown)
<1>1. /\ Due(v, shown) \subseteq Due(w, shown)
      /\ Due(w, shown) \in SUBSET Ids /\ v.left \in SUBSET Ids /\ w.left \in SUBSET Ids
  BY DEF Due, Walk
<1>2. /\ Cardinality(Due(v, shown)) <= Cardinality(Due(w, shown))
      /\ Cardinality(w.left) <= Cardinality(v.left)
  BY <1>1, RowsFinite, FS_Subset
<1>3. Due(v, shown) \in SUBSET Ids
  BY <1>1
<1>4. /\ Cardinality(Due(v, shown)) \in Nat /\ Cardinality(Due(w, shown)) \in Nat
      /\ Cardinality(w.left) \in Nat /\ Cardinality(v.left) \in Nat
  BY <1>1, <1>3, RowsFinite
<1> QED BY <1>2, <1>4 DEF Few

\* What is listed are rows that have a date.
LEMMA ListedDated ==
  ASSUME ServiceInv, NEW c \in Calls
  PROVE  Listed(c) \in SUBSET Ids /\ Dated(trigger, Listed(c))
<1>1. ASSUME NEW t \in Listed(c) PROVE trigger[t].created \in Nat
  <2>1. t \in Ids /\ trigger[t] \in Row
    BY DEF Listed, Live, ServiceInv, ServiceTypeOK, Omitted
  <2> QED BY <2>1, ServiceAssumption DEF Row
<1> QED BY <1>1 DEF Dated, Listed

\* The listing of a call that another's statement leaves where it is.
LEMMA Strolls ==
  ASSUME ServiceInv, WalkInv, NEW d \in Calls, Op(d) = "list", asked' = asked,
         at'[d] = at[d], from'[d] = from[d], offset'[d] = offset[d],
         page'[d] = page[d], told'[d] = told[d],
         walk'[d] \in Walk, walk'[d].start = walk[d].start,
         walk[d].left \subseteq walk'[d].left, walk'[d].steady = walk[d].steady,
         \A shown : \A o \in Nat :
           Course(Listed(d), trigger, walk[d], shown, o)
             => Course(Listed(d)', trigger', walk'[d], shown, o)
  PROVE  Walking(d)'
<1>1. Walking(d) /\ offset[d] \in Nat /\ offset[d] + Limit \in Nat /\ walk[d] \in Walk
  BY ServiceAssumption DEF WalkInv, ServiceInv, ServiceTypeOK
<1>2. ShownTo(d)' = ShownTo(d) /\ Dressed(d)' = Dressed(d)
  BY DEF ShownTo, Dressed
<1>3. \A shown : Few(walk[d], shown) => Few(walk'[d], shown)
  BY <1>1, FewStays
<1> QED BY <1>1, <1>2, <1>3 DEF Walking

\* A statement that changes no row.
LEMMA StandsStill ==
  ASSUME ServiceInv, WalkInv, NEW d \in Calls, Op(d) = "list",
         UNCHANGED <<asked, trigger>>,
         at'[d] = at[d], from'[d] = from[d], offset'[d] = offset[d],
         page'[d] = page[d], told'[d] = told[d], walk'[d] = walk[d]
  PROVE  Walking(d)'
<1>1. Listed(d)' = Listed(d)
  BY DEF Listed, Live
<1>2. walk[d] \in Walk
  BY DEF WalkInv
<1> QED BY <1>1, <1>2, Strolls

\* The walk a deletion leaves.
LEMMA Left ==
  ASSUME NEW w \in Walk, NEW t \in Ids, NEW v, v = [w EXCEPT !.left = @ \cup {t}]
  PROVE  /\ v \in Walk /\ v.start = w.start /\ v.steady = w.steady
         /\ v.left = w.left \cup {t}
BY DEF Walk

\* A row is inserted, merged or deleted by another call.
LEMMA StoreWalk ==
  ASSUME ServiceInv, WalkInv, NEW c \in Calls, Op(c) # "list", Go(c),
         NEW t \in Ids, NEW r \in Row, Store(t, r),
         \/ trigger[t] = Nil /\ r.live
         \/ /\ Live(t) /\ r.scope = trigger[t].scope
            /\ r.owner = trigger[t].owner /\ r.created = trigger[t].created,
         UNCHANGED <<asked, from, offset, page, told>>
  PROVE  WalkInv'
<1>1. /\ trigger \in [Ids -> Omitted(Row)] /\ trigger' = [trigger EXCEPT ![t] = r]
      /\ walk \in [Calls -> Walk] /\ r # Nil
  BY ServiceAssumption DEF ServiceInv, ServiceTypeOK, Store, WalkInv
<1>2. \A d \in Calls :
        walk'[d] = IF ~r.live /\ t \in Listed(d) THEN [walk[d] EXCEPT !.left = @ \cup {t}]
                                                 ELSE walk[d]
  BY DEF Store
<1>3. \A d \in Calls :
        /\ walk'[d] \in Walk /\ walk'[d].start = walk[d].start
        /\ walk'[d].steady = walk[d].steady
        /\ walk'[d].left = IF ~r.live /\ t \in Listed(d) THEN walk[d].left \cup {t}
                                                         ELSE walk[d].left
  <2> SUFFICES ASSUME NEW d \in Calls
               PROVE  /\ walk'[d] \in Walk /\ walk'[d].start = walk[d].start
                      /\ walk'[d].steady = walk[d].steady
                      /\ walk'[d].left = IF ~r.live /\ t \in Listed(d)
                                           THEN walk[d].left \cup {t} ELSE walk[d].left
    OBVIOUS
  <2>1. walk[d] \in Walk
    BY <1>1
  <2>2. CASE ~r.live /\ t \in Listed(d)
    <3>1. walk'[d] = [walk[d] EXCEPT !.left = @ \cup {t}]
      BY <1>2, <2>2
    <3> QED BY <2>1, <2>2, <3>1, Left
  <2>3. CASE ~(~r.live /\ t \in Listed(d))
    <3>1. walk'[d] = walk[d]
      BY <1>2, <2>3
    <3> QED BY <2>1, <2>3, <3>1
  <2> QED BY <2>2, <2>3
<1>4. walk' \in [Calls -> Walk]
  <2>1. walk' = [d \in Calls |-> walk'[d]]
    BY DEF Store
  <2> QED BY <1>3, <2>1
<1>5. ASSUME NEW d \in Calls PROVE Gone(d)'
  <2>1. ASSUME NEW s \in walk'[d].left PROVE trigger'[s] # Nil /\ ~trigger'[s].live
    <3>1. CASE s = t /\ ~r.live
      BY <1>1, <3>1
    <3>2. CASE s \in walk[d].left /\ s # t
      <4>1. s \in Ids
        BY <1>1, <3>2 DEF Walk
      <4> QED BY <1>1, <3>2, <4>1 DEF WalkInv, Gone
    <3>3. CASE s \in walk[d].left /\ s = t
      BY <3>3 DEF WalkInv, Gone, Live
    <3> QED BY <1>3, <2>1, <3>1, <3>2, <3>3
  <2> QED BY <2>1 DEF Gone
<1>6. ASSUME NEW d \in Calls, Op(d) = "list" PROVE Walking(d)'
  <2>1. d # c
    BY <1>6
  <2>2. at'[d] = at[d]
    BY <2>1 DEF Go, ServiceInv, ServiceTypeOK
  <2>3. Listed(d) \in SUBSET Ids /\ Dated(trigger, Listed(d))
    BY ListedDated
  <2>4. \A x \in Listed(d) : trigger'[x].created = trigger[x].created
    BY <1>1, ServiceAssumption DEF Listed, Live
  <2>5. CASE ~r.live /\ t \in Listed(d)
    <3>1. Listed(d)' = Listed(d) \ {t}
      BY <1>1, <2>5 DEF Listed, Live
    <3>2. t \notin walk[d].left
      BY <2>5 DEF Listed, Live, WalkInv, Gone
    <3>3. walk[d] \in Walk /\ walk'[d].left = walk[d].left \cup {t}
      BY <1>1, <1>3, <2>5
    <3>4. ASSUME NEW shown, NEW o \in Nat, Course(Listed(d), trigger, walk[d], shown, o)
          PROVE  Course(Listed(d)', trigger', walk'[d], shown, o)
      <4>1. walk'[d] \in Walk /\ walk'[d].start = walk[d].start
        BY <1>3
      <4>2. Course(Listed(d) \ {t}, trigger', walk'[d], shown, o)
        BY <2>3, <2>4, <2>5, <3>2, <3>3, <3>4, <4>1, CourseShrinks
      <4> QED BY <3>1, <4>2
    <3> QED BY <1>3, <1>6, <2>2, <3>3, <3>4, Strolls
  <2>6. CASE ~(~r.live /\ t \in Listed(d))
    <3>1. Listed(d) \subseteq Listed(d)'
      BY <1>1, <2>6 DEF Listed, Live
    <3>2. Listed(d)' \in SUBSET Ids
      BY DEF Listed
    <3>3. walk[d] \in Walk /\ walk'[d] = walk[d]
      BY <1>1, <1>2, <2>6
    <3>4. ASSUME NEW shown, NEW o \in Nat, Course(Listed(d), trigger, walk[d], shown, o)
          PROVE  Course(Listed(d)', trigger', walk'[d], shown, o)
      BY <2>3, <2>4, <3>1, <3>2, <3>3, <3>4, CourseGrows
    <3> QED BY <1>6, <2>2, <3>3, <3>4, Strolls
  <2> QED BY <2>5, <2>6
<1>7. \A d \in Calls : (Op(d) = "list")' => Op(d) = "list"
  BY DEF Op
<1> QED BY <1>4, <1>5, <1>6, <1>7 DEF WalkInv

\* A statement of another handler, or one that ends the call, is no step of a walk.
LEMMA AsideWalk ==
  ASSUME ServiceInv, WalkInv, NEW c \in Calls,
         Op(c) # "list" \/ at'[c] = "failed",
         UNCHANGED <<asked, trigger, walk, offset>>,
         \A d \in Calls \ {c} : /\ at'[d] = at[d] /\ from'[d] = from[d]
                                /\ page'[d] = page[d] /\ told'[d] = told[d]
  PROVE  WalkInv'
<1>1. \A d \in Calls : Gone(d)'
  BY DEF WalkInv, Gone
<1>2. ASSUME NEW d \in Calls, Op(d) = "list" PROVE Walking(d)'
  <2>1. CASE d = c
    BY <1>2, <2>1 DEF Walking
  <2>2. CASE d # c
    BY <1>2, <2>2, StandsStill
  <2> QED BY <2>1, <2>2
<1>3. \A d \in Calls : (Op(d) = "list")' => Op(d) = "list"
  BY DEF Op
<1> QED BY <1>1, <1>2, <1>3 DEF WalkInv

\* The writes of the handlers.
LEMMA WritesWalk ==
  ASSUME ServiceInv, WalkInv, NEW c \in Calls,
         InsertTrigger(c) \/ WriteTrigger(c) \/ RemoveTrigger(c)
  PROVE  WalkInv'
<1> DEFINE q == asked[c]
<1>1. /\ at[c] \in {"insert", "write", "remove"}
      /\ UNCHANGED <<asked, found, from, offset, page, told>>
  BY DEF InsertTrigger, WriteTrigger, RemoveTrigger
<1>2. Op(c) # "list"
  <2>1. Op(c) \in Ops /\ at[c] \in DOMAIN After[Op(c)]
    BY <1>1, Placed DEF ServiceInv
  <2> QED BY <1>1, <2>1 DEF After
<1>3. CASE Refuse(c) /\ UNCHANGED <<trigger, walk>>
  <2>1. \A d \in Calls \ {c} : at'[d] = at[d]
    BY <1>3 DEF Refuse, ServiceInv, ServiceTypeOK
  <2> QED BY <1>1, <1>2, <1>3, <2>1, AsideWalk
<1>4. CASE InsertTrigger(c)
  <2>1. CASE \E t \in {s \in Ids : trigger[s] = Nil}, when \in Instants :
               /\ Store(t, [phrase |-> q.phrase, mode |-> IF q.mode = Nil THEN "any" ELSE q.mode,
                            reply |-> q.reply = TRUE, file |-> q.file, owner |-> q.user,
                            scope |-> {from[c]}, created |-> when, live |-> TRUE, version |-> 0])
               /\ Go(c)
    <3> PICK t \in {s \in Ids : trigger[s] = Nil}, when \in Instants :
               /\ Store(t, [phrase |-> q.phrase, mode |-> IF q.mode = Nil THEN "any" ELSE q.mode,
                            reply |-> q.reply = TRUE, file |-> q.file, owner |-> q.user,
                            scope |-> {from[c]}, created |-> when, live |-> TRUE, version |-> 0])
               /\ Go(c)
      BY <2>1
    <3> DEFINE r == [phrase |-> q.phrase, mode |-> IF q.mode = Nil THEN "any" ELSE q.mode,
                     reply |-> q.reply = TRUE, file |-> q.file, owner |-> q.user,
                     scope |-> {from[c]}, created |-> when, live |-> TRUE, version |-> 0]
    <3>1. at[c] = "insert" BY <1>4 DEF InsertTrigger
    <3>2. r \in Row /\ r.live BY <3>1, NewIsRow
    <3> HIDE DEF r
    <3>3. Store(t, r) BY DEF r
    <3> QED BY <1>1, <1>2, <3>2, <3>3, StoreWalk
  <2> QED BY <1>3, <1>4, <2>1 DEF InsertTrigger
<1>5. CASE WriteTrigger(c)
  <2> DEFINE t == asked[c].id
  <2>1. CASE Live(t) /\ Store(t, Merged(trigger[t], asked[c])) /\ Go(c)
    <3>1. t \in Ids /\ trigger[t] \in Row /\ asked[c] \in Request
      BY <2>1 DEF Live, ServiceInv, ServiceTypeOK, Request, Omitted
    <3>2. /\ Merged(trigger[t], asked[c]) \in Row
          /\ Merged(trigger[t], asked[c]).scope = trigger[t].scope
          /\ Merged(trigger[t], asked[c]).owner = trigger[t].owner
      BY <3>1, MergedIsRow
    <3>3. Merged(trigger[t], asked[c]).created = trigger[t].created
      BY <3>1 DEF Merged, Row
    <3> QED BY <1>1, <1>2, <2>1, <3>1, <3>2, <3>3, StoreWalk
  <2> QED BY <1>3, <1>5, <2>1 DEF WriteTrigger
<1>6. CASE RemoveTrigger(c)
  <2> DEFINE t == asked[c].id
             r == [trigger[t] EXCEPT !.live = FALSE]
  <2>1. CASE Live(t) /\ Store(t, r) /\ Go(c)
    <3>1. t \in Ids /\ trigger[t] \in Row
      BY <2>1 DEF Live, ServiceInv, ServiceTypeOK, Request, Omitted
    <3>2. /\ r \in Row /\ r.scope = trigger[t].scope
          /\ r.owner = trigger[t].owner /\ r.created = trigger[t].created
      BY <3>1 DEF Row
    <3> HIDE DEF r
    <3> QED BY <1>1, <1>2, <2>1, <3>1, <3>2, StoreWalk
  <2> QED BY <1>3, <1>6, <2>1 DEF RemoveTrigger
<1> QED BY <1>4, <1>5, <1>6

\* A page is read.
LEMMA PageWalk ==
  ASSUME ServiceInv, WalkInv, NEW c \in Calls, ListPage(c)
  PROVE  WalkInv'
<1> DEFINE L == Listed(c)
<1>1. /\ at[c] = "page" /\ Go(c)
      /\ UNCHANGED <<asked, from, offset, trigger, told>>
  BY DEF ListPage
<1>2. /\ Op(c) = "list" /\ Op(c) \in Ops
      /\ at'[c] = "dress" /\ \A d \in Calls \ {c} : at'[d] = at[d]
  <2>1. Op(c) \in Ops /\ at[c] \in DOMAIN After[Op(c)]
    BY <1>1, Placed DEF ServiceInv
  <2>2. Op(c) = "list"
    BY <1>1, <2>1 DEF After, Ops
  <2> QED BY <1>1, <2>1, <2>2 DEF Go, After, ServiceInv, ServiceTypeOK
<1>3. PICK f \in Orders(L) :
        page' = [page EXCEPT ![c] =
                  {<<f[i], trigger[f[i]].version>> :
                     i \in {j \in DOMAIN f : offset[c] < j /\ j <= offset[c] + Limit}}]
  BY DEF ListPage
<1>4. /\ page'[c] = {<<f[i], trigger[f[i]].version>> :
                       i \in {j \in DOMAIN f : offset[c] < j /\ j <= offset[c] + Limit}}
      /\ \A d \in Calls \ {c} : page'[d] = page[d]
  BY <1>3 DEF ServiceInv, ServiceTypeOK
<1>5. /\ walk \in [Calls -> Walk] /\ offset[c] \in Nat /\ Limit \in Nat \ {0}
      /\ L \in SUBSET Ids /\ Dated(trigger, L)
  BY ListedDated, ServiceAssumption DEF WalkInv, ServiceInv, ServiceTypeOK
<1>6. /\ walk' \in [Calls -> Walk] /\ \A d \in Calls \ {c} : walk'[d] = walk[d]
      /\ offset[c] = 0 => walk'[c].start = L /\ walk'[c].left = {}
      /\ offset[c] # 0 => walk'[c].start = walk[c].start /\ walk'[c].left = walk[c].left
      /\ walk'[c].steady => from[c] = asked[c].origin
      /\ offset[c] # 0 /\ walk'[c].steady => walk[c].steady
  <2>1. CASE offset[c] = 0
    <3>1. walk' = [walk EXCEPT ![c] = [start |-> L, left |-> {},
                                       steady |-> from[c] = asked[c].origin]]
      BY <2>1 DEF ListPage
    <3>2. [start |-> L, left |-> {}, steady |-> from[c] = asked[c].origin] \in Walk
      BY <1>5 DEF Walk
    <3> HIDE DEF L
    <3> QED BY <1>5, <2>1, <3>1, <3>2
  <2>2. CASE offset[c] # 0
    <3> DEFINE v == [start |-> walk[c].start, left |-> walk[c].left,
                     steady |-> walk[c].steady /\ from[c] = asked[c].origin]
    <3>1. walk' = [walk EXCEPT ![c] = v]
      BY <2>2 DEF ListPage
    <3>2. walk[c] \in Walk
      BY <1>5
    <3>3. /\ v \in Walk /\ v.start = walk[c].start /\ v.left = walk[c].left
          /\ v.steady <=> walk[c].steady /\ from[c] = asked[c].origin
      BY <3>2 DEF Walk
    <3> HIDE DEF v
    <3> QED BY <1>5, <2>2, <3>1, <3>3
  <2> QED BY <2>1, <2>2
<1>7. ASSUME walk'[c].steady PROVE Course(L, trigger, walk'[c], ShownTo(c), offset[c])
  <2>1. CASE offset[c] = 0
    <3>1. Due(walk'[c], ShownTo(c)) \subseteq L
      BY <1>6, <2>1 DEF Due
    <3>2. Passed(trigger, L, walk'[c], ShownTo(c), offset[c]) = {}
      <4>1. \A x : Rank(trigger, L, x) \in Nat
        BY <1>5, RankIsNat
      <4> QED BY <2>1, <4>1 DEF Passed
    <3>3. Cardinality({}) <= Cardinality({})
      BY FS_EmptySet
    <3> QED BY <1>6, <2>1, <3>1, <3>2, <3>3 DEF Course
  <2>2. CASE offset[c] # 0
    <3>1. Course(L, trigger, walk[c], ShownTo(c), offset[c])
      BY <1>1, <1>2, <1>5, <1>6, <1>7, <2>2 DEF WalkInv, Walking
    <3> QED BY <1>6, <2>2, <3>1 DEF Course, Passed, Due
  <2> QED BY <2>1, <2>2
<1>8. Walking(c)'
  <2>1. L' = L /\ ShownTo(c)' = ShownTo(c) /\ Dressed(c)' = ShownTo(c) \cup {x[1] : x \in page'[c]}
    BY <1>1 DEF Listed, Live, ShownTo, Dressed
  <2>2. ASSUME walk'[c].steady
        PROVE  /\ Course(L, trigger, walk'[c], Dressed(c)', offset[c] + Limit)
               /\ Cardinality(page'[c]) # Limit => Few(walk'[c], Dressed(c)')
    <3> DEFINE w == walk'[c]
               S == ShownTo(c)
               o == offset[c]
               P == page'[c]
               more == Dressed(c)'
    <3>1. w \in Walk /\ o \in Nat
      BY <1>5, <1>6
    <3>2. Course(L, trigger, w, S, o)
      BY <1>7, <2>2
    <3>3. P = Shelf(f, o)
      BY <1>4 DEF Shelf
    <3>4. more = S \cup {x[1] : x \in P}
      BY <2>1
    <3>5. L \in SUBSET Ids /\ Dated(trigger, L) /\ f \in Orders(L)
      BY <1>3, <1>5
    <3> HIDE DEF L, w, S, o, P, more
    <3>6. /\ Course(L, trigger, w, more, o + Limit)
          /\ Cardinality(P) # Limit => Cardinality(Due(w, more)) <= Cardinality(w.left)
      BY <3>1, <3>2, <3>3, <3>4, <3>5, CoursePage
    <3>7. Cardinality(P) # Limit => Few(w, more)
      BY <3>6 DEF Few
    <3> QED BY <3>6, <3>7 DEF w, o, P, more
  <2> QED BY <1>1, <1>2, <1>6, <2>1, <2>2 DEF Walking
<1>9. ASSUME NEW d \in Calls \ {c}, Op(d) = "list" PROVE Walking(d)'
  BY <1>1, <1>2, <1>4, <1>6, <1>9, StandsStill
<1>10. \A d \in Calls : Gone(d)'
  <2>1. \A d \in Calls \ {c} : Gone(d)'
    BY <1>1, <1>6 DEF WalkInv, Gone
  <2>2. Gone(c)'
    BY <1>1, <1>6 DEF WalkInv, Gone
  <2> QED BY <2>1, <2>2
<1>11. \A d \in Calls : (Op(d) = "list")' => Op(d) = "list"
  BY <1>1 DEF Op
<1> QED BY <1>6, <1>8, <1>9, <1>10, <1>11 DEF WalkInv

\* A page is shown.
LEMMA DressWalk ==
  ASSUME ServiceInv, ScopeInv, WalkInv, NEW c \in Calls, DressPage(c)
  PROVE  WalkInv'
<1>1. /\ at[c] = "dress" /\ Tell(c, page[c])
      /\ UNCHANGED <<asked, from, page, trigger, walk>>
  BY DEF DressPage
<1>2. Op(c) = "list"
  <2>1. Op(c) \in Ops /\ at[c] \in DOMAIN After[Op(c)]
    BY <1>1, Placed DEF ServiceInv
  <2> QED BY <1>1, <2>1 DEF After, Ops
<1>3. /\ told'[c] = told[c] \cup page[c] /\ \A d \in Calls \ {c} : told'[d] = told[d]
  <2>1. DOMAIN told = Calls
    BY DEF ScopeInv
  <2> QED BY <1>1, <2>1 DEF Tell
<1>4. ShownTo(c)' = Dressed(c)
  BY <1>3 DEF ShownTo, Dressed
<1>5. Listed(c)' = Listed(c)
  BY <1>1 DEF Listed, Live
<1>6. offset \in [Calls -> Nat] /\ Limit \in Nat \ {0} /\ at \in [Calls -> Steps]
  BY ServiceAssumption DEF ServiceInv, ServiceTypeOK
<1>7. Walking(c)' /\ \A d \in Calls \ {c} : at'[d] = at[d] /\ offset'[d] = offset[d]
  <2>1. CASE Cardinality(page[c]) = Limit
    <3>1. /\ offset' = [offset EXCEPT ![c] = @ + Limit]
          /\ at' = [at EXCEPT ![c] = "origin"]
      BY <2>1 DEF DressPage
    <3>2. /\ offset'[c] = offset[c] + Limit /\ at'[c] = "origin"
          /\ \A d \in Calls \ {c} : at'[d] = at[d] /\ offset'[d] = offset[d]
      BY <1>6, <3>1
    <3> QED BY <1>1, <1>2, <1>4, <1>5, <3>2 DEF WalkInv, Walking
  <2>2. CASE Cardinality(page[c]) # Limit
    <3>1. Go(c) /\ UNCHANGED offset
      BY <2>2 DEF DressPage
    <3>2. at'[c] = "done" /\ \A d \in Calls \ {c} : at'[d] = at[d]
      BY <1>1, <1>2, <1>6, <3>1 DEF Go, After
    <3> QED BY <1>1, <1>2, <1>4, <2>2, <3>1, <3>2 DEF WalkInv, Walking
  <2> QED BY <2>1, <2>2
<1>8. ASSUME NEW d \in Calls \ {c}, Op(d) = "list" PROVE Walking(d)'
  BY <1>1, <1>3, <1>7, <1>8, StandsStill
<1>9. \A d \in Calls : Gone(d)'
  BY <1>1 DEF WalkInv, Gone
<1>10. \A d \in Calls : (Op(d) = "list")' => Op(d) = "list"
  BY <1>1 DEF Op
<1> QED BY <1>1, <1>7, <1>8, <1>9, <1>10 DEF WalkInv

\* A listing begins, or its origin is looked up again.
LEMMA OriginWalk ==
  ASSUME ServiceInv, WalkInv, NEW c \in Calls, Begin(c) \/ Origin(c), Op(c) = "list"
  PROVE  WalkInv'
<1>1. UNCHANGED <<asked, trigger, walk, offset, page, told>> /\ Op(c) \in Ops
  BY DEF Begin, Origin, Ops
<1>2. at \in [Calls -> Steps] /\ from \in [Calls -> Omitted(Guilds)] /\ offset \in [Calls -> Nat]
  BY DEF ServiceInv, ServiceTypeOK
<1>3. \A d \in Calls \ {c} : at'[d] = at[d] /\ from'[d] = from[d]
  BY <1>2 DEF Begin, Origin, Go, Refuse
<1>4. Walking(c)'
  <2>1. CASE at'[c] = "failed"
    BY <2>1 DEF Walking
  <2>2. CASE Begin(c) /\ Go(c)
    <3>1. at'[c] = "origin" /\ offset'[c] = 0
      BY <1>1, <1>2, <2>2 DEF Begin, Go, After, WalkInv, Walking
    <3> QED BY <3>1 DEF Walking
  <2>3. CASE Origin(c) /\ Go(c)
    <3>1. at[c] = "origin" /\ at'[c] = "page"
      BY <1>2, <2>3 DEF Origin, Go, After
    <3>2. /\ offset[c] > 0 /\ walk[c].steady /\ from'[c] = asked[c].origin
            => from'[c] = from[c]
      BY <3>1 DEF WalkInv, Walking
    <3>3. from'[c] = from[c] => Listed(c)' = Listed(c)
      BY <1>1 DEF Listed, Live
    <3>4. ShownTo(c)' = ShownTo(c)
      BY <1>1 DEF ShownTo
    <3> QED BY <1>1, <3>1, <3>2, <3>3, <3>4 DEF WalkInv, Walking
  <2>4. Go(c) \/ at'[c] = "failed"
    BY <1>2 DEF Begin, Origin, Refuse
  <2> QED BY <2>1, <2>2, <2>3, <2>4
<1>5. ASSUME NEW d \in Calls \ {c}, Op(d) = "list" PROVE Walking(d)'
  BY <1>1, <1>3, <1>5, StandsStill
<1>6. \A d \in Calls : Gone(d)'
  BY <1>1 DEF WalkInv, Gone
<1>7. \A d \in Calls : (Op(d) = "list")' => Op(d) = "list"
  BY <1>1 DEF Op
<1> QED BY <1>1, <1>4, <1>5, <1>6, <1>7 DEF WalkInv

\* The statements of other handlers, and failures.
LEMMA OthersWalk ==
  ASSUME ServiceInv, ScopeInv, WalkInv, NEW c \in Calls,
         \/ Fail(c) \/ ResolveTrigger(c) \/ ReadRow(c) \/ ReadTriggerScope(c)
         \/ ShowTrigger(c) \/ PlayTrigger(c) \/ RecordFire(c) \/ CountFires(c)
         \/ FindFile(c) \/ FileVisible(c) \/ StreamFile(c)
         \/ (Begin(c) \/ Origin(c)) /\ Op(c) # "list"
  PROVE  WalkInv'
<1>1. UNCHANGED <<asked, trigger, walk, offset, page>>
  BY DEF Fail, ResolveTrigger, ReadRow, ReadTriggerScope, ShowTrigger, PlayTrigger,
         RecordFire, CountFires, FindFile, FileVisible, StreamFile, Begin, Origin
<1>2. Op(c) # "list" \/ at'[c] = "failed"
  <2>1. CASE Fail(c)
    BY <2>1 DEF Fail, Refuse, ServiceInv, ServiceTypeOK
  <2>2. CASE \/ ResolveTrigger(c) \/ ReadRow(c) \/ ReadTriggerScope(c)
             \/ ShowTrigger(c) \/ PlayTrigger(c) \/ RecordFire(c) \/ CountFires(c)
             \/ FindFile(c) \/ FileVisible(c) \/ StreamFile(c)
    <3>1. at[c] \in {"resolve", "read", "scope", "show", "play", "record", "count",
                     "find", "visible", "stream"}
      BY <2>2 DEF ResolveTrigger, ReadRow, ReadTriggerScope, ShowTrigger, PlayTrigger,
         RecordFire, CountFires, FindFile, FileVisible, StreamFile
    <3>2. Op(c) \in Ops /\ at[c] \in DOMAIN After[Op(c)]
      BY <3>1, Placed DEF ServiceInv
    <3> QED BY <3>1, <3>2 DEF After
  <2> QED BY <2>1, <2>2
<1>3. \A d \in Calls \ {c} : at'[d] = at[d]
  BY DEF Fail, ResolveTrigger, ReadRow, ReadTriggerScope, ShowTrigger, PlayTrigger,
         RecordFire, CountFires, FindFile, FileVisible, StreamFile, Begin, Origin,
         Go, Refuse, ServiceInv, ServiceTypeOK
<1>4. \A d \in Calls \ {c} : from'[d] = from[d]
  BY DEF Fail, ResolveTrigger, ReadRow, ReadTriggerScope, ShowTrigger, PlayTrigger,
         RecordFire, CountFires, FindFile, FileVisible, StreamFile, Begin, Origin,
         ServiceInv, ServiceTypeOK
<1>5. \A d \in Calls \ {c} : told'[d] = told[d]
  <2>1. DOMAIN told = Calls
    BY DEF ScopeInv
  <2> QED BY <2>1 DEF Fail, ResolveTrigger, ReadRow, ReadTriggerScope, ShowTrigger,
         PlayTrigger, RecordFire, CountFires, FindFile, FileVisible, StreamFile, Begin,
         Origin, Tell
<1> QED BY <1>1, <1>2, <1>3, <1>4, <1>5, AsideWalk

\* No walk has begun.
LEMMA WalkInit == ServiceInit => WalkInv
<1> SUFFICES ASSUME ServiceInit PROVE WalkInv OBVIOUS
<1>1. walk = [c \in Calls |-> [start |-> {}, left |-> {}, steady |-> TRUE]]
  BY DEF ServiceInit
<1>2. walk \in [Calls -> Walk]
  BY <1>1 DEF Walk
<1> QED BY <1>1, <1>2 DEF ServiceInit, WalkInv, Gone, Walking

\* Every step keeps the walks on course.
LEMMA WalkInductive ==
  ServiceInv /\ ScopeInv /\ WalkInv /\ [ServiceNext]_serviceVars => WalkInv'
<1> SUFFICES ASSUME ServiceInv, ScopeInv, WalkInv, [ServiceNext]_serviceVars PROVE WalkInv'
  OBVIOUS
<1>1. CASE UNCHANGED serviceVars
  BY <1>1 DEF serviceVars, WalkInv, Gone, Walking, Listed, Live, ShownTo, Dressed, Op
<1>2. CASE ServiceNext
  <2>1. PICK c \in Calls : ServiceStep(c) BY <1>2 DEF ServiceNext
  <2> QED BY <2>1, WritesWalk, PageWalk, DressWalk, OriginWalk, OthersWalk DEF ServiceStep
<1> QED BY <1>1, <1>2

\* A listing that goes through its pages shows every trigger there was, but for one
\* at most for each that was deleted meanwhile, for any page size.
THEOREM WalkCorrect == ServiceSpec => []WalkMissesOnlyAfterDelete
<1>1. WalkInv => WalkMissesOnlyAfterDelete
  BY DEF WalkInv, Walking, WalkMissesOnlyAfterDelete, Few, Due, ShownTo
<1> QED BY <1>1, ServiceInvariant, ScopeInit, ScopeInductive, WalkInit, WalkInductive, PTL
        DEF ServiceSpec

-----------------------------------------------------------------------------
(* Playback.                                                               *)

USE PlaybackAssumption

\* A message that never comes is done from the start.
Silence == \A m \in Messages : msg[m] = None => pc[m] = "done"

\* The messages that hold a slot.
Holders == {m \in Messages : HoldsSlot(m)}

SlotsInv == slots = Cardinality(Holders)

\* A reading on its way to the limiter is no older than a goroutine may be held
\* up, and a cutoff on its way is of the past.
ReadingInv ==
  /\ \A m \in Messages : pc[m] = "allow" => clock[m] <= now /\ now <= clock[m] + Stall
  /\ prune # None => prune <= now - Interval

\* A grant is far enough in the past, or the limiter still remembers it or a later
\* one of its author.
Remembered(g) ==
  \/ now - g.at >= Interval - Stall
  \/ last[Author(g.msg)] >= g.read

GrantInv ==
  \A g \in grants :
    /\ msg[g.msg] # None
    /\ g.read <= g.at /\ g.at <= g.read + Stall /\ g.at <= now
    /\ Remembered(g)

\* A window is that of a response of its author in its channel, which was armed
\* and will not be again.
WindowInv ==
  \A k \in Keys :
    LET r == windows[k].response IN
    r # None => /\ pc[r] = "done" /\ msg[r] # None /\ Key(r) = k
                /\ windows[k].expires = clock[r] + Window

\* A response that was taken is out of every window, and nobody else takes it.
TakenInv ==
  /\ \A m \in Messages : target[m] # None =>
       /\ pc[m] \in {"delete", "done"}
       /\ pc[target[m]] = "done"
       /\ Key(m) = Key(target[m])
       /\ clock[m] < clock[target[m]] + Window
       /\ \A n \in Messages : target[n] = target[m] => n = m
       /\ \A k \in Keys : windows[k].response # target[m]
  /\ \A m \in Messages : pc[m] = "delete" \/ m \in undone => target[m] # None

\* A trigger is only ever edited, and deleted once.
RowsInv ==
  \A m \in Messages, t \in Triggers :
    /\ row[t].version >= atArrival[m][t].version
    /\ row[t].live => atArrival[m][t].live

Fresh(m) ==
  /\ fired[m] # None
  /\ atArrival[m][fired[m].trigger].live
  /\ fired[m].version >= atArrival[m][fired[m].trigger].version

\* What is answered is fresh, and what is posted was answered.
FreshInv ==
  \A m \in Messages :
    /\ pc[m] \in {"allow", "build"} => fired[m] # None
    /\ (pc[m] \in {"render", "send", "sent", "arm"} \/ m \in posts) => Fresh(m)
    /\ m \in posts => pc[m] \in {"sent", "arm", "done"}

PlaybackInv == /\ TypeOK /\ Silence /\ SlotsInv
               /\ ReadingInv /\ GrantInv /\ ForcedSpacing
               /\ WindowInv /\ TakenInv
               /\ RowsInv /\ FreshInv

-----------------------------------------------------------------------------
(* Types and slots.                                                        *)

\* What a message that comes has.
LEMMA Comes ==
  ASSUME TypeOK, Silence, NEW m \in Messages, pc[m] # "done"
  PROVE  /\ msg[m] \in Message /\ msg[m] # None
         /\ Author(m) \in Authors
         /\ Key(m) \in Keys
  BY DEF TypeOK, Silence, Message, Author, Key, Keys

(* Pruning the playback maps leaves functions of the same kind: a removed entry is *)
(* dropped, none changes its type. *)
LEMMA PrunedType ==
  ASSUME TypeOK, NEW t \in Nat
  PROVE  /\ Pruned(t) \in [Keys -> [response : Messages \cup {None}, expires : Nat]]
         /\ \A k \in Keys :
              \/ Pruned(t)[k].response = None
              \/ Pruned(t)[k] = windows[k] /\ t < windows[k].expires
  BY DEF Pruned, Open, TypeOK

\* How many hold a slot, when one more does or one less.
LEMMA HoldersFinite ==
  /\ IsFiniteSet(Holders)
  /\ Cardinality(Holders) \in Nat
  /\ \A m \in Messages : m \notin Holders =>
       Cardinality(Holders \cup {m}) = Cardinality(Holders) + 1
  /\ \A m \in Messages : m \in Holders =>
       /\ Cardinality(Holders \ {m}) = Cardinality(Holders) - 1
       /\ Cardinality(Holders) > 0
<1>1. IsFiniteSet(Holders)
  BY FS_Subset DEF Holders
<1>2. Cardinality(Holders) \in Nat
  BY <1>1, FS_CardinalityType
<1>3. ASSUME NEW m \in Messages, m \notin Holders
      PROVE  Cardinality(Holders \cup {m}) = Cardinality(Holders) + 1
  BY <1>1, <1>3, FS_AddElement
<1>4. ASSUME NEW m \in Messages, m \in Holders
      PROVE  /\ Cardinality(Holders \ {m}) = Cardinality(Holders) - 1
             /\ Cardinality(Holders) > 0
  <2>1. Cardinality(Holders \ {m}) = Cardinality(Holders) - 1
    BY <1>1, <1>4, FS_RemoveElement
  <2>2. Cardinality(Holders) # 0
    BY <1>1, <1>4, FS_EmptySet
  <2> QED
    BY <1>2, <2>1, <2>2
<1> QED
  BY <1>1, <1>2, <1>3, <1>4

\* A step of a message changes nothing of another but its post.
LEMMA OwnStep ==
  ASSUME TypeOK, NEW m \in Messages, Client(m) \/ Server(m)
  PROVE  /\ \A n \in Messages \ {m} :
              /\ pc'[n] = pc[n] /\ clock'[n] = clock[n]
              /\ target'[n] = target[n] /\ fired'[n] = fired[n]
              /\ n \in waiting' <=> n \in waiting
              /\ n \in posts' => n \in posts
              /\ n \in undone' => n \in undone
              /\ atArrival'[n] = atArrival[n]
         /\ UNCHANGED <<msg, row, prune, now>>
<1> USE DEF TypeOK, Answer, Return, client, server, hist
<1>1. CASE Receive(m) \/ Consume(m) \/ Undo(m)
  BY <1>1 DEF Receive, Consume, Undo
<1>2. CASE TakeSlot(m) \/ Ask(m) \/ Expire(m)
  BY <1>2 DEF TakeSlot, Ask, Expire
<1>3. CASE Render(m) \/ Send(m) \/ ReadClock(m) \/ Arm(m)
  BY <1>3 DEF Render, Send, ReadClock, Arm
<1>4. CASE Select(m)
  BY <1>4 DEF Select
<1>5. CASE Allow(m) \/ Build(m)
  BY <1>5 DEF Allow, Build
<1> QED
  BY <1>1, <1>2, <1>3, <1>4, <1>5 DEF Client, Server

\* Each step keeps, takes or gives back the slot of its message.
LEMMA SlotStep ==
  ASSUME TypeOK, SlotsInv, NEW m \in Messages, Client(m) \/ Server(m)
  PROVE  SlotsInv' /\ slots' \in 0 .. Slots
<1>1. \A n \in Messages \ {m} : n \in Holders' <=> n \in Holders
  BY OwnStep DEF Holders, HoldsSlot
<1>2. m \in Holders <=> pc[m] \in Holding \/ m \in waiting
  BY DEF Holders, HoldsSlot
<1>3. m \in Holders' <=> pc'[m] \in Holding \/ m \in waiting'
  BY DEF Holders, HoldsSlot
<1>4. Cardinality(Holders) = slots /\ slots \in 0 .. Slots
  BY DEF SlotsInv, TypeOK
<1>5. CASE (m \in Holders' <=> m \in Holders) /\ slots' = slots
  <2>1. Holders' = Holders
    BY <1>1, <1>5 DEF Holders
  <2> QED
    BY <1>4, <1>5, <2>1 DEF SlotsInv
<1>6. CASE m \notin Holders' /\ m \in Holders /\ slots' = slots - 1
  <2>1. Holders' = Holders \ {m}
    BY <1>1, <1>6 DEF Holders
  <2> QED
    BY <1>4, <1>6, <2>1, HoldersFinite DEF SlotsInv
<1>7. CASE m \in Holders' /\ m \notin Holders /\ slots' = slots + 1 /\ slots < Slots
  <2>1. Holders' = Holders \cup {m}
    BY <1>1, <1>7 DEF Holders
  <2> QED
    BY <1>4, <1>7, <2>1, HoldersFinite DEF SlotsInv
<1> USE DEF TypeOK, Holding, Serving, Answer, Return, client, server, hist
<1>8. CASE Receive(m) \/ Consume(m) \/ Undo(m) \/ ReadClock(m)
  BY <1>2, <1>3, <1>5, <1>8 DEF Receive, Consume, Undo, ReadClock
<1>9. CASE TakeSlot(m)
  BY <1>2, <1>3, <1>5, <1>7, <1>9 DEF TakeSlot
<1>10. CASE Ask(m)
  BY <1>2, <1>3, <1>5, <1>6, <1>10 DEF Ask
<1>11. CASE Expire(m)
  BY <1>2, <1>3, <1>6, <1>11 DEF Expire
<1>12. CASE Render(m) \/ Send(m) \/ Arm(m)
  BY <1>2, <1>3, <1>5, <1>6, <1>12 DEF Render, Send, Arm
<1>13. CASE Select(m)
  BY <1>2, <1>3, <1>5, <1>6, <1>13 DEF Select
<1>14. CASE Allow(m)
  BY <1>2, <1>3, <1>5, <1>6, <1>14 DEF Allow
<1>15. CASE Build(m)
  BY <1>2, <1>3, <1>5, <1>6, <1>15 DEF Build
<1> QED
  BY <1>8, <1>9, <1>10, <1>11, <1>12, <1>13, <1>14, <1>15 DEF Client, Server


\* A step moves its message among the positions, and whoever waits is at the
\* server.
LEMMA MoveType ==
  ASSUME TypeOK, NEW m \in Messages, Client(m) \/ Server(m)
  PROVE  /\ pc' \in [Messages -> {"none", "undo", "delete", "attempt", "done"}
                                 \cup Holding \cup Serving]
         /\ waiting' \subseteq {n \in Messages : pc'[n] \in Serving}
<1>1. \A n \in Messages \ {m} : pc'[n] = pc[n] /\ (n \in waiting' <=> n \in waiting)
  BY OwnStep
<1>2. /\ pc \in [Messages -> {"none", "undo", "delete", "attempt", "done"}
                              \cup Holding \cup Serving]
      /\ waiting \subseteq {n \in Messages : pc[n] \in Serving}
  BY DEF TypeOK
<1> USE DEF Holding, Serving, Answer, Return, client, server, hist
<1>3. /\ pc' \in [Messages -> {"none", "undo", "delete", "attempt", "done"}
                              \cup Holding \cup Serving]
      /\ waiting' \subseteq Messages
      /\ m \in waiting' => pc'[m] \in Serving
  <2>1. CASE Receive(m) \/ Consume(m) \/ Undo(m)
    BY <1>2, <2>1 DEF Receive, Consume, Undo
  <2>2. CASE TakeSlot(m)
    BY <1>2, <2>2 DEF TakeSlot
  <2>3. CASE Ask(m)
    BY <1>2, <2>3 DEF Ask
  <2>4. CASE Expire(m)
    BY <1>2, <2>4 DEF Expire
  <2>5. CASE Render(m) \/ Send(m) \/ ReadClock(m) \/ Arm(m)
    BY <1>2, <2>5 DEF Render, Send, ReadClock, Arm
  <2>6. CASE Select(m)
    BY <1>2, <2>6 DEF Select
  <2>7. CASE Allow(m) \/ Build(m)
    BY <1>2, <2>7 DEF Allow, Build
  <2> QED
    BY <2>1, <2>2, <2>3, <2>4, <2>5, <2>6, <2>7 DEF Client, Server
<1> QED
  BY <1>1, <1>2, <1>3

\* An answer finds the response that was selected.
LEMMA FiredType ==
  ASSUME TypeOK, FreshInv, NEW m \in Messages, Server(m)
  PROVE  fired' \in [Messages -> [trigger : Triggers, version : Nat] \cup {None}]
<1> DEFINE Responses == [trigger : Triggers, version : Nat]
<1>0. fired \in [Messages -> Responses \cup {None}]
  BY DEF TypeOK
<1>1. CASE UNCHANGED fired
  BY <1>0, <1>1
<1>2. ASSUME NEW r \in Responses, fired' = [fired EXCEPT ![m] = r]
      PROVE  fired' \in [Messages -> Responses \cup {None}]
  BY <1>0, <1>2
<1>3. CASE Select(m)
  <2>1. \A t \in Triggers : [trigger |-> t, version |-> 0] \in Responses
    OBVIOUS
  <2> QED
    BY <1>1, <1>2, <1>3, <2>1 DEF Select
<1>4. CASE Build(m)
  <2>1. fired[m] \in Responses
    BY <1>0, <1>4 DEF Build, FreshInv
  <2>2. row[fired[m].trigger].version \in Nat
    BY <2>1 DEF TypeOK
  <2> DEFINE r == [fired[m] EXCEPT !.version = row[fired[m].trigger].version]
  <2>3. r \in Responses
    BY <2>1, <2>2
  <2>4. UNCHANGED fired \/ fired' = [fired EXCEPT ![m] = r]
    BY <1>4 DEF Build
  <2> HIDE DEF r
  <2> QED
    BY <1>1, <1>2, <2>3, <2>4
<1>5. CASE Allow(m)
  BY <1>1, <1>5 DEF Allow
<1> QED
  BY <1>3, <1>4, <1>5 DEF Server

\* What a window may hold.
LEMMA WindowsType ==
  ASSUME TypeOK, Silence, NEW m \in Messages, Client(m)
  PROVE  /\ windows' \in [Keys -> [response : Messages \cup {None}, expires : Nat]]
         /\ target' \in [Messages -> Messages \cup {None}]
<1> USE DEF client
<1>1. CASE UNCHANGED <<windows, target>>
  BY <1>1 DEF TypeOK
<1>2. Open \in [response : Messages \cup {None}, expires : Nat]
  BY DEF Open
<1>3. CASE Consume(m)
  <2>1. Key(m) \in Keys /\ clock[m] \in Nat
    BY <1>3, Comes DEF Consume, TypeOK
  <2>2. Pruned(clock[m]) \in [Keys -> [response : Messages \cup {None}, expires : Nat]]
    BY <2>1, PrunedType
  <2>3. windows' \in [Keys -> [response : Messages \cup {None}, expires : Nat]]
    BY <1>2, <1>3, <2>1, <2>2 DEF Consume
  <2>4. target' \in [Messages -> Messages \cup {None}]
    BY <1>3, <2>1, <2>2 DEF Consume, TypeOK
  <2> QED
    BY <2>3, <2>4
<1>4. CASE Arm(m)
  <2>1. Key(m) \in Keys /\ clock[m] \in Nat
    BY <1>4, Comes DEF Arm, TypeOK
  <2>2. Pruned(clock[m]) \in [Keys -> [response : Messages \cup {None}, expires : Nat]]
    BY <2>1, PrunedType
  <2>3. [response |-> m, expires |-> clock[m] + Window]
           \in [response : Messages \cup {None}, expires : Nat]
    BY <2>1
  <2>4. windows' \in [Keys -> [response : Messages \cup {None}, expires : Nat]]
    BY <1>4, <2>1, <2>2, <2>3 DEF Arm
  <2>5. target' \in [Messages -> Messages \cup {None}]
    BY <1>4 DEF Arm, TypeOK
  <2> QED
    BY <2>4, <2>5
<1> QED
  BY <1>1, <1>3, <1>4 DEF Client, Receive, Undo, TakeSlot, Ask, Expire, Render, Send, ReadClock

\* The limiter, the grants, the clocks and the table at arrival.
LEMMA ReadingsType ==
  ASSUME TypeOK, Silence, NEW m \in Messages, Client(m) \/ Server(m)
  PROVE  /\ clock' \in [Messages -> Nat]
         /\ last' \in [Authors -> Int]
         /\ atArrival' \in [Messages -> [Triggers -> [version : Nat, live : BOOLEAN]]]
         /\ grants' \subseteq [msg : Messages, read : Nat, at : Nat]
         /\ undone' \subseteq Messages
         /\ posts' \subseteq Messages
<1>1. clock' = clock \/ clock' = [clock EXCEPT ![m] = now]
  BY DEF Client, Server, Receive, Consume, Undo, TakeSlot, Ask, Expire, Render, Send,
         ReadClock, Arm, Select, Allow, Build, Answer, client, server, hist
<1>2. atArrival' = atArrival \/ atArrival' = [atArrival EXCEPT ![m] = row]
  BY DEF Client, Server, Receive, Consume, Undo, TakeSlot, Ask, Expire, Render, Send,
         ReadClock, Arm, Select, Allow, Build, Answer, client, server, hist
<1>3. \/ UNCHANGED <<last, grants>>
      \/ /\ pc[m] = "allow"
         /\ last' = [last EXCEPT ![Author(m)] = clock[m]]
         /\ grants' = grants \cup {[msg |-> m, read |-> clock[m], at |-> now]}
  BY DEF Client, Server, Receive, Consume, Undo, TakeSlot, Ask, Expire, Render, Send,
         ReadClock, Arm, Select, Allow, Build, Answer, client, server, hist
<1>4. undone' \subseteq undone \cup {m} /\ posts' \subseteq posts \cup {m}
  BY DEF Client, Server, Receive, Consume, Undo, TakeSlot, Ask, Expire, Render, Send,
         ReadClock, Arm, Select, Allow, Build, Answer, client, server, hist
<1>5. clock' \in [Messages -> Nat]
  BY <1>1 DEF TypeOK
<1>6. atArrival' \in [Messages -> [Triggers -> [version : Nat, live : BOOLEAN]]]
  <2>1. row \in [Triggers -> [version : Nat, live : BOOLEAN]]
    BY DEF TypeOK
  <2> QED
    BY <1>2, <2>1 DEF TypeOK
<1>7. last' \in [Authors -> Int]
  BY <1>3 DEF TypeOK
<1>8. grants' \subseteq [msg : Messages, read : Nat, at : Nat]
  BY <1>3 DEF TypeOK
<1> QED
  BY <1>4, <1>5, <1>6, <1>7, <1>8 DEF TypeOK

\* The steps of a message keep the types.
LEMMA PlaybackTypeMessage ==
  ASSUME TypeOK, SlotsInv, Silence, FreshInv, NEW m \in Messages, Client(m) \/ Server(m)
  PROVE  TypeOK'
<1>1. slots' \in 0 .. Slots
  BY SlotStep
<1>2. UNCHANGED <<msg, row, prune, now>>
  BY OwnStep
<1>3. CASE Client(m)
  <2>1. fired' = fired
    BY <1>3 DEF Client, Receive, Consume, Undo, TakeSlot, Ask, Expire, Render, Send,
                ReadClock, Arm, server
  <2> QED
    BY <1>1, <1>2, <1>3, <2>1, MoveType, WindowsType, ReadingsType DEF TypeOK
<1>4. CASE Server(m)
  <2>1. UNCHANGED <<windows, target>>
    BY <1>4 DEF Server, Select, Allow, Build
  <2> QED
    BY <1>1, <1>2, <1>4, <2>1, MoveType, FiredType, ReadingsType DEF TypeOK
<1> QED
  BY <1>3, <1>4

\* A row that is edited or deleted is a row.
LEMMA EditedRow ==
  ASSUME NEW v \in [version : Nat, live : BOOLEAN]
  PROVE  /\ [v EXCEPT !.version = @ + 1] \in [version : Nat, live : BOOLEAN]
         /\ [v EXCEPT !.live = FALSE] \in [version : Nat, live : BOOLEAN]
<1>1. v.version + 1 \in Nat
  OBVIOUS
<1>2. [v EXCEPT !.version = @ + 1] \in [version : Nat, live : BOOLEAN]
  BY <1>1
<1>3. [v EXCEPT !.live = FALSE] \in [version : Nat, live : BOOLEAN]
  OBVIOUS
<1> QED
  BY <1>2, <1>3

\* So do the others.
LEMMA PlaybackTypeOther ==
  ASSUME TypeOK, 
         (\E t \in Triggers : UpdateTrigger(t) \/ DeleteTrigger(t))
           \/ StartPrune \/ Prune \/ Tick \/ UNCHANGED vars
  PROVE  TypeOK'
<1> USE DEF TypeOK, client, server, hist, vars
<1>1. ASSUME NEW t \in Triggers, UpdateTrigger(t) \/ DeleteTrigger(t)
      PROVE  TypeOK'
  <2> DEFINE r == [row[t] EXCEPT !.version = @ + 1]
             d == [row[t] EXCEPT !.live = FALSE]
  <2>0. row[t] \in [version : Nat, live : BOOLEAN]
    OBVIOUS
  <2>1. r \in [version : Nat, live : BOOLEAN] /\ d \in [version : Nat, live : BOOLEAN]
    BY <2>0, EditedRow
  <2>2. row' = [row EXCEPT ![t] = r] \/ row' = [row EXCEPT ![t] = d]
    BY <1>1 DEF UpdateTrigger, DeleteTrigger
  <2> HIDE DEF r, d
  <2>3. row' \in [Triggers -> [version : Nat, live : BOOLEAN]]
    BY <2>1, <2>2
  <2>4. UNCHANGED <<client, fired, last, prune, pc, clock, now, hist>>
    BY <1>1 DEF UpdateTrigger, DeleteTrigger
  <2> QED
    BY <2>3, <2>4
<1>2. CASE StartPrune
  BY <1>2 DEF StartPrune
<1>3. CASE Prune
  <2>1. last' \in [Authors -> Int]
    BY <1>3 DEF Prune, Never
  <2> QED
    BY <1>3, <2>1 DEF Prune
<1>4. CASE Tick
  BY <1>4 DEF Tick
<1>5. CASE UNCHANGED vars
  BY <1>5
<1> QED
  BY <1>1, <1>2, <1>3, <1>4, <1>5

-----------------------------------------------------------------------------
(* Silence, the limiter and the windows.                                   *)

\* A message that never comes takes no step.
LEMMA SilenceStep ==
  ASSUME TypeOK, Silence, NEW m \in Messages, Client(m) \/ Server(m)
  PROVE  Silence'
<1>1. msg' = msg /\ \A n \in Messages \ {m} : pc'[n] = pc[n]
  BY OwnStep
<1>2. pc[m] # "done" \/ pc' = pc
  BY DEF Client, Server, Receive, Consume, Undo, TakeSlot, Ask, Expire, Render, Send,
         ReadClock, Arm, Select, Allow, Build
<1> QED
  BY <1>1, <1>2 DEF Silence

\* The reading that is passed to the limiter was taken before, and not long before.
LEMMA ReadingStep ==
  ASSUME TypeOK, ReadingInv, Next
  PROVE  ReadingInv'
<1> USE DEF TypeOK, ReadingInv, client, server, hist
<1>1. ASSUME NEW m \in Messages, Client(m) \/ Server(m)
      PROVE  ReadingInv'
  <2>1. UNCHANGED <<prune, now>> /\ \A n \in Messages \ {m} : pc'[n] = pc[n] /\ clock'[n] = clock[n]
    BY <1>1, OwnStep
  <2>2. pc'[m] = "allow" =>
          (pc[m] = "allow" /\ clock'[m] = clock[m]) \/ clock'[m] = now
    <3> USE DEF Answer, Return
    <3>1. CASE Receive(m) \/ Consume(m) \/ Undo(m) \/ TakeSlot(m) \/ Ask(m) \/ Expire(m)
      BY <3>1 DEF Receive, Consume, Undo, TakeSlot, Ask, Expire
    <3>2. CASE Render(m) \/ Send(m) \/ ReadClock(m) \/ Arm(m)
      BY <3>2 DEF Render, Send, ReadClock, Arm
    <3>3. CASE Select(m)
      BY <3>3 DEF Select
    <3>4. CASE Allow(m) \/ Build(m)
      BY <3>4 DEF Allow, Build
    <3> QED
      BY <1>1, <3>1, <3>2, <3>3, <3>4 DEF Client, Server
  <2> QED
    BY <2>1, <2>2
<1>2. CASE \E t \in Triggers : UpdateTrigger(t) \/ DeleteTrigger(t)
  BY <1>2 DEF UpdateTrigger, DeleteTrigger
<1>3. CASE StartPrune \/ Prune
  BY <1>3 DEF StartPrune, Prune
<1>4. CASE Tick
  BY <1>4 DEF Tick
<1> QED
  BY <1>1, <1>2, <1>3, <1>4 DEF Next

\* Who wrote a message does not change.
LEMMA LimiterStep ==
  ASSUME TypeOK, Silence, ReadingInv, GrantInv, ForcedSpacing, NEW m \in Messages, Allow(m),
         ~Refused(m)
  PROVE  GrantInv' /\ ForcedSpacing'
<1> PICK h : h = [msg |-> m, read |-> clock[m], at |-> now]
  OBVIOUS
<1>0. h.msg = m /\ h.read = clock[m] /\ h.at = now
  OBVIOUS
<1>1. /\ pc[m] = "allow" /\ grants' = grants \cup {h}
      /\ last' = [last EXCEPT ![Author(m)] = clock[m]]
      /\ UNCHANGED <<msg, now>>
  BY DEF Allow
<1>2. Author(m) \in Authors /\ msg[m] # None
  BY <1>1, Comes
<1>3. clock[m] \in Nat /\ clock[m] <= now /\ now <= clock[m] + Stall /\ now \in Nat
  BY <1>1 DEF ReadingInv, TypeOK
<1>4. \A n \in Messages : Author(n)' = Author(n)
  BY <1>1 DEF Author
<1>5. last \in [Authors -> Int]
  BY DEF TypeOK
<1>6. ASSUME NEW g \in grants
      PROVE  /\ g.msg \in Messages /\ g.read \in Nat /\ g.at \in Nat
             /\ msg[g.msg] # None /\ g.read <= g.at /\ g.at <= g.read + Stall /\ g.at <= now
             /\ now - g.at >= Interval - Stall \/ last[Author(g.msg)] >= g.read
  BY <1>6 DEF TypeOK, GrantInv, Remembered
<1>7. last[Author(m)] = -1 \/ clock[m] - last[Author(m)] >= Interval
  BY <1>2, <1>3, <1>5 DEF Refused, Never
<1>8. ASSUME NEW g \in grants, Author(g.msg) = Author(m)
      PROVE  now - g.at >= Interval - Stall
  BY <1>2, <1>3, <1>5, <1>6, <1>7, <1>8
<1>9. GrantInv'
  <2>1. ASSUME NEW g \in grants
        PROVE  Remembered(g)'
    <3>1. Author(g.msg)' = Author(g.msg)
      BY <1>4, <1>6
    <3>2. CASE Author(g.msg) = Author(m)
      BY <1>1, <1>8, <3>2 DEF Remembered
    <3>3. CASE Author(g.msg) # Author(m)
      <4>1. last'[Author(g.msg)] = last[Author(g.msg)]
        <5>1. Author(g.msg) \in Authors
          BY <1>6 DEF TypeOK, Message, Author
        <5> QED
          BY <1>1, <1>2, <1>5, <3>3, <5>1
      <4> QED
        BY <1>1, <1>6, <3>1, <4>1 DEF Remembered
    <3> QED
      BY <3>2, <3>3
  <2>2. Remembered(h)'
    <3>1. Author(h.msg)' = Author(m)
      BY <1>0, <1>4
    <3>2. last'[Author(m)] = clock[m]
      BY <1>1, <1>2, <1>5
    <3> QED
      BY <1>0, <1>3, <3>1, <3>2 DEF Remembered
  <2> QED
    BY <1>0, <1>1, <1>2, <1>3, <1>6, <2>1, <2>2 DEF GrantInv
<1>10. ForcedSpacing'
  <2>6. ASSUME NEW g \in grants \cup {h}
        PROVE  Author(g.msg)' = Author(g.msg)
    BY <1>0, <1>4, <1>6
  <2> SUFFICES ASSUME NEW f \in grants \cup {h}, NEW g \in grants \cup {h},
                      Author(f.msg) = Author(g.msg), f.msg # g.msg, f.at <= g.at
               PROVE  g.at - f.at >= Interval - Stall
    BY <1>1, <2>6 DEF ForcedSpacing
  <2>2. CASE f \in grants /\ g \in grants
    BY <2>2 DEF ForcedSpacing
  <2>3. CASE f \in grants /\ g = h
    BY <1>0, <1>8, <2>3
  <2>4. CASE f = h /\ g \in grants
    BY <1>0, <1>3, <1>6, <1>8, <2>4
  <2>5. CASE f = h /\ g = h
    BY <2>5
  <2> QED
    BY <2>2, <2>3, <2>4, <2>5
<1> QED
  BY <1>9, <1>10

\* A grant recedes into the past, and what the prune forgets is past.
LEMMA GrantStep ==
  ASSUME TypeOK, Silence, ReadingInv, GrantInv, ForcedSpacing, Next
  PROVE  GrantInv' /\ ForcedSpacing'
<1>1. ASSUME NEW g \in grants
      PROVE  /\ g.msg \in Messages /\ g.read \in Nat /\ g.at \in Nat
             /\ msg[g.msg] # None /\ Author(g.msg) \in Authors
             /\ g.read <= g.at /\ g.at <= g.read + Stall /\ g.at <= now
             /\ now - g.at >= Interval - Stall \/ last[Author(g.msg)] >= g.read
  BY <1>1 DEF TypeOK, GrantInv, Remembered, Message, Author
<1>2. now \in Nat /\ last \in [Authors -> Int]
  BY DEF TypeOK
<1>3. CASE UNCHANGED <<msg, now, last, grants>>
  BY <1>3 DEF GrantInv, ForcedSpacing, Remembered, Author
<1>4. CASE UNCHANGED <<msg, grants>> /\ now' >= now /\ now' \in Nat
           /\ \A g \in grants : \/ last'[Author(g.msg)] = last[Author(g.msg)]
                                \/ now - g.at >= Interval - Stall
  <2>1. ForcedSpacing'
    BY <1>4 DEF ForcedSpacing, Author
  <2>2. ASSUME NEW g \in grants
        PROVE  Remembered(g)'
    BY <1>1, <1>2, <1>4 DEF Remembered, Author
  <2>3. GrantInv'
    BY <1>1, <1>2, <1>4, <2>2 DEF GrantInv
  <2> QED
    BY <2>1, <2>3
<1> USE DEF client, server, hist
<1>5. ASSUME NEW m \in Messages, Client(m) \/ Server(m)
      PROVE  GrantInv' /\ ForcedSpacing'
  <2>1. CASE Client(m)
    BY <1>3, <2>1 DEF Client, Receive, Consume, Undo, TakeSlot, Ask, Expire, Render, Send,
                      ReadClock, Arm
  <2>2. CASE Select(m) \/ Build(m)
    BY <1>3, <2>2 DEF Select, Build
  <2>3. CASE Allow(m) /\ ~Refused(m)
    BY <2>3, LimiterStep
  <2>4. CASE Allow(m) /\ Refused(m)
    BY <1>3, <2>4 DEF Allow
  <2> QED
    BY <1>5, <2>1, <2>2, <2>3, <2>4 DEF Server
<1>6. CASE \E t \in Triggers : UpdateTrigger(t) \/ DeleteTrigger(t)
  BY <1>3, <1>6 DEF UpdateTrigger, DeleteTrigger
<1>7. CASE StartPrune
  BY <1>3, <1>7 DEF StartPrune
<1>8. CASE Prune
  <2>1. prune <= now - Interval /\ prune \in Int
    BY <1>8 DEF Prune, ReadingInv, TypeOK
  <2>2. ASSUME NEW g \in grants
        PROVE  \/ last'[Author(g.msg)] = last[Author(g.msg)]
               \/ now - g.at >= Interval - Stall
    <3>1. last'[Author(g.msg)] = last[Author(g.msg)] \/ last[Author(g.msg)] < prune
      BY <1>1, <1>8 DEF Prune
    <3> QED
      BY <1>1, <1>2, <2>1, <3>1
  <2>3. UNCHANGED <<msg, grants, now>>
    BY <1>8 DEF Prune
  <2> QED
    BY <1>2, <1>4, <2>2, <2>3
<1>9. CASE Tick
  BY <1>2, <1>4, <1>9 DEF Tick
<1> QED
  BY <1>5, <1>6, <1>7, <1>8, <1>9 DEF Next

\* A message that is done takes no step.
LEMMA DoneStays ==
  ASSUME TypeOK, NEW m \in Messages, Client(m) \/ Server(m)
  PROVE  pc[m] # "done"
  BY DEF TypeOK, Serving, Client, Server, Receive, Consume, Undo, TakeSlot, Ask, Expire,
         Render, Send, ReadClock, Arm, Select, Allow, Build

\* A window that is open was open before, or was just armed.
LEMMA WindowChange ==
  ASSUME TypeOK, Silence, NEW m \in Messages, Client(m) \/ Server(m), NEW k \in Keys
  PROVE  \/ windows'[k].response = None
         \/ windows'[k] = windows[k] /\ (Consume(m) => k # Key(m))
         \/ /\ pc[m] = "arm" /\ k = Key(m) /\ pc'[m] = "done" /\ clock' = clock
            /\ windows'[k].response = m /\ windows'[k].expires = clock[m] + Window
<1>1. CASE Consume(m)
  <2>1. clock[m] \in Nat /\ Key(m) \in Keys
    BY <1>1, Comes DEF Consume, TypeOK
  <2>2. windows' = [Pruned(clock[m]) EXCEPT ![Key(m)] = Open]
    BY <1>1 DEF Consume
  <2>3. CASE k = Key(m)
    BY <2>1, <2>2, <2>3, PrunedType DEF Open
  <2>4. CASE k # Key(m)
    BY <2>1, <2>2, <2>4, PrunedType
  <2> QED
    BY <2>3, <2>4
<1>2. CASE Arm(m)
  <2>1. clock[m] \in Nat /\ Key(m) \in Keys
    BY <1>2, Comes DEF Arm, TypeOK
  <2>2. windows' = [Pruned(clock[m]) EXCEPT ![Key(m)] =
                      [response |-> m, expires |-> clock[m] + Window]]
    BY <1>2 DEF Arm
  <2>3. CASE k = Key(m)
    <3>1. windows'[k] = [response |-> m, expires |-> clock[m] + Window]
      BY <2>1, <2>2, <2>3, PrunedType
    <3>2. pc[m] = "arm" /\ pc'[m] = "done" /\ clock' = clock
      BY <1>2 DEF Arm, Return, TypeOK
    <3> QED
      BY <2>3, <3>1, <3>2
  <2>4. CASE k # Key(m)
    <3>1. ~Consume(m)
      BY <1>2 DEF Arm, Consume
    <3> QED
      BY <2>1, <2>2, <2>4, <3>1, PrunedType
  <2> QED
    BY <2>3, <2>4
<1>3. CASE ~Consume(m) /\ ~Arm(m)
  <2>1. windows' = windows
    BY <1>3 DEF Client, Server, Receive, Undo, TakeSlot, Ask, Expire, Render, Send,
                ReadClock, Select, Allow, Build, client, server
  <2> QED
    BY <1>3, <2>1
<1> QED
  BY <1>1, <1>2, <1>3

\* The windows of messages that are done.
LEMMA WindowStep ==
  ASSUME TypeOK, Silence, WindowInv, NEW m \in Messages, Client(m) \/ Server(m)
  PROVE  WindowInv'
<1>1. msg' = msg /\ \A n \in Messages \ {m} : pc'[n] = pc[n] /\ clock'[n] = clock[n]
  BY OwnStep
<1>2. \A n : Key(n)' = Key(n)
  BY <1>1 DEF Key
<1> SUFFICES ASSUME NEW k \in Keys, NEW r, r = windows'[k].response, r # None
             PROVE  /\ pc'[r] = "done" /\ msg'[r] # None /\ Key(r)' = k
                    /\ windows'[k].expires = clock'[r] + Window
  BY DEF WindowInv, Key
<1>3. CASE windows'[k] = windows[k]
  <2>2. /\ r \in Messages /\ pc[r] = "done" /\ msg[r] # None /\ Key(r) = k
        /\ windows[k].expires = clock[r] + Window
    BY <1>3 DEF WindowInv, TypeOK
  <2>3. r # m
    BY <2>2, DoneStays
  <2> QED
    BY <1>1, <1>2, <1>3, <2>2, <2>3
<1>4. CASE /\ pc[m] = "arm" /\ k = Key(m) /\ pc'[m] = "done" /\ clock' = clock
           /\ windows'[k].response = m /\ windows'[k].expires = clock[m] + Window
  BY <1>1, <1>2, <1>4, Comes
<1> QED
  BY <1>3, <1>4, WindowChange

\* A response is taken once, out of the one window over it.
LEMMA TakenStep ==
  ASSUME TypeOK, Silence, WindowInv, TakenInv, NEW m \in Messages, Client(m) \/ Server(m)
  PROVE  TakenInv'
<1>1. /\ msg' = msg
      /\ \A n \in Messages \ {m} : /\ pc'[n] = pc[n] /\ clock'[n] = clock[n]
                                   /\ target'[n] = target[n]
                                   /\ n \in undone' => n \in undone
  BY OwnStep
<1>2. \A n : Key(n)' = Key(n)
  BY <1>1 DEF Key
<1>3. pc[m] # "done"
  BY DoneStays
<1>4. ASSUME NEW n \in Messages, target[n] # None
      PROVE  /\ target[n] \in Messages /\ target[n] # m /\ pc'[target[n]] = "done"
             /\ clock'[target[n]] = clock[target[n]]
             /\ \A k \in Keys : windows'[k].response # target[n]
  <2>1. target[n] \in Messages /\ pc[target[n]] = "done"
    BY <1>4 DEF TakenInv, TypeOK
  <2>2. target[n] # m
    BY <1>3, <2>1
  <2>3. \A k \in Keys : windows'[k].response # target[n]
    BY <1>4, <2>2, WindowChange DEF TakenInv
  <2> QED
    BY <1>1, <2>1, <2>2, <2>3
\* What the step of the message itself may do.
<1>5. \/ /\ Consume(m) /\ clock' = clock /\ undone' = undone
         /\ target' = [target EXCEPT ![m] = Pruned(clock[m])[Key(m)].response]
         /\ pc'[m] = IF Pruned(clock[m])[Key(m)].response = None THEN "attempt" ELSE "delete"
      \/ /\ pc[m] = "delete" /\ pc'[m] = "done" /\ clock' = clock /\ target' = target
      \/ /\ pc[m] \notin {"delete", "done", "undo"} /\ target' = target
         /\ pc'[m] # "delete" /\ undone' = undone
  <2> USE DEF TypeOK, Answer, Return, Serving, client, server, hist
  <2>1. CASE Consume(m)
    BY <2>1 DEF Consume
  <2>2. CASE Undo(m)
    BY <2>2 DEF Undo
  <2>3. CASE Receive(m) \/ TakeSlot(m) \/ Ask(m)
    BY <2>3 DEF Receive, TakeSlot, Ask
  <2>7. CASE Expire(m)
    BY <2>7 DEF Expire
  <2>4. CASE Render(m) \/ Send(m) \/ ReadClock(m) \/ Arm(m)
    BY <2>4 DEF Render, Send, ReadClock, Arm
  <2>5. CASE Select(m)
    BY <2>5 DEF Select
  <2>6. CASE Allow(m) \/ Build(m)
    BY <2>6 DEF Allow, Build
  <2> QED
    BY <2>1, <2>2, <2>3, <2>4, <2>5, <2>6, <2>7 DEF Client, Server
<1>6. m \in undone => pc[m] = "done" \/ pc[m] = "delete"
  BY DEF TakenInv
<1>7. CASE ~Consume(m) /\ target' = target
  <2>1. ASSUME NEW n \in Messages, target[n] # None
        PROVE  /\ pc'[n] \in {"delete", "done"}
               /\ clock'[n] = clock[n]
    <3>1. pc[n] \in {"delete", "done"}
      BY <2>1 DEF TakenInv
    <3> QED
      BY <1>1, <1>3, <1>5, <1>7, <3>1
  <2>2. \A n \in Messages : pc'[n] = "delete" \/ n \in undone' => target[n] # None
    BY <1>1, <1>5, <1>7 DEF TakenInv
  <2> QED
    BY <1>2, <1>4, <1>7, <2>1, <2>2 DEF TakenInv
<1>8. CASE /\ Consume(m) /\ clock' = clock /\ undone' = undone
           /\ target' = [target EXCEPT ![m] = Pruned(clock[m])[Key(m)].response]
           /\ pc'[m] = IF Pruned(clock[m])[Key(m)].response = None THEN "attempt" ELSE "delete"
  <2> PICK r : r = Pruned(clock[m])[Key(m)].response
    OBVIOUS
  <2>1. Key(m) \in Keys /\ pc[m] = "undo" /\ clock[m] \in Nat
    BY <1>8, Comes DEF Consume, TypeOK
  <2>2. target'[m] = r /\ target[m] = None /\ m \notin undone
    BY <1>8, <2>1 DEF TypeOK, TakenInv
  <2>3. ASSUME r # None
        PROVE  /\ r \in Messages /\ windows[Key(m)].response = r
               /\ pc[r] = "done" /\ msg[r] # None /\ Key(r) = Key(m) /\ r # m
               /\ clock[m] < clock[r] + Window
    <3>1. windows[Key(m)].response = r /\ clock[m] < windows[Key(m)].expires
      BY <2>1, <2>3, PrunedType
    <3> QED
      BY <2>1, <2>3, <3>1 DEF WindowInv, TypeOK
  <2>4. ASSUME r # None, NEW k \in Keys
        PROVE  windows'[k].response # r
    <3>1. windows[k].response = r => k = Key(m)
      BY <2>3, <2>4 DEF WindowInv
    <3> QED
      BY <1>8, <2>1, <2>4, <3>1, WindowChange
  <2>5. ASSUME r # None, NEW n \in Messages, target'[n] = r
        PROVE  n = m
    BY <1>1, <2>1, <2>3, <2>5 DEF TakenInv
  <2>6. \A n \in Messages : pc'[n] = "delete" \/ n \in undone' => target'[n] # None
    BY <1>1, <1>8, <2>2 DEF TakenInv
  <2>7. ASSUME NEW n \in Messages, target'[n] # None
        PROVE  /\ pc'[n] \in {"delete", "done"}
               /\ pc'[target'[n]] = "done"
               /\ Key(n) = Key(target'[n])
               /\ clock[n] < clock[target'[n]] + Window
               /\ \A o \in Messages : target'[o] = target'[n] => o = n
               /\ \A k \in Keys : windows'[k].response # target'[n]
    <3>1. CASE n = m
      BY <1>1, <1>8, <2>2, <2>3, <2>4, <2>5, <2>7, <3>1
    <3>2. CASE n # m
      <4>1. target'[n] = target[n] /\ target[n] # None
        BY <1>1, <2>7, <3>2
      <4>2. target'[m] # target[n]
        BY <1>4, <2>1, <2>2, <2>3, <4>1 DEF TakenInv
      <4> QED
        BY <1>1, <1>4, <3>2, <4>1, <4>2 DEF TakenInv
    <3> QED
      BY <3>1, <3>2
  <2> QED
    BY <1>2, <1>8, <2>6, <2>7 DEF TakenInv
<1> QED
  BY <1>5, <1>7, <1>8 DEF Consume

-----------------------------------------------------------------------------
(* What is posted.                                                         *)

\* The table only moves forward.
LEMMA RowsStep ==
  ASSUME TypeOK, RowsInv, Next
  PROVE  RowsInv'
<1>1. /\ \A m \in Messages, t \in Triggers :
           /\ row[t].version \in Nat /\ atArrival[m][t].version \in Nat
           /\ row[t].version >= atArrival[m][t].version
           /\ row[t].live => atArrival[m][t].live
      /\ row \in [Triggers -> [version : Nat, live : BOOLEAN]]
  BY DEF TypeOK, RowsInv
<1>2. ASSUME NEW m \in Messages, Client(m) \/ Server(m)
      PROVE  RowsInv'
  <2>1. row' = row /\ \A n \in Messages \ {m} : atArrival'[n] = atArrival[n]
    BY <1>2, OwnStep
  <2>2. atArrival'[m] = row \/ atArrival'[m] = atArrival[m]
    BY <1>2 DEF TypeOK, Client, Server, Receive, Consume, Undo, TakeSlot, Ask, Expire, Render,
                Send, ReadClock, Arm, Select, Allow, Build, client, server, hist
  <2> QED
    BY <1>1, <2>1, <2>2 DEF RowsInv
<1>3. ASSUME NEW t \in Triggers, UpdateTrigger(t) \/ DeleteTrigger(t)
      PROVE  RowsInv'
  <2>1. atArrival' = atArrival
    BY <1>3 DEF UpdateTrigger, DeleteTrigger, hist
  <2>2. ASSUME NEW u \in Triggers
        PROVE  row'[u].version >= row[u].version /\ (row'[u].live => row[u].live)
    <3>1. CASE u # t
      <4>1. row'[u] = row[u] /\ row[u].version \in Nat
        BY <1>1, <1>3, <3>1 DEF UpdateTrigger, DeleteTrigger
      <4> QED
        BY <4>1
    <3>2. CASE u = t
      <4>1. row[t] \in [version : Nat, live : BOOLEAN] /\ row[t].live
        BY <1>1, <1>3 DEF UpdateTrigger, DeleteTrigger
      <4>2. row'[t].version >= row[t].version
        BY <1>1, <1>3, <4>1 DEF UpdateTrigger, DeleteTrigger
      <4> QED
        BY <3>2, <4>1, <4>2
    <3> QED
      BY <3>1, <3>2
  <2>3. \A u \in Triggers : row'[u].version \in Nat
    BY PlaybackTypeOther, <1>3 DEF TypeOK
  <2> QED
    BY <1>1, <2>1, <2>2, <2>3 DEF RowsInv
<1>4. CASE StartPrune \/ Prune \/ Tick
  <2>1. UNCHANGED <<row, atArrival>>
    BY <1>4 DEF StartPrune, Prune, Tick, server, hist
  <2> QED
    BY <2>1 DEF RowsInv
<1> QED
  BY <1>2, <1>3, <1>4 DEF Next

\* Build reads the row that is live now, so it was live when the message came.
LEMMA BuildFresh ==
  ASSUME TypeOK, RowsInv, FreshInv, NEW m \in Messages, Build(m)
  PROVE  Fresh(m)' \/ (pc'[m] = "done" /\ fired' = fired)
<1>1. CASE Answer(m, FALSE) /\ fired' = fired
  BY <1>1 DEF Answer, Return, TypeOK
<1>2. CASE LiveRow(fired[m].trigger)
           /\ fired' = [fired EXCEPT ![m].version = row[fired[m].trigger].version]
  <2>1. fired[m] \in [trigger : Triggers, version : Nat]
    BY DEF Build, FreshInv, TypeOK
  <2> PICK t \in Triggers : t = fired[m].trigger
    BY <2>1
  <2>2. row[t].live /\ row[t].version \in Nat
    BY <1>2 DEF LiveRow, TypeOK
  <2>3. atArrival[m][t].live /\ row[t].version >= atArrival[m][t].version
    BY <2>2 DEF RowsInv
  <2>4. fired'[m] = [fired[m] EXCEPT !.version = row[t].version]
    BY <1>2 DEF TypeOK
  <2>5. fired'[m].trigger = t /\ fired'[m].version = row[t].version
    BY <2>1, <2>4
  <2>6. fired'[m] # None
    <3>1. fired'[m] \in [trigger : Triggers, version : Nat]
      BY <2>1, <2>2, <2>4
    <3> QED
      BY <3>1
  <2>7. atArrival' = atArrival
    BY DEF Build, hist
  <2> QED
    BY <2>3, <2>5, <2>6, <2>7 DEF Fresh
<1> QED
  BY <1>1, <1>2 DEF Build

\* A response is posted once it was answered.
LEMMA FreshStep ==
  ASSUME TypeOK, Silence, RowsInv, FreshInv, NEW m \in Messages, Client(m) \/ Server(m)
  PROVE  FreshInv'
<1>1. \A n \in Messages \ {m} :
        /\ pc'[n] = pc[n] /\ fired'[n] = fired[n] /\ atArrival'[n] = atArrival[n]
        /\ n \in posts' => n \in posts
  BY OwnStep
<1> DEFINE FreshOf(n) ==
      /\ pc[n] \in {"allow", "build"} => fired[n] # None
      /\ (pc[n] \in {"render", "send", "sent", "arm"} \/ n \in posts) => Fresh(n)
      /\ n \in posts => pc[n] \in {"sent", "arm", "done"}
<1>2. \A n \in Messages : FreshOf(n)
  BY DEF FreshInv
<1>3. \A n \in Messages \ {m} : FreshOf(n)'
  BY <1>1, <1>2 DEF Fresh
<1>4. FreshOf(m)'
  <2> USE DEF TypeOK, Answer, Return, Serving, client, server, hist
  <2>1. CASE Receive(m) \/ Consume(m) \/ TakeSlot(m) \/ Ask(m)
    <3>1. m \notin posts' /\ pc'[m] \in {"undo", "attempt", "delete", "ask", "done", "select"}
      BY <1>2, <2>1 DEF Receive, Consume, TakeSlot, Ask
    <3> QED
      BY <3>1
  <2>2. CASE Undo(m)
    <3>1. m \notin posts
      BY <1>2, <2>2 DEF Undo
    <3>2. m \notin posts' /\ pc'[m] = "done"
      BY <2>2, <3>1 DEF Undo
    <3> QED
      BY <3>2
  <2>3. CASE Expire(m)
    BY <1>2, <2>3 DEF Expire, Fresh
  <2>4. CASE Render(m) \/ Send(m) \/ ReadClock(m) \/ Arm(m)
    <3>1. UNCHANGED <<fired, atArrival>>
      BY <2>4 DEF Render, Send, ReadClock, Arm
    <3>2. Fresh(m)'
      BY <1>2, <2>4, <3>1 DEF Render, Send, ReadClock, Arm, Fresh
    <3>3. /\ pc'[m] \in {"send", "sent", "arm", "done"}
          /\ m \in posts' => pc'[m] \in {"sent", "arm", "done"}
      BY <1>2, <2>4 DEF Render, Send, ReadClock, Arm
    <3> QED
      BY <3>2, <3>3
  <2>5. CASE Select(m)
    <3>1. m \notin posts'
      BY <1>2, <2>5 DEF Select
    <3>2. pc'[m] = "done" \/ (pc'[m] \in {"allow", "build"}
             /\ \E t \in Triggers : fired'[m] = [trigger |-> t, version |-> 0])
      BY <2>5 DEF Select
    <3>3. \A t \in Triggers : [trigger |-> t, version |-> 0] # None
      <4>1. \A t \in Triggers : [trigger |-> t, version |-> 0] \in [trigger : Triggers, version : Nat]
        OBVIOUS
      <4> QED
        BY <4>1
    <3> QED
      BY <3>1, <3>2, <3>3
  <2>6. CASE Allow(m)
    <3>1. m \notin posts'
      BY <1>2, <2>6 DEF Allow
    <3>2. fired' = fired /\ fired[m] # None /\ pc'[m] \in {"build", "done"}
      BY <1>2, <2>6 DEF Allow
    <3> QED
      BY <3>1, <3>2
  <2>7. CASE Build(m)
    <3>1. m \notin posts'
      BY <1>2, <2>7 DEF Build
    <3>2. pc'[m] \in {"render", "done"}
      BY <2>7 DEF Build
    <3> QED
      BY <2>7, <3>1, <3>2, BuildFresh
  <2> QED
    BY <2>1, <2>2, <2>3, <2>4, <2>5, <2>6, <2>7 DEF Client, Server
<1> QED
  BY <1>3, <1>4 DEF FreshInv

-----------------------------------------------------------------------------
(* The theorems.                                                           *)

\* At the start nothing is held, granted, armed or posted.
LEMMA PlaybackInit ==
  Init => PlaybackInv
<1> SUFFICES ASSUME Init
             PROVE  PlaybackInv
  OBVIOUS
<1>1. TypeOK
  <2>1. msg \in [Messages -> Message \cup {None}]
    BY DEF Init
  <2>2. pc \in [Messages -> {"none", "done"}]
    BY DEF Init
  <2>3. windows \in [Keys -> [response : Messages \cup {None}, expires : Nat]]
    <3>1. Open \in [response : Messages \cup {None}, expires : Nat]
      BY DEF Open
    <3> QED
      BY <3>1 DEF Init
  <2>4. row \in [Triggers -> [version : Nat, live : BOOLEAN]]
    BY DEF Init
  <2>5. atArrival \in [Messages -> [Triggers -> [version : Nat, live : BOOLEAN]]]
    BY <2>4 DEF Init
  <2>6. last \in [Authors -> Int]
    BY DEF Init, Never
  <2>7. /\ waiting = {} /\ clock \in [Messages -> Nat] /\ slots \in 0 .. Slots
        /\ fired \in [Messages -> [trigger : Triggers, version : Nat] \cup {None}]
        /\ target \in [Messages -> Messages \cup {None}]
        /\ posts = {} /\ prune = None /\ now \in Nat /\ grants = {} /\ undone = {}
    BY DEF Init
  <2> QED
    BY <2>1, <2>2, <2>3, <2>4, <2>5, <2>6, <2>7 DEF TypeOK
<1>2. Silence
  BY DEF Init, Silence
<1>3. SlotsInv
  <2>1. Holders = {}
    BY DEF Init, Holders, HoldsSlot, Holding
  <2> QED
    BY <2>1, FS_EmptySet DEF Init, SlotsInv
<1>4. ReadingInv /\ GrantInv /\ ForcedSpacing
  BY DEF Init, ReadingInv, GrantInv, ForcedSpacing
<1>5. WindowInv /\ TakenInv
  BY DEF Init, WindowInv, TakenInv, Open
<1>6. RowsInv
  <2>1. \A m \in Messages, t \in Triggers : atArrival[m][t] = row[t] /\ row[t].version = 0
    BY DEF Init
  <2> QED
    BY <2>1 DEF RowsInv
<1>7. FreshInv
  BY DEF Init, FreshInv
<1> QED
  BY <1>1, <1>2, <1>3, <1>4, <1>5, <1>6, <1>7 DEF PlaybackInv

\* Every step keeps the invariant.
LEMMA PlaybackStep ==
  PlaybackInv /\ [Next]_vars => PlaybackInv'
<1> SUFFICES ASSUME PlaybackInv, [Next]_vars
             PROVE  PlaybackInv'
  OBVIOUS
<1> USE DEF PlaybackInv
<1>1. CASE Next
  <2>1. ReadingInv' /\ GrantInv' /\ ForcedSpacing' /\ RowsInv'
    BY <1>1, ReadingStep, GrantStep, RowsStep
  <2>2. ASSUME NEW m \in Messages, Client(m) \/ Server(m)
        PROVE  PlaybackInv'
    BY <2>1, <2>2, PlaybackTypeMessage, SilenceStep, SlotStep, WindowStep, TakenStep, FreshStep
  <2>3. CASE (\E t \in Triggers : UpdateTrigger(t) \/ DeleteTrigger(t))
               \/ StartPrune \/ Prune \/ Tick
    <3>1. TypeOK'
      BY <2>3, PlaybackTypeOther
    <3>2. UNCHANGED <<client, fired, pc, clock, hist>>
      BY <2>3 DEF UpdateTrigger, DeleteTrigger, StartPrune, Prune, Tick, server
    <3>3. Silence' /\ SlotsInv'
      BY <3>2 DEF Silence, SlotsInv, Holders, HoldsSlot, client
    <3>4. WindowInv' /\ TakenInv'
      BY <3>2 DEF WindowInv, TakenInv, Key, client, hist
    <3>5. FreshInv'
      BY <3>2 DEF FreshInv, Fresh, client, hist
    <3> QED
      BY <2>1, <3>1, <3>3, <3>4, <3>5
  <2> QED
    BY <1>1, <2>2, <2>3 DEF Next
<1>2. CASE UNCHANGED vars
  <2> USE DEF vars, client, server, hist
  <2>1. TypeOK'
    BY <1>2, PlaybackTypeOther
  <2>2. Silence' /\ SlotsInv' /\ ReadingInv'
    BY <1>2 DEF Silence, SlotsInv, Holders, HoldsSlot, ReadingInv
  <2>3. GrantInv' /\ ForcedSpacing'
    BY <1>2 DEF GrantInv, Remembered, ForcedSpacing, Author
  <2>4. WindowInv' /\ TakenInv'
    BY <1>2 DEF WindowInv, TakenInv, Key
  <2>5. RowsInv' /\ FreshInv'
    BY <1>2 DEF RowsInv, FreshInv, Fresh
  <2> QED
    BY <2>1, <2>2, <2>3, <2>4, <2>5
<1> QED
  BY <1>1, <1>2

(* The service's invariant holds in every state of the specification that plays,  *)
(* limits and undoes. *)
LEMMA PlaybackInvariant ==
  Spec => []PlaybackInv
  BY PlaybackInit, PlaybackStep, PTL DEF Spec

\* Playback keeps the types of its state: the slots never go below zero nor above
\* their number, whatever call expires, fails or answers late.
THEOREM PlaybackTypeCorrect ==
  Spec => []TypeOK
  BY PlaybackInvariant, PTL DEF PlaybackInv

\* ForcedLimiter keeps two fires of an author ForcedInterval apart, less what a
\* goroutine may be held up between its reading and the lock: whatever order the
\* readings reach the limiter in, and whatever the hourly prune forgets between.
THEOREM SpacingCorrect ==
  Spec => []ForcedSpacing
  BY PlaybackInvariant, PTL DEF PlaybackInv

\* An undo deletes a response to its own author in its own channel whose window
\* was open at its reading, and no response is deleted twice.
THEOREM UndoCorrect ==
  Spec => []UndoTakesItsOwn
<1>1. PlaybackInv => UndoTakesItsOwn
  BY DEF PlaybackInv, TypeOK, TakenInv, UndoTakesItsOwn
<1> QED
  BY <1>1, PlaybackInvariant, PTL

\* What is posted is the trigger as it was when the message came or was edited
\* since, though the candidates come from a cache: the row is read again.
THEOREM FreshCorrect ==
  Spec => []ResponseIsFresh
<1>1. PlaybackInv => ResponseIsFresh
  BY DEF PlaybackInv, TypeOK, FreshInv, Fresh, ResponseIsFresh
<1> QED
  BY <1>1, PlaybackInvariant, PTL


-----------------------------------------------------------------------------
(* The registry.                                                           *)

\* The definitions of some build.
Known == UNION {ToSet(d) : d \in Definitions}

\* Whoever is registered is alone with its names, which no group has, and with
\* its place in its group.
RegistryInv ==
  /\ pending \in Seq(Known) /\ registry \in Seq(Known)
  /\ \A c \in commands :
       c.handler # Empty /\ (c.group = Empty <=> c.sub = Empty)
  /\ \A c, d \in commands : c # d => NameSet(c) \cap NameSet(d) = {}
  /\ \A c, d \in commands : Grouped(c) => fold(c.group) \notin NameSet(d)
  /\ \A c, d \in commands :
       Grouped(c) /\ fold(c.group) = fold(d.group) /\ fold(c.sub) = fold(d.sub) => c = d

\* A definition is a command with names there are.
LEMMA KnownIsCommand ==
  ASSUME NEW c \in Known
  PROVE  /\ c \in Command /\ c.name \in Names /\ c.aliases \in Seq(Names)
         /\ c.group \in Names \cup {Empty} /\ c.sub \in Names \cup {Empty}
         /\ Grouped(c) => c.name \in ToSet(Sorted)
<1>1. PICK d \in Definitions : \E i \in DOMAIN d : c = d[i]
  BY DEF Known, ToSet
<1>2. d \in Seq(Command) /\ \A i \in DOMAIN d : d[i] \in Command
  BY NamesAssumption
<1>3. c \in Command
  BY <1>1, <1>2
<1>4. Grouped(c) => c.name \in ToSet(Sorted)
  BY <1>1, NamesAssumption DEF Grouped
<1> QED BY <1>3, <1>4 DEF Command

\* Folding keeps a name a name, and what is no name.
LEMMA FoldIsName ==
  ASSUME NEW n \in Names \cup {Empty}
  PROVE  fold(n) = Empty <=> n = Empty
BY NamesAssumption DEF fold, Names

\* A command answers to its name and its aliases.
LEMMA NamesOf ==
  ASSUME NEW c \in Known, NEW n \in {c.name} \cup ToSet(c.aliases)
  PROVE  fold(n) \in NameSet(c)
<1> DEFINE all == <<c.name>> \o c.aliases
<1>1. /\ c.aliases \in Seq(Names) /\ c.name \in Names
      /\ Len(all) = Len(c.aliases) + 1 /\ DOMAIN all = 1 .. Len(all) /\ all[1] = c.name
      /\ \A i \in 1 .. Len(c.aliases) : all[i + 1] = c.aliases[i]
  BY KnownIsCommand
<1>2. \E i \in DOMAIN all : all[i] = n
  <2>1. CASE n = c.name
    BY <1>1, <2>1
  <2>2. CASE n \in ToSet(c.aliases)
    <3>1. PICK i \in 1 .. Len(c.aliases) : c.aliases[i] = n
      BY <1>1, <2>2 DEF ToSet
    <3>2. i + 1 \in DOMAIN all /\ all[i + 1] = n
      BY <1>1, <3>1
    <3> QED BY <3>2
  <2> QED BY <2>1, <2>2
<1> QED BY <1>2 DEF NameSet, FoldedNames, ToSet

\* What is registered next joins the rest.
LEMMA Joins ==
  ASSUME NEW s \in Seq(Known), NEW c \in Known
  PROVE  Append(s, c) \in Seq(Known) /\ ToSet(Append(s, c)) = ToSet(s) \cup {c}
<1>1. /\ Append(s, c) \in Seq(Known) /\ Len(Append(s, c)) = Len(s) + 1
      /\ DOMAIN Append(s, c) = 1 .. Len(s) + 1 /\ DOMAIN s = 1 .. Len(s) /\ Len(s) \in Nat
      /\ \A i \in 1 .. Len(s) : Append(s, c)[i] = s[i]
      /\ Append(s, c)[Len(s) + 1] = c
  OBVIOUS
<1>2. ToSet(Append(s, c)) \subseteq ToSet(s) \cup {c}
  BY <1>1 DEF ToSet
<1>3. ToSet(s) \subseteq ToSet(Append(s, c))
  <2> SUFFICES ASSUME NEW i \in 1 .. Len(s) PROVE s[i] \in ToSet(Append(s, c))
    BY <1>1 DEF ToSet
  <2>1. i \in 1 .. Len(s) + 1
    BY <1>1
  <2> QED BY <1>1, <2>1 DEF ToSet
<1>4. c \in ToSet(Append(s, c))
  <2>1. Len(s) + 1 \in 1 .. Len(s) + 1
    BY <1>1
  <2> QED BY <1>1, <2>1 DEF ToSet
<1> QED BY <1>1, <1>2, <1>3, <1>4

\* The registry is sound at first, while it is filled, and after.
LEMMA RegistryInitHolds == RegistryInit => RegistryInv
<1> SUFFICES ASSUME RegistryInit PROVE RegistryInv
  OBVIOUS
<1>1. pending \in Definitions /\ registry = <<>>
  BY DEF RegistryInit
<1>2. pending \in Seq(Known)
  <2>1. pending \in Seq(Command)
    BY <1>1, NamesAssumption
  <2>2. \A i \in 1 .. Len(pending) : pending[i] \in Known
    BY <1>1, <2>1 DEF Known, ToSet
  <2> QED BY <2>1, <2>2
<1>3. commands = {}
  BY <1>1 DEF commands, ToSet
<1> QED BY <1>1, <1>2, <1>3 DEF RegistryInv

(* Every step of the registry keeps its invariant: one registers a command, the    *)
(* others leave the registry as it was. *)
LEMMA RegistryStep == RegistryInv /\ RegistryNext => RegistryInv'
<1> SUFFICES ASSUME RegistryInv, RegistryNext PROVE RegistryInv'
  OBVIOUS
<1>1. CASE Serve
  BY <1>1 DEF Serve, RegistryInv, commands
<1>2. CASE Register
  <2> DEFINE c == Head(pending)
  <2>1. c \in Known /\ pending' \in Seq(Known)
    BY <1>2 DEF Register, RegistryInv
  <2>2. CASE ~Accepts(c)
    <3>1. UNCHANGED registry
      BY <1>2, <2>2 DEF Register
    <3> QED BY <2>1, <3>1 DEF RegistryInv, commands
  <2>3. CASE Accepts(c)
    <3>1. registry' = Append(registry, c)
      BY <1>2, <2>3 DEF Register
    <3>2. registry' \in Seq(Known) /\ commands' = commands \cup {c}
      BY <2>1, <3>1, Joins DEF RegistryInv, commands
    <3>3. \A d \in commands \cup {c} : d \in Known
      BY <2>1 DEF RegistryInv, commands, ToSet
    <3> HIDE DEF c
    <3>4. c.handler # Empty /\ (c.group = Empty <=> c.sub = Empty)
      BY <2>3 DEF Accepts, validateGrouping
    <3>5. \A d \in commands : NameSet(c) \cap NameSet(d) = {}
      BY <2>3 DEF Accepts, Canonical
    <3>6. ASSUME NEW d \in commands, Grouped(d) PROVE fold(d.group) \notin NameSet(c)
      <4>1. fold(d.group) # Empty
        BY <3>3, <3>6, KnownIsCommand, FoldIsName DEF Grouped
      <4> QED BY <2>3, <4>1 DEF Accepts, Groups
    <3>7. Grouped(c) => fold(c.group) \notin NameSet(c)
      BY <2>3 DEF Accepts
    <3>8. Grouped(c) => \A d \in commands : fold(c.group) \notin NameSet(d)
      BY <2>3 DEF Accepts, Canonical, Grouped
    <3>9. Grouped(c) => \A d \in commands :
                          ~(fold(c.group) = fold(d.group) /\ fold(c.sub) = fold(d.sub))
      BY <2>3 DEF Accepts, Grouped
    <3>10. \A d \in commands : Grouped(d) /\ fold(d.group) = fold(c.group) => Grouped(c)
      BY <2>1, <3>3, KnownIsCommand, FoldIsName DEF Grouped
    <3>11. \A d \in commands \cup {c} : /\ NameSet(d)' = NameSet(d)
                                       /\ Grouped(d)' = Grouped(d)
      BY DEF NameSet, FoldedNames, fold, Grouped
    <3>12. /\ \A x, y \in commands \cup {c} : x # y => NameSet(x) \cap NameSet(y) = {}
           /\ \A x, y \in commands \cup {c} : Grouped(x) => fold(x.group) \notin NameSet(y)
           /\ \A x, y \in commands \cup {c} :
                Grouped(x) /\ fold(x.group) = fold(y.group) /\ fold(x.sub) = fold(y.sub) => x = y
           /\ \A x \in commands \cup {c} : x.handler # Empty /\ (x.group = Empty <=> x.sub = Empty)
      BY <3>4, <3>5, <3>6, <3>7, <3>8, <3>9, <3>10 DEF RegistryInv
    <3> QED BY <2>1, <3>2, <3>12 DEF RegistryInv, NameSet, FoldedNames, fold, Grouped
  <2> QED BY <2>2, <2>3
<1> QED BY <1>1, <1>2 DEF RegistryNext

-----------------------------------------------------------------------------
(* Finding what is registered.                                             *)

\* Numbers there are have a least.
LEMMA LeastPlace ==
  ASSUME NEW T, T \subseteq Nat, T # {}
  PROVE  \E x \in T : \A y \in T : x <= y
<1>1. PICK R : R = {ss \in Nat \X Nat : ss[1] < ss[2]}
  OBVIOUS
<1>2. IsWellFoundedOn(R, Nat)
  BY <1>1, NatLessThanWellFounded DEF OpToRel
<1>3. PICK x \in T : \A y \in T : <<y, x>> \notin R
  BY <1>2, WFMin
<1>4. \A y \in T : ~(y < x) /\ y \in Nat
  BY <1>1, <1>3
<1> QED BY <1>3, <1>4

\* A name leads to its command and to no other.
LEMMA FoundByName ==
  ASSUME RegistryInv, NEW c \in commands, NEW n \in {c.name} \cup ToSet(c.aliases)
  PROVE  /\ c \in Known /\ Lookup(n) = {c}
         /\ \A words : ResolveChat(n, words) = {[command |-> c, words |-> words]}
<1>1. \A d \in commands : d \in Known
  BY DEF RegistryInv, commands, ToSet
<1>2. fold(n) \in NameSet(c)
  BY <1>1, NamesOf
<1>3. \A d \in commands : fold(n) \in NameSet(d) <=> d = c
  BY <1>2 DEF RegistryInv
<1>4. Lookup(n) = {c}
  BY <1>3 DEF Lookup
<1>5. ASSUME NEW words PROVE ResolveChat(n, words) = {[command |-> c, words |-> words]}
  BY <1>4 DEF ResolveChat
<1> QED BY <1>1, <1>4, <1>5

\* A group is no name; with a subcommand it leads to its command and to no other.
LEMMA FoundInGroup ==
  ASSUME RegistryInv, NEW c \in commands, Grouped(c)
  PROVE  /\ Lookup(c.group) = {}
         /\ \A words : words # <<>> /\ words[1] = c.sub =>
              ResolveChat(c.group, words) = {[command |-> c, words |-> Tail(words)]}
         /\ resolveApplicationCommand(c.group, c.sub) = {c}
<1>1. Lookup(c.group) = {}
  BY DEF RegistryInv, Lookup
<1>2. \A d \in commands : d \in Known
  BY DEF RegistryInv, commands, ToSet
<1>3. ASSUME NEW words, words # <<>>, words[1] = c.sub
      PROVE  ResolveChat(c.group, words) = {[command |-> c, words |-> Tail(words)]}
  <2> DEFINE Members == {d \in commands : d.group # Empty /\ fold(d.group) = fold(c.group)
                                          /\ fold(d.sub) = fold(words[1])}
  <2>1. Members = {c}
    BY <1>3 DEF RegistryInv, Grouped
  <2> HIDE DEF Members
  <2>2. ResolveChat(c.group, words) = {[command |-> d, words |-> Tail(words)] : d \in Members}
    BY <1>1, <1>3 DEF ResolveChat, Members
  <2> QED BY <2>1, <2>2
<1>4. resolveApplicationCommand(c.group, c.sub) = {c}
  <2>1. c.sub # Empty /\ fold(c.group) \in Groups
    <3>1. fold(c.group) # Empty
      BY <1>2, KnownIsCommand, FoldIsName DEF Grouped
    <3> QED BY <3>1 DEF RegistryInv, Grouped, Groups
  <2>2. <<c.sub>> # <<>> /\ <<c.sub>>[1] = c.sub
    OBVIOUS
  <2>3. ResolveChat(c.group, <<c.sub>>) = {[command |-> c, words |-> Tail(<<c.sub>>)]}
    BY <1>3, <2>2
  <2> DEFINE r == [command |-> c, words |-> Tail(<<c.sub>>)]
  <2>4. r.command = c
    OBVIOUS
  <2> HIDE DEF r
  <2>5. {x.command : x \in {r}} = {c}
    BY <2>4
  <2>6. resolveApplicationCommand(c.group, c.sub) = {x.command : x \in ResolveChat(c.group, <<c.sub>>)}
    BY <1>1, <2>1 DEF resolveApplicationCommand
  <2> QED BY <2>3, <2>5, <2>6 DEF r
<1> QED BY <1>1, <1>3, <1>4

\* Whoever leads a group is one of it, and alone.
LEMMA OneLeads ==
  ASSUME RegistryInv, NEW c \in commands, Grouped(c)
  PROVE  \E l \in commands :
           /\ Grouped(l) /\ fold(l.group) = fold(c.group) /\ Leads(l)
           /\ \A d \in commands : fold(d.group) = fold(c.group) /\ Leads(d) => d = l
<1> DEFINE Place(d) == CHOOSE i \in DOMAIN Sorted : Sorted[i] = d.name
           G == {d \in commands : fold(d.group) = fold(c.group)}
           T == {Place(d) : d \in G}
<1>1. \A d \in commands : d \in Known
  BY DEF RegistryInv, commands, ToSet
<1>2. ASSUME NEW d \in G PROVE Grouped(d) /\ d.name \in ToSet(Sorted)
  <2>1. fold(c.group) # Empty
    BY <1>1, KnownIsCommand, FoldIsName DEF Grouped
  <2>2. Grouped(d)
    BY <1>1, <1>2, <2>1, KnownIsCommand, FoldIsName DEF Grouped
  <2> QED BY <1>1, <2>2, KnownIsCommand
<1>3. ASSUME NEW d \in G PROVE Place(d) \in DOMAIN Sorted /\ Sorted[Place(d)] = d.name
  BY <1>2 DEF ToSet
<1>4. ASSUME NEW d \in G, NEW e \in G, Place(d) = Place(e) PROVE d = e
  <2>1. d.name = e.name
    BY <1>3, <1>4
  <2>2. fold(d.name) \in NameSet(d) /\ fold(e.name) \in NameSet(e)
    BY <1>1, NamesOf
  <2> QED BY <2>1, <2>2 DEF RegistryInv
<1>5. T \subseteq Nat /\ T # {}
  <2>1. DOMAIN Sorted \subseteq Nat
    BY NamesAssumption
  <2> HIDE DEF Place
  <2> QED BY <1>3, <2>1
<1>6. PICK l \in G : \A d \in G : Place(l) <= Place(d)
  <2>1. PICK x \in T : \A y \in T : x <= y
    BY <1>5, LeastPlace
  <2> HIDE DEF Place
  <2> QED BY <2>1
<1>7. \A d \in G : Leads(d) <=> \A e \in G : Place(d) <= Place(e)
  BY DEF Leads
<1>8. ASSUME NEW d \in G, Leads(d) PROVE d = l
  <2>1. Place(d) <= Place(l) /\ Place(l) <= Place(d) /\ Place(d) \in Nat /\ Place(l) \in Nat
    BY <1>5, <1>6, <1>7, <1>8
  <2> HIDE DEF Place
  <2>2. Place(d) = Place(l)
    BY <2>1
  <2> QED BY <1>4, <2>2
<1> QED BY <1>2, <1>6, <1>7, <1>8

\* Discord is offered each command once.
LEMMA OfferedOnce ==
  ASSUME RegistryInv, NEW c \in commands
  PROVE  Cardinality({a \in applicationCommands :
                        IF Grouped(c) THEN fold(a.name) = fold(c.group) /\ c.sub \in a.subs
                        ELSE a.name = c.name /\ a.subs = {}}) = 1
<1> DEFINE Flats == {[name |-> d.name, subs |-> {}] : d \in {e \in commands : ~Grouped(e)}}
           Subs(d) == {x.sub : x \in {e \in commands : fold(e.group) = fold(d.group)}}
           Tops == {[name |-> d.group, subs |-> Subs(d)] :
                      d \in {e \in commands : Grouped(e) /\ Leads(e)}}
           S == {a \in applicationCommands :
                   IF Grouped(c) THEN fold(a.name) = fold(c.group) /\ c.sub \in a.subs
                   ELSE a.name = c.name /\ a.subs = {}}
<1>1. applicationCommands = Flats \cup Tops
  BY DEF applicationCommands
<1>2. \A d \in commands : d \in Known /\ fold(d.name) \in NameSet(d)
  BY NamesOf DEF RegistryInv, commands, ToSet
<1>3. ASSUME Grouped(c) PROVE \E a : S = {a}
  <2>1. PICK l \in commands :
          /\ Grouped(l) /\ fold(l.group) = fold(c.group) /\ Leads(l)
          /\ \A d \in commands : fold(d.group) = fold(c.group) /\ Leads(d) => d = l
    BY <1>3, OneLeads
  <2> DEFINE top == [name |-> l.group, subs |-> Subs(l)]
  <2>2. top \in Tops /\ fold(top.name) = fold(c.group) /\ c.sub \in top.subs
    BY <2>1
  <2>3. ASSUME NEW a \in Flats PROVE fold(a.name) # fold(c.group)
    BY <1>2, <1>3 DEF RegistryInv
  <2>4. ASSUME NEW a \in Tops, fold(a.name) = fold(c.group) PROVE a = top
    <3>1. PICK d \in commands : Grouped(d) /\ Leads(d) /\ a = [name |-> d.group, subs |-> Subs(d)]
      OBVIOUS
    <3>2. d = l
      BY <2>1, <2>4, <3>1
    <3> QED BY <3>1, <3>2
  <2> HIDE DEF Flats, Tops, top
  <2>5. S = {top}
    BY <1>1, <1>3, <2>2, <2>3, <2>4
  <2> QED BY <2>5
<1>4. ASSUME ~Grouped(c) PROVE \E a : S = {a}
  <2> DEFINE flat == [name |-> c.name, subs |-> {}]
  <2>1. flat \in Flats /\ flat.name = c.name /\ flat.subs = {}
    BY <1>4
  <2>2. \A a \in Flats : a.name = c.name => a = flat
    OBVIOUS
  <2>3. \A a \in Tops : a.subs # {}
    OBVIOUS
  <2> HIDE DEF Flats, Tops, flat
  <2>4. S = {flat}
    BY <1>1, <1>4, <2>1, <2>2, <2>3
  <2> QED BY <2>4
<1>5. PICK a : S = {a}
  BY <1>3, <1>4
<1> HIDE DEF S
<1>6. Cardinality(S) = 1
  BY <1>5, FS_Singleton
<1> QED BY <1>6 DEF S

\* In a sound registry every way to name a command leads to it.
LEMMA AllResolve == RegistryInv => ResolvedAlike
<1> SUFFICES ASSUME RegistryInv, NEW c \in commands
    PROVE  /\ \A n \in {c.name} \cup ToSet(c.aliases), words \in {<<>>, <<"word">>} :
                ResolveChat(n, words) = {[command |-> c, words |-> words]}
           /\ Grouped(c) => /\ ResolveChat(c.group, <<c.sub, "word">>)
                                 = {[command |-> c, words |-> <<"word">>]}
                            /\ resolveApplicationCommand(c.group, c.sub) = {c}
           /\ ~Grouped(c) => resolveApplicationCommand(c.name, Empty) = {c}
           /\ Cardinality({a \in applicationCommands :
                             IF Grouped(c) THEN fold(a.name) = fold(c.group) /\ c.sub \in a.subs
                             ELSE a.name = c.name /\ a.subs = {}}) = 1
  BY DEF ResolvedAlike
<1>1. \A n \in {c.name} \cup ToSet(c.aliases), words \in {<<>>, <<"word">>} :
        ResolveChat(n, words) = {[command |-> c, words |-> words]}
  BY FoundByName
<1>2. ASSUME Grouped(c)
      PROVE  /\ ResolveChat(c.group, <<c.sub, "word">>)
                  = {[command |-> c, words |-> <<"word">>]}
             /\ resolveApplicationCommand(c.group, c.sub) = {c}
  <2> DEFINE words == <<c.sub, "word">>
  <2>1. words # <<>> /\ words[1] = c.sub /\ Tail(words) = <<"word">>
    OBVIOUS
  <2> HIDE DEF words
  <2>2. ResolveChat(c.group, words) = {[command |-> c, words |-> Tail(words)]}
    BY <1>2, <2>1, FoundInGroup
  <2> QED BY <1>2, <2>1, <2>2, FoundInGroup DEF words
<1>3. resolveApplicationCommand(c.name, Empty) = {c}
  BY FoundByName DEF resolveApplicationCommand
<1> QED BY <1>1, <1>2, <1>3, OfferedOnce

\* The registry is sound throughout.
LEMMA RegistryInvariant == InteractionSpec => []RegistryInv
<1>1. RegistryInv /\ UNCHANGED registryVars => RegistryInv'
  <2> SUFFICES ASSUME RegistryInv, UNCHANGED registryVars PROVE RegistryInv'
    OBVIOUS
  <2>1. pending' = pending /\ registry' = registry
    BY DEF registryVars
  <2>2. commands' = commands
    BY <2>1 DEF commands
  <2> QED BY <2>1, <2>2 DEF RegistryInv, NameSet, FoldedNames, fold, Grouped
<1>2. RegistryInv /\ InteractionNext => RegistryInv'
  BY <1>1, RegistryStep DEF InteractionNext
<1>3. RegistryInv /\ [InteractionNext]_<<registryVars, interactionVars>> => RegistryInv'
  BY <1>1, <1>2
<1> QED BY <1>3, RegistryInitHolds, PTL DEF InteractionSpec

\* For any definitions and any folding of names: when the bot begins to serve, a
\* name, an alias, a group with its subcommand and an application command each lead
\* to the command they are of and to no other.
THEOREM NamesCorrect == InteractionSpec => NamesResolveAlike
<1>1. RegistryInv => [startup' = "serving" /\ startup # "serving" => ResolvedAlike]_registryVars
  BY AllResolve
<1> QED BY <1>1, RegistryInvariant, PTL DEF NamesResolveAlike

-----------------------------------------------------------------------------
(* Answers.                                                                *)

\* What a handler answers with: a text, or a file alone.
Response == [chunks : Nat, file : BOOLEAN, private : BOOLEAN, direct : BOOLEAN]

\* A handler whose answers say something.
WellMade(h) ==
  /\ h.call \in {"none", "read", "write"}
  /\ h.refuses \in BOOLEAN /\ h.guild \in BOOLEAN /\ h.known \in BOOLEAN
  /\ h.each \in BOOLEAN /\ h.file \in BOOLEAN
  /\ \A a \in h.answers : a \in Response /\ a.chunks > 0 /\ ~a.file

\* The texts there are.
LEMMA TextsAreAnswers ==
  ASSUME NEW private \in BOOLEAN
  PROVE  /\ \A a \in Said(private) : a \in Response /\ a.chunks = 1 /\ ~a.file /\ ~a.direct
         /\ \A a \in SaidAtLength(private) : a \in Response /\ a.chunks > 0 /\ ~a.file
         /\ \A a \in Listing : a \in Response /\ a.chunks > 0 /\ ~a.file
<1>1. \A n \in Nat, p \in BOOLEAN :
        Text(n, p) \in Response /\ Text(n, p).chunks = n /\ ~Text(n, p).file /\ ~Text(n, p).direct
  BY DEF Text, Response
<1>2. \A n \in Nat :
        LET a == [Text(n, TRUE) EXCEPT !.direct = TRUE]
        IN a \in Response /\ a.chunks = n /\ ~a.file
  BY DEF Text, Response
<1>3. 1 .. MaxChunks \subseteq Nat \ {0} /\ 1 \in Nat
  BY InteractionsAssumption
<1>4. \A a \in Said(private) : a \in Response /\ a.chunks = 1 /\ ~a.file /\ ~a.direct
  BY <1>1 DEF Said
<1>5. \A a \in SaidAtLength(private) : a \in Response /\ a.chunks > 0 /\ ~a.file
  <2> SUFFICES ASSUME NEW n \in 1 .. MaxChunks
               PROVE  LET a == Text(n, private) IN a \in Response /\ a.chunks > 0 /\ ~a.file
    BY DEF SaidAtLength
  <2>1. n \in Nat /\ n > 0
    BY <1>3
  <2> QED BY <1>1, <2>1
<1>6. \A a \in Listing : a \in Response /\ a.chunks > 0 /\ ~a.file
  <2> SUFFICES ASSUME NEW n \in 1 .. MaxChunks
               PROVE  LET a == [Text(n, TRUE) EXCEPT !.direct = TRUE]
                      IN a \in Response /\ a.chunks > 0 /\ ~a.file
    BY DEF Listing
  <2>1. n \in Nat /\ n > 0
    BY <1>3
  <2> QED BY <1>2, <2>1
<1> QED BY <1>4, <1>5, <1>6

\* Every handler there is, is well made.
LEMMA HandlersWellMade == \A h \in DOMAIN Handler : WellMade(Handler[h])
<1>1. ASSUME NEW call \in {"none", "read", "write"}, NEW refuses \in BOOLEAN,
             NEW guild \in BOOLEAN, NEW S,
             \A a \in S : a \in Response /\ a.chunks > 0 /\ ~a.file
      PROVE  /\ WellMade(Makes(call, refuses, guild, S))
             /\ WellMade([Makes(call, refuses, guild, S) EXCEPT !.file = TRUE])
             /\ WellMade([Makes(call, refuses, guild, S) EXCEPT !.each = TRUE])
             /\ WellMade([Makes(call, refuses, guild, S) EXCEPT !.known = TRUE])
  BY <1>1 DEF Makes, WellMade
<1>2. \A S \in {Said(TRUE), Said(FALSE), SaidAtLength(TRUE), SaidAtLength(FALSE),
                Said(TRUE) \cup Listing} :
        \A a \in S : a \in Response /\ a.chunks > 0 /\ ~a.file
  <2>1. \A p \in BOOLEAN : \A a \in Said(p) : a \in Response /\ a.chunks > 0 /\ ~a.file
    <3>1. \A p \in BOOLEAN : \A a \in Said(p) : a \in Response /\ a.chunks = 1 /\ ~a.file
      BY TextsAreAnswers
    <3> QED BY <3>1 DEF Response
  <2>2. \A p \in BOOLEAN : \A a \in SaidAtLength(p) : a \in Response /\ a.chunks > 0 /\ ~a.file
    BY TextsAreAnswers
  <2>3. \A a \in Listing : a \in Response /\ a.chunks > 0 /\ ~a.file
    BY TextsAreAnswers
  <2> QED BY <2>1, <2>2, <2>3
<1>3. /\ WellMade(addTrigger) /\ WellMade(deleteTrigger) /\ WellMade(modifyTrigger)
      /\ WellMade(listTriggers) /\ WellMade(triggerInfo) /\ WellMade(triggerStats)
      /\ WellMade(execTrigger) /\ WellMade(remind) /\ WellMade(modifyReminder)
      /\ WellMade(listReminders) /\ WellMade(reminderInfo) /\ WellMade(deleteReminders)
  BY <1>1, <1>2 DEF addTrigger, deleteTrigger, modifyTrigger, listTriggers, triggerInfo,
     triggerStats, execTrigger, remind, modifyReminder, listReminders, reminderInfo,
     deleteReminders
<1>4. /\ WellMade(ping) /\ WellMade(info) /\ WellMade(help) /\ WellMade(register)
      /\ WellMade(userInfo) /\ WellMade(setLocale) /\ WellMade(setTimezone)
      /\ WellMade(healthCheck) /\ WellMade(number) /\ WellMade(digitRoll)
  BY <1>1, <1>2 DEF ping, info, help, register, userInfo, setLocale, setTimezone,
     healthCheck, number, digitRoll
<1> SUFFICES ASSUME NEW h \in DOMAIN Handler PROVE WellMade(Handler[h])
  OBVIOUS
<1>5. CASE h \in {"addTrigger", "deleteTrigger", "modifyTrigger", "listTriggers", "triggerInfo",
                  "triggerStats", "execTrigger", "remind", "modifyReminder", "listReminders",
                  "reminderInfo"}
  <2> QED BY <1>3, <1>5 DEF Handler
<1>6. CASE h \in {"deleteReminders", "ping", "info", "help", "register", "userInfo",
                  "setLocale", "setTimezone", "healthCheck", "number", "digitRoll"}
  <2> QED BY <1>3, <1>4, <1>6 DEF Handler
<1>7. h \in DOMAIN Handler
  OBVIOUS
<1> QED BY <1>5, <1>6, <1>7 DEF Handler

-----------------------------------------------------------------------------
\* Before a command is let run, and while it does.
Unstarted == {"idle", "received", "stale", "acknowledge"}
Working == {"check", "call", "fetch", "answer"}

\* Once it has answered, until it was told.
Telling == {"reply", "more", "direct", "pointer", "undelivered"}

Readers == {"channel", "invoker", "direct"}
Posted == [to : Readers \cup {"none", "click"},
            kind : {"stale", "error", "file", "cut", "text", "pointer", "undelivered"}, part : Nat]

\* The types, and that a file comes without a text.
Typed ==
  /\ stage \in Unstarted \cup Working \cup Telling \cup {"error", "done"}
  /\ stage # "idle" => request \in Requests
  /\ ack \in {"none", "click", "invoker", "channel"}
  /\ deleted \in Nat /\ written \in Nat /\ broken \in BOOLEAN
  /\ answer \in Response /\ (answer.file => answer.chunks = 0)
  /\ sent \in Seq(Posted)

\* The command is one that is registered, and what was asked for.
Commanded ==
  /\ invoked \in Known \cup {Empty}
  /\ stage \in {"idle", "received", "stale"} => invoked = Empty
  /\ stage \notin {"idle", "received", "stale", "done"} => invoked # Empty
  /\ invoked # Empty => /\ invoked.handler # Empty
                        /\ ReRoll => fold(request.name) \in NameSet(invoked)

\* What is done is done for an interaction that was acknowledged, to its readers.
Acked ==
  /\ stage \in Unstarted => ack = "none" /\ written = 0 /\ deleted = 0
  /\ ack # "none" => invoked # Empty /\ ack = AckReader
  /\ (stage \in Working \cup Telling /\ (ReRoll \/ (Slash /\ invoked.slow))) => ack # "none"
  /\ (written > 0 /\ ~Chat) => ack # "none"

\* An answer is its handler's.
Answered ==
  /\ stage = "fetch" => Handling.file
  /\ stage \in Telling =>
       /\ answer.direct => invoked.ephemeral
       /\ invoked.ephemeral /\ ~invoked.slow => answer.private
       /\ ReRoll => ~answer.direct
       /\ answer.chunks > 0 \/ (answer.file /\ ~answer.direct)

\* A write that is told of was done.
Counted ==
  (invoked # Empty /\ Handling.call = "write") =>
    /\ deleted <= written
    /\ (stage \in {"answer", "fetch"} \cup Telling \/ Shown("text") # {})
         => written > 0 \/ Handling.known \/ Handling.each

InOrder == \A n \in DOMAIN sent : sent[n].kind = "text" /\ sent[n].part = n

\* How far the telling is.
SoFar ==
  /\ stage \in Unstarted \cup Working \cup {"reply", "error"} => sent = <<>>
  /\ stage = "more" => Slash /\ InOrder /\ Len(sent) < answer.chunks
  /\ stage = "direct" => Chat /\ Direct /\ InOrder /\ Len(sent) < answer.chunks
  /\ stage = "pointer" => Chat /\ Direct /\ InOrder /\ Len(sent) = answer.chunks
  /\ stage = "undelivered" => Chat /\ broken

\* What a command that has finished has shown.
Whole ==
  \/ Len(sent) = 1 /\ (Shown("error") \cup Shown("cut") \cup Shown("file")) # {}
  \/ /\ \A n \in 1 .. answer.chunks :
          n \in DOMAIN sent /\ sent[n].kind = "text" /\ sent[n].part = n
     /\ \A n \in DOMAIN sent : n > answer.chunks => sent[n].kind = "pointer"

Finished == (stage = "done" /\ ~broken /\ invoked # Empty) => Whole

InteractionInv ==
  /\ Typed /\ Commanded /\ Acked /\ Answered /\ Counted /\ SoFar /\ Finished
  /\ PrivateStaysPrivate

\* What is known of a command that was resolved.
LEMMA KnownFits ==
  ASSUME NEW c \in Known, c.handler # Empty
  PROVE  /\ Fits(c) /\ WellMade(Handler[c.handler])
         /\ c.slow \in BOOLEAN /\ c.ephemeral \in BOOLEAN
         /\ \A q \in Requests :
              q.source = "reroll" /\ fold(q.name) \in NameSet(c) =>
                \A a \in Handler[c.handler].answers : ~a.direct
<1>1. PICK d \in Definitions : \E i \in DOMAIN d : c = d[i]
  BY DEF Known, ToSet
<1>2. /\ Fits(c)
      /\ \A q \in Requests :
           q.source = "reroll" /\ fold(q.name) \in NameSet(c) =>
             \A a \in Handler[c.handler].answers : ~a.direct
  BY <1>1, CatalogueAssumption
<1>3. WellMade(Handler[c.handler])
  BY <1>2, HandlersWellMade DEF Fits
<1> QED BY <1>2, <1>3, KnownIsCommand DEF Command

\* No command is empty.
LEMMA EmptyIsUnknown == Empty \notin Known
BY KnownIsCommand, CatalogueAssumption

\* The invariant holds of a client that has just started.
LEMMA InteractionInitHolds == InteractionInit => InteractionInv
<1> SUFFICES ASSUME InteractionInit PROVE InteractionInv
  OBVIOUS
<1>1. /\ stage = "idle" /\ invoked = Empty /\ ack = "none" /\ deleted = 0 /\ written = 0
      /\ sent = <<>> /\ broken = FALSE /\ answer = Nothing
  BY DEF InteractionInit
<1>2. answer \in Response /\ answer.chunks = 0
  BY <1>1 DEF Nothing, Text, Response
<1>3. DOMAIN sent = {} /\ sent \in Seq(Posted)
  BY <1>1
<1>4. DOMAIN sent = {}
  BY <1>1
<1>5. PrivateStaysPrivate
  BY <1>4 DEF PrivateStaysPrivate
<1>6. Typed
  BY <1>1, <1>2, <1>3 DEF Typed, Unstarted
<1>7. Commanded /\ Acked /\ Counted
  BY <1>1 DEF Commanded, Acked, Counted, Unstarted, Working, Telling
<1>8. Answered /\ SoFar /\ Finished
  BY <1>1 DEF Answered, SoFar, Finished, Unstarted, Working, Telling
<1> QED BY <1>5, <1>6, <1>7, <1>8 DEF InteractionInv

-----------------------------------------------------------------------------
(* Up to the answer.                                                       *)

\* What a request resolves to is registered, and of a button's name.
LEMMA ResolvesToKnown ==
  ASSUME RegistryInv, NEW r \in Resolved
  PROVE  /\ r.command \in Known /\ r.command.handler # Empty
         /\ ReRoll => fold(request.name) \in NameSet(r.command)
<1>1. \A c \in commands : c \in Known /\ c.handler # Empty
  BY DEF RegistryInv, commands, ToSet
<1>2. \A n : \A c \in Lookup(n) : c \in commands /\ fold(n) \in NameSet(c)
  BY DEF Lookup
<1>3. \A n, w : \A x \in ResolveChat(n, w) : x.command \in commands
  BY <1>2 DEF ResolveChat
<1>4. \A n, s : \A c \in resolveApplicationCommand(n, s) : c \in commands
  BY <1>2, <1>3 DEF resolveApplicationCommand
<1>5. CASE Chat
  BY <1>1, <1>3, <1>5 DEF Resolved, Chat, ReRoll
<1>6. CASE Slash
  BY <1>1, <1>4, <1>6 DEF Resolved, Chat, Slash, ReRoll
<1>7. CASE ~Chat /\ ~Slash
  BY <1>1, <1>2, <1>7 DEF Resolved
<1> QED BY <1>5, <1>6, <1>7

\* A statement that sends nothing and keeps what was told.
LEMMA Quietly ==
  ASSUME InteractionInv, UNCHANGED <<request, invoked, answer, sent>>
  PROVE  PrivateStaysPrivate' /\ InOrder' = InOrder /\ Whole' = Whole
BY DEF InteractionInv, PrivateStaysPrivate, InOrder, Whole, Shown, Slash, ReRoll, Direct

\* Nothing was sent for a request that has just come.
LEMMA InvokeKeeps == InteractionInv /\ Invoke => InteractionInv'
<1> SUFFICES ASSUME InteractionInv, Invoke PROVE InteractionInv'
  OBVIOUS
<1>1. /\ stage = "idle" /\ stage' = "received" /\ request' \in Requests
      /\ UNCHANGED <<invoked, ack, deleted, answer, sent, written, broken>>
  BY DEF Invoke
<1>2. invoked = Empty /\ sent = <<>> /\ ack = "none" /\ written = 0 /\ deleted = 0
  BY <1>1 DEF InteractionInv, Commanded, SoFar, Acked, Unstarted
<1>3. PrivateStaysPrivate'
  <2>1. DOMAIN sent' = {}
    BY <1>1, <1>2
  <2> QED BY <2>1 DEF PrivateStaysPrivate
<1>4. Typed' /\ Answered' /\ SoFar' /\ Finished'
  BY <1>1, <1>2
     DEF InteractionInv, Typed, Answered, SoFar, Finished, Unstarted, Working, Telling
<1>5. Commanded' /\ Acked' /\ Counted'
  BY <1>1, <1>2 DEF Commanded, Acked, Counted, Unstarted, Working, Telling
<1> QED BY <1>3, <1>4, <1>5 DEF InteractionInv

\* Nor for one that was resolved, which is for a registered command.
LEMMA DispatchKeeps == RegistryInv /\ InteractionInv /\ Dispatch => InteractionInv'
<1> SUFFICES ASSUME RegistryInv, InteractionInv, Dispatch PROVE InteractionInv'
  OBVIOUS
<1>1. /\ stage = "received"
      /\ UNCHANGED <<request, ack, deleted, answer, sent, written, broken>>
  BY DEF Dispatch
<1>2. invoked = Empty /\ sent = <<>> /\ ack = "none" /\ written = 0 /\ deleted = 0
  BY <1>1 DEF InteractionInv, Commanded, SoFar, Acked, Unstarted
<1>3. DOMAIN sent = {} /\ DOMAIN sent' = {}
  BY <1>1, <1>2
<1>4. PrivateStaysPrivate' /\ Shown("text")' = {}
  BY <1>3 DEF PrivateStaysPrivate, Shown
<1>5. CASE UNCHANGED invoked /\ stage' \in {"done", "stale"}
  BY <1>1, <1>2, <1>4, <1>5
     DEF InteractionInv, Typed, Commanded, Acked, Answered, Counted, SoFar, Finished,
         Unstarted, Working, Telling
<1>6. CASE \E r \in Resolved :
             /\ invoked' = r.command
             /\ stage' = IF ~Binds(r.command, r.words) \/ ~(Chat \/ request.user) THEN "error"
                         ELSE IF ReRoll \/ (Slash /\ r.command.slow) THEN "acknowledge"
                         ELSE "check"
  <2>1. PICK r \in Resolved :
          /\ invoked' = r.command
          /\ stage' \in {"error", "acknowledge", "check"}
          /\ stage' = "check" => ~(ReRoll \/ (Slash /\ r.command.slow))
    BY <1>6
  <2>2. /\ r.command \in Known /\ r.command.handler # Empty
        /\ ReRoll => fold(request.name) \in NameSet(r.command)
    BY ResolvesToKnown
  <2>3. invoked' # Empty /\ invoked' \in Known
    BY <2>1, <2>2, EmptyIsUnknown
  <2>4. /\ ReRoll' = ReRoll /\ Slash' = Slash /\ Chat' = Chat
        /\ fold(request.name)' = fold(request.name) /\ NameSet(invoked)' = NameSet(r.command)
    BY <1>1, <2>1 DEF ReRoll, Slash, Chat, fold, NameSet, FoldedNames
  <2>5. Commanded'
    BY <2>1, <2>2, <2>3, <2>4 DEF Commanded
  <2>6. Acked'
    BY <1>1, <1>2, <2>1, <2>4 DEF Acked, Unstarted, Working, Telling
  <2>7. Typed' /\ Answered' /\ SoFar' /\ Finished'
    BY <1>1, <1>2, <2>1
       DEF InteractionInv, Typed, Answered, SoFar, Finished, Unstarted, Working, Telling
  <2>8. Counted'
    BY <1>1, <1>2, <1>4, <2>1 DEF Counted, Telling
  <2> QED BY <1>4, <2>5, <2>6, <2>7, <2>8 DEF InteractionInv
<1> QED BY <1>5, <1>6 DEF Dispatch

\* An acknowledgement has the reader the command declares.
LEMMA AcknowledgeKeeps == InteractionInv /\ Acknowledge => InteractionInv'
<1> SUFFICES ASSUME InteractionInv, Acknowledge PROVE InteractionInv'
  OBVIOUS
<1>1. /\ stage = "acknowledge"
      /\ UNCHANGED <<request, invoked, deleted, answer, sent, written>>
      /\ \/ ack' = AckReader /\ stage' = "check" /\ UNCHANGED broken
         \/ stage' = "done" /\ broken' = TRUE /\ UNCHANGED ack
  BY DEF Acknowledge
<1>2. /\ invoked # Empty /\ sent = <<>> /\ ack = "none" /\ written = 0 /\ deleted = 0
      /\ AckReader \in {"click", "invoker", "channel"}
  BY <1>1 DEF InteractionInv, Commanded, SoFar, Acked, Unstarted, AckReader
<1>3. /\ ReRoll' = ReRoll /\ Slash' = Slash /\ Chat' = Chat /\ AckReader' = AckReader
      /\ fold(request.name)' = fold(request.name) /\ NameSet(invoked)' = NameSet(invoked)
  BY <1>1 DEF ReRoll, Slash, Chat, AckReader, fold, NameSet, FoldedNames
<1>4. PrivateStaysPrivate' /\ Shown("text")' = {}
  <2>1. DOMAIN sent' = {}
    BY <1>1, <1>2
  <2> QED BY <2>1 DEF PrivateStaysPrivate, Shown
<1>5. Typed' /\ Answered' /\ SoFar' /\ Finished'
  BY <1>1, <1>2
     DEF InteractionInv, Typed, Answered, SoFar, Finished, Unstarted, Working, Telling
<1>6. Commanded' /\ Acked'
  BY <1>1, <1>2, <1>3 DEF InteractionInv, Commanded, Acked, Unstarted, Working, Telling
<1>7. Counted'
  BY <1>1, <1>2, <1>4 DEF Counted, Telling
<1> QED BY <1>4, <1>5, <1>6, <1>7 DEF InteractionInv

\* While a command runs nothing is sent, and what it is stays.
LEMMA RunsQuietly ==
  ASSUME InteractionInv, UNCHANGED <<request, invoked, ack, sent>>, stage \in Working
  PROVE  /\ PrivateStaysPrivate' /\ Shown("text") = {} /\ Shown("text")' = {}
         /\ invoked # Empty /\ sent = <<>> /\ sent' = <<>>
         /\ ReRoll' = ReRoll /\ Slash' = Slash /\ Chat' = Chat /\ AckReader' = AckReader
         /\ fold(request.name)' = fold(request.name) /\ NameSet(invoked)' = NameSet(invoked)
         /\ Handling' = Handling /\ WellMade(Handling) /\ Fits(invoked)
         /\ invoked \in Known /\ invoked.handler # Empty
<1>1. invoked # Empty /\ sent = <<>> /\ invoked \in Known /\ invoked.handler # Empty
  BY DEF InteractionInv, Commanded, SoFar, Working
<1>2. DOMAIN sent = {} /\ DOMAIN sent' = {}
  BY <1>1
<1>3. PrivateStaysPrivate' /\ Shown("text") = {} /\ Shown("text")' = {}
  BY <1>2 DEF PrivateStaysPrivate, Shown
<1>4. /\ ReRoll' = ReRoll /\ Slash' = Slash /\ Chat' = Chat /\ AckReader' = AckReader
      /\ fold(request.name)' = fold(request.name) /\ NameSet(invoked)' = NameSet(invoked)
      /\ Handling' = Handling
  BY DEF ReRoll, Slash, Chat, AckReader, fold, NameSet, FoldedNames, Handling
<1>5. WellMade(Handling) /\ Fits(invoked)
  BY <1>1, KnownFits DEF Handling
<1> QED BY <1>1, <1>3, <1>4, <1>5

\* The check of what was given sends nothing and does nothing.
LEMMA CheckKeeps == InteractionInv /\ Check => InteractionInv'
<1> SUFFICES ASSUME InteractionInv, Check PROVE InteractionInv'
  OBVIOUS
<1>1. /\ stage = "check"
      /\ UNCHANGED <<request, invoked, ack, deleted, answer, sent, written, broken>>
      /\ stage' \in {"error", "answer", "call"}
      /\ stage' = "answer" => Handling.call = "none"
  BY DEF Check
<1>2. /\ PrivateStaysPrivate' /\ Shown("text")' = {} /\ invoked # Empty /\ sent = <<>>
      /\ ReRoll' = ReRoll /\ Slash' = Slash /\ Chat' = Chat /\ AckReader' = AckReader
      /\ fold(request.name)' = fold(request.name) /\ NameSet(invoked)' = NameSet(invoked)
      /\ Handling' = Handling
  BY <1>1, RunsQuietly DEF Working
<1>3. Typed' /\ Answered' /\ SoFar' /\ Finished'
  BY <1>1, <1>2
     DEF InteractionInv, Typed, Answered, SoFar, Finished, Unstarted, Working, Telling
<1>4. Commanded' /\ Acked'
  BY <1>1, <1>2 DEF InteractionInv, Commanded, Acked, Unstarted, Working, Telling
<1>5. Counted'
  BY <1>1, <1>2 DEF InteractionInv, Counted, Telling
<1> QED BY <1>2, <1>3, <1>4, <1>5 DEF InteractionInv

\* The call writes for an interaction that was acknowledged, and counts no more than
\* it did.
LEMMA CallKeeps == InteractionInv /\ Call => InteractionInv'
<1> SUFFICES ASSUME InteractionInv, Call PROVE InteractionInv'
  OBVIOUS
<1>1. /\ stage = "call" /\ UNCHANGED <<request, invoked, ack, answer, sent, broken>>
  BY DEF Call
<1>2. /\ PrivateStaysPrivate' /\ Shown("text") = {} /\ Shown("text")' = {}
      /\ invoked # Empty /\ sent = <<>>
      /\ ReRoll' = ReRoll /\ Slash' = Slash /\ Chat' = Chat /\ AckReader' = AckReader
      /\ fold(request.name)' = fold(request.name) /\ NameSet(invoked)' = NameSet(invoked)
      /\ Handling' = Handling /\ WellMade(Handling) /\ Fits(invoked)
  BY <1>1, RunsQuietly DEF Working
<1>3. PICK does \in BOOLEAN, says \in BOOLEAN :
        /\ says => does
        /\ written' = IF does /\ Handling.call = "write" THEN written + 1 ELSE written
        /\ deleted' = IF says THEN deleted + 1 ELSE deleted
        /\ stage' \in {"answer", "call", "fetch", "error"}
        /\ stage' = "fetch" => says /\ Handling.file
        /\ stage' = "answer" => says \/ Handling.known \/ Handling.each
  BY DEF Call
<1>4. written \in Nat /\ deleted \in Nat /\ written' \in Nat /\ deleted' \in Nat
  BY <1>3 DEF InteractionInv, Typed
<1>5. Typed' /\ Answered' /\ SoFar' /\ Finished' /\ Commanded'
  BY <1>1, <1>2, <1>3, <1>4
     DEF InteractionInv, Typed, Answered, SoFar, Finished, Commanded, Unstarted, Working, Telling
<1>6. Acked'
  <2>1. ReRoll \/ Slash \/ Chat
    BY <1>1, CatalogueAssumption DEF InteractionInv, Typed, ReRoll, Slash, Chat, Asking
  <2>2. written' > 0 /\ ~Chat => ack # "none"
    <3>1. CASE Handling.call = "write"
      BY <1>1, <1>2, <2>1, <3>1 DEF InteractionInv, Acked, Fits, Handling, Working
    <3>2. CASE Handling.call # "write"
      BY <1>3, <3>2 DEF InteractionInv, Acked
    <3> QED BY <3>1, <3>2
  <2> QED BY <1>1, <1>2, <1>3, <2>2 DEF InteractionInv, Acked, Unstarted, Working, Telling
<1>7. Counted'
  <2> SUFFICES ASSUME Handling.call = "write"
               PROVE  /\ deleted' <= written'
                      /\ stage' \in {"answer", "fetch"}
                           => written' > 0 \/ Handling.known \/ Handling.each
    BY <1>2, <1>3 DEF Counted, Telling
  <2>1. deleted <= written
    BY <1>2 DEF InteractionInv, Counted
  <2> QED BY <1>3, <1>4, <2>1
<1> QED BY <1>2, <1>5, <1>6, <1>7 DEF InteractionInv

\* A file is fetched for a command that is nobody's alone.
LEMMA FetchKeeps == InteractionInv /\ Fetch => InteractionInv'
<1> SUFFICES ASSUME InteractionInv, Fetch PROVE InteractionInv'
  OBVIOUS
<1>1. /\ stage = "fetch" /\ stage' \in {"error", "reply"}
      /\ UNCHANGED <<request, invoked, ack, deleted, sent, written, broken>>
      /\ stage' = "error" => UNCHANGED answer
      /\ stage' = "reply" => answer' \in {Attachment} \cup Said(FALSE)
  BY DEF Fetch
<1>2. /\ PrivateStaysPrivate' /\ Shown("text")' = {} /\ invoked # Empty /\ sent = <<>>
      /\ ReRoll' = ReRoll /\ Slash' = Slash /\ Chat' = Chat /\ AckReader' = AckReader
      /\ fold(request.name)' = fold(request.name) /\ NameSet(invoked)' = NameSet(invoked)
      /\ Handling' = Handling /\ Fits(invoked)
  BY <1>1, RunsQuietly DEF Working
<1>3. /\ \A a \in {Attachment} \cup Said(FALSE) :
           a \in Response /\ ~a.direct /\ (a.file => a.chunks = 0) /\ (a.chunks > 0 \/ a.file)
  <2>1. Attachment \in Response /\ ~Attachment.direct /\ Attachment.chunks = 0 /\ Attachment.file
    BY DEF Attachment, Nothing, Text, Response
  <2>2. \A a \in Said(FALSE) : a \in Response /\ a.chunks = 1 /\ ~a.file /\ ~a.direct
    BY TextsAreAnswers
  <2>3. \A a \in Said(FALSE) : a.chunks > 0
    <3> SUFFICES ASSUME NEW a \in Said(FALSE) PROVE a.chunks > 0
      OBVIOUS
    <3>1. a.chunks = 1
      BY <2>2
    <3> QED BY <3>1
  <2> QED BY <2>1, <2>2, <2>3
<1>4. answer' \in Response /\ (answer'.file => answer'.chunks = 0)
  BY <1>1, <1>3 DEF InteractionInv, Typed
<1>5. Answered'
  <2>1. Handling.file
    BY <1>1 DEF InteractionInv, Answered
  <2>2. ~(invoked.ephemeral /\ ~invoked.slow)
    BY <1>2, <2>1 DEF Fits, Handling
  <2> QED BY <1>1, <1>2, <1>3, <2>2 DEF Answered, Telling
<1>6. Typed' /\ SoFar' /\ Finished' /\ Commanded' /\ Acked'
  BY <1>1, <1>2, <1>4
     DEF InteractionInv, Typed, SoFar, Finished, Commanded, Acked, Unstarted, Working, Telling
<1>7. Counted'
  BY <1>1, <1>2 DEF InteractionInv, Counted, Telling
<1> QED BY <1>2, <1>5, <1>6, <1>7 DEF InteractionInv

\* An answer is one of its handler's.
LEMMA ReturnsKeeps == InteractionInv /\ Returns => InteractionInv'
<1> SUFFICES ASSUME InteractionInv, Returns PROVE InteractionInv'
  OBVIOUS
<1>1. /\ stage = "answer" /\ stage' = "reply" /\ answer' \in Handling.answers
      /\ UNCHANGED <<request, invoked, ack, deleted, sent, written, broken>>
  BY DEF Returns
<1>2. /\ PrivateStaysPrivate' /\ Shown("text")' = {} /\ invoked # Empty /\ sent = <<>>
      /\ ReRoll' = ReRoll /\ Slash' = Slash /\ Chat' = Chat /\ AckReader' = AckReader
      /\ fold(request.name)' = fold(request.name) /\ NameSet(invoked)' = NameSet(invoked)
      /\ Handling' = Handling /\ WellMade(Handling) /\ Fits(invoked)
      /\ invoked \in Known /\ invoked.handler # Empty
  BY <1>1, RunsQuietly DEF Working
<1>3. answer' \in Response /\ answer'.chunks > 0 /\ ~answer'.file
  BY <1>1, <1>2 DEF WellMade
<1>4. Answered'
  <2>1. answer'.direct => invoked.ephemeral
    BY <1>1, <1>2 DEF Fits, Handling
  <2>2. invoked.ephemeral /\ ~invoked.slow => answer'.private
    BY <1>1, <1>2 DEF Fits, Handling
  <2>3. ReRoll => ~answer'.direct
    <3>1. ReRoll => fold(request.name) \in NameSet(invoked) /\ request \in Requests
      BY <1>1, <1>2 DEF InteractionInv, Commanded, Typed
    <3> QED BY <1>1, <1>2, <3>1, KnownFits DEF ReRoll, Handling
  <2> QED BY <1>1, <1>2, <1>3, <2>1, <2>2, <2>3 DEF Answered
<1>5. Typed' /\ SoFar' /\ Finished' /\ Commanded' /\ Acked'
  BY <1>1, <1>2, <1>3
     DEF InteractionInv, Typed, SoFar, Finished, Commanded, Acked, Unstarted, Working, Telling
<1>6. Counted'
  BY <1>1, <1>2 DEF InteractionInv, Counted, Telling
<1> QED BY <1>2, <1>4, <1>5, <1>6 DEF InteractionInv

-----------------------------------------------------------------------------
(* Telling it.                                                             *)

\* What a message that is sent adds.
LEMMA Sending ==
  ASSUME sent \in Seq(Posted), NEW m \in Posted, sent' = Append(sent, m)
  PROVE  /\ sent' \in Seq(Posted) /\ Len(sent) \in Nat /\ Len(sent') = Len(sent) + 1
         /\ DOMAIN sent = 1 .. Len(sent) /\ DOMAIN sent' = 1 .. Len(sent) + 1
         /\ \A n \in DOMAIN sent : sent'[n] = sent[n]
         /\ sent'[Len(sent) + 1] = m
OBVIOUS

\* A message, sent or refused, keeps what does not depend on the telling.
LEMMA PostKeeps ==
  ASSUME InteractionInv, UNCHANGED <<request, invoked, ack, deleted, answer, written>>,
         stage \in {"stale", "error"} \cup Telling,
         NEW reader, NEW kind, NEW part, NEW then, NEW otherwise,
         [to |-> reader, kind |-> kind, part |-> part] \in Posted,
         Post(reader, kind, part, then, otherwise),
         kind = "text" => stage \in Telling,
         {then, otherwise} \subseteq {"done", "error"} \cup Telling,
         stage \notin Telling => then = "done" /\ otherwise = "done"
  PROVE  Typed' /\ Commanded' /\ Acked' /\ Answered' /\ Counted'
<1>1. /\ stage' \in {"done", "error"} \cup Telling
      /\ stage \notin Telling => stage' = "done"
  BY DEF Post
<1>2. /\ ReRoll' = ReRoll /\ Slash' = Slash /\ Chat' = Chat /\ AckReader' = AckReader
      /\ fold(request.name)' = fold(request.name) /\ NameSet(invoked)' = NameSet(invoked)
      /\ Handling' = Handling
  BY DEF ReRoll, Slash, Chat, AckReader, fold, NameSet, FoldedNames, Handling
<1>3. sent' \in Seq(Posted) /\ broken' \in BOOLEAN
  <2>1. sent \in Seq(Posted) /\ broken \in BOOLEAN
    BY DEF InteractionInv, Typed
  <2>2. broken' \in BOOLEAN /\ (UNCHANGED sent
          \/ sent' = Append(sent, [to |-> reader, kind |-> kind, part |-> part]))
    BY <2>1 DEF Post
  <2>3. CASE UNCHANGED sent
    BY <2>1, <2>2, <2>3
  <2>4. CASE sent' = Append(sent, [to |-> reader, kind |-> kind, part |-> part])
    <3>1. sent' \in Seq(Posted)
      BY <2>1, <2>4, Sending
    <3> QED BY <2>2, <3>1
  <2> QED BY <2>2, <2>3, <2>4
<1>4. Typed'
  BY <1>1, <1>3 DEF InteractionInv, Typed, Unstarted, Working, Telling
<1>5. Commanded'
  BY <1>1, <1>2 DEF InteractionInv, Commanded, Telling
<1>6. Acked'
  BY <1>1, <1>2 DEF InteractionInv, Acked, Unstarted, Working, Telling
<1>7. Answered'
  BY <1>1, <1>2 DEF InteractionInv, Answered, Telling
<1>8. Counted'
  <2> SUFFICES ASSUME invoked # Empty, Handling.call = "write",
                      stage' \in Telling \/ Shown("text")' # {}
               PROVE  written > 0 \/ Handling.known \/ Handling.each
    BY <1>1, <1>2 DEF InteractionInv, Counted, Telling
  <2>1. CASE stage \in Telling
    BY <2>1 DEF InteractionInv, Counted
  <2>2. CASE stage \notin Telling
    <3>1. stage' \notin Telling /\ kind # "text"
      BY <1>1, <2>2 DEF Telling
    <3>2. PICK n \in DOMAIN sent' : sent'[n].kind = "text"
      BY <3>1 DEF Shown
    <3>3. n \in DOMAIN sent /\ sent[n].kind = "text"
      <4>1. CASE UNCHANGED sent
        BY <3>2, <4>1
      <4>2. CASE sent' = Append(sent, [to |-> reader, kind |-> kind, part |-> part])
        <5> DEFINE m == [to |-> reader, kind |-> kind, part |-> part]
        <5>1. m.kind = kind
          OBVIOUS
        <5>2. m \in Posted /\ sent' = Append(sent, m) /\ sent \in Seq(Posted)
          BY <4>2 DEF InteractionInv, Typed
        <5> HIDE DEF m
        <5>3. /\ Len(sent) \in Nat
              /\ DOMAIN sent = 1 .. Len(sent) /\ DOMAIN sent' = 1 .. Len(sent) + 1
              /\ \A k \in DOMAIN sent : sent'[k] = sent[k]
              /\ sent'[Len(sent) + 1] = m
          BY <5>2, Sending
        <5>4. n # Len(sent) + 1
          BY <3>1, <3>2, <5>1, <5>3
        <5> QED BY <3>2, <5>3, <5>4
      <4> QED BY <4>1, <4>2 DEF Post
    <3>4. Shown("text") # {}
      BY <3>3 DEF Shown
    <3> QED BY <3>4 DEF InteractionInv, Counted
  <2> QED BY <2>1, <2>2
<1> QED BY <1>4, <1>5, <1>6, <1>7, <1>8

\* A message that the channel may see keeps what is private so.
LEMMA PostedPrivately ==
  ASSUME InteractionInv, UNCHANGED <<request, invoked, answer>>,
         NEW reader, NEW kind, NEW part, NEW then, NEW otherwise,
         [to |-> reader, kind |-> kind, part |-> part] \in Posted,
         Post(reader, kind, part, then, otherwise),
         reader = "channel" => /\ Slash => ~invoked.ephemeral
                               /\ ReRoll => kind # "error"
                               /\ Direct => kind \notin {"text", "cut"}
  PROVE  PrivateStaysPrivate'
<1>1. ReRoll' = ReRoll /\ Slash' = Slash /\ Direct' = Direct
  BY DEF ReRoll, Slash, Direct
<1>2. CASE UNCHANGED sent
  BY <1>1, <1>2 DEF InteractionInv, PrivateStaysPrivate
<1>3. CASE sent' = Append(sent, [to |-> reader, kind |-> kind, part |-> part])
  <2> DEFINE m == [to |-> reader, kind |-> kind, part |-> part]
  <2>1. m.kind = kind /\ m.to = reader
    OBVIOUS
  <2>2. m \in Posted /\ sent' = Append(sent, m) /\ sent \in Seq(Posted)
    BY <1>3 DEF InteractionInv, Typed
  <2> HIDE DEF m
  <2>3. /\ Len(sent) \in Nat
        /\ DOMAIN sent = 1 .. Len(sent) /\ DOMAIN sent' = 1 .. Len(sent) + 1
        /\ \A k \in DOMAIN sent : sent'[k] = sent[k]
        /\ sent'[Len(sent) + 1] = m
    BY <2>2, Sending
  <2> SUFFICES ASSUME NEW i \in DOMAIN sent', sent'[i].to = "channel"
               PROVE  /\ Slash => ~invoked.ephemeral
                      /\ ReRoll => sent'[i].kind # "error"
                      /\ Direct => sent'[i].kind \notin {"text", "cut"}
    BY <1>1 DEF PrivateStaysPrivate
  <2>4. CASE i = Len(sent) + 1
    BY <2>1, <2>3, <2>4
  <2>5. CASE i \in DOMAIN sent
    BY <2>3, <2>5 DEF InteractionInv, PrivateStaysPrivate
  <2> QED BY <2>3, <2>4, <2>5
<1> QED BY <1>2, <1>3 DEF Post

\* The first message, when it is the only one.
LEMMA OnlyOne ==
  ASSUME sent = <<>>, UNCHANGED answer, answer \in Response,
         NEW m \in Posted, sent' = Append(sent, m),
         \/ m.kind \in {"error", "cut", "file"}
         \/ m.kind = "text" /\ m.part = 1 /\ answer.chunks = 1
  PROVE  Whole'
<1>1. sent \in Seq(Posted) /\ Len(sent) = 0
  OBVIOUS
<1>2. Len(sent') = 1 /\ DOMAIN sent' = 1 .. 1 /\ sent'[1] = m
  BY <1>1, Sending
<1>3. CASE m.kind \in {"error", "cut", "file"}
  BY <1>2, <1>3 DEF Whole, Shown
<1>4. CASE m.kind = "text" /\ m.part = 1 /\ answer.chunks = 1
  BY <1>2, <1>4 DEF Whole
<1> QED BY <1>3, <1>4

\* The next text of an answer, in its order.
LEMMA NextText ==
  ASSUME sent \in Seq(Posted), InOrder, UNCHANGED answer, answer \in Response,
         NEW m \in Posted, sent' = Append(sent, m),
         m.kind = "text", m.part = Len(sent) + 1, Len(sent) < answer.chunks
  PROVE  /\ InOrder'
         /\ Len(sent') = Len(sent) + 1
         /\ Len(sent') < answer.chunks \/ (Len(sent') = answer.chunks /\ Whole')
<1>1. /\ Len(sent) \in Nat /\ Len(sent') = Len(sent) + 1
      /\ DOMAIN sent = 1 .. Len(sent) /\ DOMAIN sent' = 1 .. Len(sent) + 1
      /\ \A n \in DOMAIN sent : sent'[n] = sent[n]
      /\ sent'[Len(sent) + 1] = m
  BY Sending
<1>2. InOrder'
  <2> SUFFICES ASSUME NEW n \in DOMAIN sent'
               PROVE  sent'[n].kind = "text" /\ sent'[n].part = n
    BY DEF InOrder
  <2>1. CASE n = Len(sent) + 1
    BY <1>1, <2>1
  <2>2. CASE n \in DOMAIN sent
    BY <1>1, <2>2 DEF InOrder
  <2> QED BY <1>1, <2>1, <2>2
<1>3. answer.chunks \in Nat
  BY DEF Response
<1>4. ASSUME Len(sent') = answer.chunks PROVE Whole'
  BY <1>1, <1>2, <1>3, <1>4 DEF Whole, InOrder
<1> QED BY <1>1, <1>2, <1>3, <1>4

\* Messages are messages.
LEMMA MessagesTyped ==
  \A to \in Readers \cup {"none", "click"}, part \in Nat,
     kind \in {"stale", "error", "file", "cut", "text", "pointer", "undelivered"} :
    [to |-> to, kind |-> kind, part |-> part] \in Posted
BY DEF Posted

\* What the first message is.
LEMMA FirstKind ==
  ASSUME InteractionInv, stage = "reply", NEW split \in BOOLEAN
  PROVE  /\ sent = <<>> /\ answer \in Response /\ answer.chunks \in Nat
         /\ First(split) \in {"file", "cut", "text"}
         /\ First(split) = "cut" => ~split
         /\ First(split) = "text" /\ (~split \/ ~(answer.chunks > 1)) => answer.chunks = 1
         /\ answer.chunks > 1 => First(TRUE) = "text"
<1>1. /\ sent = <<>> /\ answer \in Response /\ (answer.file => answer.chunks = 0)
      /\ answer.chunks > 0 \/ answer.file
  BY DEF InteractionInv, Typed, SoFar, Answered, Telling
<1>2. answer.chunks \in Nat /\ answer.file \in BOOLEAN
  BY <1>1 DEF Response
<1> QED BY <1>1, <1>2 DEF First

\* An answer that is edited into the acknowledgement, up to its first message.
LEMMA DeferredKeeps == InteractionInv /\ respondDeferred => InteractionInv'
<1> SUFFICES ASSUME InteractionInv, respondDeferred PROVE InteractionInv'
  OBVIOUS
<1> DEFINE then == IF answer.chunks > 1 THEN "more" ELSE "done"
<1>1. /\ stage = "reply" /\ Slash /\ invoked.slow /\ Post(ack, First(TRUE), 1, then, "done")
      /\ UNCHANGED <<request, invoked, ack, deleted, answer, written>>
  BY DEF respondDeferred
<1>2. then \in {"more", "done"} /\ (then = "more" <=> answer.chunks > 1)
  OBVIOUS
<1> HIDE DEF then
<1>3. /\ sent = <<>> /\ answer \in Response /\ answer.chunks \in Nat
      /\ First(TRUE) \in {"file", "text"}
      /\ First(TRUE) = "text" /\ ~(answer.chunks > 1) => answer.chunks = 1
      /\ answer.chunks > 1 => First(TRUE) = "text"
  BY <1>1, FirstKind
<1>4. ack \in {"click", "invoker", "channel"} /\ (ack = "channel" => ~invoked.ephemeral)
  BY <1>1 DEF InteractionInv, Acked, AckReader, Telling
<1>5. ~invoked.ephemeral => ~Direct
  BY <1>1 DEF InteractionInv, Answered, Direct, Telling
<1> DEFINE m == [to |-> ack, kind |-> First(TRUE), part |-> 1]
<1>6. m \in Posted /\ m.kind = First(TRUE) /\ m.part = 1
  BY <1>3, <1>4, MessagesTyped DEF Readers
<1>7. Typed' /\ Commanded' /\ Acked' /\ Answered' /\ Counted'
  BY <1>1, <1>2, <1>6, PostKeeps DEF Telling
<1>8. PrivateStaysPrivate'
  BY <1>1, <1>3, <1>4, <1>5, <1>6, PostedPrivately DEF Slash, ReRoll
<1>9. Slash' = Slash /\ answer' = answer
  BY <1>1 DEF Slash
<1>10. SoFar' /\ Finished'
  <2>1. CASE stage' = "done" /\ broken' = TRUE
    BY <2>1 DEF SoFar, Finished, Unstarted, Working
  <2>2. CASE stage' = then /\ sent' = Append(sent, m)
    <3> HIDE DEF m
    <3>1. CASE answer.chunks > 1
      <4>1. sent \in Seq(Posted) /\ InOrder /\ Len(sent) = 0
        BY <1>3 DEF InOrder
      <4>2. /\ m.kind = "text" /\ m.part = Len(sent) + 1 /\ Len(sent) < answer.chunks
            /\ m \in Posted
        <5>1. m.kind = "text"
          BY <1>3, <1>6, <3>1
        <5>2. m.part = Len(sent) + 1
          BY <1>6, <4>1
        <5>3. answer.chunks \in Nat /\ answer.chunks > 1
          BY <1>3, <3>1
        <5>4. Len(sent) < answer.chunks
          BY <4>1, <5>3
        <5> QED BY <1>6, <5>1, <5>2, <5>4
      <4>3. InOrder' /\ Len(sent') = Len(sent) + 1
        BY <1>3, <1>9, <2>2, <4>1, <4>2, NextText
      <4>4. InOrder' /\ Len(sent') = 1
        BY <4>1, <4>3
      <4> QED BY <1>1, <1>2, <1>9, <2>2, <3>1, <4>4 DEF SoFar, Finished, Unstarted, Working
    <3>2. CASE ~(answer.chunks > 1)
      <4>1. First(TRUE) = "text" => answer.chunks = 1
        BY <1>3, <3>2
      <4>2. Whole'
        BY <1>3, <1>6, <1>9, <2>2, <4>1, OnlyOne
      <4> QED BY <1>2, <2>2, <3>2, <4>2 DEF SoFar, Finished, Unstarted, Working
    <3> QED BY <3>1, <3>2
  <2> QED BY <1>1, <2>1, <2>2 DEF Post
<1> QED BY <1>7, <1>8, <1>10 DEF InteractionInv

\* The rest of it, message by message.
LEMMA FollowUpKeeps == InteractionInv /\ FollowUp => InteractionInv'
<1> SUFFICES ASSUME InteractionInv, FollowUp PROVE InteractionInv'
  OBVIOUS
<1> DEFINE reader == IF invoked.ephemeral THEN "invoker" ELSE "channel"
           then == IF Len(sent) + 1 < answer.chunks THEN "more" ELSE "done"
<1>1. /\ stage = "more" /\ Post(reader, "text", Len(sent) + 1, then, "done")
      /\ UNCHANGED <<request, invoked, ack, deleted, answer, written>>
  BY DEF FollowUp
<1>2. /\ then \in {"more", "done"} /\ (then = "more" <=> Len(sent) + 1 < answer.chunks)
      /\ reader \in {"invoker", "channel"} /\ (reader = "channel" => ~invoked.ephemeral)
  OBVIOUS
<1> HIDE DEF reader, then
<1>3. /\ Slash /\ InOrder /\ Len(sent) < answer.chunks
      /\ sent \in Seq(Posted) /\ Len(sent) \in Nat
      /\ answer \in Response /\ answer.chunks \in Nat
  BY <1>1 DEF InteractionInv, SoFar, Typed, Response
<1>4. ~invoked.ephemeral => ~Direct
  BY <1>1 DEF InteractionInv, Answered, Direct, Telling
<1> DEFINE m == [to |-> reader, kind |-> "text", part |-> Len(sent) + 1]
<1>5. m \in Posted /\ m.kind = "text" /\ m.part = Len(sent) + 1
  <2>1. Len(sent) + 1 \in Nat /\ reader \in Readers \cup {"none", "click"}
    BY <1>2, <1>3 DEF Readers
  <2>2. m \in Posted
    BY <2>1, MessagesTyped
  <2> QED BY <2>2
<1>6. Typed' /\ Commanded' /\ Acked' /\ Answered' /\ Counted'
  BY <1>1, <1>2, <1>5, PostKeeps DEF Telling
<1>7. PrivateStaysPrivate'
  BY <1>1, <1>2, <1>3, <1>4, <1>5, PostedPrivately DEF Slash, ReRoll
<1>8. Slash' = Slash /\ answer' = answer
  BY <1>1 DEF Slash
<1>9. SoFar' /\ Finished'
  <2>1. CASE stage' = "done" /\ broken' = TRUE
    BY <2>1 DEF SoFar, Finished, Unstarted, Working
  <2>2. CASE stage' = then /\ sent' = Append(sent, m)
    <3> HIDE DEF m
    <3>1. /\ InOrder' /\ Len(sent') = Len(sent) + 1
          /\ Len(sent') < answer.chunks \/ (Len(sent') = answer.chunks /\ Whole')
      BY <1>3, <1>5, <1>8, <2>2, NextText
    <3>2. CASE then = "more"
      BY <1>2, <1>3, <1>8, <2>2, <3>1, <3>2 DEF SoFar, Finished, Unstarted, Working
    <3>3. CASE then = "done"
      BY <1>2, <1>3, <1>8, <2>2, <3>1, <3>3 DEF SoFar, Finished, Unstarted, Working
    <3> QED BY <1>2, <3>2, <3>3
  <2> QED BY <1>1, <2>1, <2>2 DEF Post
<1> QED BY <1>6, <1>7, <1>9 DEF InteractionInv

\* An answer to a slash command that was not acknowledged before: one message.
LEMMA CommandKeeps == InteractionInv /\ respondCommand => InteractionInv'
<1> SUFFICES ASSUME InteractionInv, respondCommand PROVE InteractionInv'
  OBVIOUS
<1> DEFINE reader == IF answer.private THEN "invoker" ELSE "channel"
<1>1. /\ stage = "reply" /\ Slash /\ ~invoked.slow
      /\ Post(reader, First(FALSE), 1, "done", "done")
      /\ UNCHANGED <<request, invoked, ack, deleted, answer, written>>
  BY DEF respondCommand
<1>2. reader \in {"invoker", "channel"} /\ (reader = "channel" => ~answer.private)
  OBVIOUS
<1> HIDE DEF reader
<1>3. /\ sent = <<>> /\ answer \in Response /\ First(FALSE) \in {"file", "cut", "text"}
      /\ First(FALSE) = "text" => answer.chunks = 1
  BY <1>1, FirstKind
<1>4. reader = "channel" => ~invoked.ephemeral /\ ~Direct
  BY <1>1, <1>2 DEF InteractionInv, Answered, Direct, Telling
<1> DEFINE m == [to |-> reader, kind |-> First(FALSE), part |-> 1]
<1>5. m \in Posted /\ m.kind = First(FALSE) /\ m.part = 1
  BY <1>2, <1>3, MessagesTyped DEF Readers
<1>6. Typed' /\ Commanded' /\ Acked' /\ Answered' /\ Counted'
  BY <1>1, <1>5, PostKeeps DEF Telling
<1>7. PrivateStaysPrivate'
  BY <1>1, <1>3, <1>4, <1>5, PostedPrivately DEF Slash, ReRoll
<1>8. SoFar' /\ Finished'
  <2>1. stage' = "done" /\ (broken' = TRUE \/ sent' = Append(sent, m))
    BY <1>1 DEF Post
  <2> HIDE DEF m
  <2>2. sent' = Append(sent, m) => Whole'
    BY <1>1, <1>3, <1>5, OnlyOne
  <2> QED BY <2>1, <2>2 DEF SoFar, Finished, Unstarted, Working
<1> QED BY <1>6, <1>7, <1>8 DEF InteractionInv

\* The answer to a click: a message of its own, or an error if that is refused.
LEMMA ReRollKeeps == InteractionInv /\ respondReRoll => InteractionInv'
<1> SUFFICES ASSUME InteractionInv, respondReRoll PROVE InteractionInv'
  OBVIOUS
<1>1. /\ stage = "reply" /\ ReRoll
      /\ Post("channel", First(FALSE), 1, "done", "error")
      /\ UNCHANGED <<request, invoked, ack, deleted, answer, written>>
  BY DEF respondReRoll
<1>2. /\ sent = <<>> /\ answer \in Response /\ First(FALSE) \in {"file", "cut", "text"}
      /\ First(FALSE) = "text" => answer.chunks = 1
  BY <1>1, FirstKind
<1>3. ~Slash /\ ~Direct /\ First(FALSE) # "error"
  BY <1>1, <1>2 DEF InteractionInv, Answered, Direct, Telling, Slash, ReRoll
<1> DEFINE m == [to |-> "channel", kind |-> First(FALSE), part |-> 1]
<1>4. m \in Posted /\ m.kind = First(FALSE) /\ m.part = 1
  BY <1>2, MessagesTyped DEF Readers
<1>5. Typed' /\ Commanded' /\ Acked' /\ Answered' /\ Counted'
  BY <1>1, <1>4, PostKeeps DEF Telling
<1>6. PrivateStaysPrivate'
  BY <1>1, <1>3, <1>4, PostedPrivately
<1>7. SoFar' /\ Finished'
  <2>1. \/ stage' = "error" /\ sent' = sent
        \/ stage' = "done" /\ sent' = Append(sent, m)
    BY <1>1 DEF Post
  <2> HIDE DEF m
  <2>2. sent' = Append(sent, m) => Whole'
    BY <1>1, <1>2, <1>4, OnlyOne
  <2> QED BY <1>2, <2>1, <2>2 DEF SoFar, Finished, Unstarted, Working
<1> QED BY <1>5, <1>6, <1>7 DEF InteractionInv

\* The answer in chat, or the start of a direct one.
LEMMA ChatKeeps == InteractionInv /\ respondChat => InteractionInv'
<1> SUFFICES ASSUME InteractionInv, respondChat PROVE InteractionInv'
  OBVIOUS
<1>1. /\ stage = "reply" /\ Chat
      /\ UNCHANGED <<request, invoked, ack, deleted, answer, written>>
  BY DEF respondChat
<1>2. /\ sent = <<>> /\ answer \in Response /\ First(FALSE) \in {"file", "cut", "text"}
      /\ First(FALSE) = "text" => answer.chunks = 1
  BY <1>1, FirstKind
<1>3. ~Slash /\ ~ReRoll
  BY <1>1 DEF Chat, Slash, ReRoll
<1>4. CASE Direct
  <2>1. /\ stage' \in {"direct", "undelivered"} /\ sent' = sent
        /\ broken' = (broken \/ stage' = "undelivered")
    BY <1>4 DEF respondChat
  <2>2. PrivateStaysPrivate' /\ InOrder' = InOrder
    BY <1>1, <2>1, Quietly
  <2>3. /\ ReRoll' = ReRoll /\ Slash' = Slash /\ Chat' = Chat /\ AckReader' = AckReader
        /\ fold(request.name)' = fold(request.name) /\ NameSet(invoked)' = NameSet(invoked)
        /\ Handling' = Handling /\ Direct' = Direct /\ Shown("text")' = Shown("text")
    BY <1>1, <2>1 DEF ReRoll, Slash, Chat, AckReader, fold, NameSet, FoldedNames, Handling,
       Direct, Shown
  <2>4. Typed' /\ Commanded' /\ Acked'
    BY <1>1, <2>1, <2>3
       DEF InteractionInv, Typed, Commanded, Acked, Unstarted, Working, Telling
  <2>5. Answered' /\ Counted' /\ Finished'
    BY <1>1, <2>1, <2>3 DEF InteractionInv, Answered, Counted, Finished, Telling
  <2>6. SoFar'
    <3>1. answer.chunks \in Nat /\ answer.chunks > 1
      BY <1>2, <1>4 DEF Direct, Response
    <3>2. Len(sent) = 0 /\ InOrder
      BY <1>2 DEF InOrder
    <3>3. Len(sent') < answer'.chunks
      BY <1>1, <2>1, <3>1, <3>2
    <3> QED BY <1>1, <1>4, <2>1, <2>2, <2>3, <3>2, <3>3 DEF SoFar, Unstarted, Working
  <2> QED BY <2>2, <2>4, <2>5, <2>6 DEF InteractionInv
<1>5. CASE ~Direct
  <2> DEFINE m == [to |-> "channel", kind |-> First(FALSE), part |-> 1]
  <2>1. Post("channel", First(FALSE), 1, "done", "done")
    BY <1>5 DEF respondChat
  <2>2. m \in Posted /\ m.kind = First(FALSE) /\ m.part = 1
    BY <1>2, MessagesTyped DEF Readers
  <2>3. Typed' /\ Commanded' /\ Acked' /\ Answered' /\ Counted'
    BY <1>1, <2>1, <2>2, PostKeeps DEF Telling
  <2>4. PrivateStaysPrivate'
    BY <1>1, <1>3, <1>5, <2>1, <2>2, PostedPrivately
  <2>5. stage' = "done" /\ (broken' = TRUE \/ sent' = Append(sent, m))
    BY <2>1 DEF Post
  <2> HIDE DEF m
  <2>6. sent' = Append(sent, m) => Whole'
    BY <1>1, <1>2, <2>2, OnlyOne
  <2>7. SoFar' /\ Finished'
    BY <2>5, <2>6 DEF SoFar, Finished, Unstarted, Working
  <2> QED BY <2>3, <2>4, <2>7 DEF InteractionInv
<1> QED BY <1>4, <1>5

\* What resolves to nothing is said to who asked.
LEMMA StaleKeeps == InteractionInv /\ respondStale => InteractionInv'
<1> SUFFICES ASSUME InteractionInv, respondStale PROVE InteractionInv'
  OBVIOUS
<1>1. /\ stage = "stale" /\ Post("invoker", "stale", 0, "done", "done")
      /\ UNCHANGED <<request, invoked, ack, deleted, answer, written>>
  BY DEF respondStale
<1> DEFINE m == [to |-> "invoker", kind |-> "stale", part |-> 0]
<1>2. m \in Posted
  BY MessagesTyped DEF Readers
<1>3. Typed' /\ Commanded' /\ Acked' /\ Answered' /\ Counted'
  BY <1>1, <1>2, PostKeeps
<1>4. PrivateStaysPrivate'
  BY <1>1, <1>2, PostedPrivately
<1>5. stage' = "done" /\ invoked' = Empty
  BY <1>1 DEF Post, InteractionInv, Commanded
<1>6. SoFar' /\ Finished'
  BY <1>5 DEF SoFar, Finished, Unstarted, Working
<1> QED BY <1>3, <1>4, <1>6 DEF InteractionInv

\* An error, to who may see it.
LEMMA ErrorKeeps == InteractionInv /\ respondError => InteractionInv'
<1> SUFFICES ASSUME InteractionInv, respondError PROVE InteractionInv'
  OBVIOUS
<1> DEFINE reader == IF Chat THEN "channel" ELSE IF ack = "channel" THEN "channel" ELSE "invoker"
<1>1. /\ stage = "error" /\ Post(reader, "error", 0, "done", "done")
      /\ UNCHANGED <<request, invoked, ack, deleted, answer, written>>
  BY DEF respondError
<1>2. /\ reader \in {"invoker", "channel"}
      /\ reader = "channel" => Chat \/ ack = "channel"
  OBVIOUS
<1> HIDE DEF reader
<1>3. sent = <<>> /\ answer \in Response
  BY <1>1 DEF InteractionInv, SoFar, Typed
<1>4. ack = "channel" => ~ReRoll /\ ~invoked.ephemeral
  BY <1>1 DEF InteractionInv, Acked, AckReader
<1>5. Chat => ~ReRoll /\ ~Slash
  BY DEF Chat, ReRoll, Slash
<1> DEFINE m == [to |-> reader, kind |-> "error", part |-> 0]
<1>6. m \in Posted /\ m.kind = "error"
  BY <1>2, MessagesTyped DEF Readers
<1>7. Typed' /\ Commanded' /\ Acked' /\ Answered' /\ Counted'
  BY <1>1, <1>6, PostKeeps
<1>8. PrivateStaysPrivate'
  BY <1>1, <1>2, <1>4, <1>5, <1>6, PostedPrivately
<1>9. SoFar' /\ Finished'
  <2>1. stage' = "done" /\ (broken' = TRUE \/ sent' = Append(sent, m))
    BY <1>1 DEF Post
  <2> HIDE DEF m
  <2>2. sent' = Append(sent, m) => Whole'
    BY <1>1, <1>3, <1>6, OnlyOne
  <2> QED BY <2>1, <2>2 DEF SoFar, Finished, Unstarted, Working
<1> QED BY <1>7, <1>8, <1>9 DEF InteractionInv

\* A listing that is sent directly, message by message.
LEMMA DirectKeeps == InteractionInv /\ sendDMChunks => InteractionInv'
<1> SUFFICES ASSUME InteractionInv, sendDMChunks PROVE InteractionInv'
  OBVIOUS
<1> DEFINE then == IF Len(sent) + 1 < answer.chunks THEN "direct" ELSE "pointer"
<1>1. /\ stage = "direct" /\ Post("direct", "text", Len(sent) + 1, then, "undelivered")
      /\ UNCHANGED <<request, invoked, ack, deleted, answer, written>>
  BY DEF sendDMChunks
<1>2. then \in {"direct", "pointer"} /\ (then = "direct" <=> Len(sent) + 1 < answer.chunks)
  OBVIOUS
<1> HIDE DEF then
<1>3. /\ Chat /\ Direct /\ InOrder /\ Len(sent) < answer.chunks
      /\ sent \in Seq(Posted) /\ Len(sent) \in Nat
      /\ answer \in Response /\ answer.chunks \in Nat
  BY <1>1 DEF InteractionInv, SoFar, Typed, Response
<1> DEFINE m == [to |-> "direct", kind |-> "text", part |-> Len(sent) + 1]
<1>4. m \in Posted /\ m.kind = "text" /\ m.part = Len(sent) + 1
  <2>1. Len(sent) + 1 \in Nat /\ "direct" \in Readers \cup {"none", "click"}
    BY <1>3 DEF Readers
  <2>2. m \in Posted
    BY <2>1, MessagesTyped
  <2> QED BY <2>2
<1>5. Typed' /\ Commanded' /\ Acked' /\ Answered' /\ Counted'
  BY <1>1, <1>2, <1>4, PostKeeps DEF Telling
<1>6. PrivateStaysPrivate'
  BY <1>1, <1>4, PostedPrivately
<1>7. Chat' = Chat /\ Direct' = Direct /\ answer' = answer
  BY <1>1 DEF Chat, Direct
<1>8. SoFar' /\ Finished'
  <2>1. CASE stage' = "undelivered" /\ broken' = TRUE
    BY <1>3, <1>7, <2>1 DEF SoFar, Finished, Unstarted, Working
  <2>2. CASE stage' = then /\ sent' = Append(sent, m)
    <3> HIDE DEF m
    <3>1. /\ InOrder' /\ Len(sent') = Len(sent) + 1
          /\ Len(sent') < answer.chunks \/ (Len(sent') = answer.chunks /\ Whole')
      BY <1>3, <1>4, <1>7, <2>2, NextText
    <3>2. CASE then = "direct"
      BY <1>2, <1>3, <1>7, <2>2, <3>1, <3>2 DEF SoFar, Finished, Unstarted, Working
    <3>3. CASE then = "pointer"
      <4>1. Len(sent') = answer.chunks
        BY <1>2, <3>1, <3>3
      <4> QED BY <1>3, <1>7, <2>2, <3>1, <3>3, <4>1 DEF SoFar, Finished, Unstarted, Working
    <3> QED BY <1>2, <3>2, <3>3
  <2> QED BY <1>1, <2>1, <2>2 DEF Post
<1> QED BY <1>5, <1>6, <1>8 DEF InteractionInv

\* Where it went, or that it could not.
LEMMA ChatDirectKeeps == InteractionInv /\ respondChatDirect => InteractionInv'
<1> SUFFICES ASSUME InteractionInv, respondChatDirect PROVE InteractionInv'
  OBVIOUS
<1>1. /\ stage \in {"pointer", "undelivered"} /\ Post("channel", stage, 0, "done", "done")
      /\ UNCHANGED <<request, invoked, ack, deleted, answer, written>>
  BY DEF respondChatDirect
<1>2. Chat /\ ~Slash /\ ~ReRoll
  BY <1>1 DEF InteractionInv, SoFar, Chat, Slash, ReRoll
<1> DEFINE m == [to |-> "channel", kind |-> stage, part |-> 0]
<1>3. m \in Posted /\ m.kind = stage
  BY <1>1, MessagesTyped DEF Readers
<1>4. Typed' /\ Commanded' /\ Acked' /\ Answered' /\ Counted'
  BY <1>1, <1>3, PostKeeps DEF Telling
<1>5. PrivateStaysPrivate'
  BY <1>1, <1>2, <1>3, PostedPrivately
<1>6. SoFar' /\ Finished'
  <2>1. stage' = "done" /\ (broken' = TRUE \/ (broken' = broken /\ sent' = Append(sent, m)))
    BY <1>1 DEF Post
  <2>2. CASE stage = "undelivered" \/ broken' = TRUE
    <3>1. broken' = TRUE
      BY <2>1, <2>2 DEF InteractionInv, SoFar, Typed
    <3> QED BY <2>1, <3>1 DEF SoFar, Finished, Unstarted, Working
  <2>3. CASE stage = "pointer" /\ sent' = Append(sent, m)
    <3>1. InOrder /\ Len(sent) = answer.chunks /\ sent \in Seq(Posted) /\ answer' = answer
      BY <1>1, <2>3 DEF InteractionInv, SoFar, Typed
    <3> HIDE DEF m
    <3>2. /\ Len(sent) \in Nat
          /\ DOMAIN sent = 1 .. Len(sent) /\ DOMAIN sent' = 1 .. Len(sent) + 1
          /\ \A n \in DOMAIN sent : sent'[n] = sent[n]
          /\ sent'[Len(sent) + 1] = m
      BY <1>3, <2>3, <3>1, Sending
    <3>3. \A n \in 1 .. answer'.chunks :
            n \in DOMAIN sent' /\ sent'[n].kind = "text" /\ sent'[n].part = n
      BY <3>1, <3>2 DEF InOrder
    <3>4. \A n \in DOMAIN sent' : n > answer'.chunks => sent'[n].kind = "pointer"
      BY <1>3, <2>3, <3>1, <3>2
    <3>5. Whole'
      BY <3>3, <3>4 DEF Whole
    <3> QED BY <2>1, <3>5 DEF SoFar, Finished, Unstarted, Working
  <2> QED BY <1>1, <2>1, <2>2, <2>3
<1> QED BY <1>4, <1>5, <1>6 DEF InteractionInv

\* The invariant holds throughout.
LEMMA InteractionInvariant == InteractionSpec => []InteractionInv
<1>1. InteractionInv /\ UNCHANGED interactionVars => InteractionInv'
  <2> SUFFICES ASSUME InteractionInv, UNCHANGED interactionVars PROVE InteractionInv'
    OBVIOUS
  <2>1. UNCHANGED <<request, stage, invoked, ack, deleted, answer, sent, written, broken>>
    BY DEF interactionVars
  <2>2. PrivateStaysPrivate' /\ InOrder' = InOrder /\ Whole' = Whole
    BY <2>1, Quietly
  <2>3. /\ ReRoll' = ReRoll /\ Slash' = Slash /\ Chat' = Chat /\ AckReader' = AckReader
        /\ fold(request.name)' = fold(request.name) /\ NameSet(invoked)' = NameSet(invoked)
        /\ Handling' = Handling /\ Direct' = Direct /\ Shown("text")' = Shown("text")
    BY <2>1 DEF ReRoll, Slash, Chat, AckReader, fold, NameSet, FoldedNames, Handling,
       Direct, Shown
  <2>4. Typed' /\ Commanded' /\ Acked'
    BY <2>1, <2>3 DEF InteractionInv, Typed, Commanded, Acked
  <2>5. Answered' /\ Counted'
    BY <2>1, <2>3 DEF InteractionInv, Answered, Counted
  <2>6. SoFar' /\ Finished'
    BY <2>1, <2>2, <2>3 DEF InteractionInv, SoFar, Finished
  <2> QED BY <2>2, <2>4, <2>5, <2>6 DEF InteractionInv
<1>2. RegistryInv /\ InteractionInv /\ InteractionNext => InteractionInv'
  <2> SUFFICES ASSUME RegistryInv, InteractionInv, InteractionNext PROVE InteractionInv'
    OBVIOUS
  <2>1. CASE UNCHANGED interactionVars
    BY <1>1, <2>1
  <2>2. CASE \/ Invoke \/ Dispatch \/ Acknowledge \/ Check \/ Call \/ Fetch \/ Returns
    BY <2>2, InvokeKeeps, DispatchKeeps, AcknowledgeKeeps, CheckKeeps, CallKeeps, FetchKeeps,
       ReturnsKeeps
  <2>3. CASE \/ respondStale \/ respondDeferred \/ FollowUp \/ respondCommand \/ respondReRoll
             \/ respondChat \/ sendDMChunks \/ respondChatDirect \/ respondError
    BY <2>3, StaleKeeps, DeferredKeeps, FollowUpKeeps, CommandKeeps, ReRollKeeps, ChatKeeps,
       DirectKeeps, ChatDirectKeeps, ErrorKeeps
  <2> QED BY <2>1, <2>2, <2>3 DEF InteractionNext
<1>3. RegistryInv /\ InteractionInv /\ [InteractionNext]_<<registryVars, interactionVars>>
        => InteractionInv'
  BY <1>1, <1>2
<1> QED BY <1>3, RegistryInvariant, InteractionInitHolds, PTL DEF InteractionSpec

\* For any catalogue whose commands fit their handlers: what is for its invoker is
\* seen by nobody else, however it is asked for, whatever fails and however long.
THEOREM PrivateCorrect == InteractionSpec => []PrivateStaysPrivate
<1>1. InteractionInv => PrivateStaysPrivate
  BY DEF InteractionInv
<1> QED BY <1>1, InteractionInvariant, PTL

\* And what a finished command has said is all of its answer, once and in order, and
\* true of what it did.
THEOREM AnswersWholeCorrect == InteractionSpec => []AnswersAreWholeAndTrue
<1>1. InteractionInv => AnswersAreWholeAndTrue
  <2> SUFFICES ASSUME InteractionInv PROVE AnswersAreWholeAndTrue
    OBVIOUS
  <2>1. (written > 0 /\ ~Chat) => ack # "none"
    BY DEF InteractionInv, Acked
  <2>2. (invoked # Empty /\ Shown("text") # {} /\ Handling.call = "write") =>
          /\ deleted <= written
          /\ written = 0 => Handling.known \/ Handling.each
    BY DEF InteractionInv, Counted
  <2>3. (stage = "done" /\ ~broken /\ invoked # Empty) => Whole
    BY DEF InteractionInv, Finished
  <2> QED BY <2>1, <2>2, <2>3 DEF AnswersAreWholeAndTrue, Whole
<1> QED BY <1>1, InteractionInvariant, PTL
=============================================================================
