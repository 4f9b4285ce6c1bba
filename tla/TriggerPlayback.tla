-------------------------- MODULE TriggerPlayback --------------------------
(***************************************************************************)
(* Playing triggers on Discord: each message of a human is handled on a    *)
(* goroutine of its own, which takes one of a few slots, asks the server   *)
(* whether a trigger fires, posts the response and opens a window in which *)
(* the author may undo it with a short word; the server rate-limits the    *)
(* fires that are asked for by name.                                       *)
(*                                                                         *)
(* time.Now() is read before the lock it is used under, both for the       *)
(* limiter and for the windows, so readings reach the maps out of order.   *)
(***************************************************************************)
EXTENDS Integers, FiniteSets

CONSTANTS
  Messages,
  Authors,
  Channels,
  Triggers,
  Scripts,     \* what the messages may be, None for one that never comes
  None,
  Slots,       \* maxConcurrentTriggerAttempts
  Window,      \* triggerUndoWindow
  Interval,    \* ForcedInterval
  Stall,       \* longest a goroutine is held up between time.Now() and its lock
  Hours,       \* the instants the hourly jobs run at
  MaxVersion,  \* bound: edits of a trigger
  MaxTime      \* bound: the last instant the clock reaches

\* "bare": an attempt that ends before the server is asked: a direct message,
\* or nothing left once the bot's own mention is stripped.
Kinds == {"plain", "mention", "bare", "undo"}

Message == [author : Authors, channel : Channels, kind : Kinds]

ASSUME PlaybackAssumption ==
  /\ Scripts \subseteq [Messages -> Message \cup {None}]
  /\ Slots \in Nat \ {0} /\ Window \in Nat /\ Interval \in Nat /\ Stall \in Nat
  /\ Hours \subseteq Nat /\ MaxVersion \in Nat /\ MaxTime \in Nat
  /\ IsFiniteSet(Messages)
  /\ None \notin Messages /\ None \notin Message /\ None \notin Int
  /\ None \notin [trigger : Triggers, version : Nat]

VARIABLES
  msg,      \* the messages: author, channel and kind
  pc,       \* per message: where its goroutine, or its call on the server, is
  waiting,  \* messages whose goroutine still waits for the server
  clock,    \* per message: its last reading of time.Now()
  slots,    \* triggerAttemptSlots: how many are taken
  fired,    \* per message: trigger and version of the response, as the server read it
  target,   \* per undo message: the response it took
  posts,    \* messages whose response stands in the channel
  windows,  \* triggerUndoWindows.pending
  last,     \* ForcedLimiter.last
  prune,    \* the cron goroutine, inside Prune: its cutoff, or None
  row,      \* the trigger table: version, and whether the row is live
  now,      \* the clock
  \* History, not in the program:
  atArrival,  \* per message: the trigger table when it came
  grants,     \* forced fires granted: message, reading and instant
  undone      \* undo messages whose response is deleted

hist == <<atArrival, grants, undone>>
client == <<msg, waiting, slots, target, posts, windows>>
server == <<fired, last, prune, row>>
vars == <<client, server, pc, clock, now, hist>>

-----------------------------------------------------------------------------
Key(m) == [channel |-> msg[m].channel, author |-> msg[m].author]

Keys == [channel : Channels, author : Authors]

\* Positions of a goroutine that holds a slot and is not at the server ...
Holding == {"ask", "render", "send", "sent", "arm"}
\* ... and of the call on the server, which goes on when nobody waits for it.
Serving == {"select", "allow", "build"}

HoldsSlot(m) == pc[m] \in Holding \/ m \in waiting

Open == [response |-> None, expires |-> 0]

TypeOK ==
  /\ msg \in [Messages -> Message \cup {None}]
  /\ pc \in [Messages -> {"none", "undo", "delete", "attempt", "done"}
                         \cup Holding \cup Serving]
  /\ waiting \subseteq {m \in Messages : pc[m] \in Serving}
  /\ clock \in [Messages -> Nat]
  /\ slots \in 0 .. Slots
  /\ fired \in [Messages -> [trigger : Triggers, version : Nat] \cup {None}]
  /\ target \in [Messages -> Messages \cup {None}]
  /\ posts \subseteq Messages
  /\ windows \in [Keys -> [response : Messages \cup {None}, expires : Nat]]
  /\ last \in [Authors -> Int]
  /\ prune \in Int \cup {None}
  /\ row \in [Triggers -> [version : Nat, live : BOOLEAN]]
  /\ now \in Nat
  /\ atArrival \in [Messages -> [Triggers -> [version : Nat, live : BOOLEAN]]]
  /\ grants \subseteq [msg : Messages, read : Nat, at : Nat]
  /\ undone \subseteq Messages

\* No entry in the limiter's map.
Never == -1

Init ==
  /\ msg \in Scripts
  /\ pc = [m \in Messages |-> IF msg[m] = None THEN "done" ELSE "none"]
  /\ waiting = {}
  /\ clock = [m \in Messages |-> 0]
  /\ slots = 0
  /\ fired = [m \in Messages |-> None]
  /\ target = [m \in Messages |-> None]
  /\ posts = {}
  /\ windows = [k \in Keys |-> Open]
  /\ last = [u \in Authors |-> Never]
  /\ prune = None
  /\ row = [t \in Triggers |-> [version |-> 0, live |-> TRUE]]
  /\ now = 0
  /\ atArrival = [m \in Messages |-> row]
  /\ grants = {}
  /\ undone = {}
-----------------------------------------------------------------------------
(* handleMessage.                                                          *)

\* A message arrives.  An undo phrase reads the clock for consume; anything
\* else is an attempt.
Receive(m) ==
  /\ pc[m] = "none"
  /\ \/ /\ msg[m].kind = "undo"
        /\ pc' = [pc EXCEPT ![m] = "undo"]
        /\ clock' = [clock EXCEPT ![m] = now]
     \/ /\ msg[m].kind # "undo"
        /\ pc' = [pc EXCEPT ![m] = "attempt"]
        /\ UNCHANGED clock
  /\ atArrival' = [atArrival EXCEPT ![m] = row]
  /\ UNCHANGED <<client, server, now, grants, undone>>

\* Mutant of Pruned: no window ever closes.
PrunedNever(t) == windows

\* pruneLocked
Pruned(t) ==
  [k \in Keys |-> IF windows[k].response # None /\ t >= windows[k].expires
                  THEN Open ELSE windows[k]]

\* Without a window the phrase is an ordinary message.
Consume(m) ==
  /\ pc[m] = "undo"
  /\ LET w == Pruned(clock[m])[Key(m)] IN
       /\ target' = [target EXCEPT ![m] = w.response]
       /\ pc' = [pc EXCEPT ![m] = IF w.response = None THEN "attempt" ELSE "delete"]
       /\ windows' = [Pruned(clock[m]) EXCEPT ![Key(m)] = Open]
  /\ UNCHANGED <<msg, waiting, slots, posts, server, clock, now, hist>>

\* The response is deleted, or that fails.  The undo message goes after it, if
\* the guild lets the bot; nothing here depends on that.
Undo(m) ==
  /\ pc[m] = "delete"
  /\ pc' = [pc EXCEPT ![m] = "done"]
  /\ \/ /\ posts' = posts \ {target[m]}
        /\ undone' = undone \cup {m}
     \/ UNCHANGED <<posts, undone>>
  /\ UNCHANGED <<msg, waiting, slots, target, windows, server, clock, now, atArrival, grants>>

\* A slot at once, or the attempt is dropped.
TakeSlot(m) ==
  /\ pc[m] = "attempt"
  /\ \/ slots < Slots /\ slots' = slots + 1 /\ pc' = [pc EXCEPT ![m] = "ask"]
     \/ slots >= Slots /\ pc' = [pc EXCEPT ![m] = "done"] /\ UNCHANGED slots
  /\ UNCHANGED <<msg, waiting, target, posts, windows, server, clock, now, hist>>

\* The goroutine returns, and its defer gives the slot back.
Return(m) ==
  /\ pc' = [pc EXCEPT ![m] = "done"]
  /\ slots' = slots - 1

Ask(m) ==
  /\ pc[m] = "ask"
  /\ \/ /\ msg[m].kind = "bare"
        /\ Return(m)
        /\ UNCHANGED waiting
     \/ /\ msg[m].kind # "bare"
        /\ pc' = [pc EXCEPT ![m] = "select"]
        /\ waiting' = waiting \cup {m}
        /\ UNCHANGED slots
  /\ UNCHANGED <<msg, target, posts, windows, server, clock, now, hist>>

\* triggerAttemptTimeout: the call fails for the client, whatever the server
\* still does.
Expire(m) ==
  /\ m \in waiting
  /\ waiting' = waiting \ {m}
  /\ slots' = slots - 1
  /\ UNCHANGED <<msg, target, posts, windows, server, pc, clock, now, hist>>

\* triggerPlaybackResponse: a reply, or a file fetched in full; or nothing.
Render(m) ==
  /\ pc[m] = "render"
  /\ \/ pc' = [pc EXCEPT ![m] = "send"] /\ UNCHANGED slots
     \/ Return(m)
  /\ UNCHANGED <<msg, waiting, target, posts, windows, server, clock, now, hist>>

\* respondChat: the response stands in the channel from here on.
Send(m) ==
  /\ pc[m] = "send"
  /\ \/ /\ posts' = posts \cup {m}
        /\ pc' = [pc EXCEPT ![m] = "sent"]
        /\ UNCHANGED slots
     \/ Return(m) /\ UNCHANGED posts
  /\ UNCHANGED <<msg, waiting, target, windows, server, clock, now, hist>>

ReadClock(m) ==
  /\ pc[m] = "sent"
  /\ pc' = [pc EXCEPT ![m] = "arm"]
  /\ clock' = [clock EXCEPT ![m] = now]
  /\ UNCHANGED <<client, server, now, hist>>

\* The window replaces any open one of the author in the channel.
Arm(m) ==
  /\ pc[m] = "arm"
  /\ windows' = [Pruned(clock[m]) EXCEPT
                   ![Key(m)] = [response |-> m, expires |-> clock[m] + Window]]
  /\ Return(m)
  /\ UNCHANGED <<msg, waiting, target, posts, server, clock, now, hist>>

-----------------------------------------------------------------------------
(* TryTrigger.                                                             *)

\* The answer reaches the goroutine if it still waits; an empty one ends it.
Answer(m, fires) ==
  /\ waiting' = waiting \ {m}
  /\ \/ /\ m \in waiting /\ fires
        /\ pc' = [pc EXCEPT ![m] = "render"]
        /\ UNCHANGED slots
     \/ /\ m \in waiting /\ ~fires
        /\ Return(m)
     \/ /\ m \notin waiting
        /\ pc' = [pc EXCEPT ![m] = "done"]
        /\ UNCHANGED slots

\* The cached candidates give one that matches, perhaps edited or deleted by
\* now, or none.  Unless it is asked for, the chance decides.
Select(m) ==
  /\ pc[m] = "select"
  /\ \/ \E t \in Triggers :
          /\ fired' = [fired EXCEPT ![m] = [trigger |-> t, version |-> 0]]
          /\ \/ /\ msg[m].kind = "mention"
                /\ pc' = [pc EXCEPT ![m] = "allow"]
                /\ clock' = [clock EXCEPT ![m] = now]
             \/ /\ msg[m].kind # "mention"
                /\ pc' = [pc EXCEPT ![m] = "build"]
                /\ UNCHANGED clock
          /\ UNCHANGED <<waiting, slots>>
     \/ Answer(m, FALSE) /\ UNCHANGED <<fired, clock>>
  /\ UNCHANGED <<msg, target, posts, windows, last, prune, row, now, hist>>

Author(m) == msg[m].author

\* Mutant of Refused: an interval is over one instant early.
RefusedShort(m) ==
  last[Author(m)] # Never /\ clock[m] - last[Author(m)] < Interval - 1

Refused(m) ==
  last[Author(m)] # Never /\ clock[m] - last[Author(m)] < Interval

\* ForcedLimiter.Allow, under its lock.
Allow(m) ==
  /\ pc[m] = "allow"
  /\ \/ /\ ~Refused(m)
        /\ last' = [last EXCEPT ![Author(m)] = clock[m]]
        /\ grants' = grants \cup {[msg |-> m, read |-> clock[m], at |-> now]}
        /\ pc' = [pc EXCEPT ![m] = "build"]
        /\ UNCHANGED <<waiting, slots>>
     \/ /\ Refused(m)
        /\ Answer(m, FALSE)
        /\ UNCHANGED <<last, grants>>
  /\ UNCHANGED <<msg, target, posts, windows, fired, prune, row, clock, now,
                 atArrival, undone>>

\* Mutant of LiveRow: the row is read without deleted = FALSE.
AnyRow(t) == TRUE

LiveRow(t) == row[t].live

\* buildTryTriggerResp reads the selected row again.
Build(m) ==
  /\ pc[m] = "build"
  /\ LET t == fired[m].trigger IN
       \/ /\ LiveRow(t)
          /\ fired' = [fired EXCEPT ![m].version = row[t].version]
          /\ Answer(m, TRUE)
       \/ Answer(m, FALSE) /\ UNCHANGED fired
  /\ UNCHANGED <<msg, target, posts, windows, last, prune, row, clock, now, hist>>

\* PruneForcedLimiter, on the hour: the cutoff is computed before the lock.
StartPrune ==
  /\ prune = None /\ now \in Hours
  /\ prune' = now - Interval
  /\ UNCHANGED <<client, fired, last, row, pc, clock, now, hist>>

Prune ==
  /\ prune # None
  /\ last' = [u \in Authors |-> IF last[u] < prune THEN Never ELSE last[u]]
  /\ prune' = None
  /\ UNCHANGED <<client, fired, row, pc, clock, now, hist>>

UpdateTrigger(t) ==
  /\ row[t].live /\ row[t].version < MaxVersion
  /\ row' = [row EXCEPT ![t].version = @ + 1]
  /\ UNCHANGED <<client, fired, last, prune, pc, clock, now, hist>>

DeleteTrigger(t) ==
  /\ row[t].live
  /\ row' = [row EXCEPT ![t].live = FALSE]
  /\ UNCHANGED <<client, fired, last, prune, pc, clock, now, hist>>

Tick ==
  /\ now < MaxTime
  /\ \A m \in Messages : pc[m] = "allow" => now - clock[m] < Stall
  /\ now' = now + 1
  /\ UNCHANGED <<client, server, pc, clock, hist>>

Client(m) ==
  Receive(m) \/ Consume(m) \/ Undo(m) \/ TakeSlot(m) \/ Ask(m) \/ Expire(m)
         \/ Render(m) \/ Send(m) \/ ReadClock(m) \/ Arm(m)

Server(m) == Select(m) \/ Allow(m) \/ Build(m)

Next ==
  \/ \E m \in Messages : Client(m) \/ Server(m)
  \/ \E t \in Triggers : UpdateTrigger(t) \/ DeleteTrigger(t)
  \/ StartPrune \/ Prune \/ Tick

Spec == Init /\ [][Next]_vars

-----------------------------------------------------------------------------
(* Properties.                                                             *)

\* Two forced fires granted to one author lie ForcedInterval apart, less the
\* time a goroutine may be held up between its reading and the lock: readings
\* that arrive out of order, and a prune between them, open no gap.
ForcedSpacing ==
  \A g, h \in grants :
    (Author(g.msg) = Author(h.msg) /\ g.msg # h.msg /\ g.at <= h.at) =>
      h.at - g.at >= Interval - Stall

\* An undo deletes a response to its own author in its own channel, read the
\* clock before the window over that response closed, and no two undos delete
\* the same response.
UndoTakesItsOwn ==
  \A m \in undone :
    LET r == target[m] IN
    /\ Key(m) = Key(r)
    /\ clock[m] < clock[r] + Window
    /\ \A n \in undone : target[n] = r => n = m

\* What is posted is the trigger as it was when the message came, or as it was
\* edited since; a trigger deleted before is not played, however stale the
\* cached candidates.
ResponseIsFresh ==
  \A m \in posts :
    LET then == atArrival[m][fired[m].trigger] IN
    then.live /\ fired[m].version >= then.version

=============================================================================
