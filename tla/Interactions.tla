---------------------------- MODULE Interactions ----------------------------
(***************************************************************************)
(* How a command is answered on Discord: from a slash command, a word in   *)
(* chat or the click of a re-roll button, over its handler and the calls   *)
(* that makes, to the messages the channel or the invoker gets.  Each send *)
(* and each call may fail.                                                 *)
(*                                                                         *)
(* A handler runs on a goroutine of its own and shares nothing but the     *)
(* services, so one is modelled.                                           *)
(***************************************************************************)
EXTENDS Catalogue

CONSTANTS
  Requests,    \* what may be asked
  MaxChunks,   \* bound: messages' worth of text in an answer
  MaxDeletes   \* bound: ids given to one deletion

\* What Discord sends.  name and sub: as invoked; words: the arguments, by what
\* they parse as; guild, user: whether it names one.
Asking == [source : {"slash", "chat", "reroll"}, name : STRING, sub : STRING \cup {Empty},
           words : Seq(WordKinds), guild : BOOLEAN, user : BOOLEAN]

ASSUME InteractionsAssumption == MaxChunks \in Nat \ {0} /\ MaxDeletes \in Nat \ {0}

VARIABLES
  request,  \* the command asked for, or Empty
  stage,    \* what comes next
  invoked,  \* the command it resolved to, or Empty
  ack,      \* who sees the acknowledgement of an interaction, or "none"
  left,     \* ids not yet deleted
  deleted,  \* calls that succeeded, as the handler counts them
  answer,   \* the handler's response
  sent,     \* the messages, in order
  \* History, not in the program:
  written,  \* writes the server committed
  lost,     \* of those, the ones whose answer was an error
  broken    \* whether Discord refused a message

interactionVars == <<request, stage, invoked, ack, left, deleted, answer, sent, written,
                     lost, broken>>

-----------------------------------------------------------------------------
(* Handlers.  Each checks what it was given, makes its call, and answers.   *)

Text(n, private) ==
  [chunks |-> n, file |-> FALSE, private |-> private, direct |-> FALSE]

Said(private) == {Text(1, private)}
SaidAtLength(private) == {Text(n, private) : n \in 1 .. MaxChunks}

\* DirectWhenLong
Listing == {[Text(n, TRUE) EXCEPT !.direct = TRUE] : n \in 1 .. MaxChunks}

Nothing == Text(0, FALSE)

Attachment == [Nothing EXCEPT !.file = TRUE]

Makes(call, refuses, guild, answers) ==
  [call |-> call, refuses |-> refuses, guild |-> guild, answers |-> answers,
   known |-> FALSE, each |-> FALSE, file |-> FALSE]

addTrigger == Makes("write", TRUE, TRUE, Said(TRUE))
deleteTrigger == Makes("write", FALSE, FALSE, Said(TRUE))
\* An empty change is refused.
modifyTrigger == Makes("write", TRUE, FALSE, Said(TRUE))
listTriggers == Makes("read", FALSE, FALSE, Said(TRUE) \cup Listing)
triggerInfo == Makes("read", FALSE, FALSE, SaidAtLength(TRUE))
triggerStats == Makes("read", TRUE, TRUE, SaidAtLength(TRUE))

\* A reply, or a file fetched by a second call; of a file without bytes, a text.
execTrigger ==
  [Makes("read", FALSE, TRUE, SaidAtLength(FALSE)) EXCEPT !.file = TRUE]

\* callerLocation is UTC when its call fails, so nothing depends on it.
remind == Makes("write", TRUE, FALSE, Said(TRUE))
modifyReminder == Makes("write", TRUE, FALSE, Said(TRUE))
listReminders == Makes("read", FALSE, FALSE, Said(TRUE) \cup Listing)
reminderInfo == Makes("read", FALSE, FALSE, SaidAtLength(TRUE))

\* One call for each id; the failures are counted.
deleteReminders == [Makes("write", TRUE, FALSE, Said(TRUE)) EXCEPT !.each = TRUE]

ping == Makes("read", FALSE, FALSE, Said(FALSE))
info == Makes("none", FALSE, FALSE, Said(FALSE))
help == Makes("none", TRUE, FALSE, SaidAtLength(TRUE))

\* AlreadyExists is an answer like any.
register == [Makes("write", FALSE, FALSE, Said(TRUE)) EXCEPT !.known = TRUE]
userInfo == Makes("read", FALSE, FALSE, Said(TRUE))
setLocale == Makes("write", FALSE, FALSE, Said(TRUE))
setTimezone == Makes("write", FALSE, FALSE, Said(TRUE))
healthCheck == Makes("read", FALSE, FALSE, Said(FALSE))
number == Makes("read", FALSE, FALSE, Said(FALSE))
digitRoll == Makes("read", FALSE, FALSE, Said(FALSE))

Handler ==
  [addTrigger |-> addTrigger, deleteTrigger |-> deleteTrigger,
   modifyTrigger |-> modifyTrigger, listTriggers |-> listTriggers,
   triggerInfo |-> triggerInfo, triggerStats |-> triggerStats,
   execTrigger |-> execTrigger, remind |-> remind, modifyReminder |-> modifyReminder,
   listReminders |-> listReminders, reminderInfo |-> reminderInfo,
   deleteReminders |-> deleteReminders, ping |-> ping, info |-> info, help |-> help,
   register |-> register, userInfo |-> userInfo, setLocale |-> setLocale,
   setTimezone |-> setTimezone, healthCheck |-> healthCheck, number |-> number,
   digitRoll |-> digitRoll]

Handling == Handler[invoked.handler]

\* What writes is acknowledged first; what is for its invoker alone says so in
\* every answer, unless the acknowledgement does; and only such a listing is sent
\* directly.
Fits(c) ==
  /\ c.handler \in DOMAIN Handler
  /\ Handler[c.handler].call = "write" => c.slow
  /\ c.ephemeral /\ ~c.slow =>
       ~Handler[c.handler].file /\ \A a \in Handler[c.handler].answers : a.private
  /\ \A a \in Handler[c.handler].answers : a.direct => c.ephemeral

\* A button to roll again stands under a roll.
ASSUME CatalogueAssumption ==
  /\ Empty \notin Command /\ Requests \subseteq Asking
  /\ \A d \in Definitions : \A i \in DOMAIN d :
       d[i].handler # Empty =>
         /\ Fits(d[i])
         /\ \A q \in Requests :
              q.source = "reroll" /\ fold(q.name) \in NameSet(d[i]) =>
                \A a \in Handler[d[i].handler].answers : ~a.direct

InteractionInit ==
  /\ request = Empty
  /\ stage = "idle"
  /\ invoked = Empty
  /\ ack = "none"
  /\ left = 0
  /\ deleted = 0
  /\ answer = Nothing
  /\ sent = <<>>
  /\ written = 0
  /\ lost = 0
  /\ broken = FALSE

-----------------------------------------------------------------------------
\* A message to its reader: the channel, the invoker alone, or a direct message.
\* Discord may refuse it.
Post(reader, kind, part, then, otherwise) ==
  \/ /\ sent' = Append(sent, [to |-> reader, kind |-> kind, part |-> part])
     /\ stage' = then
     /\ UNCHANGED broken
  \/ /\ broken' = TRUE
     /\ stage' = otherwise
     /\ UNCHANGED sent

Slash == request.source = "slash"
Chat == request.source = "chat"
ReRoll == request.source = "reroll"

\* handleInteraction and dispatchChatCommand: what the request resolves to, with
\* the arguments left to bind.  A re-roll is by name and carries none.
Resolved ==
  IF Chat THEN ResolveChat(request.name, request.words)
  ELSE IF Slash THEN {[command |-> c, words |-> request.words] :
                        c \in resolveApplicationCommand(request.name, request.sub)}
  ELSE {[command |-> c, words |-> <<>>] : c \in Lookup(request.name)}

\* Discord delivers to a session that serves.
Invoke ==
  /\ stage = "idle" /\ startup = "serving"
  /\ request' \in Requests
  /\ stage' = "received"
  /\ UNCHANGED <<invoked, ack, left, deleted, answer, sent, written, lost, broken>>

\* In chat, what resolves to nothing is ignored.
Dispatch ==
  /\ stage = "received"
  /\ \/ /\ Resolved = {}
        /\ stage' = IF Chat THEN "done" ELSE "stale"
        /\ UNCHANGED <<invoked, left>>
     \/ \E r \in Resolved :
          /\ invoked' = r.command
          /\ left' \in IF Handler[r.command.handler].each THEN 1 .. MaxDeletes ELSE {1}
          /\ stage' = IF ~Binds(r.command, r.words) \/ ~(Chat \/ request.user) THEN "error"
                      ELSE IF ReRoll \/ (Slash /\ r.command.slow) THEN "acknowledge"
                      ELSE "check"
  /\ UNCHANGED <<request, ack, deleted, answer, sent, written, lost, broken>>

respondStale ==
  /\ stage = "stale"
  /\ Post("invoker", "stale", 0, "done", "done")
  /\ UNCHANGED <<request, invoked, ack, left, deleted, answer, written, lost>>

AckReader == IF ReRoll THEN "click" ELSE IF invoked.ephemeral THEN "invoker" ELSE "channel"

\* Mutant of Acknowledge: the handler runs although Discord was not answered.
AcknowledgeOrNot ==
  /\ stage = "acknowledge"
  /\ stage' = "check"
  /\ \/ ack' = AckReader /\ UNCHANGED broken
     \/ broken' = TRUE /\ UNCHANGED ack
  /\ UNCHANGED <<request, invoked, left, deleted, answer, sent, written, lost>>

\* deferInteraction and deferReRoll, before the handler runs; without it, it
\* does not.
Acknowledge ==
  /\ stage = "acknowledge"
  /\ \/ ack' = AckReader /\ stage' = "check" /\ UNCHANGED broken
     \/ stage' = "done" /\ broken' = TRUE /\ UNCHANGED ack
  /\ UNCHANGED <<request, invoked, left, deleted, answer, sent, written, lost>>

\* What it was given, and where, may not do.
Check ==
  /\ stage = "check"
  /\ \/ Handling.refuses /\ stage' = "error"
     \/ Handling.guild /\ ~request.guild /\ stage' = "error"
     \/ /\ Handling.guild => request.guild
        /\ stage' = IF Handling.call = "none" THEN "answer" ELSE "call"
  /\ UNCHANGED <<request, invoked, ack, left, deleted, answer, sent, written, lost, broken>>

\* The call does what it is for and says so, fails, or has done it and fails to
\* say so.
Call ==
  /\ stage = "call"
  /\ \E does \in BOOLEAN, says \in BOOLEAN :
       /\ says => does
       /\ written' = IF does /\ Handling.call = "write" THEN written + 1 ELSE written
       /\ lost' = IF does /\ ~says /\ Handling.call = "write" THEN lost + 1 ELSE lost
       /\ deleted' = IF says THEN deleted + 1 ELSE deleted
       /\ IF Handling.each
            THEN /\ left' = left - 1
                 /\ stage' = IF left = 1 THEN "answer" ELSE "call"
            ELSE /\ \/ says /\ stage' = "answer"
                    \/ says /\ Handling.file /\ stage' = "fetch"
                    \/ ~says /\ stage' = "error"
                    \/ ~does /\ Handling.known /\ stage' = "answer"
                 /\ UNCHANGED left
  /\ UNCHANGED <<request, invoked, ack, answer, sent, broken>>

\* triggerPlaybackResponse: the whole file or an error; one without bytes is told
\* of.
Fetch ==
  /\ stage = "fetch"
  /\ \/ stage' = "error" /\ UNCHANGED answer
     \/ stage' = "reply" /\ answer' \in {Attachment} \cup Said(FALSE)
  /\ UNCHANGED <<request, invoked, ack, left, deleted, sent, written, lost, broken>>

Returns ==
  /\ stage = "answer"
  /\ answer' \in Handling.answers
  /\ stage' = "reply"
  /\ UNCHANGED <<request, invoked, ack, left, deleted, sent, written, lost, broken>>

-----------------------------------------------------------------------------
(* Answers.                                                                *)

\* The first message: the file, the text, or so much of it as one message takes.
First(split) == IF answer.file THEN "file"
                ELSE IF answer.chunks > 1 /\ ~split THEN "cut" ELSE "text"

\* respondDeferred edits the acknowledgement, which keeps its reader.
respondDeferred ==
  /\ stage = "reply" /\ Slash /\ invoked.slow
  /\ Post(ack, First(TRUE), 1,
          IF answer.chunks > 1 THEN "more" ELSE "done", "done")
  /\ UNCHANGED <<request, invoked, ack, left, deleted, answer, written, lost>>

\* Mutant of FollowUp: a follow-up is thought to inherit its reader.
FollowUpPublic ==
  /\ stage = "more"
  /\ Post("channel", "text", Len(sent) + 1,
          IF Len(sent) + 1 < answer.chunks THEN "more" ELSE "done", "done")
  /\ UNCHANGED <<request, invoked, ack, left, deleted, answer, written, lost>>

\* The rest of a long answer, until a message is refused.
FollowUp ==
  /\ stage = "more"
  /\ Post(IF invoked.ephemeral THEN "invoker" ELSE "channel", "text", Len(sent) + 1,
          IF Len(sent) + 1 < answer.chunks THEN "more" ELSE "done", "done")
  /\ UNCHANGED <<request, invoked, ack, left, deleted, answer, written, lost>>

\* respondCommand: in one message, cut if need be.
respondCommand ==
  /\ stage = "reply" /\ Slash /\ ~invoked.slow
  /\ Post(IF answer.private THEN "invoker" ELSE "channel", First(FALSE), 1, "done", "done")
  /\ UNCHANGED <<request, invoked, ack, left, deleted, answer, written, lost>>

\* respondReRoll: a message of its own, or else an error to who clicked.
respondReRoll ==
  /\ stage = "reply" /\ ReRoll
  /\ Post("channel", First(FALSE), 1, "done", "error")
  /\ UNCHANGED <<request, invoked, ack, left, deleted, answer, written, lost>>

Direct == answer.direct /\ answer.chunks > 1

\* respondChat
respondChat ==
  /\ stage = "reply" /\ Chat
  /\ IF Direct
       THEN /\ stage' \in {"direct", "undelivered"}
            /\ broken' = (broken \/ stage' = "undelivered")
            /\ UNCHANGED sent
       ELSE Post("channel", First(FALSE), 1, "done", "done")
  /\ UNCHANGED <<request, invoked, ack, left, deleted, answer, written, lost>>

\* sendDMChunks, once the channel for it is open.
sendDMChunks ==
  /\ stage = "direct"
  /\ Post("direct", "text", Len(sent) + 1,
          IF Len(sent) + 1 < answer.chunks THEN "direct" ELSE "pointer", "undelivered")
  /\ UNCHANGED <<request, invoked, ack, left, deleted, answer, written, lost>>

\* respondChatDirect tells the channel where the answer went, or that it could
\* not.
respondChatDirect ==
  /\ stage \in {"pointer", "undelivered"}
  /\ Post("channel", stage, 0, "done", "done")
  /\ UNCHANGED <<request, invoked, ack, left, deleted, answer, written, lost>>

\* An error goes where the acknowledgement has its reader, or to the invoker; in
\* chat there is only the channel.
respondError ==
  /\ stage = "error"
  /\ Post(IF Chat THEN "channel" ELSE IF ack = "channel" THEN "channel" ELSE "invoker",
          "error", 0, "done", "done")
  /\ UNCHANGED <<request, invoked, ack, left, deleted, answer, written, lost>>

InteractionNext ==
  \/ RegistryNext /\ UNCHANGED interactionVars
  \/ /\ \/ Invoke \/ Dispatch \/ respondStale
        \/ Acknowledge \/ Check \/ Call \/ Fetch \/ Returns
        \/ respondDeferred \/ FollowUp \/ respondCommand \/ respondReRoll \/ respondChat
        \/ sendDMChunks \/ respondChatDirect \/ respondError
     /\ UNCHANGED registryVars

InteractionSpec ==
  RegistryInit /\ InteractionInit /\ [][InteractionNext]_<<registryVars, interactionVars>>

-----------------------------------------------------------------------------
(* Properties.                                                             *)

Shown(kind) == {i \in DOMAIN sent : sent[i].kind = kind}

\* What a command declares to be for its invoker is seen by nobody else on the
\* slash surface, in any number of messages and on every failure; a re-roll's
\* failures are its clicker's; and a long listing never stands in a channel.
PrivateStaysPrivate ==
  \A i \in DOMAIN sent : sent[i].to = "channel" =>
    /\ Slash => ~invoked.ephemeral
    /\ ReRoll => sent[i].kind # "error"
    /\ Direct => sent[i].kind \notin {"text", "cut"}

\* A command that has finished, with no message refused, has shown an error, or a
\* cut text, or the whole of its answer in order and once, and nothing besides.
\* What it says was done was done; and nothing is done for an interaction that
\* Discord was not answered on.
AnswersAreWholeAndTrue ==
  /\ (written > 0 /\ ~Chat) => ack # "none"
  /\ (invoked # Empty /\ Shown("text") # {} /\ Handling.call = "write") =>
       /\ deleted <= written
       /\ written = 0 => Handling.known \/ Handling.each
  /\ (stage = "done" /\ ~broken /\ invoked # Empty) =>
       \/ Len(sent) = 1 /\ (Shown("error") \cup Shown("cut") \cup Shown("file")) # {}
       \/ /\ \A n \in 1 .. answer.chunks :
               n \in DOMAIN sent /\ sent[n].kind = "text" /\ sent[n].part = n
          /\ \A n \in DOMAIN sent : n > answer.chunks => sent[n].kind = "pointer"
=============================================================================
