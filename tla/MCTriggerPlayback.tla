------------------------- MODULE MCTriggerPlayback -------------------------
(* Bounds for TLC: messages come and play triggers, or users call the      *)
(* trigger service, or a command is given; a script for one part leaves    *)
(* the others idle.                                                        *)
EXTENDS TriggerPlayback, TriggerService, Interactions

CONSTANTS m1, m2, m3, u1, u2, c1, a1, a2, a3, g1, g2, ph, bad, f1

Writes(u, k) == [author |-> u, channel |-> c1, kind |-> k]

Script(a, b, c) == (m1 :> a) @@ (m2 :> b) @@ (m3 :> c)

Silent == Script(None, None, None)

\* Two asked for by one author; two responses and an undo; one response and
\* two undos; an undo by another, and a message that is no attempt.
MCScripts ==
  {Script(Writes(u1, "mention"), Writes(u1, "mention"), None),
   Script(Writes(u1, "plain"), Writes(u1, "plain"), Writes(u1, "undo")),
   Script(Writes(u1, "plain"), Writes(u1, "undo"), Writes(u1, "undo")),
   Script(Writes(u1, "mention"), Writes(u2, "undo"), None),
   Script(Writes(u1, "bare"), Writes(u2, "mention"), None),
   Silent}

-----------------------------------------------------------------------------
Blank == [op |-> "list", user |-> u1, origin |-> g1, guild |-> Nil, id |-> Nil,
          ref |-> FALSE, mine |-> FALSE, phrase |-> Nil, mode |-> Nil,
          reply |-> Nil, file |-> Nil]

CallBy(op, user, origin) == [Blank EXCEPT !.op = op, !.user = user, !.origin = origin]
CallOn(op, user, origin, t) == [CallBy(op, user, origin) EXCEPT !.id = t]

Three(a, b, c) == (a1 :> a) @@ (a2 :> b) @@ (a3 :> c)

NewRow(owner, scope, created, file) ==
  [phrase |-> ph, mode |-> "any", reply |-> file = Nil, file |-> file, owner |-> owner,
   scope |-> scope, created |-> created, live |-> TRUE, version |-> 0]

\* Two created in one instant, one with a file, one of another guild.
MCTable == (1 :> NewRow(u1, {g1}, 1, Nil)) @@ (2 :> NewRow(u2, {g1}, 1, f1))
           @@ (3 :> NewRow(u1, {g2}, 2, Nil)) @@ (4 :> Nil)

\* One phrase that is no regular expression.
MCCompiles == ({ph} \X Modes) \cup ({bad} \X {"any", "exact"})

\* Two updates of one trigger; a create, an update and a delete; pages under
\* a delete and a create; and each answer under the writes it may meet.
MCAsked ==
  { Three([CallOn("update", u2, g1, 2) EXCEPT !.phrase = bad],
          [CallOn("update", u2, g1, 2) EXCEPT !.mode = "regex", !.ref = TRUE],
          [CallOn("update", u1, g1, 1) EXCEPT !.mode = "regex", !.phrase = bad]),
    Three([CallBy("create", u1, g1) EXCEPT !.phrase = ph, !.mode = "exact", !.reply = TRUE],
          [CallOn("update", u1, Nil, 1) EXCEPT !.mode = "exact"],
          CallOn("delete", u1, g2, 1)),
    Three(CallBy("list", u2, g1), CallOn("delete", u1, g1, 1),
          [CallBy("create", u1, g1) EXCEPT !.phrase = bad, !.reply = TRUE]),
    Three([CallOn("exec", u1, g1, 1) EXCEPT !.ref = TRUE], CallOn("delete", u1, g2, 1),
          CallBy("stats", u2, g1)),
    Three(CallOn("exec", u1, g1, 3), CallOn("get", u2, g1, 1),
          [CallOn("update", u2, g1, 2) EXCEPT !.reply = TRUE]),
    Three([CallBy("file", u1, g1) EXCEPT !.file = f1], CallOn("delete", u2, Nil, 2),
          [CallBy("list", u2, Nil) EXCEPT !.mine = TRUE]) }

-----------------------------------------------------------------------------
\* Commands of two groups and none that collide by name, alias, group or
\* subcommand, in either order; and those there are.
Made(name, aliases, group, sub) ==
  Under(group, sub, Flat(name, aliases, <<>>, FALSE, FALSE, "info"))

Pool ==
  {Made("find", <<>>, "trigger", "add"), Made("Twin", <<>>, "Trigger", "list"),
   Made("list", <<"twin">>, Empty, Empty), Made("add", <<"trigger">>, Empty, Empty),
   Made("trigger", <<>>, Empty, Empty), Made("twin", <<>>, "reminder", "add")}

MCDefinitions == {<<>>, commandDefinitions} \cup {<<c, d>> : c \in Pool, d \in Pool}

MCSorted == <<"find", "triggeradd", "triggerdel", "triggerexec", "triggerinfo", "triggermod",
              "triggers", "triggerstats", "remind", "reminderdel", "reminderinfo",
              "remindermod", "reminders", "Twin", "twin">>

MCFolded ==
  [n \in {"trigger", "Trigger", "reminder", "Twin", "twin", "find", "gone"}
         \cup UNION {({c.name, c.sub} \ {Empty}) \cup ToSet(c.aliases)
                       \cup {a.name : a \in ToSet(c.args)} :
                         c \in Pool \cup ToSet(commandDefinitions)} |->
     IF n = "Twin" THEN "twin" ELSE IF n = "Trigger" THEN "trigger" ELSE n]

Given(source, c, words, guild) ==
  [source |-> source,
   name |-> IF source = "slash" /\ Grouped(c) THEN c.group ELSE c.name,
   sub |-> IF source = "slash" THEN c.sub ELSE Empty,
   words |-> words, guild |-> guild, user |-> TRUE]

Fitting(c) == [i \in DOMAIN c.args |-> IF c.args[i].type = "string" THEN "word" ELSE "digit"]

Unknown(source) == [Given(source, pingCommand, <<>>, TRUE) EXCEPT !.name = "gone"]

\* Each command in a slash and in chat, in a guild and out of it; what does not
\* resolve, bind or name its user; a click on a roll.
MCRequests ==
  {Given(s, c, Fitting(c), TRUE) : s \in {"slash", "chat"}, c \in ToSet(commandDefinitions)}
  \cup {Given("slash", c, Fitting(c), FALSE) : c \in {triggerExecCommand, remindCommand}}
  \cup {Unknown(s) : s \in {"slash", "chat", "reroll"}}
  \cup {Given("reroll", digitRollCommands[1], <<>>, TRUE),
        Given("chat", numberCommand, <<"word">>, TRUE), Given("chat", remindCommand, <<"word">>, TRUE),
        [Given("slash", pingCommand, <<>>, TRUE) EXCEPT !.user = FALSE]}

-----------------------------------------------------------------------------
\* What stands by is at one of its scripts: messages where there are none, the
\* service where it is not called, a command where none is to be had.
Parts == {"messages", "calls", "commands"}

VARIABLE part

\* What registering the commands there are comes to; TLC meets it at once besides.
Started == pending = <<>> /\ registry = commandDefinitions /\ startup = "serving"

EitherInit ==
  /\ part \in Parts
  /\ Init /\ (part # "messages" <=> msg = Silent)
  /\ ServiceInit /\ (part # "calls" => asked = CHOOSE q \in MCAsked : TRUE)
  /\ RegistryInit \/ (part = "commands" /\ Started)
  /\ InteractionInit
  /\ part # "commands" => pending = <<>>

commandVars == <<registryVars, interactionVars>>

EitherNext ==
  /\ UNCHANGED part
  /\ \/ part = "messages" /\ Next /\ UNCHANGED <<serviceVars, commandVars>>
     \/ part = "calls" /\ ServiceNext /\ UNCHANGED <<vars, commandVars>>
     \/ part = "commands" /\ InteractionNext /\ UNCHANGED <<vars, serviceVars>>

EitherSpec == EitherInit /\ [][EitherNext]_<<part, vars, serviceVars, commandVars>>
=============================================================================
