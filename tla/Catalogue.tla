------------------------------ MODULE Catalogue ------------------------------
(* The commands of the Discord client, as they are defined: what each is    *)
(* called, what it takes, and whether it is acknowledged before it runs and *)
(* answered to its invoker only.                                            *)
EXTENDS Commands

Arg(name, type, required) == [name |-> name, type |-> type, required |-> required]

Id == Arg("id", "string", TRUE)

\* A command without a group; those of a group have one put in.
Flat(name, aliases, args, slow, ephemeral, handler) ==
  [name |-> name, aliases |-> aliases, args |-> args, group |-> Empty, sub |-> Empty,
   slow |-> slow, ephemeral |-> ephemeral, handler |-> handler]

Under(group, sub, c) == [c EXCEPT !.group = group, !.sub = sub]

\* What all commands of these groups have: slow and, but for one, ephemeral.
Private(name, aliases, args, handler) == Flat(name, aliases, args, TRUE, TRUE, handler)

triggerAddCommand ==
  Under("trigger", "add",
    Private("triggeradd", <<"triggercreate">>,
      <<Arg("phrase", "string", TRUE), Arg("reply", "string", FALSE),
        Arg("file", "string", FALSE), Arg("chance", "int", FALSE),
        Arg("mode", "string", FALSE)>>, "addTrigger"))

triggerDelCommand ==
  Under("trigger", "del", Private("triggerdel", <<"triggerremove">>, <<Id>>, "deleteTrigger"))

triggerModCommand ==
  Under("trigger", "mod",
    Private("triggermod", <<"triggeredit">>,
      <<Id, Arg("phrase", "string", FALSE), Arg("reply", "string", FALSE),
        Arg("file", "string", FALSE), Arg("chance", "int", FALSE),
        Arg("mode", "string", FALSE)>>, "modifyTrigger"))

triggerListCommand ==
  Under("trigger", "list",
    Private("triggers", <<"triggerlist">>,
      <<Arg("search", "string", FALSE), Arg("all", "bool", FALSE),
        Arg("limit", "int", FALSE), Arg("offset", "int", FALSE)>>, "listTriggers"))

triggerInfoCommand ==
  Under("trigger", "info", Private("triggerinfo", <<>>, <<Id>>, "triggerInfo"))

triggerStatsCommand ==
  Under("trigger", "stats",
    Private("triggerstats", <<>>,
      <<Arg("kind", "string", FALSE), Arg("limit", "int", FALSE)>>, "triggerStats"))

\* The one of its group whose answer the channel sees.
triggerExecCommand ==
  Under("trigger", "exec",
    Flat("triggerexec", <<"triggerbyid">>, <<Id>>, TRUE, FALSE, "execTrigger"))

remindCommand ==
  Under("reminder", "add",
    Private("remind", <<"remindme", "reminderadd">>,
      <<Arg("when", "string", TRUE), Arg("message", "string", TRUE),
        Arg("repeat", "string", FALSE)>>, "remind"))

remindersCommand ==
  Under("reminder", "list", Private("reminders", <<>>, <<>>, "listReminders"))

reminderInfoCommand ==
  Under("reminder", "info",
    Private("reminderinfo", <<"reminderdetails">>, <<Id>>, "reminderInfo"))

reminderDelCommand ==
  Under("reminder", "del",
    Private("reminderdel", <<>>, <<Arg("ids", "string", TRUE)>>, "deleteReminders"))

reminderModCommand ==
  Under("reminder", "mod",
    Private("remindermod", <<>>,
      <<Id, Arg("when", "string", TRUE), Arg("message", "string", TRUE),
        Arg("repeat", "string", FALSE)>>, "modifyReminder"))

pingCommand == Flat("ping", <<>>, <<>>, TRUE, FALSE, "ping")

infoCommand == Flat("info", <<>>, <<>>, FALSE, FALSE, "info")

helpCommand ==
  Flat("help", <<>>, <<Arg("command", "string", FALSE)>>, FALSE, TRUE, "help")

registerCommand == Private("register", <<>>, <<>>, "register")

userInfoCommand == Private("userinfo", <<>>, <<>>, "userInfo")

localeCommand == Private("locale", <<>>, <<Arg("locale", "string", TRUE)>>, "setLocale")

timezoneCommand ==
  Private("timezone", <<>>, <<Arg("timezone", "string", TRUE)>>, "setTimezone")

\* Its alias is in Japanese.
healthCheckCommand ==
  Flat("healthcheck", <<"herusuchekku">>, <<>>, TRUE, FALSE, "healthCheck")

numberCommand ==
  Flat("number", <<>>, <<Arg("lower", "int", FALSE), Arg("upper", "int", FALSE)>>,
       TRUE, FALSE, "number")

\* Each under its Finnish forms too, the translated name once.
digitRollCommands ==
  LET Roll(name, aliases) == Flat(name, aliases, <<>>, TRUE, FALSE, "digitRoll")
  IN <<Roll("doubles", <<"tuplat", "tuplil", "tuplilla">>),
       Roll("triples", <<"triplat", "triploil", "triploilla">>),
       Roll("quads", <<"quadeil", "quadeilla", "quadit">>),
       Roll("quints", <<"quinteil", "quinteilla", "quintit">>),
       Roll("sexts", <<"sexteil", "sexteilla", "sextit">>)>>

commandDefinitions ==
  <<healthCheckCommand, helpCommand, infoCommand, localeCommand, numberCommand,
    pingCommand, registerCommand, remindCommand, remindersCommand, reminderDelCommand,
    reminderInfoCommand, reminderModCommand, timezoneCommand, triggerAddCommand,
    triggerDelCommand, triggerExecCommand, triggerInfoCommand, triggerListCommand,
    triggerModCommand, triggerStatsCommand, userInfoCommand>> \o digitRollCommands
=============================================================================
