------------------------------ MODULE Commands ------------------------------
(***************************************************************************)
(* The command registry: definitions are registered one by one at startup, *)
(* any collision aborts it, and what is registered is then found by name,  *)
(* by alias and by group and subcommand, from chat words and from Discord's *)
(* application commands, which are generated from it.                      *)
(*                                                                         *)
(* A name is written without blanks around it, which Discord refuses.      *)
(***************************************************************************)
EXTENDS Naturals, FiniteSets, SequencesExt

CONSTANTS
  Definitions,  \* the definitions a build may have: sequences of commands
  Folded,       \* strings.ToLower, on the names there are
  Sorted,       \* the commands' names in order
  Described,    \* the groups commandGroupDescriptions has
  MaxOptions,   \* maxOptionsPerCommand
  Empty         \* no group, no subcommand, no handler

Types == {"string", "int", "bool"}

Names == DOMAIN Folded

Command ==
  [name : Names, aliases : Seq(Names),
   args : Seq([name : Names, type : Types, required : BOOLEAN]),
   group : Names \cup {Empty}, sub : Names \cup {Empty},
   slow : BOOLEAN, ephemeral : BOOLEAN, handler : STRING \cup {Empty}]

ASSUME NamesAssumption ==
  /\ Folded \in [Names -> Names] /\ Empty \notin Names
  /\ Definitions \subseteq Seq(Command) /\ Sorted \in Seq(Names)
  /\ \A d \in Definitions : \A i \in DOMAIN d :
       d[i].group # Empty => d[i].name \in ToSet(Sorted)

VARIABLES
  pending,   \* the definitions not registered yet
  registry,  \* the commands registered, in order
  startup    \* "registering", "serving" or "aborted"

registryVars == <<pending, registry, startup>>

-----------------------------------------------------------------------------
(* The registry.                                                           *)

fold(name) == IF name = Empty THEN Empty ELSE Folded[name]

\* A command's name and aliases, folded, in order.
FoldedNames(c) ==
  LET all == <<c.name>> \o c.aliases IN [i \in DOMAIN all |-> fold(all[i])]

NameSet(c) == ToSet(FoldedNames(c))

commands == ToSet(registry)

\* registry.canonical and registry.groups
Canonical == UNION {NameSet(c) : c \in commands}
Groups == {fold(c.group) : c \in commands} \ {Empty}

\* validateArgs: names differ, and no required argument follows an optional one.
validateArgs(c) ==
  \A i, j \in DOMAIN c.args : i < j =>
    /\ fold(c.args[i].name) # fold(c.args[j].name)
    /\ c.args[j].required => c.args[i].required

\* validateGrouping: a group and a subcommand, or neither.
validateGrouping(c) == c.group = Empty <=> c.sub = Empty

\* Mutant of Accepts: a key may be a group's, which it then hides.
AcceptsGroupName(c) ==
  /\ c.handler # Empty /\ validateArgs(c) /\ validateGrouping(c)
  /\ Cardinality(NameSet(c)) = Len(FoldedNames(c))
  /\ NameSet(c) \cap (Canonical \cup {fold(c.group)}) = {}
  /\ c.group # Empty =>
       /\ fold(c.group) \notin Canonical
       /\ \A d \in commands : <<fold(d.group), fold(d.sub)>> # <<fold(c.group), fold(c.sub)>>

\* Register refuses a command that collides with one registered.
Accepts(c) ==
  /\ c.handler # Empty /\ validateArgs(c) /\ validateGrouping(c)
  /\ Cardinality(NameSet(c)) = Len(FoldedNames(c))
  /\ NameSet(c) \cap (Canonical \cup Groups \cup {fold(c.group)}) = {}
  /\ c.group # Empty =>
       /\ fold(c.group) \notin Canonical
       /\ \A d \in commands : <<fold(d.group), fold(d.sub)>> # <<fold(c.group), fold(c.sub)>>

\* Lookup: the commands a name stands for, one or none.
Lookup(name) == {c \in commands : fold(name) \in NameSet(c)}

\* ResolveChat: a flat name wins; failing that, a group and a subcommand, which
\* is the first word.  The words left over are the arguments.
ResolveChat(name, words) ==
  LET Members == IF words = <<>> THEN {}
                 ELSE {c \in commands : c.group # Empty /\ fold(c.group) = fold(name)
                                        /\ fold(c.sub) = fold(words[1])}
  IN IF Lookup(name) # {}
       THEN {[command |-> c, words |-> words] : c \in Lookup(name)}
       ELSE {[command |-> c, words |-> Tail(words)] : c \in Members}

-----------------------------------------------------------------------------
(* Application commands.                                                   *)

Grouped(c) == c.group # Empty

\* applicationCommands: one for each command without a group, and one for each
\* group, spelt as the first of its commands by name has it.
Leads(c) ==
  LET Place(d) == CHOOSE i \in DOMAIN Sorted : Sorted[i] = d.name
  IN \A d \in commands : fold(d.group) = fold(c.group) => Place(c) <= Place(d)

applicationCommands ==
  {[name |-> c.name, subs |-> {}] : c \in {d \in commands : ~Grouped(d)}}
  \cup {[name |-> c.group,
         subs |-> {d.sub : d \in {e \in commands : fold(e.group) = fold(c.group)}}]
          : c \in {d \in commands : Grouped(d) /\ Leads(d)}}

\* validateApplicationCommands, lengths aside: lower case, a description, and no
\* more options than Discord takes.
validateApplicationCommands ==
  /\ \A a \in applicationCommands :
       /\ fold(a.name) = a.name /\ Cardinality(a.subs) <= MaxOptions
       /\ a.subs # {} => a.name \in Described
       /\ \A s \in a.subs : fold(s) = s
  /\ \A c \in commands : /\ Len(c.args) <= MaxOptions
                         /\ \A i \in DOMAIN c.args : fold(c.args[i].name) = c.args[i].name

\* resolveApplicationCommand: a command of that name, or else the group's
\* command that the subcommand names.
resolveApplicationCommand(name, sub) ==
  IF Lookup(name) # {} THEN Lookup(name)
  ELSE IF fold(name) \notin Groups \/ sub = Empty THEN {}
  ELSE {r.command : r \in ResolveChat(name, <<sub>>)}

-----------------------------------------------------------------------------
(* Startup.                                                                *)

RegistryInit ==
  /\ pending \in Definitions
  /\ registry = <<>>
  /\ startup = "registering"

\* A refusal is log.Z.Fatal.
Register ==
  /\ startup = "registering" /\ pending # <<>>
  /\ IF Accepts(Head(pending))
       THEN registry' = Append(registry, Head(pending)) /\ UNCHANGED startup
       ELSE startup' = "aborted" /\ UNCHANGED registry
  /\ pending' = Tail(pending)

\* The spelling a group was first registered with.
FirstSpelt(c) == registry[CHOOSE i \in DOMAIN registry :
                            /\ fold(registry[i].group) = fold(c.group)
                            /\ \A j \in 1 .. i - 1 : fold(registry[j].group) # fold(c.group)].group

\* initCommands, after the last: groups have descriptions, and what Discord is
\* to be told passes its limits.
Serve ==
  /\ startup = "registering" /\ pending = <<>>
  /\ startup' = IF /\ \A c \in commands : Grouped(c) => FirstSpelt(c) \in Described
                   /\ validateApplicationCommands
                  THEN "serving" ELSE "aborted"
  /\ UNCHANGED <<pending, registry>>

RegistryNext == Register \/ Serve

-----------------------------------------------------------------------------
(* Arguments.  A word is known by what it parses as: "word", "flag", any    *)
(* "number", or the "digit" that is a number and a truth value.            *)

WordKinds == {"word", "flag", "number", "digit"}

\* parseArg
Parses(type, w) ==
  \/ type = "string"
  \/ type = "int" /\ w \in {"number", "digit"}
  \/ type = "bool" /\ w \in {"flag", "digit"}

\* BindNamed, on values of the declared types: what is required is there.
BindsNamed(c, given) ==
  \A i \in DOMAIN c.args : c.args[i].required => c.args[i].name \in given

\* Bind: by position; words past the last argument are ignored.
Binds(c, words) ==
  LET n == IF Len(words) < Len(c.args) THEN Len(words) ELSE Len(c.args) IN
  /\ \A i \in 1 .. n : Parses(c.args[i].type, words[i])
  /\ BindsNamed(c, {c.args[i].name : i \in 1 .. n})

-----------------------------------------------------------------------------
\* When the bot begins to serve, each way to name a command leads to it and to no
\* other, with the same words left for its arguments: its name and aliases, its
\* group and subcommand in chat, and the application command Discord offers for
\* it.
ResolvedAlike ==
  LET offered == applicationCommands IN
  \A c \in commands :
    /\ \A n \in {c.name} \cup ToSet(c.aliases), words \in {<<>>, <<"word">>} :
         ResolveChat(n, words) = {[command |-> c, words |-> words]}
    /\ Grouped(c) => /\ ResolveChat(c.group, <<c.sub, "word">>)
                          = {[command |-> c, words |-> <<"word">>]}
                     /\ resolveApplicationCommand(c.group, c.sub) = {c}
    /\ ~Grouped(c) => resolveApplicationCommand(c.name, Empty) = {c}
    /\ Cardinality({a \in offered :
                      IF Grouped(c) THEN fold(a.name) = fold(c.group) /\ c.sub \in a.subs
                      ELSE a.name = c.name /\ a.subs = {}}) = 1

NamesResolveAlike ==
  [][startup' = "serving" /\ startup # "serving" => ResolvedAlike]_registryVars
=============================================================================
