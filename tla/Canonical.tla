------------------------------ MODULE Canonical ------------------------------
(***************************************************************************)
(* The identity of a link: how the Discord client takes the links out of a *)
(* message, and how urlnorm maps each to the source_key the repost index   *)
(* is searched by.                                                         *)
(*                                                                         *)
(* A link is a record: its host as labels, its path as segments and the    *)
(* slashes after them, its query as a sequence of pairs.  Letter case is   *)
(* one flag for scheme and host, the only parts it is lowered in.          *)
(***************************************************************************)
EXTENDS SequencesExt, Integers

CONSTANTS
  Pages,           \* what a link may lead to
  Forms,           \* per page: the links it is known by
  Unindexed,       \* the pages no repost index may hold
  ExcludedHosts,   \* REPOST_EXCLUDED_HOSTS
  MaxCandidates,   \* maxRepostCandidates
  MaxAttachments   \* bound: attachments of a message

ASSUME CandidatesAssumption == MaxCandidates \in Nat \ {0} /\ MaxAttachments \in Nat

\* What url.Parse makes of a link, and the characters it ends in, with those of
\* its closers that it opens.
Link == [scheme : {"http", "https"}, capitals : BOOLEAN, userinfo : BOOLEAN,
         host : Seq(STRING), port : STRING, path : Seq(STRING), slashes : Nat,
         query : Seq(STRING \X STRING), fragment : BOOLEAN,
         opens : Seq(STRING), ending : Seq(STRING)]

VARIABLES
  page,     \* what the link of this behaviour leads to
  link,     \* the link, as the last of those who shared it wrote it
  tail,     \* the sentence's own characters right after it
  offered,  \* the candidates of the message, once it is posted
  keys      \* what the server made of each link of them

linkVars == <<page, link, tail, offered, keys>>

-----------------------------------------------------------------------------
(* Taking links out of a text.                                             *)

Sentence == {".", ",", "!", "?", ":", ";", "quote"}
Closers  == {")", "]"}

Times(chars, c) == Cardinality({n \in DOMAIN chars : chars[n] = c})

\* Mutant of Stays: the brackets of a link are not counted.
StaysUncounted(opens, chars) ==
  /\ Last(chars) \notin Sentence
  /\ Last(chars) \in Closers => Times(opens, Last(chars)) > 0

\* The last of these characters belongs to the link.  A closer does when the
\* link opens as many as it closes.
Stays(opens, chars) ==
  LET c == Last(chars)
  IN /\ c \notin Sentence
     /\ c \in Closers => Times(opens, c) >= Times(chars, c)

\* What is left of the characters a link ends in.
Trimmed(opens, chars) ==
  LET kept == {n \in DOMAIN chars : Stays(opens, SubSeq(chars, 1, n))}
  IN SubSeq(chars, 1, IF kept = {} THEN 0 ELSE CHOOSE n \in kept : \A k \in kept : k <= n)

\* ExtractURLs: the links in order, each spelling once.
Extracted(text) ==
  LET read == [n \in DOMAIN text |->
                 [text[n].link EXCEPT
                    !.ending = Trimmed(text[n].link.opens, @ \o text[n].tail)]]
      IsWeb(l) == l.scheme \in {"http", "https"}
      First(n) == \A k \in 1 .. n - 1 : read[k] # read[n]
      Fresh == {n \in DOMAIN read : IsWeb(read[n]) /\ First(n)}
  IN [n \in 1 .. Cardinality(Fresh) |->
        read[CHOOSE k \in Fresh : Cardinality({j \in Fresh : j <= k}) = n]]

\* repostCandidates: the links, then the attachments, up to the limit.
Offered(text, attachments) ==
  LET all == [n \in DOMAIN Extracted(text) |-> [url |-> Extracted(text)[n]]]
             \o [n \in 1 .. attachments |-> [attachment |-> n]]
  IN SubSeq(all, 1, IF Len(all) < MaxCandidates THEN Len(all) ELSE MaxCandidates)

-----------------------------------------------------------------------------
(* Stage one: the parts that never carry identity.                         *)

Supported(l) == l.scheme \in {"http", "https"} /\ ~l.userinfo

DefaultPort == [http |-> "80", https |-> "443"]

\* Letter case, one "www.", the default port, one slash and the fragment go.
Generic(l) ==
  [l EXCEPT !.capitals = FALSE,
            !.host     = IF Len(@) > 1 /\ Head(@) = "www" THEN Tail(@) ELSE @,
            !.port     = IF @ = DefaultPort[l.scheme] THEN "" ELSE @,
            !.slashes  = IF @ > 0 THEN @ - 1 ELSE 0,
            !.fragment = FALSE]

DeepLinkHosts == {<<"discord", "com">>, <<"discordapp", "com">>,
                  <<"ptb", "discord", "com">>, <<"canary", "discord", "com">>}

IsExcluded(l) == \E h \in ExcludedHosts : IsSuffix(h, l.host)

IsPlatformDeepLink(l) ==
  \/ /\ l.host \in DeepLinkHosts
     /\ IsPrefix(<<"channels">>, l.path)
     /\ Len(l.path) > 1 \/ l.slashes > 0
  \/ l.host = <<"matrix", "to">>

-----------------------------------------------------------------------------
(* Stage two: the rules of the known hosts.  A rule gives the segments an  *)
(* id is made of, none when the shape of the link is not one it knows.     *)

\* The segment after the marker at a place, counted from 0.
SegmentAfterAt(path, marker, index) ==
  IF index + 1 < Len(path) /\ path[index + 1] = marker THEN <<path[index + 2]>> ELSE <<>>

FirstSegment(path) == IF path = <<>> THEN <<>> ELSE <<path[1]>>

SegmentUnder(path, tops) ==
  IF Len(path) >= 2 /\ path[1] \in tops THEN <<path[2]>> ELSE <<>>

OrElse(id, other) == IF id # <<>> THEN id ELSE other

Value(pairs, name) == {pair[2] : pair \in {x \in pairs : x[1] = name}}

\* A link names its video once.
YouTubeID(path, pairs) ==
  LET named == Value(pairs, "v") \ {""}
  IN IF named # {} THEN <<CHOOSE v \in named : TRUE>>
     ELSE SegmentUnder(path, {"shorts", "live", "embed"})

BlueskyID(path) ==
  IF Len(path) >= 4 /\ path[1] = "profile" /\ path[3] = "post"
    THEN <<path[2], path[4]>> ELSE <<>>

Under(top) == {<<top, "com">>}

SourceHosts ==
  [youtube   |-> {<<"youtube", "com">>, <<"m", "youtube", "com">>,
                  <<"music", "youtube", "com">>, <<"youtube-nocookie", "com">>},
   youtu_be  |-> {<<"youtu", "be">>},
   twitter   |-> UNION {Under(h) : h \in {"twitter", "x", "fxtwitter", "vxtwitter",
                                          "fixupx", "twittpr"}},
   reddit    |-> {<<"reddit", "com">>, <<"old", "reddit", "com">>,
                  <<"new", "reddit", "com">>, <<"np", "reddit", "com">>},
   redd_it   |-> {<<"redd", "it">>, <<"i", "redd", "it">>, <<"v", "redd", "it">>},
   twitch    |-> {<<"twitch", "tv">>},
   clips     |-> {<<"clips", "twitch", "tv">>},
   tiktok    |-> {<<"tiktok", "com">>},
   vm_tiktok |-> {<<"vm", "tiktok", "com">>, <<"vt", "tiktok", "com">>},
   instagram |-> Under("instagram") \cup Under("ddinstagram"),
   bluesky   |-> {<<"bsky", "app">>}]

\* matchHostSource: the exact host before the family of nitter mirrors.
RulesOf(host) ==
  LET exact == {s \in DOMAIN SourceHosts : host \in SourceHosts[s]}
  IN IF exact # {} THEN exact
     ELSE IF Len(host) > 1 /\ Head(host) = "nitter" THEN {"twitter"} ELSE {}

\* The source a rule names, and the id it reads.
SourceOf(rule) ==
  CASE rule = "youtu_be"  -> "youtube"
    [] rule = "redd_it"   -> "reddit"
    [] rule = "clips"     -> "twitch"
    [] rule = "vm_tiktok" -> "tiktok"
    [] OTHER              -> rule

ExtractedID(rule, path, pairs) ==
  CASE rule = "youtube"   -> YouTubeID(path, pairs)
    [] rule = "twitter"   -> SegmentAfterAt(path, "status", 1)
    [] rule = "reddit"    -> OrElse(SegmentAfterAt(path, "comments", 2),
                                    SegmentAfterAt(path, "s", 2))
    [] rule = "twitch"    -> OrElse(SegmentUnder(path, {"videos"}),
                                    SegmentAfterAt(path, "clip", 1))
    [] rule = "tiktok"    -> SegmentAfterAt(path, "video", 1)
    [] rule = "instagram" -> SegmentUnder(path, {"p", "reel", "tv"})
    [] rule = "bluesky"   -> BlueskyID(path)
    [] OTHER              -> FirstSegment(path)

-----------------------------------------------------------------------------
(* The query, and the key.                                                 *)

TrackingAlways == {"utm_source", "utm_medium", "si", "igshid", "fbclid", "gclid",
                   "ref_src", "ref", "ex", "is", "hm"}

TrackingKnownHost == {"s", "t", "feature", "app", "is_from_webapp", "sender_device"}

IsTracking(name, known) ==
  name \in TrackingAlways \/ (known /\ name \in TrackingKnownHost)

\* Sorted by name and value: how often each pair is there, and no order.
NormalizedQuery(query, known) ==
  LET kept == {query[n] : n \in {k \in DOMAIN query : ~IsTracking(query[k][1], known)}}
  IN [pair \in kept |-> Times(query, pair)]

\* The whole normalised link is its own identity where no rule reads an id.
Fallback(l, query) ==
  [source |-> "url",
   id |-> <<l.scheme, l.host, l.port, l.path, l.slashes, query, l.ending>>]

\* What the rules of its host read in a link, of the pairs its query keeps.
Identities(host, path, pairs, ending) ==
  {[source |-> SourceOf(r), id |-> ExtractedID(r, path, pairs) \o ending] :
     r \in {x \in RulesOf(host) : ExtractedID(x, path, pairs) # <<>>}}

\* The key of a link, none when it is refused or must not be indexed.
Canonicalise(l) ==
  LET generic == Generic(l)
      query   == NormalizedQuery(l.query, RulesOf(generic.host) # {})
      IDs     == Identities(generic.host, l.path, DOMAIN query, l.ending)
  IN IF ~Supported(l) \/ IsExcluded(generic) \/ IsPlatformDeepLink(generic) THEN {}
     ELSE IF IDs # {} THEN IDs ELSE {Fallback(generic, query)}

-----------------------------------------------------------------------------
(* A link travels: whoever shares it may write it another way, which leads *)
(* to the same page; at some point it stands in a message.                 *)

\* A posted message offers its link at least.
Unposted == <<>>

\* What a link ends in is its own: it closes what it opened, and no sentence.
Whole(l) ==
  /\ l.ending # <<>> => Stays(l.opens, l.ending)
  /\ \A c \in Closers : Times(l.opens, c) <= Times(l.ending, c)

\* The links a page is first known by have one key, which no other page's have.
ASSUME FormsAssumption ==
  \A p \in Pages :
    /\ Forms[p] # {}
    /\ \A l \in Forms[p] :
         /\ l \in Link /\ l.host # <<>> /\ l.slashes < 2 /\ Whole(l)
         /\ Canonicalise(l) = {} <=> p \in Unindexed
         /\ \A q \in Pages : \A m \in Forms[q] :
              IF q = p THEN Canonicalise(m) = Canonicalise(l)
              ELSE Canonicalise(m) \cap Canonicalise(l) = {}

LinkInit ==
  /\ page \in Pages
  /\ link \in Forms[page]
  /\ tail = <<>>
  /\ offered = Unposted
  /\ keys = <<>>

Known(l) == RulesOf(Generic(l).host) # {}

\* Links with another pair, unless they have one of this name.
WithPair(l, names) ==
  {[l EXCEPT !.query = Append(@, <<name, "1">>)] :
     name \in names \ {l.query[n][1] : n \in DOMAIN l.query}}

\* Ways to write a link that lead where it leads, on any host.
Rewritten(l) ==
  {[l EXCEPT !.capitals = TRUE]}
    \cup (IF Head(l.host) = "www" THEN {} ELSE {[l EXCEPT !.host = <<"www">> \o @]})
    \cup (IF l.port = "" THEN {[l EXCEPT !.port = DefaultPort[l.scheme]]} ELSE {})
    \cup {[l EXCEPT !.query = Reverse(@)]}

\* And those that would end up behind a character the link ends in itself.
Extended(l) ==
  {[l EXCEPT !.fragment = TRUE], [l EXCEPT !.slashes = 1]}
    \cup WithPair(l, {"utm_source", "ex"})

\* On a known host its own tracking carries nothing; nor does the scheme where an
\* id is read, which a page that is its own identity keeps.
KnownRewritten(l) ==
  {[l EXCEPT !.scheme = "http", !.port = ""] : x \in {k \in Canonicalise(l) : k.source # "url"}}
    \cup WithPair(l, {"t"})

Rewrite ==
  /\ offered = Unposted /\ tail = <<>>
  /\ link' \in Rewritten(link)
               \cup (IF link.ending = <<>> THEN Extended(link) ELSE {})
               \cup (IF Known(link) /\ link.ending = <<>> THEN KnownRewritten(link) ELSE {})
  /\ UNCHANGED <<page, tail, offered, keys>>

\* It closes a sentence, or stands in brackets.
Punctuate ==
  /\ offered = Unposted /\ tail = <<>>
  /\ tail' \in {<<".">>, <<")">>, <<")", ".">>, <<"!", ")">>, <<"]", ",">>}
  /\ UNCHANGED <<page, link, offered, keys>>

\* Once, or twice in one message, beside attachments.
PostLink ==
  /\ offered = Unposted
  /\ \E copies \in 1 .. 2, attachments \in 0 .. MaxAttachments :
       offered' = Offered([n \in 1 .. copies |->
                             [link |-> link, tail |-> IF n = 1 THEN tail ELSE <<>>]],
                          attachments)
  /\ UNCHANGED <<page, link, tail, keys>>

\* What the server looks a link up by, one candidate after the other.
Identify ==
  /\ offered # Unposted
  /\ Len(keys) < Len(offered)
  /\ LET candidate == offered[Len(keys) + 1]
     IN keys' = Append(keys, IF "url" \in DOMAIN candidate
                               THEN Canonicalise(candidate.url) ELSE {})
  /\ UNCHANGED <<page, link, tail, offered>>

\* Somebody takes the link out of the message, to share it again.
Reshare ==
  /\ offered # Unposted
  /\ Len(keys) = Len(offered)
  /\ offered' = Unposted /\ keys' = <<>> /\ tail' = <<>>
  /\ UNCHANGED <<page, link>>

LinkNext == Rewrite \/ Punctuate \/ PostLink \/ Identify \/ Reshare

LinkSpec == LinkInit /\ [][LinkNext]_linkVars

-----------------------------------------------------------------------------
\* The keys of the pages as they are first known.
KeysOf == [p \in Pages |-> UNION {Canonicalise(l) : l \in Forms[p]}]

\* However a link is written and wherever in a message it stands, it is offered
\* once and has the one key its page has under every name it goes by, which no
\* other page has; a page that must not be indexed has none.
OneIdentity ==
  LET all == KeysOf
      linked == {n \in DOMAIN keys : "url" \in DOMAIN offered[n]}
  IN \A n \in linked :
       /\ keys[n] = all[page]
       /\ Cardinality(keys[n]) <= 1
       /\ keys[n] = {} <=> page \in Unindexed
       /\ \A q \in Pages \ {page} : all[q] \cap keys[n] = {}
       /\ linked = {n}

=============================================================================
