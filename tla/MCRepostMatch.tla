----------------------------- MODULE MCRepostMatch -----------------------------
(* The repost index, and beside it the identity of the links it is asked   *)
(* about: a behaviour is of one or of the other.                           *)
EXTENDS MCRepostIndex, Canonical

VARIABLE part

matchVars == <<vars, linkVars, part>>

-----------------------------------------------------------------------------
Web(host, path, query) ==
  [scheme |-> "https", capitals |-> FALSE, userinfo |-> FALSE, host |-> host,
   port |-> "", path |-> path, slashes |-> 0, query |-> query,
   fragment |-> FALSE, opens |-> <<>>, ending |-> <<>>]

At(host, path) == Web(host, path, <<>>)

YouTube == <<"youtube", "com">>
Reddit  == <<"reddit", "com">>
Forum   == <<"forum", "example">>

\* Posts of every known source under their several names, and pages that only a
\* careful rule keeps apart: by a query, by a path that looks like a known one.
MCForms ==
  [video |-> {Web(YouTube, <<"watch">>, <<<<"v", "X">>>>), At(<<"youtu", "be">>, <<"X">>),
              At(YouTube, <<"shorts", "X">>), At(<<"youtube-nocookie", "com">>, <<"embed", "X">>),
              Web(<<"m", "youtube", "com">>, <<"watch">>, <<<<"v", "X">>>>)},
   other |-> {At(<<"youtu", "be">>, <<"Y">>)},
   channel |-> {At(YouTube, <<"@u", "live">>)},
   status |-> {At(<<"x", "com">>, <<"u", "status", "T">>),
               At(<<"twitter", "com">>, <<"i", "status", "T", "photo", "1">>),
               At(<<"nitter", "example">>, <<"u", "status", "T">>)},
   profile |-> {At(<<"x", "com">>, <<"status">>)},
   thread |-> {At(Reddit, <<"r", "sub", "comments", "R", "slug">>),
               At(<<"old", "reddit", "com">>, <<"r", "sub", "comments", "R">>),
               At(<<"redd", "it">>, <<"R">>)},
   shared |-> {At(Reddit, <<"r", "sub", "s", "K">>)},
   index |-> {At(Reddit, <<"r", "s", "wiki", "index">>)},
   faq |-> {At(Reddit, <<"r", "s", "wiki", "faq">>)},
   stream |-> {At(<<"twitch", "tv">>, <<"videos", "V">>)},
   clip |-> {At(<<"twitch", "tv">>, <<"ch", "clip", "C">>),
             At(<<"clips", "twitch", "tv">>, <<"C">>)},
   dance |-> {At(<<"tiktok", "com">>, <<"@u", "video", "D">>)},
   short |-> {At(<<"vm", "tiktok", "com">>, <<"S">>)},
   picture |-> {At(<<"instagram", "com">>, <<"p", "I">>),
                At(<<"ddinstagram", "com">>, <<"reel", "I">>)},
   skeet |-> {At(<<"bsky", "app">>, <<"profile", "h", "post", "B">>)},
   skeet2 |-> {At(<<"bsky", "app">>, <<"profile", "g", "post", "B">>)},
   topic1 |-> {Web(Forum, <<"viewtopic">>, <<<<"f", "1">>, <<"t", "1">>>>)},
   topic2 |-> {Web(Forum, <<"viewtopic">>, <<<<"f", "1">>, <<"t", "2">>>>)},
   front |-> {At(Forum, <<>>)},
   article |-> {[At(<<"wiki", "example">>, <<"Foo_(bar">>)
                   EXCEPT !.opens = <<")">>, !.ending = <<")">>]},
   alternate |-> {[At(Forum, <<>>) EXCEPT !.port = "8443"]},
   login |-> {[At(Forum, <<"private">>) EXCEPT !.userinfo = TRUE]},
   internal |-> {At(<<"docs", "intra", "example">>, <<"page">>)},
   deeplink |-> {At(<<"canary", "discord", "com">>, <<"channels", "1", "2", "3">>)},
   room |-> {At(<<"matrix", "to">>, <<>>)}]

MCPages == DOMAIN MCForms

MCUnindexed == {"login", "internal", "deeplink", "room"}

MCExcludedHosts == {<<"intra", "example">>}

-----------------------------------------------------------------------------
\* A message nobody links in.
AtRest ==
  /\ page = "front" /\ link = At(Forum, <<>>) /\ tail = <<>>
  /\ offered = Unposted /\ keys = <<>>

MCInit ==
  \/ part = "index" /\ Init /\ AtRest
  \/ part = "links" /\ Init /\ LinkInit

MCNext ==
  \/ part = "index" /\ Next /\ UNCHANGED <<linkVars, part>>
  \/ part = "links" /\ LinkNext /\ UNCHANGED <<vars, part>>

MCSpec == MCInit /\ [][MCNext]_matchVars

=============================================================================
