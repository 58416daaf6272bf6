-------------------------- MODULE MCFeedHarvester --------------------------
(* A scheduled refresh and one asked for over HTTP that overtake each other  *)
(* at a feed that is fetched, and one refresh, scheduled or not, that goes   *)
(* through a feed read from its file and a fetched one.                      *)
EXTENDS FeedHarvester

MCSetting ==
    {[feeds |-> <<"deps.dev">>, refresh |-> {1, 2}, scheduled |-> {1}]}
    \cup [feeds: {<<"osv", "deps.dev">>}, refresh: {{1}}, scheduled: {{}, {1}}]
=============================================================================
