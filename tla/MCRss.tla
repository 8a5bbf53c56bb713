------------------------------- MODULE MCRss --------------------------------
(* Instances of the RSS subsystem for TLC.                                 *)
EXTENDS RssProperties

CONSTANTS a, b

Both == {a, b}
OnlyA == {a}
FeedsAB == {<<a>>, <<a, b>>}
FeedA == {<<a>>}
AcceptAllOrB == {{a, b}, {b}}
AcceptA == {{a}}
PublishLatest == {"latest"}
BothPolicies == {"skip", "latest"}

\* Every operation but the re-evaluation of keywords.
OpsSource == {"create", "edit", "feed", "delete", "enable", "check", "retry",
              "pause"}
\* The keyword operations, without changes of the feed URL.
OpsRevise == {"create", "edit", "retry", "reevaluate"}
\* Two subscriptions that nobody touches compete for the send lock.
OpsTwo == {"create"}
\* The least that leads to the violations.
OpsOldFeed == {"create", "feed", "reevaluate"}
OpsReuse == {"create", "delete"}
=============================================================================
