------------------------------- MODULE MCCrawl -------------------------------
(* A URL that depends on the resolver, which fails, answers, or answers a    *)
(* private address too, and one that is refused whatever it answers.          *)
EXTENDS Crawler

CONSTANTS c1, c2, asset

PlainUrl == [long |-> FALSE, parses |-> TRUE, http |-> TRUE, credentials |-> FALSE,
             allowedPort |-> TRUE, host |-> "name"]

\* The page of the other crawl is its document.
MCAsks == [c \in Crawls |-> IF c = c1 THEN Subresources ELSE {}]

MCUrls == {PlainUrl, [PlainUrl EXCEPT !.host = "mapped-other"]}
MCAnswers == {{}, {"v4-unicast"}, {"v4-unicast", "v6-other"}}
=============================================================================
