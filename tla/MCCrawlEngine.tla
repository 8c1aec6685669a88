---------------------------- MODULE MCCrawlEngine ----------------------------
(* Small sites for CrawlEngine.                                            *)
EXTENDS CrawlEngine

\* The seed links to 2 and 3; 3 is also linked from 2; 4 only from 3.
Shortcut == <<{2, 3}, {3}, {4}, {1}>>

\* The same with a fifth page, three links away from the seed.
Deeper == <<{2, 3}, {3}, {4}, {1, 5}, {}>>

\* A chain of three pages.
Chain == <<{2}, {3}, {}>>

\* The seed links to two pages.
Fork == <<{2, 3}, {}, {1}>>
=============================================================================
