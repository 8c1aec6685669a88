---------------------------- MODULE MCStoreMerge ----------------------------
EXTENDS StoreMerge, TLC

CONSTANTS p1, p2, u1, u2

\* One page is scraped by both processes, the other by one.
Mixed == (p1 :> {u1, u2}) @@ (p2 :> {u2})

\* Each page is scraped by one process.
Disjoint == (p1 :> {u1}) @@ (p2 :> {u2})

OwnHash == [u \in Urls |-> u]
=============================================================================
