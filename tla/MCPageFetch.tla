----------------------------- MODULE MCPageFetch -----------------------------
(* Small instances of PageFetch.                                           *)
EXTENDS PageFetch

\* Fetches share state, the permits, under Full only: one is enough for the
\* other strategies.
CompeteUnderFull ==
  [s \in Strategies |-> IF s = "Full" THEN Fetches ELSE {CHOOSE f \in Fetches : TRUE}]
=============================================================================
