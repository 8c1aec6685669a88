------------------------------ MODULE MCBatchRun ------------------------------
(* Page sizes for BatchRun.                                                *)
EXTENDS BatchRun

\* Two pages that fill the backlog together, one that fills it alone.
Sizes == <<1, 1, 2>>
=============================================================================
