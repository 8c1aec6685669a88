----------------------------- MODULE MCIngestion -----------------------------
(* Small instances of Ingestion.                                           *)
EXTENDS Ingestion

\* The third page is the first with other query parameters; the second is a
\* mirror.  The first may change between runs, the third be too large.
Mirror == <<1, 2, 1>>
MirrorServed == <<{"a", "b"}, {"a"}, {"a", "c"}>>

\* One page that may change.
Single == <<1>>
SingleServed == <<{"a", "b"}>>

\* "c" is over the size limit of 2.
Bodies == [h \in Hashes |-> CASE h = "a" -> <<1, 1>> [] h = "b" -> <<0, 2>> [] h = "c" -> <<1, 2>>]
Texts == [h \in Hashes |-> IF h = "a" THEN 2 ELSE 1]
=============================================================================
