--------------------------- MODULE MCExportCommit ---------------------------
(* Small instances of ExportCommit.                                        *)
EXTENDS ExportCommit, TLC

CONSTANTS u1, u2, a1, a2, b1

\* Two pages whose contents never coincide; the first one changes.
DisjointContents == (u1 :> {a1, a2}) @@ (u2 :> {b1})

\* Two pages that may serve the same content.
SharedContents == (u1 :> {a1}) @@ (u2 :> {a1})
=============================================================================
