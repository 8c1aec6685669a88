---------------------------- MODULE DurableExport ----------------------------
(***************************************************************************)
(* What the export phase promises, without its mechanism: lines are only   *)
(* ever added to the output, a page is acknowledged (skipped by every later*)
(* resume) only when a line of it is in the output, and an acknowledgement *)
(* is never taken back.  Pages acknowledged at the start come from the     *)
(* legacy store format.                                                    *)
(***************************************************************************)
CONSTANTS Urls, Hashes

VARIABLES written,  \* the (page, content) pairs in the output
          acked     \* the pages a resume run skips

Init == /\ written = {}
        /\ acked \in SUBSET Urls

Write(u, h) == /\ written' = written \cup {<<u, h>>}
               /\ UNCHANGED acked

Acknowledge(S) == /\ \A u \in S : \E h \in Hashes : <<u, h>> \in written
                  /\ acked' = acked \cup S
                  /\ UNCHANGED written

Next == \/ \E u \in Urls, h \in Hashes : Write(u, h)
        \/ \E S \in SUBSET Urls : Acknowledge(S)

Spec == Init /\ [][Next]_<<written, acked>>
=============================================================================
