----------------------------- MODULE MCDesktop -----------------------------
(* Two instances of the browser that share a vault with two keys of one   *)
(* slot and one of another; a window with two pages; two swarms with      *)
(* repeated and distinct roles; two runs of the indexer.                  *)
EXTENDS Desktop

CONSTANTS i1, i2, a1, a2, b1, t1, s1, s2, x1, x2, f1, f2, f3

MCInstances == {i1, i2}
MCKeys == {a1, a2, b1}
MCSlotOf == [k \in MCKeys |-> IF k = b1 THEN "b" ELSE "a"]
MCUrls == {"home", "page"}
MCSwarms == {s1, s2}
MCRoles == {"Coordinator", "Analyst", "Writer"}
MCPlans == {<<"Analyst", "Writer">>, <<"Analyst", "Analyst">>}
MCVerdicts == {"Completed", "Failed"}
MCReindexes == {x1, x2}
MCInodes == {f1, f2, f3}
=============================================================================
