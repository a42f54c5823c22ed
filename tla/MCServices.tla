----------------------------- MODULE MCServices -----------------------------
(* Two AI requests, one of them sensitive or general; two runs of the demo *)
(* server; two tasks of two fields; requests over two origins and a        *)
(* tracker.                                                                *)
EXTENDS Services

CONSTANTS r1, r2, d1, d2, h1

MCRequests == {r1, r2}
MCMixes == {[r \in MCRequests |-> IF r = r1 THEN "preferred" ELSE k] :
              k \in {"sensitive", "general"}}
MCRuns == {d1, d2}
MCFetches == {h1}
MCUrls == {"shop/a", "shop/b", "bank", "ads"}
MCOriginOf == [u \in MCUrls |-> IF u \in {"shop/a", "shop/b"} THEN "shop" ELSE u]
MCTrackers == {"ads"}
=============================================================================
