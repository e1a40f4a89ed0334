----------------------------- MODULE MCNewsFeed -----------------------------
(* Instances of NewsFeed for TLC.                                          *)
EXTENDS NewsFeed, TLC

(* The feed lists one status or two, in any order.                         *)
MCListings ==
    {list \in UNION {[1..n -> Statuses] : n \in 1..2} :
        \A i, j \in DOMAIN list : list[i] = list[j] => i = j}

(* Nothing tells two panels apart.                                         *)
MCSymmetry == Permutations(Panels)
=============================================================================
