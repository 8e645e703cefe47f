---------------------------- MODULE MCPolicyHead ----------------------------
(* PolicyHead on chains that part after the root manifest, meet again in the  *)
(* third generation and part once more in the last.  The link of a manifest   *)
(* names it and the one before, which stands for the rotation between them.   *)
(* Chains that met have the same head from the fourth generation on.          *)
EXTENDS PolicyHead, TLC

CONSTANTS Branches

Links1 == {<<"none", "root">>}
Links2 == {<<"root", b>> : b \in Branches}
Links3 == {<<b, "third">> : b \in Branches}
Links4 == {<<"third", "fourth">>}
Links5 == {<<"fourth", b>> : b \in Branches}

MCLinks == Links1 \cup Links2 \cup Links3 \cup Links4 \cup Links5

Whole == {w \in Links1 \X Links2 \X Links3 \X Links4 \X Links5 : w[2][2] = w[3][1]}
MCCandidates == {SubSeq(w, 1, n) : w \in Whole, n \in 1..5}

Symmetry == Permutations(Branches)
=============================================================================
