--------------------------- MODULE MCAdaptivePool ---------------------------
(* AdaptivePool on small instances with three callers.  Callers differ only   *)
(* in the id they bring, and ids only in name, so three ways to pick stand    *)
(* for all: all different, two alike, all alike.                              *)
EXTENDS AdaptivePool, TLC

CONSTANTS c1, c2, c3, i1, i2, i3

ThreePicks ==
    {c1 :> p[1] @@ c2 :> p[2] @@ c3 :> p[3] :
        p \in {<<i1, i2, i3>>, <<i1, i1, i2>>, <<i1, i1, i1>>}}
=============================================================================
