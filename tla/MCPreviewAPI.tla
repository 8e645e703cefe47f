---------------------------- MODULE MCPreviewAPI ----------------------------
(* PreviewAPI on a small instance.                                           *)
EXTENDS PreviewAPI

Hash(id, rid, text, side) ==
    [id |-> id, rid |-> rid, kind |-> "hash_text", text |-> text, description |-> None,
     state |-> <<>>, side |-> side]
External(id, rid) ==
    [id |-> id, rid |-> rid, kind |-> "external_action", text |-> None,
     description |-> [v |-> "deploy"], state |-> <<>>, side |-> [v |-> TRUE]]

\* Two texts under one id, a text that declares a side effect, an external action,
\* and one that leaves side_effect out.
MCActions ==
    {Hash(1, 1, [v |-> "x"], [v |-> FALSE]), Hash(1, 2, [v |-> "y"], [v |-> FALSE]),
     Hash(2, 2, [v |-> "x"], [v |-> TRUE]), External(3, 3), Hash(2, 1, [v |-> "x"], None)}

Symmetry == Permutations(Handlers)
=============================================================================
