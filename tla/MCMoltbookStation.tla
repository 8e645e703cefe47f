------------------------- MODULE MCMoltbookStation -------------------------
(* MoltbookStation on a small instance.                                      *)
EXTENDS MoltbookStation

Ask(id, evidence, target, effects) ==
    [id |-> id, token |-> 1, intent |-> "VERIFY_EVIDENCE", target |-> target,
     evidence |-> evidence, effects |-> effects]

\* One id with two references, another id, and requests that are refused.
MCRequests ==
    {Ask(1, 1, StationTarget, FALSE), Ask(1, 2, StationTarget, FALSE), Ask(2, 1, StationTarget, FALSE),
     Ask(2, 1, "elsewhere", FALSE), Ask(2, 1, StationTarget, TRUE)}

Answer(success, valid, agent) == [complete |-> TRUE, success |-> success, valid |-> valid, agent |-> agent]
MCReplies ==
    {Answer("yes", "yes", 1), Answer("yes", "yes", 2), Answer("absent", "yes", 1), Answer("yes", "no", 1),
     Answer("yes", "absent", 1), Answer("yes", "yes", NoId), Answer("yes", "yes", -1), None}

\* Two verifications of one verdict that differ in a detail, one without a verdict, and an error.
Verification(verdict, detail) == [verdict |-> verdict, evidence |-> 1, detail |-> detail]
MCVerifications == {Verification(1, 1), Verification(1, 2), Verification(NoId, 1), None}

Symmetry == Permutations(Callers)
=============================================================================
