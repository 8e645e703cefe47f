-------------------------- MODULE MCCodingWorkflow --------------------------
(* CodingWorkflow on a small instance.                                       *)
EXTENDS CodingWorkflow
CONSTANTS h1, h2, h3

CodexOrHuman == <<[id |-> 1, target |-> "codex"], [id |-> 2, target |-> "human"]>>

Input(paths, checks, scores) ==
    [base |-> "b1", paths |-> paths, checks |-> checks, choices |-> CodexOrHuman,
     scores |-> scores]

\* Contracts for one directory or for two, and a decision that is not sure.
MCStartInputs ==
    {Input({<<"src">>}, {"unit"}, (1 :> 99) @@ (2 :> 1)),
     Input({<<"src">>, <<"src", "doc">>}, {"unit", "vet"}, (1 :> 50) @@ (2 :> 50)),
     Input({<<"/", "etc">>}, {"unit"}, (1 :> 99) @@ (2 :> 1))}

\* A change inside src, one in a sibling whose name begins the same, and one too
\* large for a page.
MCFiles ==
    (h1 :> {<<"src", "/", "a">>}) @@
    (h2 :> {<<"src", "doc", "/", "a">>}) @@
    (h3 :> {<<"src", "/", "a">>, <<"src", "/", "b">>})

\* Calls and keys differ only in name.
Symmetry == Permutations(Calls) \cup Permutations(Keys)
=============================================================================
