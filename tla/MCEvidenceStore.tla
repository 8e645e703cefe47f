-------------------------- MODULE MCEvidenceStore --------------------------
(* EvidenceStore on a small instance.                                        *)
EXTENDS EvidenceStore

Alice == 5
Bob   == 6
Kind  == "implement"

\* One authority set, written down in two ways; and one that knows Alice only.
Policy      == [id |-> 1, ref |-> 1, executors |-> [k \in {Kind} |-> <<Bob, Alice, Bob>>]]
SamePolicy  == [Policy EXCEPT !.executors = [k \in {Kind} |-> <<Alice, Bob>>]]
AlicePolicy == [Policy EXCEPT !.executors = [k \in {Kind} |-> <<Alice>>]]

\* The materials of an action: claim, packet, route, result, receipt and policy.
Material(action, executor, value, policy) ==
    LET result  == [artifact |-> value]
        claim   == [id |-> 10 + action, action |-> action, value |-> HashJSON(result),
                    irreversible |-> action # 2]
        packet  == Packet(action, "agent", Kind, [task |-> 1], {Alice, Bob}, FALSE)
        route   == [routeId |-> 20 + action, action |-> action, router |-> 9, target |-> executor]
        success == MakeSuccessReceipt(packet, route, result)
        bare    == [claim |-> claim, packet |-> packet, route |-> route, result |-> result,
                    receipt |-> success @@ [ref |-> value], policy |-> policy]
    IN  bare @@ [envelope |-> BuildProofEnvelope(bare)]

First  == Material(1, Alice, 1, Policy)
Second == Material(2, Bob, 1, SamePolicy)

\* Two proofs that share artifacts; an executor without authority; the envelope of
\* one action with the materials of another; a result that is not the receipt's.
MCJobs ==
    {First, Second, Material(3, Bob, 1, AlicePolicy),
     [Second EXCEPT !.envelope = First.envelope],
     [First EXCEPT !.result = [artifact |-> 2]]}

\* A mirror's opinion about the third action, for which there is no external evidence
\* but one without provenance; and an external doubt about the second, whose claim
\* alone is reversible.
Opinion(source, action, value) ==
    [claim |-> 10 + action, action |-> action, source |-> source, value |-> HashJSON([artifact |-> value]),
     verified |-> TRUE, provenance |-> TRUE]
MCObserved ==
    {Opinion("mirror.local", 3, 1), Opinion("external", 2, 2),
     [Opinion("external", 3, 1) EXCEPT !.provenance = FALSE]}

\* The object that both bundles share, and the first one of the first.
MCFragile == {CanonicalJSON(Policy), First.packet}

Symmetry == Permutations(Processes)
=============================================================================
