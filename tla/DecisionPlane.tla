--------------------------- MODULE DecisionPlane ---------------------------
(***************************************************************************)
(* What every gated action of the rail is made of: Metro packets, routes   *)
(* and receipts (internal/metro), and the decision plane that binds a      *)
(* provider's answer to one packet and lets it through only when it is     *)
(* sure enough and free of side effects (internal/decisionplane).          *)
(*                                                                         *)
(* A hash stands for the value it was computed from: equal hashes, equal   *)
(* values.  Identifiers are naturals, so that the tie rules of the code    *)
(* have an order to use, and 0 is the empty string.  Probabilities and     *)
(* scores are percentages, so that the tolerance of 0.000001 in the code   *)
(* is below the grain of the model.  Protocol names and timestamps are     *)
(* left out: every party here writes the one protocol there is.            *)
(***************************************************************************)
EXTENDS Integers, SequencesExt

NoId == 0

\* metro.HashJSON, and HashState and HashChoices beside it.
HashJSON(v) == [sha256 |-> v]

Packet(id, agent, kind, inputs, targets, sideEffect) ==
    [action |-> id, agent |-> agent, kind |-> kind, inputs |-> inputs,
     targets |-> targets, sideEffect |-> sideEffect]

----------------------------------------------------------------------------
\* Requests.

\* A nil pointer or an error.
None == [none |-> TRUE]

\* Choices may be bound to a packet: named, distinct, and among its targets.
Bindable(packet, rid, choices) ==
    /\ packet.action # NoId /\ rid # NoId /\ choices # <<>>
    /\ \A i \in DOMAIN choices :
           /\ choices[i].id # NoId
           /\ choices[i].target \in packet.targets
           /\ \A j \in DOMAIN choices \ {i} :
                  choices[i].id # choices[j].id /\ choices[i].target # choices[j].target

NewRequest(packet, rid, state, choices) ==
    IF Bindable(packet, rid, choices)
    THEN [rid |-> rid, action |-> packet.action, packetHash |-> HashJSON(packet),
          state |-> state, stateHash |-> HashJSON(state),
          choices |-> choices, choicesHash |-> HashJSON(ToSet(choices))]
    ELSE None

\* The fields by which a decision names the request it answers.
Binding(r) == <<r.rid, r.action, r.packetHash, r.stateHash, r.choicesHash>>

NewDecision(r, provider, selected, probs, confidence) ==
    [rid |-> r.rid, action |-> r.action, packetHash |-> r.packetHash,
     stateHash |-> r.stateHash, choicesHash |-> r.choicesHash, provider |-> provider,
     selected |-> selected, probs |-> probs, confidence |-> confidence]

----------------------------------------------------------------------------
\* Providers.

Total(seq) == FoldLeft(LAMBDA acc, x : acc + x, 0, seq)

\* StaticProvider.Decide: scores (a function of choice ids) become shares, and
\* the largest share is selected, the smaller id first.
StaticDecide(r, id, scores) ==
    LET raw   == [i \in DOMAIN r.choices |->
                     IF r.choices[i].id \in DOMAIN scores THEN scores[r.choices[i].id] ELSE 0]
        share == [i \in DOMAIN raw |->
                     [id |-> r.choices[i].id, p |-> (100 * raw[i]) \div Total(raw)]]
        best  == CHOOSE a \in ToSet(share) : \A b \in ToSet(share) :
                     a.p > b.p \/ (a.p = b.p /\ a.id <= b.id)
    IN  IF (\E i \in DOMAIN raw : raw[i] < 0) \/ Total(raw) <= 0 THEN None
        ELSE NewDecision(r, id, best.id, share, best.p)

\* RemoteProvider.Decide: the reply of the endpoint, or an error.
RemoteDecide(r, id, reply) ==
    IF reply # None /\ reply.provider = id /\ Binding(reply) = Binding(r) THEN reply ELSE None

----------------------------------------------------------------------------
\* The gate.

ProbabilityOf(d, id) ==
    LET own == {i \in DOMAIN d.probs : d.probs[i].id = id} IN
    IF own = {} THEN -1 ELSE d.probs[CHOOSE i \in own : TRUE].p

\* The rest of the distribution, at its best.
RunnerUp(d) ==
    FoldLeft(LAMBDA acc, q : IF q.id # d.selected /\ q.p > acc THEN q.p ELSE acc, 0, d.probs)

ValidateDecision(packet, r, d) ==
    /\ d.action = packet.action /\ r.packetHash = HashJSON(packet)
    /\ r.stateHash = HashJSON(r.state) /\ r.choicesHash = HashJSON(ToSet(r.choices))
    /\ Binding(d) = Binding(r)
    /\ d.provider # NoId /\ d.selected # NoId
    /\ d.confidence \in 0..100
    /\ \E i \in DOMAIN r.choices :
           r.choices[i].id = d.selected /\ r.choices[i].target \in packet.targets
    /\ Len(d.probs) = Len(r.choices)
    /\ {q.id : q \in ToSet(d.probs)} = {c.id : c \in ToSet(r.choices)}
    /\ \A q \in ToSet(d.probs) : q.p \in 0..100 /\ q.p <= ProbabilityOf(d, d.selected)
    /\ Total([i \in DOMAIN d.probs |-> d.probs[i].p]) = 100

DefaultGatePolicy == [confidence |-> 98, margin |-> 15, approval |-> TRUE]

TargetOf(r, id) == r.choices[CHOOSE i \in DOMAIN r.choices : r.choices[i].id = id].target

Held(disposition) == [disposition |-> disposition, route |-> None]

\* ApplyDecision with selectedStats; None is its error.
ApplyDecision(packet, r, d, policy) ==
    IF ~ValidateDecision(packet, r, d) THEN None ELSE
    LET p == ProbabilityOf(d, d.selected) IN
    IF packet.sideEffect /\ policy.approval THEN Held("REQUIRE_APPROVAL")
    ELSE IF \/ d.confidence < policy.confidence \/ p < policy.confidence
            \/ p - RunnerUp(d) < policy.margin THEN Held("ESCALATE_SYSTEM2")
    ELSE [disposition |-> "AUTO_ROUTE",
          route |-> [routeId |-> packet.action, action |-> packet.action,
                     router |-> d.provider, target |-> TargetOf(r, d.selected)]]

----------------------------------------------------------------------------
\* Execution: receipts and their verification.

MakeSuccessReceipt(packet, route, result) ==
    IF route.action = packet.action /\ route.target \in packet.targets
    THEN [action |-> packet.action, routeId |-> route.routeId, executor |-> route.target,
          status |-> "SUCCEEDED", inputHash |-> HashJSON(packet.inputs),
          resultHash |-> HashJSON(result)]
    ELSE None

\* metro.Verify
Verify(packet, route, result, receipt) ==
    /\ receipt.action = packet.action
    /\ receipt.routeId = route.routeId
    /\ receipt.executor = route.target
    /\ route.target \in packet.targets
    /\ receipt.inputHash = HashJSON(packet.inputs)
    /\ receipt.resultHash = HashJSON(result)
============================================================================
