----------------------------- MODULE PreviewAPI -----------------------------
(***************************************************************************)
(* The developer preview (cmd/liminal-rail): an HTTP server that runs      *)
(* Codex actions through internal/codexadapter.  A request takes one of a  *)
(* few slots or is turned away, an action's id is consumed once per server *)
(* process whatever becomes of the request, and the only thing ever        *)
(* executed is the hash of a text.  The answer is a proof that anybody can *)
(* have checked, by this process or by another one.                        *)
(*                                                                         *)
(* Requests run beside each other; clients go away, repeat what they sent, *)
(* and hand in proofs they have edited; the process is stopped.  serve     *)
(* returns when Shutdown begins, so a stop does not wait for handlers.     *)
(***************************************************************************)
EXTENDS DecisionPlane

CONSTANTS
    Handlers,   \* HTTP handlers that may be in progress
    Slots,      \* cap(api.slots)
    Capacity,   \* api.capacity
    Actions     \* actions that clients submit, fit or not

ASSUME PreviewAssumption == Slots \in Nat \ {0} /\ Capacity \in Nat \ {0}

VARIABLES
    used,       \* api.used
    pc,         \* per handler: "idle", "admitted", "reserved", "answered"
    req,        \* per handler: the request, then the answer
    gone,       \* handlers whose client has disconnected
    proofs,     \* proofs that reached a client
    executed    \* history: per action id, executions by this process

vars == <<used, pc, req, gone, proofs, executed>>

ProviderID == 7
Nothing == [kind |-> "none"]
Ids == {a.id : a \in Actions}

----------------------------------------------------------------------------
\* codexadapter

\* A pointer that may be nil is a value or None.
Valid(a) ==
    /\ a.id # NoId /\ a.rid # NoId /\ a.side # None
    /\ \/ a.kind = "hash_text" /\ a.text # None /\ a.description = None
       \/ a.kind = "external_action" /\ a.description # None /\ a.text = None /\ a.side = [v |-> TRUE]

Target(a) == IF a.kind = "hash_text" THEN "codex-local-sha256" ELSE "codex-approval-only"

PacketOf(a) ==
    Packet(a.id, "codex", a.kind,
           IF a.kind = "hash_text" THEN [text |-> a.text] ELSE [description |-> a.description],
           {Target(a)}, a.side.v)

RequestOf(a) == NewRequest(PacketOf(a), a.rid, a.state, <<[id |-> 1, target |-> Target(a)]>>)

HashText(t) == HashJSON([hashed |-> t])

Proof(e) == [e |-> e, hash |-> HashJSON(e)]

\* Run, when the context is not cancelled; None is its error.
Run(a) ==
    IF ~Valid(a) THEN None ELSE
    LET p == PacketOf(a)
        r == RequestOf(a)
        d == StaticDecide(r, ProviderID, [i \in {1} |-> 1])
        g == ApplyDecision(p, r, d, DefaultGatePolicy)
        execution(dispatched, result, receipt) ==
            Proof([packet |-> p, request |-> r, decision |-> d, gate |-> g,
                   dispatched |-> dispatched, result |-> result, receipt |-> receipt])
    IN  IF g = None THEN None
        ELSE IF g.disposition # "AUTO_ROUTE" THEN execution(FALSE, None, None)
        ELSE IF a.kind # "hash_text" \/ p.sideEffect \/ g.route.target # "codex-local-sha256" THEN None
        ELSE LET res == HashText(a.text)
             IN  execution(TRUE, res, MakeSuccessReceipt(p, g.route, res))

\* The action a packet and a request were prepared from.
ActionOf(e) ==
    LET in == e.packet.inputs IN
    [id |-> e.packet.action, rid |-> e.request.rid, kind |-> e.packet.kind,
     text |-> IF "text" \in DOMAIN in THEN in.text ELSE None,
     description |-> IF "description" \in DOMAIN in THEN in.description ELSE None,
     state |-> e.request.state, side |-> [v |-> e.packet.sideEffect]]

\* Mutant: the result is left to the receipt's hash.
VerifyReceipt(proof) ==
    LET e == proof.e
        a == ActionOf(e)
        g == ApplyDecision(e.packet, e.request, e.decision, DefaultGatePolicy)
    IN  /\ proof.hash = HashJSON(e)
        /\ e.packet.agent = "codex" /\ e.decision.provider = ProviderID
        /\ Valid(a) /\ PacketOf(a) = e.packet
        /\ RequestOf(a).choicesHash = e.request.choicesHash
        /\ g # None /\ g = e.gate
        /\ g.disposition = "AUTO_ROUTE" =>
              e.dispatched /\ e.receipt # None /\ Verify(e.packet, g.route, e.result, e.receipt)

\* codexadapter.Verify
VerifyProof(proof) ==
    LET e == proof.e
        a == ActionOf(e)
        g == ApplyDecision(e.packet, e.request, e.decision, DefaultGatePolicy)
    IN  /\ proof.hash = HashJSON(e)
        /\ e.packet.agent = "codex" /\ e.decision.provider = ProviderID
        /\ Valid(a) /\ PacketOf(a) = e.packet
        /\ RequestOf(a).choicesHash = e.request.choicesHash
        /\ g # None /\ g = e.gate
        /\ IF g.disposition # "AUTO_ROUTE"
           THEN ~e.dispatched /\ e.result = None /\ e.receipt = None
           ELSE /\ a.kind = "hash_text" /\ ~a.side.v /\ e.dispatched /\ e.receipt # None
                /\ e.result = HashText(a.text)
                /\ e.receipt.status = "SUCCEEDED"
                /\ Verify(e.packet, g.route, e.result, e.receipt)

----------------------------------------------------------------------------
\* The server.

Busy == {h \in Handlers : pc[h] # "idle"}

Step(h, at, what) ==
    /\ pc' = [pc EXCEPT ![h] = at]
    /\ req' = [req EXCEPT ![h] = what]

\* Proofs a client may hand in: its own, with parts replaced by another's and by
\* what would claim an execution, hashed again or not.
Mixes(p, q) ==
    {[p.e EXCEPT !.packet = q.e.packet], [p.e EXCEPT !.gate = q.e.gate],
     [p.e EXCEPT !.result = q.e.result], [p.e EXCEPT !.receipt = q.e.receipt],
     [p.e EXCEPT !.request = q.e.request], [p.e EXCEPT !.dispatched = ~@],
     [p.e EXCEPT !.decision = q.e.decision], [p.e EXCEPT !.decision.confidence = 97],
     [p.e EXCEPT !.decision.confidence = 97, !.gate = q.e.gate],
     [p.e EXCEPT !.packet.sideEffect = FALSE],
     [q.e EXCEPT !.result = p.e.result, !.receipt = p.e.receipt, !.dispatched = TRUE]}

Tampered == UNION {{[e |-> e, hash |-> h] : e \in Mixes(p, q), h \in {p.hash}} \cup
                   {Proof(e) : e \in Mixes(p, q)} : p, q \in proofs}

\* ServeHTTP to the admission: what is refused before changes nothing.  The body
\* is read with the slot in hand.
Admit(h, path) ==
    /\ pc[h] = "idle" /\ Cardinality(Busy) < Slots
    /\ Step(h, "admitted", [kind |-> path])
    /\ UNCHANGED <<used, gone, proofs, executed>>

\* The handler returns: an error answer, or an answer that was written.
Finish(h) ==
    /\ Step(h, "idle", Nothing)
    /\ gone' = gone \ {h}

Refuse(h) == Finish(h) /\ UNCHANGED <<used, proofs, executed>>

\* Mutant: an id is looked up in what has been executed only.
ReserveUnexecuted(h) ==
    /\ pc[h] = "admitted" /\ req[h].kind = "action"
    /\ \E a \in Actions :
       IF a.id = NoId \/ executed[a.id] > 0 \/ Cardinality(used) >= Capacity THEN Refuse(h)
       ELSE /\ used' = used \cup {a.id}
            /\ Step(h, "reserved", [kind |-> "action", action |-> a])
            /\ UNCHANGED <<gone, proofs, executed>>

\* Mutant: the registry takes one id more than its capacity.
ReserveOneMore(h) ==
    /\ pc[h] = "admitted" /\ req[h].kind = "action"
    /\ \E a \in Actions :
       IF a.id = NoId \/ a.id \in used \/ Cardinality(used) > Capacity THEN Refuse(h)
       ELSE /\ used' = used \cup {a.id}
            /\ Step(h, "reserved", [kind |-> "action", action |-> a])
            /\ UNCHANGED <<gone, proofs, executed>>

\* reserve, with the registry's mutex held.
Reserve(h) ==
    /\ pc[h] = "admitted" /\ req[h].kind = "action"
    /\ \E a \in Actions :
       IF a.id = NoId \/ a.id \in used \/ Cardinality(used) >= Capacity THEN Refuse(h)
       ELSE /\ used' = used \cup {a.id}
            /\ Step(h, "reserved", [kind |-> "action", action |-> a])
            /\ UNCHANGED <<gone, proofs, executed>>

\* The body is not one JSON object of the expected form.
Reject(h) == pc[h] = "admitted" /\ Refuse(h)

\* execute: a context that is cancelled ends it, early or late.
Execute(h) ==
    /\ pc[h] = "reserved"
    /\ LET p == Run(req[h].action) IN
       \/ (p = None \/ h \in gone) /\ Refuse(h)
       \/ /\ p # None
          /\ Step(h, "answered", [kind |-> "proof", proof |-> p])
          /\ executed' = IF p.e.dispatched
                         THEN [executed EXCEPT ![p.e.packet.action] = @ + 1] ELSE executed
          /\ UNCHANGED <<used, gone, proofs>>

CheckProof(h) ==
    /\ pc[h] = "admitted" /\ req[h].kind = "verify"
    /\ \E p \in proofs \cup Tampered :
       IF VerifyProof(p)
       THEN /\ Step(h, "answered", [kind |-> "verified", proof |-> p])
            /\ UNCHANGED <<used, gone, proofs, executed>>
       ELSE Refuse(h)

\* The answer is written; a client that is gone does not get it.
Answer(h) ==
    /\ pc[h] = "answered"
    /\ proofs' = IF req[h].kind = "proof" /\ h \notin gone THEN proofs \cup {req[h].proof} ELSE proofs
    /\ Finish(h)
    /\ UNCHANGED <<used, executed>>

Disconnect(h) ==
    /\ pc[h] # "idle" /\ h \notin gone
    /\ gone' = gone \cup {h}
    /\ UNCHANGED <<used, pc, req, proofs, executed>>

\* A stop and a new start: handlers die where they are, the registry is empty.
Restart ==
    /\ used' = {} /\ gone' = {} /\ executed' = [i \in Ids |-> 0]
    /\ pc' = [h \in Handlers |-> "idle"] /\ req' = [h \in Handlers |-> Nothing]
    /\ UNCHANGED proofs

Init ==
    /\ used = {} /\ gone = {} /\ proofs = {} /\ executed = [i \in Ids |-> 0]
    /\ pc = [h \in Handlers |-> "idle"] /\ req = [h \in Handlers |-> Nothing]

Next ==
    \/ \E h \in Handlers, path \in {"action", "verify"} : Admit(h, path)
    \/ \E h \in Handlers : \/ Reserve(h) \/ Reject(h) \/ Execute(h)
                           \/ CheckProof(h) \/ Answer(h) \/ Disconnect(h)
    \/ Restart

Spec == Init /\ [][Next]_vars

----------------------------------------------------------------------------
\* Properties.

\* One process executes an action id at most once, however often and however much
\* at once it is submitted, whether or not the earlier submissions failed or lost
\* their client; and what it has executed it still knows (reserve never evicts).
OneDispatch == \A i \in Ids : executed[i] <= 1 /\ (executed[i] = 1 => i \in used)

\* Ids are consumed up to the capacity and not beyond, by every handler that got
\* past reserve: a client that goes away gives nothing back.
ReservedAreUsed ==
    /\ Cardinality(used) <= Capacity
    /\ \A h \in Handlers : pc[h] = "reserved" =>
           /\ req[h].action.id \in used /\ executed[req[h].action.id] = 0
           /\ \A g \in Handlers \ {h} :
                  pc[g] = "reserved" => req[g].action.id # req[h].action.id

\* What the server answers is a proof that every instance verifies, and a proof of
\* an execution that an instance verifies is, but for the confidence in its
\* decision, the one Run makes for that action: parts of two proofs, or a claimed
\* execution of an action that needs approval, do not pass (codexadapter.Verify).
VerifiedIsReproducible ==
    \A h \in Handlers : pc[h] = "answered" =>
        LET p == req[h].proof
            q == Run(ActionOf(p.e))
        IN  /\ VerifyProof(p)
            /\ req[h].kind = "proof" => p = q
            /\ p.e.dispatched => q # None /\ [p.e EXCEPT !.decision = q.e.decision] = q.e
=============================================================================
