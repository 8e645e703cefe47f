-------------------------- MODULE MoltbookStation --------------------------
(***************************************************************************)
(* The Moltbook station (integrations/moltbook): it verifies the evidence  *)
(* behind a reference for an agent, once per action id.  An execution asks *)
(* three parties in turn, the identity provider over HTTP, an authority    *)
(* gate and the evidence verifier, and takes its action id between the     *)
(* second and the third.  Executions run beside each other; the ids taken  *)
(* are in memory and are lost with the process.  What it returns is read   *)
(* by others, who may have parts of several results before them.           *)
(***************************************************************************)
EXTENDS DecisionPlane

CONSTANTS
    Callers,        \* goroutines that may be in Execute
    Requests,       \* requests that they make
    Replies,        \* HTTP answers of the identity provider, or None
    Confidences,    \* of the decision provider's answers
    Verifications,  \* results of the evidence verifier, or None
    MaxRestarts,    \* bound: processes after the first
    MaxCalls        \* bound: requests taken, over all processes

VARIABLES
    call,       \* per caller: its step, and what Execute has in hand
    consumed,   \* Station.consumed
    given,      \* the authority decision given last, to whichever call
    results,    \* results returned so far
    lookups,    \* history: what this process asked of the evidence verifier
    restarts,
    calls       \* requests taken

vars == <<call, consumed, given, results, lookups, restarts, calls>>

StationTarget == "agentproof"
ProviderID == 7
Idle == [at |-> "idle"]

----------------------------------------------------------------------------
\* Identity.  An id of an agent is a natural; NoId is a missing one, and whatever
\* is malformed, too long or not canonical is negative.

\* VerifyIdentityResultContext: of the flags, "no" is an explicit false.
IdentityStatus(reply) ==
    CASE reply = None \/ ~reply.complete -> "UNKNOWN_OR_HOLD"
      [] OTHER ->
         IF reply.valid = "no" THEN "INVALID"
         ELSE IF reply.success = "yes" /\ reply.valid = "yes" /\ reply.agent > NoId THEN "VERIFIED"
         ELSE "UNKNOWN_OR_HOLD"

----------------------------------------------------------------------------
\* The packet of a request, and its authorization.

PacketOf(r, agent) ==
    LET ref == HashJSON([agent |-> agent, verified |-> TRUE]) IN
    Packet(r.id, ref, "moltbook.verify_evidence",
           [identity |-> ref, evidence |-> r.evidence], {StationTarget}, FALSE)

\* DecisionPlaneAuthority.Authorize, with the answer of a provider that is so confident.
Authority(packet, confidence) ==
    LET request == NewRequest(packet, packet.action, [target |-> StationTarget],
                              <<[id |-> 1, target |-> StationTarget]>>)
        d == NewDecision(request, ProviderID, 1, <<[id |-> 1, p |-> 100]>>, confidence)
        gate == IF request = None THEN None ELSE ApplyDecision(packet, request, d, DefaultGatePolicy)
    IN  IF gate = None THEN None
        ELSE [disposition |-> gate.disposition, action |-> packet.action,
              packetHash |-> HashJSON(packet), target |-> StationTarget,
              provider |-> ProviderID, confidence |-> confidence, route |-> gate.route]

\* validateAuthorityDecision
Permits(packet, target, a) ==
    /\ a.packetHash = HashJSON(packet) /\ a.action = packet.action /\ a.target = target
    /\ a.disposition \in {"ALLOW", "AUTO_ROUTE"}
    /\ a.provider # NoId /\ a.route # None
    /\ a.route.action = packet.action
    /\ a.route.target = target /\ target \in packet.targets

----------------------------------------------------------------------------
\* Results.

ReceiptResult(packet, authority, v) ==
    [identity |-> packet.inputs.identity, packetHash |-> HashJSON(packet),
     authorityHash |-> HashJSON(authority), disposition |-> authority.disposition,
     target |-> authority.route.target, verdict |-> v.verdict, evidence |-> v.evidence,
     verificationHash |-> HashJSON(v), status |-> "SUCCEEDED"]

ResultOf(packet, authority, v) ==
    LET rr == ReceiptResult(packet, authority, v) IN
    [identityRef |-> packet.inputs.identity, packet |-> packet, authority |-> authority,
     route |-> authority.route, verification |-> v, receiptResult |-> rr,
     receipt |-> MakeSuccessReceipt(packet, authority.route, rr)]

Fields == {"identityRef", "packet", "authority", "route", "verification", "receiptResult", "receipt"}

\* Mutant: the details of a verification are not bound to the receipt.
VerifyResultVerdict(r) ==
    /\ r.receiptResult.packetHash = HashJSON(r.packet)
    /\ Permits(r.packet, r.route.target, r.authority) /\ r.route = r.authority.route
    /\ r.receiptResult.authorityHash = HashJSON(r.authority)
    /\ r.receiptResult.verdict = r.verification.verdict
    /\ r.receiptResult.evidence = r.verification.evidence
    /\ Verify(r.packet, r.route, r.receiptResult, r.receipt)

\* VerifyResult.  The hashes beside the packet and the authority are those of what
\* they are beside, or it is refused at once.
VerifyResult(r) ==
    /\ r.receiptResult.packetHash = HashJSON(r.packet)
    /\ Permits(r.packet, r.route.target, r.authority) /\ r.route = r.authority.route
    /\ r.receiptResult.authorityHash = HashJSON(r.authority)
    /\ r.receiptResult.disposition = r.authority.disposition
    /\ r.identityRef = r.packet.inputs.identity /\ r.receiptResult.identity = r.identityRef
    /\ r.receiptResult.target = r.route.target
    /\ r.receiptResult.status = r.receipt.status /\ r.receipt.status = "SUCCEEDED"
    /\ r.receiptResult.verdict = r.verification.verdict
    /\ r.receiptResult.evidence = r.verification.evidence
    /\ r.receiptResult.verificationHash = HashJSON(r.verification)
    /\ Verify(r.packet, r.route, r.receiptResult, r.receipt)

----------------------------------------------------------------------------
\* Execute, one action per party it waits for.

Init ==
    /\ call = [c \in Callers |-> Idle]
    /\ consumed = {} /\ given = None /\ results = {} /\ lookups = <<>> /\ restarts = 0 /\ calls = 0

Return(c) == call' = [call EXCEPT ![c] = Idle]

\* The checks of the request.
Submit(c) ==
    /\ call[c] = Idle /\ calls < MaxCalls /\ calls' = calls + 1
    /\ \E r \in Requests :
       /\ r.id # NoId /\ r.token # NoId /\ r.intent = "VERIFY_EVIDENCE"
       /\ r.target = StationTarget /\ ~r.effects /\ r.evidence # NoId
       /\ call' = [call EXCEPT ![c] = [at |-> "identity", req |-> r]]
    /\ UNCHANGED <<consumed, given, results, lookups, restarts>>

\* VerifyIdentity has returned.
Identify(c) ==
    /\ call[c].at = "identity"
    /\ \E reply \in Replies :
       IF IdentityStatus(reply) = "VERIFIED"
       THEN call' = [call EXCEPT ![c] = [at |-> "authority", reply |-> reply,
                                         packet |-> PacketOf(call[c].req, reply.agent)]]
       ELSE Return(c)
    /\ UNCHANGED <<consumed, given, results, lookups, restarts, calls>>

\* Authorize has returned: the decision plane's decision, or, of another gate, the one
\* that was given last, for whichever packet.
Authorize(c) ==
    /\ call[c].at = "authority"
    /\ \E a \in {Authority(call[c].packet, q) : q \in Confidences} \cup {given, None} :
       /\ given' = IF a = None THEN given ELSE a
       /\ IF a # None /\ Permits(call[c].packet, StationTarget, a)
          THEN call' = [call EXCEPT ![c] = [at |-> "consume", reply |-> call[c].reply,
                                            packet |-> call[c].packet, authority |-> a]]
          ELSE Return(c)
    /\ UNCHANGED <<consumed, results, lookups, restarts, calls>>

\* Mutant: the action is taken together with its inputs, not by its id alone.
KeyWithInputs(packet) == <<packet.action, packet.inputs>>

\* What an execution is remembered by.
Key(packet) == packet.action

\* consume, and the call of VerifyEvidence that follows it.
Consume(c) ==
    /\ call[c].at = "consume"
    /\ IF Key(call[c].packet) \in consumed
       THEN Return(c) /\ UNCHANGED <<consumed, lookups>>
       ELSE /\ consumed' = consumed \cup {Key(call[c].packet)}
            /\ lookups' = Append(lookups, [packet |-> call[c].packet, authority |-> call[c].authority,
                                           reply |-> call[c].reply])
            /\ call' = [call EXCEPT ![c].at = "evidence"]
    /\ UNCHANGED <<given, results, restarts, calls>>

\* VerifyEvidence has returned; what is not complete is an error, and nothing is undone.
Finish(c) ==
    /\ call[c].at = "evidence"
    /\ \E v \in Verifications :
       LET r == ResultOf(call[c].packet, call[c].authority, v) IN
       IF v # None /\ v.verdict # NoId /\ v.evidence # NoId /\ VerifyResult(r)
       THEN results' = results \cup {r}
       ELSE UNCHANGED results
    /\ Return(c)
    /\ UNCHANGED <<consumed, given, lookups, restarts, calls>>

\* The process ends and another one is started.
Restart ==
    /\ restarts < MaxRestarts /\ restarts' = restarts + 1
    /\ call' = [c \in Callers |-> Idle] /\ consumed' = {} /\ lookups' = <<>>
    /\ UNCHANGED <<given, results, calls>>

Next ==
    \/ Restart
    \/ \E c \in Callers : Submit(c) \/ Identify(c) \/ Authorize(c) \/ Consume(c) \/ Finish(c)

Spec == Init /\ [][Next]_vars

----------------------------------------------------------------------------
\* Properties.

\* An action id sends a process to the evidence verifier once, however many calls
\* with that id were authorized before the first of them got there, whatever they
\* ask for and whether the verification came to an end; and that once was for an
\* agent whom the identity provider vouched for, under a decision about this packet.
OneVerification ==
    /\ \A i, j \in DOMAIN lookups :
           lookups[i].packet.action = lookups[j].packet.action => i = j
    /\ \A l \in ToSet(lookups) :
           /\ l.reply.complete /\ l.reply.success = "yes" /\ l.reply.valid = "yes"
           /\ l.packet.agent = HashJSON([agent |-> l.reply.agent, verified |-> TRUE])
           /\ l.authority.packetHash = HashJSON(l.packet)
           /\ l.authority.disposition = "AUTO_ROUTE"

\* Of parts of several results, of one process or of two, a reader accepts only what
\* one execution returned: its packet with its decision and its verification.
ResultIsOneExecution ==
    (\A c \in Callers : call[c] = Idle) =>
        \A a, b \in results : \A part \in SUBSET Fields :
            LET m == [f \in Fields |-> IF f \in part THEN a[f] ELSE b[f]] IN
            VerifyResult(m) => m \in {a, b}
=============================================================================
