---------------------------- MODULE WorkflowProofs ----------------------------
(***************************************************************************)
(* Theorems about the two workflows that gate what is read from a service. *)
(* MoltbookStation: one verification per action id, and results that do    *)
(* not mix, for any callers, requests, answers of the identity provider    *)
(* and of the authority gate, and any number of restarts.  CodingWorkflow: *)
(* what a receipt vouches for, for any calls, contracts, changes of the    *)
(* pull request and its checks, keys and restarts.                         *)
(***************************************************************************)
EXTENDS MoltbookStation, CodingWorkflow, FiniteSetTheorems, SequenceTheorems,
        WellFoundedInduction, TLAPS

\* What calls have in hand is made of the constants.
Packets == {PacketOf(r, a) : r \in Requests, a \in {reply.agent : reply \in Replies}}
Authorities == {Authority(p, q) : p \in Packets, q \in Confidences}
Lookups == [packet : Packets, authority : Authorities, reply : Replies]

\* The identity provider vouched for the agent of the packet.
Vouched(x) ==
    /\ x.reply.complete /\ x.reply.success = "yes" /\ x.reply.valid = "yes"
    /\ x.packet.agent = HashJSON([agent |-> x.reply.agent, verified |-> TRUE])

\* The gate let this packet through.
Authorized(x) ==
    x.authority.packetHash = HashJSON(x.packet) /\ x.authority.disposition = "AUTO_ROUTE"

CallInv(x) ==
    /\ x.at = "identity" => x.req \in Requests
    /\ x.at \in {"authority", "consume"} =>
           x.reply \in Replies /\ x.packet \in Packets /\ Vouched(x)
    /\ x.at = "consume" => x.authority \in Authorities /\ Authorized(x)

CallsInv ==
    /\ call = [c \in Callers |-> call[c]]
    /\ \A c \in Callers : CallInv(call[c])

LookupsInv ==
    /\ lookups \in Seq(Lookups)
    /\ \A i \in 1..Len(lookups) :
           Vouched(lookups[i]) /\ Authorized(lookups[i]) /\ lookups[i].packet.action \in consumed
    /\ \A i, j \in 1..Len(lookups) :
           lookups[i].packet.action = lookups[j].packet.action => i = j

Inv == CallsInv /\ LookupsInv /\ given \in Authorities \cup {None}

----------------------------------------------------------------------------

\* The gate of the decision plane has three dispositions, and ALLOW is none of them.
LEMMA Dispositions ==
    ASSUME NEW packet, NEW r, NEW d, NEW policy,
           ApplyDecision(packet, r, d, policy) # None
    PROVE  ApplyDecision(packet, r, d, policy).disposition
               \in {"REQUIRE_APPROVAL", "ESCALATE_SYSTEM2", "AUTO_ROUTE"}
  BY DEF ApplyDecision, Held

\* So a permit of DecisionPlaneAuthority is an automatic route.
LEMMA PermitsAreRoutes ==
    ASSUME NEW a \in Authorities, a # None, NEW packet, Permits(packet, StationTarget, a)
    PROVE  a.disposition = "AUTO_ROUTE" /\ a.packetHash = HashJSON(packet)
<1>1. PICK p \in Packets, q \in Confidences : a = Authority(p, q)
  BY DEF Authorities
<1> DEFINE request == NewRequest(p, p.action, [target |-> StationTarget],
                                 <<[id |-> 1, target |-> StationTarget]>>)
           d == NewDecision(request, ProviderID, 1, <<[id |-> 1, p |-> 100]>>, q)
           gate == ApplyDecision(p, request, d, DefaultGatePolicy)
<1>2. gate # None /\ request # None /\ a.disposition = gate.disposition
  BY <1>1 DEF Authority
<1>3. gate.disposition \in {"REQUIRE_APPROVAL", "ESCALATE_SYSTEM2", "AUTO_ROUTE"}
  <2> HIDE DEF request, d
  <2> QED  BY <1>2, Dispositions
<1> QED  BY <1>2, <1>3 DEF Permits

\* A verified identity is a complete and explicit one.
LEMMA VerifiedIsExplicit ==
    ASSUME NEW reply, IdentityStatus(reply) = "VERIFIED"
    PROVE  reply.complete /\ reply.success = "yes" /\ reply.valid = "yes"
  BY DEF IdentityStatus

----------------------------------------------------------------------------

LEMMA InitInv == Init => Inv
  BY DEF Init, Inv, CallsInv, CallInv, LookupsInv, Idle

\* A call that returns keeps the invariant of the calls.
LEMMA ReturnKeeps ==
    ASSUME CallsInv, NEW c \in Callers, Return(c)
    PROVE  CallsInv'
  BY DEF CallsInv, CallInv, Return, Idle

LEMMA CallsStep ==
    ASSUME CallsInv, NEW c \in Callers, NEW x, CallInv(x), call' = [call EXCEPT ![c] = x]
    PROVE  CallsInv'
<1>1. call' = [e \in Callers |-> call'[e]] /\ \A e \in Callers : call'[e] = IF e = c THEN x ELSE call[e]
  BY DEF CallsInv
<1>2. \A e \in Callers : CallInv(call[e])
  BY DEF CallsInv
<1>3. ASSUME NEW e \in Callers PROVE CallInv(call'[e])
  BY <1>1, <1>2
<1>4. \A e \in Callers : CallInv(call[e])'
  BY <1>3 DEF CallInv, Vouched, Authorized
<1> QED  BY <1>1, <1>4 DEF CallsInv

LEMMA IdentifyStep ==
    ASSUME Inv, NEW c \in Callers, Identify(c)
    PROVE  CallsInv'
<1>1. CallsInv /\ call[c].req \in Requests
  BY DEF Inv, CallsInv, CallInv, Identify
<1>2. PICK reply \in Replies :
          IF IdentityStatus(reply) = "VERIFIED"
          THEN call' = [call EXCEPT ![c] = [at |-> "authority", reply |-> reply,
                                            packet |-> PacketOf(call[c].req, reply.agent)]]
          ELSE Return(c)
  BY DEF Identify
<1>3. CASE IdentityStatus(reply) # "VERIFIED"
  BY <1>1, <1>2, <1>3, ReturnKeeps
<1>4. CASE IdentityStatus(reply) = "VERIFIED"
  <2> DEFINE p == PacketOf(call[c].req, reply.agent)
             x == [at |-> "authority", reply |-> reply, packet |-> p]
  <2>1. p \in Packets
    BY <1>1 DEF Packets
  <2>2. p.agent = HashJSON([agent |-> reply.agent, verified |-> TRUE])
    BY DEF PacketOf, Packet
  <2>3. reply.complete /\ reply.success = "yes" /\ reply.valid = "yes"
    BY <1>4, VerifiedIsExplicit
  <2> HIDE DEF p
  <2>4. CallInv(x)
    BY <2>1, <2>2, <2>3 DEF CallInv, Vouched
  <2>5. call' = [call EXCEPT ![c] = x]
    BY <1>2, <1>4 DEF p
  <2> QED  BY <1>1, <2>4, <2>5, CallsStep
<1> QED  BY <1>3, <1>4

LEMMA AuthorizeStep ==
    ASSUME Inv, NEW c \in Callers, Authorize(c)
    PROVE  CallsInv' /\ given' \in Authorities \cup {None}
<1>1. /\ CallsInv /\ given \in Authorities \cup {None}
      /\ call[c].reply \in Replies /\ call[c].packet \in Packets /\ Vouched(call[c])
  BY DEF Inv, CallsInv, CallInv, Authorize
<1>2. PICK a \in {Authority(call[c].packet, q) : q \in Confidences} \cup {given, None} :
       /\ given' = IF a = None THEN given ELSE a
       /\ IF a # None /\ Permits(call[c].packet, StationTarget, a)
          THEN call' = [call EXCEPT ![c] = [at |-> "consume", reply |-> call[c].reply,
                                            packet |-> call[c].packet, authority |-> a]]
          ELSE Return(c)
  BY DEF Authorize
<1>3. a \in Authorities \cup {None}
  BY <1>1 DEF Authorities
<1>4. given' \in Authorities \cup {None}
  BY <1>1, <1>2, <1>3
<1>5. CASE ~(a # None /\ Permits(call[c].packet, StationTarget, a))
  BY <1>1, <1>2, <1>4, <1>5, ReturnKeeps
<1>6. CASE a # None /\ Permits(call[c].packet, StationTarget, a)
  <2> DEFINE x == [at |-> "consume", reply |-> call[c].reply,
                   packet |-> call[c].packet, authority |-> a]
  <2>1. a.disposition = "AUTO_ROUTE" /\ a.packetHash = HashJSON(call[c].packet)
    BY <1>3, <1>6, PermitsAreRoutes
  <2>2. CallInv(x)
    BY <1>1, <1>3, <1>6, <2>1 DEF CallInv, Vouched, Authorized
  <2> QED  BY <1>1, <1>2, <1>4, <1>6, <2>2, CallsStep
<1> QED  BY <1>5, <1>6

LEMMA ConsumeStep ==
    ASSUME Inv, NEW c \in Callers, Consume(c)
    PROVE  CallsInv' /\ LookupsInv'
<1>1. /\ CallsInv /\ LookupsInv
      /\ call[c].reply \in Replies /\ call[c].packet \in Packets /\ Vouched(call[c])
      /\ call[c].authority \in Authorities /\ Authorized(call[c])
  BY DEF Inv, CallsInv, CallInv, Consume
<1>2. CASE Key(call[c].packet) \in consumed
  <2>1. Return(c) /\ UNCHANGED <<consumed, lookups>>
    BY <1>2 DEF Consume
  <2>2. CallsInv'
    BY <1>1, <2>1, ReturnKeeps
  <2> QED  BY <1>1, <2>1, <2>2 DEF LookupsInv, Vouched, Authorized
<1>3. CASE Key(call[c].packet) \notin consumed
  <2> DEFINE l == [packet |-> call[c].packet, authority |-> call[c].authority, reply |-> call[c].reply]
  <2>1. /\ consumed' = consumed \cup {call[c].packet.action}
        /\ lookups' = Append(lookups, l)
        /\ call' = [call EXCEPT ![c].at = "evidence"]
    BY <1>3 DEF Consume, Key
  <2>2. l \in Lookups /\ Vouched(l) /\ Authorized(l) /\ l.packet.action \notin consumed
    BY <1>1, <1>3 DEF Lookups, Vouched, Authorized, Key
  <2> HIDE DEF l
  <2>3. /\ lookups' \in Seq(Lookups) /\ Len(lookups') = Len(lookups) + 1
        /\ \A i \in 1..Len(lookups') : lookups'[i] = IF i = Len(lookups) + 1 THEN l ELSE lookups[i]
    BY <1>1, <2>1, <2>2 DEF LookupsInv
  <2>4. ASSUME NEW i \in 1..Len(lookups')
        PROVE  Vouched(lookups'[i]) /\ Authorized(lookups'[i]) /\ lookups'[i].packet.action \in consumed'
    <3>1. CASE i = Len(lookups) + 1
      BY <2>1, <2>2, <2>3, <3>1 DEF l
    <3>2. CASE i \in 1..Len(lookups)
      BY <1>1, <2>1, <2>3, <3>2 DEF LookupsInv
    <3> QED  BY <1>1, <2>3, <3>1, <3>2 DEF LookupsInv
  <2>5. ASSUME NEW i \in 1..Len(lookups'), NEW j \in 1..Len(lookups'),
               lookups'[i].packet.action = lookups'[j].packet.action
        PROVE  i = j
    BY <1>1, <2>2, <2>3, <2>5 DEF LookupsInv
  <2>6. LookupsInv'
    <3>1. \A i \in 1..Len(lookups') : (Vouched(lookups[i]) /\ Authorized(lookups[i]))'
      BY <2>4 DEF Vouched, Authorized
    <3> QED  BY <2>3, <2>4, <2>5, <3>1 DEF LookupsInv
  <2>7. CallsInv'
    <3>1. CallInv([call[c] EXCEPT !.at = "evidence"])
      BY DEF CallInv
    <3>2. call' = [call EXCEPT ![c] = [call[c] EXCEPT !.at = "evidence"]]
      BY <2>1
    <3> QED  BY <1>1, <3>1, <3>2, CallsStep
  <2> QED  BY <2>6, <2>7
<1> QED  BY <1>2, <1>3

LEMMA StepInv == Inv /\ [Next]_vars => Inv'
<1> SUFFICES ASSUME Inv, [Next]_vars PROVE Inv'
  OBVIOUS
<1> USE DEF Inv
<1>1. CASE UNCHANGED vars
  BY <1>1 DEF vars, CallsInv, CallInv, LookupsInv, Vouched, Authorized
<1>2. CASE Restart
  BY <1>2 DEF Restart, CallsInv, CallInv, LookupsInv, Idle
<1>3. ASSUME UNCHANGED <<consumed, lookups>> PROVE LookupsInv'
  BY <1>3 DEF LookupsInv, Vouched, Authorized
<1>4. ASSUME NEW c \in Callers, Submit(c) PROVE Inv'
  <2>1. PICK r \in Requests : call' = [call EXCEPT ![c] = [at |-> "identity", req |-> r]]
    BY <1>4 DEF Submit
  <2>2. CallInv([at |-> "identity", req |-> r])
    BY DEF CallInv
  <2>3. CallsInv'
    BY <2>1, <2>2, CallsStep
  <2> QED  BY <1>3, <1>4, <2>3 DEF Submit
<1>5. ASSUME NEW c \in Callers, Identify(c) PROVE Inv'
  BY <1>3, <1>5, IdentifyStep DEF Identify
<1>6. ASSUME NEW c \in Callers, Authorize(c) PROVE Inv'
  BY <1>3, <1>6, AuthorizeStep DEF Authorize
<1>7. ASSUME NEW c \in Callers, Consume(c) PROVE Inv'
  BY <1>7, ConsumeStep DEF Consume
<1>8. ASSUME NEW c \in Callers, Finish(c) PROVE Inv'
  BY <1>3, <1>8, ReturnKeeps DEF Finish
<1> QED  BY <1>1, <1>2, <1>4, <1>5, <1>6, <1>7, <1>8 DEF Next

----------------------------------------------------------------------------

LEMMA InvariantHolds == Spec => []Inv
<1>1. QED  BY InitInv, StepInv, PTL DEF Spec

\* An action id sends a process to the evidence verifier once, for an agent that the
\* identity provider vouched for and under a decision about this packet that routed
\* it automatically (Station.Execute and consume).
THEOREM VerificationHappensOnce == Spec => []OneVerification
<1>1. Inv => OneVerification
  <2> SUFFICES ASSUME Inv PROVE OneVerification
    OBVIOUS
  <2>1. LookupsInv /\ DOMAIN lookups = 1..Len(lookups)
    BY DEF Inv, LookupsInv
  <2>2. \A l \in ToSet(lookups) : \E i \in 1..Len(lookups) : l = lookups[i]
    BY <2>1 DEF ToSet
  <2> QED  BY <2>1, <2>2 DEF OneVerification, LookupsInv, Vouched, Authorized
<1> QED  BY <1>1, InvariantHolds, PTL
----------------------------------------------------------------------------
(* Results.  A result that Execute returns is the record of its parts, and   *)
(* its receipt is the one that is made of them.                              *)

Made(r) ==
    \E packet, authority, v : r = ResultOf(packet, authority, v) /\ VerifyResult(r)

ResultsInv == \A r \in results : Made(r)

\* Equal hashes, equal values.
LEMMA HashesDiffer == ASSUME NEW a, NEW b, HashJSON(a) = HashJSON(b) PROVE a = b
<1>1. HashJSON(a).sha256 = HashJSON(b).sha256
  OBVIOUS
<1> QED  BY <1>1 DEF HashJSON

ReceiptFields == {"action", "routeId", "executor", "status", "inputHash", "resultHash"}

\* A result has the seven parts and no others, and a receipt has six.
LEMMA MadeShape ==
    ASSUME NEW r, Made(r)
    PROVE  /\ r = [f \in Fields |-> r[f]]
           /\ r.receipt = [f \in ReceiptFields |-> r.receipt[f]]
           /\ VerifyResult(r)
<1>1. PICK packet, authority, v : r = ResultOf(packet, authority, v) /\ VerifyResult(r)
  BY DEF Made
<1> DEFINE rr == ReceiptResult(packet, authority, v)
<1>2. r = [identityRef |-> packet.inputs.identity, packet |-> packet, authority |-> authority,
           route |-> authority.route, verification |-> v, receiptResult |-> rr,
           receipt |-> MakeSuccessReceipt(packet, authority.route, rr)]
  BY <1>1 DEF ResultOf
<1> HIDE DEF rr
<1>3. r = [f \in Fields |-> r[f]]
  BY <1>2 DEF Fields
<1>4. r.packet = packet /\ r.authority = authority /\ r.route = authority.route
      /\ r.receipt = MakeSuccessReceipt(packet, authority.route, rr)
  BY <1>2
<1>5. authority.route.action = packet.action /\ authority.route.target \in packet.targets
  BY <1>1, <1>4 DEF VerifyResult, Permits
<1>6. r.receipt = [action |-> packet.action, routeId |-> authority.route.routeId,
                   executor |-> authority.route.target, status |-> "SUCCEEDED",
                   inputHash |-> HashJSON(packet.inputs), resultHash |-> HashJSON(rr)]
  BY <1>4, <1>5 DEF MakeSuccessReceipt
<1>7. r.receipt = [f \in ReceiptFields |-> r.receipt[f]]
  BY <1>6 DEF ReceiptFields
<1> QED  BY <1>1, <1>3, <1>7

\* The receipt's result names all the other parts by their hashes.
LEMMA PartsFollow ==
    ASSUME NEW m, NEW x, VerifyResult(m), VerifyResult(x), m.receiptResult = x.receiptResult
    PROVE  /\ m.packet = x.packet /\ m.authority = x.authority /\ m.route = x.route
           /\ m.verification = x.verification /\ m.identityRef = x.identityRef
           /\ \A f \in ReceiptFields : m.receipt[f] = x.receipt[f]
<1>1. m.packet = x.packet
  BY HashesDiffer DEF VerifyResult
<1>2. m.authority = x.authority
  BY HashesDiffer DEF VerifyResult
<1>3. m.verification = x.verification
  BY HashesDiffer DEF VerifyResult
<1>4. m.route = x.route
  BY <1>2 DEF VerifyResult
<1>5. m.identityRef = x.identityRef
  BY <1>1 DEF VerifyResult
<1>6. ASSUME NEW f \in ReceiptFields PROVE m.receipt[f] = x.receipt[f]
  <2>1. /\ m.receipt.action = x.receipt.action /\ m.receipt.routeId = x.receipt.routeId
        /\ m.receipt.executor = x.receipt.executor
        /\ m.receipt.inputHash = x.receipt.inputHash /\ m.receipt.resultHash = x.receipt.resultHash
    BY <1>1, <1>4 DEF VerifyResult, Verify
  <2>2. m.receipt.status = x.receipt.status
    BY DEF VerifyResult
  <2> QED  BY <2>1, <2>2 DEF ReceiptFields
<1> QED  BY <1>1, <1>2, <1>3, <1>4, <1>5, <1>6

\* What is put together from two results and passes is one of the two.
LEMMA MixtureIsOne ==
    ASSUME NEW a, NEW b, Made(a), Made(b), NEW part, NEW m,
           m = [f \in Fields |-> IF f \in part THEN a[f] ELSE b[f]], VerifyResult(m)
    PROVE  m \in {a, b}
<1>1. \A f \in Fields : m[f] = a[f] \/ m[f] = b[f]
  OBVIOUS
<1>2. PICK x \in {a, b} : m.receiptResult = x.receiptResult
  BY <1>1 DEF Fields
<1>3. PICK y \in {a, b} : m.receipt = y.receipt
  BY <1>1 DEF Fields
<1>4. VerifyResult(x) /\ x = [f \in Fields |-> x[f]]
      /\ x.receipt = [f \in ReceiptFields |-> x.receipt[f]]
  BY MadeShape
<1>5. m.receipt = [f \in ReceiptFields |-> m.receipt[f]]
  BY <1>3, MadeShape
<1>6. /\ m.packet = x.packet /\ m.authority = x.authority /\ m.route = x.route
      /\ m.verification = x.verification /\ m.identityRef = x.identityRef
      /\ \A f \in ReceiptFields : m.receipt[f] = x.receipt[f]
  BY <1>2, <1>4, PartsFollow
<1>7. m.receipt = x.receipt
  <2> DEFINE g == m.receipt
             h == x.receipt
  <2>1. g = [f \in ReceiptFields |-> g[f]] /\ h = [f \in ReceiptFields |-> h[f]]
        /\ \A f \in ReceiptFields : g[f] = h[f]
    BY <1>4, <1>5, <1>6
  <2> HIDE DEF g, h
  <2>2. g = h
    BY <2>1
  <2> QED  BY <2>2 DEF g, h
<1>8. \A f \in Fields : m[f] = x[f]
  BY <1>2, <1>6, <1>7 DEF Fields
<1>9. m = [f \in Fields |-> m[f]]
  OBVIOUS
<1>10. m = x
  BY <1>4, <1>8, <1>9
<1> QED  BY <1>10

LEMMA ResultsInvariant == Spec => []ResultsInv
<1>1. Init => ResultsInv
  BY DEF Init, ResultsInv
<1>2. ResultsInv /\ [Next]_vars => ResultsInv'
  <2> SUFFICES ASSUME ResultsInv, [Next]_vars PROVE ResultsInv'
    OBVIOUS
  <2>1. ASSUME UNCHANGED results PROVE ResultsInv'
    BY <2>1 DEF ResultsInv
  <2>2. ASSUME NEW c \in Callers, Finish(c) PROVE ResultsInv'
    <3>1. PICK v \in Verifications :
             IF /\ v # None /\ v.verdict # NoId /\ v.evidence # NoId
                /\ VerifyResult(ResultOf(call[c].packet, call[c].authority, v))
             THEN results' = results \cup {ResultOf(call[c].packet, call[c].authority, v)}
             ELSE UNCHANGED results
      BY <2>2 DEF Finish
    <3>2. CASE UNCHANGED results
      BY <2>1, <3>2
    <3>3. CASE /\ VerifyResult(ResultOf(call[c].packet, call[c].authority, v))
               /\ results' = results \cup {ResultOf(call[c].packet, call[c].authority, v)}
      BY <3>3 DEF ResultsInv, Made
    <3> QED  BY <3>1, <3>2, <3>3
  <2>3. ASSUME NEW c \in Callers, Submit(c) \/ Identify(c) \/ Authorize(c) \/ Consume(c)
        PROVE  ResultsInv'
    BY <2>1, <2>3 DEF Submit, Identify, Authorize, Consume
  <2>4. CASE Restart
    BY <2>1, <2>4 DEF Restart
  <2>5. CASE UNCHANGED vars
    BY <2>1, <2>5 DEF vars
  <2> QED  BY <2>2, <2>3, <2>4, <2>5 DEF Next
<1> QED  BY <1>1, <1>2, PTL DEF Spec

\* Of parts of several results, of any number of processes, whatever they are about,
\* VerifyResult accepts only what one execution returned.
THEOREM ResultsDoNotMix == Spec => []ResultIsOneExecution
<1>1. ResultsInv => ResultIsOneExecution
  <2> SUFFICES ASSUME ResultsInv, NEW a \in results, NEW b \in results, NEW part \in SUBSET Fields,
                      VerifyResult([f \in Fields |-> IF f \in part THEN a[f] ELSE b[f]])
               PROVE  [f \in Fields |-> IF f \in part THEN a[f] ELSE b[f]] \in {a, b}
    BY DEF ResultIsOneExecution
  <2>1. Made(a) /\ Made(b)
    BY DEF ResultsInv
  <2> QED  BY <2>1, MixtureIsOne
<1> QED  BY <1>1, ResultsInvariant, PTL

-----------------------------------------------------------------------------
(* The coding workflow: what a receipt vouches for.                          *)

\* Contracts that the server gave out.
GivenOut(c) ==
    /\ \E k \in Keys : c = [m |-> c.m, hash |-> HashJSON(c.m), sig |-> Sign(k, c.m)]
    /\ c.m.paths \subseteq Seq(STRING)
    /\ c.m.snapshot.sha256[2] = TRUE /\ c.m.gate.disposition = "AUTO_ROUTE"
    /\ ProbabilityOf(c.m.decision, c.m.decision.selected) >= 98

\* A decision that the gate lets through is at least as sure as the policy asks.
LEMMA GateIsSure ==
    ASSUME NEW packet, NEW r, NEW d,
           ApplyDecision(packet, r, d, DefaultGatePolicy) # None,
           ApplyDecision(packet, r, d, DefaultGatePolicy).disposition = "AUTO_ROUTE"
    PROVE  ProbabilityOf(d, d.selected) >= 98
<1> DEFINE p == ProbabilityOf(d, d.selected)
<1>1. /\ ValidateDecision(packet, r, d)
      /\ ~(p < 98)
  <2>1. /\ Held("REQUIRE_APPROVAL").disposition = "REQUIRE_APPROVAL"
        /\ Held("ESCALATE_SYSTEM2").disposition = "ESCALATE_SYSTEM2"
    BY DEF Held
  <2>2. DefaultGatePolicy.confidence = 98
    BY DEF DefaultGatePolicy
  <2> HIDE DEF p
  <2> QED  BY <2>1, <2>2 DEF ApplyDecision, p
<1>2. p \in Int
  <2>1. \A q \in ToSet(d.probs) : q.p \in 0..100
    BY <1>1 DEF ValidateDecision
  <2>2. \A j \in DOMAIN d.probs : d.probs[j].p \in Int
    BY <2>1 DEF ToSet
  <2> QED  BY <2>2 DEF ProbabilityOf
<1> HIDE DEF p
<1>3. p >= 98
  BY <1>1, <1>2
<1> QED  BY <1>3 DEF p

\* A contract that verifies was given out as it stands, under the current key.
LEMMA VerifiedIsGiven ==
    ASSUME \A c \in contracts : GivenOut(c), NEW x \in Presented, VerifyContract(x)
    PROVE  x \in contracts /\ x.sig.by = key
<1>1. x.sig = Sign(key, x.m)
  BY DEF VerifyContract
<1>2. x.sig.by = key
  BY <1>1 DEF Sign
<1>3. ASSUME NEW c \in contracts, NEW i \in StartInputs, x = Edited(c, i)
      PROVE  x = c
  <2>1. PICK k \in Keys : c = [m |-> c.m, hash |-> HashJSON(c.m), sig |-> Sign(k, c.m)]
    BY DEF GivenOut
  <2>2. x = [m |-> x.m, hash |-> HashJSON(x.m), sig |-> c.sig]
    BY <1>3 DEF Edited, Contract
  <2>3. x.m = c.m
    BY <1>1, <2>1, <2>2 DEF Sign
  <2> QED  BY <2>1, <2>2, <2>3
<1> QED  BY <1>2, <1>3 DEF Presented

\* A file that is allowed is one of the paths or below one of them.
LEMMA AllowedIsInside ==
    ASSUME NEW f \in Seq(STRING), NEW paths \in SUBSET Seq(STRING), PathAllowed(f, paths)
    PROVE  \E p \in paths : SubSeq(f, 1, Len(p)) = p /\ (f = p \/ f[Len(p) + 1] = "/")
<1>1. PICK p \in paths : f = p \/ IsPrefix(p \o <<"/">>, f)
  BY DEF PathAllowed
<1> DEFINE S == STRING \cup {"/"}
<1>2. p \in Seq(S) /\ Len(p) \in Nat /\ Len(f) \in Nat /\ f \in Seq(S) /\ "/" \in S
  OBVIOUS
<1> HIDE DEF S
<1>3. CASE f = p
  <2>1. SubSeq(f, 1, Len(f)) = f
    BY <1>2
  <2> QED  BY <1>3, <2>1
<1>4. CASE IsPrefix(p \o <<"/">>, f)
  <2> DEFINE q == p \o <<"/">>
             n == Len(p)
  <2>1. /\ q \in Seq(S) /\ Len(q) = n + 1
        /\ \A i \in 1..n : q[i] = p[i]
        /\ q[n + 1] = "/"
    <3>1. <<"/">> \in Seq(S) /\ Len(<<"/">>) = 1 /\ <<"/">>[1] = "/"
      BY <1>2
    <3>2. /\ q \in Seq(S) /\ Len(q) = n + Len(<<"/">>)
          /\ \A i \in 1..(n + Len(<<"/">>)) : q[i] = IF i <= n THEN p[i] ELSE <<"/">>[i - n]
      BY <1>2, <3>1, ConcatProperties
    <3>3. (n + 1) - n = 1 /\ ~(n + 1 <= n) /\ n + 1 \in 1..(n + 1)
      BY <1>2
    <3> HIDE DEF q, n
    <3> QED  BY <1>2, <3>1, <3>2, <3>3 DEF n
  <2> HIDE DEF q
  <2>2. n + 1 <= Len(f) /\ SubSeq(q, 1, n + 1) = SubSeq(f, 1, n + 1)
    BY <1>4, <2>1 DEF IsPrefix, q
  <2>3. \A i \in 1..(n + 1) : f[i] = q[i]
    <3>1. \A i \in 1..(n + 1) : SubSeq(q, 1, n + 1)[i] = q[i]
      BY <1>2, <2>1
    <3>2. \A i \in 1..(n + 1) : SubSeq(f, 1, n + 1)[i] = f[i]
      BY <1>2, <2>2
    <3> QED  BY <2>2, <3>1, <3>2
  <2>4. SubSeq(f, 1, n) \in Seq(S) /\ Len(SubSeq(f, 1, n)) = n
    BY <1>2, <2>2
  <2>5. \A i \in 1..n : SubSeq(f, 1, n)[i] = p[i]
    BY <1>2, <2>1, <2>2, <2>3
  <2>6. SubSeq(f, 1, n) = p
    BY <1>2, <2>4, <2>5, SeqEqual
  <2>7. f[n + 1] = "/"
    BY <1>2, <2>1, <2>3
  <2> QED  BY <2>6, <2>7
<1> QED  BY <1>1, <1>3, <1>4

\* A nonempty set of numbers with a bound has a greatest element.
LEMMA GreatestNumber ==
    ASSUME NEW n \in Nat, NEW T \in SUBSET (1..n), T # {}
    PROVE  \E m \in T : \A k \in T : k <= m
<1> DEFINE Above(k) == k..n
           Intervals == {Above(k) : k \in T}
<1>1. Intervals \subseteq FiniteSubsetsOf(Nat) /\ Intervals # {}
  <2>1. \A k \in T : IsFiniteSet(Above(k)) /\ Above(k) \in SUBSET Nat
    BY FS_Interval
  <2> QED  BY <2>1 DEF FiniteSubsetsOf
<1>2. IsWellFoundedOn(StrictSubsetOrdering(Nat), FiniteSubsetsOf(Nat))
  BY FS_StrictSubsetOrderingWellFounded
<1>3. PICK I \in Intervals :
          \A J \in Intervals : <<J, I>> \notin StrictSubsetOrdering(Nat)
  <2> HIDE DEF Intervals
  <2> QED  BY <1>1, <1>2, WFMin
<1>4. PICK m \in T : I = Above(m)
  OBVIOUS
<1>5. ASSUME NEW k \in T, k > m
      PROVE  FALSE
  <2>1. Above(k) \subseteq Above(m) /\ m \in Above(m) /\ m \notin Above(k)
    BY <1>5
  <2>2. <<Above(k), I>> \in StrictSubsetOrdering(Nat)
    BY <2>1, <1>4, <1>1 DEF StrictSubsetOrdering
  <2> QED  BY <1>3, <2>2
<1> QED  BY <1>5

Names == UNION {i.checks : i \in StartInputs}

Runs == [head : Heads, name : Names, state : {"queued", "success"}]

\* The checks that succeed are green together.
LEMMA SucceededIsGreen ==
    ASSUME NEW h, NEW checks, Succeeded(h, checks), runs \in Seq(Runs)
    PROVE  checks \subseteq Green(h)
<1> SUFFICES ASSUME NEW name \in checks
             PROVE  name \in Green(h)
  OBVIOUS
<1> DEFINE own == {i \in ChecksOf(h) : runs[i].name = name}
           last == CHOOSE i \in own : \A j \in own : j <= i
<1>1. own # {} /\ runs[last].state = "success"
  BY DEF Succeeded
<1>2. own \in SUBSET (1..Len(runs)) /\ Len(runs) \in Nat
  BY DEF ChecksOf
<1> HIDE DEF own
<1>3. last \in own /\ \A j \in own : j <= last
  BY <1>1, <1>2, GreatestNumber
<1> HIDE DEF last
<1>4. last \in ChecksOf(h) /\ runs[last].name = name
  BY <1>3 DEF own
<1>5. \A j \in ChecksOf(h) : runs[j].name = runs[last].name => j <= last
  BY <1>3, <1>4 DEF own
<1> QED  BY <1>1, <1>4, <1>5 DEF Green

\* What a receipt r vouches for, under contract c.
VouchedBy(r, c) ==
    /\ r.contract = c.hash /\ r.sig.by = c.sig.by /\ r.base = c.m.base /\ r.checks = c.m.checks
    /\ r.seen.status = "open" /\ r.seen.base = r.base /\ r.seen.head = r.head
    /\ r.head \in Heads /\ r.filesOf \in Heads
    /\ r.files.sha256 \subseteq Files[r.filesOf] /\ InScope(r.files.sha256, c)
    /\ r.files = HashJSON(r.files.sha256)
    /\ Cardinality(r.files.sha256) = Cardinality(Files[r.head])
    /\ r.checks \subseteq r.green

\* What a call holds at each of its steps, of a server with a key.
HeldInv(at, w) ==
    /\ at \in {"issue", "decide"} => w.input \in StartInputs
    /\ at = "decide" => w.snapshot.sha256[2] = TRUE
    /\ at \in {"pull", "files", "checks"} => w.contract \in contracts /\ w.contract.sig.by = key
    /\ at \in {"files", "checks"} =>
          w.seen.status = "open" /\ w.seen.base = w.contract.m.base /\ w.seen.head \in Heads
    /\ at = "files" => w.count = Cardinality(Files[w.seen.head])
    /\ at = "checks" =>
          /\ w.filesOf \in Heads /\ w.files \subseteq Files[w.filesOf]
          /\ Cardinality(w.files) = Cardinality(Files[w.seen.head]) /\ InScope(w.files, w.contract)
    /\ at = "verified" => \E c \in contracts : VouchedBy(w, c)

CodingInv ==
    /\ pull.head \in Heads
    /\ runs \in Seq(Runs)
    /\ key \in Keys
    /\ DOMAIN pc = Calls /\ DOMAIN held = Calls
    /\ \A c \in contracts : GivenOut(c)
    /\ \A c \in Calls : HeldInv(pc[c], held[c])

\* A call goes on, and nothing that the others hold changes.
LEMMA CallStep ==
    ASSUME CodingInv, NEW c \in Calls, NEW at, NEW w,
           pc' = [pc EXCEPT ![c] = at], held' = [held EXCEPT ![c] = w], HeldInv(at, w),
           UNCHANGED <<pull, runs, key>>, contracts \subseteq contracts',
           \A x \in contracts' : x \in contracts \/ GivenOut(x)
    PROVE  CodingInv'
<1>1. \A d \in Calls : /\ pc'[d] = IF d = c THEN at ELSE pc[d]
                       /\ held'[d] = IF d = c THEN w ELSE held[d]
  BY DEF CodingInv
<1>2. \A d \in Calls : HeldInv(pc'[d], held'[d])
  BY <1>1 DEF CodingInv
<1>3. \A d \in Calls : HeldInv(pc[d], held[d])'
  BY <1>2 DEF HeldInv, VouchedBy, InScope
<1>4. \A x \in contracts' : GivenOut(x)
  BY DEF CodingInv
<1>5. \A x \in contracts' : GivenOut(x)'
  BY <1>4 DEF GivenOut, Sign
<1> QED  BY <1>3, <1>5 DEF CodingInv

\* A step of GitHub leaves the server alone.
LEMMA GitHubStep ==
    ASSUME CodingInv, UNCHANGED <<key, pc, held, contracts>>, pull'.head \in Heads,
           runs' \in Seq(Runs)
    PROVE  CodingInv'
<1>1. \A d \in Calls : HeldInv(pc[d], held[d])'
  BY DEF CodingInv, HeldInv, VouchedBy, InScope
<1>2. \A x \in contracts' : GivenOut(x)'
  BY DEF CodingInv, GivenOut, Sign
<1> QED  BY <1>1, <1>2 DEF CodingInv

LEMMA IdleStep ==
    ASSUME CodingInv, NEW c \in Calls, GiveUp(c)
    PROVE  CodingInv'
<1>1. HeldInv("idle", NoCall)
  BY DEF HeldInv
<1> QED  BY <1>1, CallStep DEF GiveUp, GoOn, github, server

LEMMA OwnCall ==
    ASSUME CodingInv, NEW c \in Calls
    PROVE  HeldInv(pc[c], held[c])
BY DEF CodingInv

LEMMA DecideKeeps ==
    ASSUME CodingInv, NEW c \in Calls, Decide(c)
    PROVE  CodingInv'
<1>1. PICK input, snapshot : input = held[c].input /\ snapshot = held[c].snapshot
  OBVIOUS
<1>2. input \in StartInputs /\ snapshot.sha256[2] = TRUE
  BY <1>1, OwnCall DEF Decide, HeldInv
<1> DEFINE request == CodingRequest(input, snapshot)
           packet == CodingPacket(input, snapshot)
           gate(d) == IF d = None \/ request = None THEN None
                      ELSE ApplyDecision(packet, request, d, DefaultGatePolicy)
<1>3. PICK d :
          /\ contracts' = IF gate(d) # None /\ gate(d).disposition = "AUTO_ROUTE"
                          THEN contracts \cup {Contract(input, snapshot, request, d, gate(d))}
                          ELSE contracts
          /\ pc' = [pc EXCEPT ![c] = "idle"] /\ held' = [held EXCEPT ![c] = NoCall]
          /\ UNCHANGED <<github, server>>
  BY <1>1 DEF Decide
<1>4. ASSUME gate(d) # None, gate(d).disposition = "AUTO_ROUTE"
      PROVE  GivenOut(Contract(input, snapshot, request, d, gate(d)))
  <2>1. ProbabilityOf(d, d.selected) >= 98
    <3> HIDE DEF request, packet
    <3> QED  BY <1>4, GateIsSure
  <2>2. input.paths \subseteq Seq(STRING) /\ key \in Keys
    BY <1>2, CodingAssumption DEF CodingInv
  <2> HIDE DEF request, gate, packet
  <2>3. PICK x : x = Contract(input, snapshot, request, d, gate(d))
    OBVIOUS
  <2>4. /\ x = [m |-> x.m, hash |-> HashJSON(x.m), sig |-> Sign(key, x.m)]
        /\ x.m.paths = input.paths /\ x.m.snapshot = snapshot /\ x.m.gate = gate(d)
        /\ x.m.decision = d
    BY <2>3 DEF Contract
  <2> QED  BY <1>2, <1>4, <2>1, <2>2, <2>3, <2>4 DEF GivenOut
<1> HIDE DEF request, gate
<1>5. HeldInv("idle", NoCall)
  BY DEF HeldInv
<1>6. contracts \subseteq contracts' /\ \A x \in contracts' : x \in contracts \/ GivenOut(x)
  BY <1>3, <1>4
<1> QED  BY <1>3, <1>5, <1>6, CallStep DEF github, server

LEMMA ReadFilesKeeps ==
    ASSUME CodingInv, NEW c \in Calls, ReadFiles(c)
    PROVE  CodingInv'
<1>1. PICK w : w = held[c]
  OBVIOUS
<1>2. HeldInv("files", w)
  BY <1>1, OwnCall DEF ReadFiles
<1>3. PICK page \in Pages(pull.head) :
          IF Cardinality(page) = w.count /\ InScope(page, w.contract)
          THEN GoOn(c, "checks", [contract |-> w.contract, seen |-> w.seen,
                                  files |-> page, filesOf |-> pull.head])
          ELSE GiveUp(c)
  BY <1>1 DEF ReadFiles
<1>4. CASE /\ Cardinality(page) = w.count /\ InScope(page, w.contract)
           /\ GoOn(c, "checks", [contract |-> w.contract, seen |-> w.seen,
                                 files |-> page, filesOf |-> pull.head])
  <2>1. PICK v : v = [contract |-> w.contract, seen |-> w.seen, files |-> page, filesOf |-> pull.head]
    OBVIOUS
  <2>2. pull.head \in Heads /\ page \subseteq Files[pull.head]
    BY DEF CodingInv, Pages
  <2>3. /\ v.contract = w.contract /\ v.seen = w.seen /\ v.files = page /\ v.filesOf = pull.head
    BY <2>1
  <2>4. HeldInv("checks", v)
    BY <1>2, <1>4, <2>2, <2>3 DEF HeldInv
  <2> QED  BY <1>4, <2>1, <2>4, CallStep DEF GoOn, github, server
<1> QED  BY <1>3, <1>4, IdleStep

LEMMA ReadChecksKeeps ==
    ASSUME CodingInv, NEW c \in Calls, ReadChecks(c)
    PROVE  CodingInv'
<1>1. PICK w : w = held[c]
  OBVIOUS
<1>2. HeldInv("checks", w)
  BY <1>1, OwnCall DEF ReadChecks
<1>3. CASE Succeeded(w.seen.head, w.contract.m.checks) /\ GoOn(c, "verified", Receipt(w))
  <2>1. PICK r : r = Receipt(w)
    OBVIOUS
  <2>2. w.contract.m.checks \subseteq Green(w.seen.head)
    BY <1>3, SucceededIsGreen DEF CodingInv
  <2>3. w.contract \in contracts /\ w.contract.sig.by = key
    BY <1>2 DEF HeldInv
  <2>4. /\ r.contract = w.contract.hash /\ r.base = w.contract.m.base /\ r.head = w.seen.head
        /\ r.files = HashJSON(w.files) /\ r.files.sha256 = w.files
        /\ r.checks = w.contract.m.checks /\ r.sig.by = key
        /\ r.seen = w.seen /\ r.filesOf = w.filesOf /\ r.green = Green(w.seen.head)
    BY <2>1 DEF Receipt, Sign, HashJSON
  <2>5. VouchedBy(r, w.contract)
    BY <1>2, <2>2, <2>3, <2>4 DEF VouchedBy, HeldInv
  <2>6. HeldInv("verified", r)
    BY <2>3, <2>5 DEF HeldInv
  <2> QED  BY <1>3, <2>1, <2>6, CallStep DEF GoOn, github, server
<1> QED  BY <1>1, <1>3, IdleStep DEF ReadChecks

LEMMA ServerStep ==
    ASSUME CodingInv, NEW c \in Calls,
           (\E i \in StartInputs : CodingStart(c, i)) \/ ReadIssue(c) \/ CodingVerify(c) \/ ReadPull(c)
    PROVE  CodingInv'
<1>1. PICK w : w = held[c]
  OBVIOUS
<1>2. ASSUME NEW i \in StartInputs, CodingStart(c, i)
      PROVE  CodingInv'
  <2>1. HeldInv("issue", [input |-> i])
    BY DEF HeldInv
  <2> QED  BY <1>2, <2>1, CallStep DEF CodingStart, Admit, github, server
<1>3. CASE ReadIssue(c)
  <2>1. w.input \in StartInputs
    BY <1>1, <1>3, OwnCall DEF ReadIssue, HeldInv
  <2>2. issue[2] => HeldInv("decide", [input |-> w.input, snapshot |-> HashJSON(issue)])
    BY <2>1 DEF HeldInv, HashJSON
  <2>3. CASE issue[2] /\ GoOn(c, "decide", [input |-> w.input, snapshot |-> HashJSON(issue)])
    BY <2>2, <2>3, CallStep DEF GoOn, github, server
  <2> QED  BY <1>1, <1>3, <2>3, IdleStep DEF ReadIssue
<1>4. CASE CodingVerify(c)
  <2>1. PICK x \in Presented : VerifyContract(x) /\ Admit(c, "pull", [contract |-> x])
    BY <1>4 DEF CodingVerify
  <2>2. x \in contracts /\ x.sig.by = key
    BY <2>1, VerifiedIsGiven DEF CodingInv
  <2>3. HeldInv("pull", [contract |-> x])
    BY <2>2 DEF HeldInv
  <2> QED  BY <2>1, <2>3, CallStep DEF Admit, github, server
<1>5. CASE ReadPull(c)
  <2>1. HeldInv("pull", w)
    BY <1>1, <1>5, OwnCall DEF ReadPull
  <2>2. CASE /\ pull.status = "open" /\ pull.base = w.contract.m.base
             /\ GoOn(c, "files", [contract |-> w.contract, seen |-> pull,
                                  count |-> Cardinality(Files[pull.head])])
    <3>1. PICK v : v = [contract |-> w.contract, seen |-> pull,
                        count |-> Cardinality(Files[pull.head])]
      OBVIOUS
    <3>2. v.contract = w.contract /\ v.seen = pull /\ v.count = Cardinality(Files[pull.head])
      BY <3>1
    <3>3. HeldInv("files", v)
      BY <2>1, <2>2, <3>2 DEF HeldInv, CodingInv
    <3> QED  BY <2>2, <3>1, <3>3, CallStep DEF GoOn, github, server
  <2> QED  BY <1>1, <1>5, <2>2, IdleStep DEF ReadPull
<1> QED  BY <1>2, <1>3, <1>4, <1>5

LEMMA CodingStepKeeps ==
    ASSUME CodingInv, [CodingNext]_codingVars
    PROVE  CodingInv'
<1>1. CASE UNCHANGED codingVars
  BY <1>1, GitHubStep DEF codingVars, CodingInv
<1>2. ASSUME NEW p, NEW rs, NEW is, GitHub(p, rs, is), p.head \in Heads, rs \in Seq(Runs)
      PROVE  CodingInv'
  BY <1>2, GitHubStep DEF GitHub, server
<1>3. CASE \E h \in Heads : Push(h)
  <2>1. PICK h \in Heads : GitHub([pull EXCEPT !.head = h], runs, issue)
    BY <1>3 DEF Push
  <2>2. [pull EXCEPT !.head = h].head \in Heads
    BY DEF CodingInv
  <2> QED  BY <1>2, <2>1, <2>2 DEF CodingInv
<1>4. CASE \/ \E b \in Bases : Rebase(b)
           \/ \E s \in {"open", "draft", "closed"} : Toggle(s)
           \/ \E t \in Texts, open \in BOOLEAN : EditIssue(t, open)
  <2>1. \A x : /\ [pull EXCEPT !.base = x].head = pull.head
               /\ [pull EXCEPT !.status = x].head = pull.head
    OBVIOUS
  <2> QED  BY <1>2, <1>4, <2>1 DEF CodingInv, Rebase, Toggle, EditIssue
<1>5. CASE \E h \in Heads, n \in Names : Queue(h, n)
  <2>1. PICK h \in Heads, n \in Names :
            GitHub(pull, Append(runs, [head |-> h, name |-> n, state |-> "queued"]), issue)
    BY <1>5 DEF Queue
  <2>2. [head |-> h, name |-> n, state |-> "queued"] \in Runs
    BY DEF Runs
  <2>3. Append(runs, [head |-> h, name |-> n, state |-> "queued"]) \in Seq(Runs)
    BY <2>2, AppendProperties DEF CodingInv
  <2> QED  BY <1>2, <2>1, <2>3 DEF CodingInv
<1>6. CASE \E i \in DOMAIN runs : Succeed(i)
  <2>1. PICK i \in DOMAIN runs :
            GitHub(pull, [runs EXCEPT ![i] = [@ EXCEPT !.state = "success"]], issue)
    BY <1>6 DEF Succeed
  <2>2. runs[i] \in Runs
    BY ElementOfSeq DEF CodingInv
  <2>3. [runs[i] EXCEPT !.state = "success"] \in Runs
    BY <2>2 DEF Runs
  <2>4. [runs EXCEPT ![i] = [@ EXCEPT !.state = "success"]] \in Seq(Runs)
    BY <2>3, ExceptSeq DEF CodingInv
  <2> QED  BY <1>2, <2>1, <2>4 DEF CodingInv
<1>7. CASE \E k \in Keys : RestartServer(k)
  <2>1. HeldInv("idle", NoCall)'
    BY DEF HeldInv
  <2>2. /\ \A d \in Calls : pc'[d] = "idle" /\ held'[d] = NoCall
        /\ DOMAIN pc' = Calls /\ DOMAIN held' = Calls /\ key' \in Keys
        /\ UNCHANGED <<pull, runs, contracts>>
    BY <1>7 DEF RestartServer, github
  <2>3. \A d \in Calls : HeldInv(pc[d], held[d])'
    BY <2>2 DEF HeldInv
  <2>4. \A x \in contracts' : GivenOut(x)'
    BY <2>2 DEF CodingInv, GivenOut, Sign
  <2> QED  BY <2>2, <2>3, <2>4 DEF CodingInv
<1>8. ASSUME NEW c \in Calls,
             \/ (\E i \in StartInputs : CodingStart(c, i)) \/ ReadIssue(c) \/ CodingVerify(c)
             \/ ReadPull(c) \/ Decide(c) \/ ReadFiles(c) \/ ReadChecks(c) \/ Timeout(c)
      PROVE  CodingInv'
  BY <1>8, ServerStep, DecideKeeps, ReadFilesKeeps, ReadChecksKeeps, IdleStep DEF Timeout
<1> QED  BY <1>1, <1>3, <1>4, <1>5, <1>6, <1>7, <1>8 DEF CodingNext, Names

LEMMA CodingInvariant == CodingSpec => []CodingInv
<1>1. CodingInit => CodingInv
  <2> SUFFICES ASSUME CodingInit
               PROVE  CodingInv
    OBVIOUS
  <2>1. pull.head \in Heads /\ runs \in Seq(Runs) /\ key \in Keys
    BY DEF CodingInit
  <2>2. \A c \in Calls : HeldInv(pc[c], held[c])
    BY DEF CodingInit, HeldInv
  <2> QED  BY <2>1, <2>2 DEF CodingInit, CodingInv
<1>2. CodingInv /\ [CodingNext]_codingVars => CodingInv'
  BY CodingStepKeeps
<1> QED  BY <1>1, <1>2, PTL DEF CodingSpec

\* Every receipt is vouched for by a contract.
LEMMA ReceiptsAreVouched ==
    ASSUME CodingInv, NEW r \in Receipts
    PROVE  \E c \in contracts : GivenOut(c) /\ VouchedBy(r, c)
BY DEF CodingInv, HeldInv, Receipts

\* A receipt goes back to a contract that was given out, unedited and under a key of the
\* server, and to the pull request as it was read (Verify, VerifyContract).
THEOREM ReceiptsEarned == CodingSpec => []ReceiptIsEarned
<1>1. CodingInv => ReceiptIsEarned
  <2> SUFFICES ASSUME CodingInv, NEW r \in Receipts
               PROVE  \E c \in contracts :
                         /\ r.contract = HashJSON(c.m) /\ r.sig.by = c.sig.by
                         /\ c.m.snapshot.sha256[2] /\ c.m.gate.disposition = "AUTO_ROUTE"
                         /\ ProbabilityOf(c.m.decision, c.m.decision.selected) >= 98
                         /\ r.base = c.m.base /\ r.checks = c.m.checks
                         /\ r.seen.status = "open" /\ r.seen.base = r.base /\ r.seen.head = r.head
    BY DEF ReceiptIsEarned
  <2>1. PICK c \in contracts : GivenOut(c) /\ VouchedBy(r, c)
    BY ReceiptsAreVouched
  <2>2. c.hash = HashJSON(c.m)
    BY <2>1 DEF GivenOut
  <2> QED  BY <2>1, <2>2 DEF GivenOut, VouchedBy
<1> QED  BY <1>1, CodingInvariant, PTL

\* Whatever is pushed while they are read, the files of a receipt are inside its contract's
\* paths, files of one head, and as many as its own head changes (ReadFiles, PathAllowed).
THEOREM FilesAreWithinScope == CodingSpec => []FilesWithinScope
<1>1. CodingInv => FilesWithinScope
  <2> SUFFICES ASSUME CodingInv, NEW r \in Receipts
               PROVE  \E c \in contracts :
                         /\ r.contract = c.hash
                         /\ \A f \in r.files.sha256 : \E p \in c.m.paths :
                                /\ SubSeq(f, 1, Len(p)) = p
                                /\ f = p \/ f[Len(p) + 1] = "/"
                         /\ r.files.sha256 \subseteq Files[r.filesOf]
                         /\ Cardinality(r.files.sha256) = Cardinality(Files[r.head])
    BY DEF FilesWithinScope
  <2>1. PICK c \in contracts : GivenOut(c) /\ VouchedBy(r, c)
    BY ReceiptsAreVouched
  <2>2. r.files.sha256 \subseteq Seq(STRING)
    BY <2>1, CodingAssumption DEF VouchedBy
  <2>3. \A f \in r.files.sha256 : \E p \in c.m.paths :
           SubSeq(f, 1, Len(p)) = p /\ (f = p \/ f[Len(p) + 1] = "/")
    BY <2>1, <2>2, AllowedIsInside DEF VouchedBy, InScope, GivenOut
  <2> QED  BY <2>1, <2>3 DEF VouchedBy
<1> QED  BY <1>1, CodingInvariant, PTL

\* The required checks of a receipt were green on its head at one moment (Verify, selectedChecks).
THEOREM ChecksGreenTogether == CodingSpec => []GreenTogether
<1>1. CodingInv => GreenTogether
  BY ReceiptsAreVouched DEF GreenTogether, VouchedBy
<1> QED  BY <1>1, CodingInvariant, PTL
====
