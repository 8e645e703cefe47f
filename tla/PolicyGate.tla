----------------------------- MODULE PolicyGate -----------------------------
(***************************************************************************)
(* The signed policy authority and the gates it feeds: manifests, their    *)
(* signatures, rotations and the resolver (internal/policyauthority),      *)
(* trust policies and evidence (internal/trustpolicy), and the runtime     *)
(* whose gates execute and learn (internal/adaptive/policy_authority_*.go, *)
(* trust_gate.go).                                                         *)
(*                                                                         *)
(* A process opens a chain of manifests against the head that was accepted *)
(* last, makes gates from it and keeps them; it is restarted with another  *)
(* chain, and gates of the old one are still used.  Chains come from       *)
(* outside: with manifests and rotations that some key holder signed, or   *)
(* that were edited after that.  Acceptance of a head is one step here:    *)
(* its files, crashes and races are in PolicyHead.                         *)
(***************************************************************************)
EXTENDS DecisionPlane

CONSTANTS
    Root,       \* the signed manifest that the trust root pins
    Presented,  \* the chains that OpenDurableResolver is called with, by name
    Requests,   \* operations that gates are asked for
    Policies,   \* policies that callers ask for
    Evidences,  \* what is known of the device and its publication
    Handlers,   \* contracts with a registered handler
    Callers     \* holders of a gate

----------------------------------------------------------------------------
\* trustpolicy.  Requirements and proven properties are sets of these.

Properties == {"identity", "portable", "hardware", "remote"}

Sound(properties) == "remote" \in properties => "hardware" \in properties

ValidPolicy(p) == p.id # NoId /\ Sound(p.requirements)

ValidEvidence(e) ==
    /\ Sound(e.proven) /\ e.source # NoId
    /\ "identity" \in e.proven => e.discovery # NoId
    /\ "portable" \in e.proven => e.portable # NoId

\* Evaluate; None is its error.
Evaluate(policy, e) ==
    IF ~ValidPolicy(policy) \/ ~ValidEvidence(e) THEN None
    ELSE [policyHash |-> HashJSON(policy), evidenceHash |-> HashJSON(e),
          unmet |-> policy.requirements \ e.proven, allowed |-> policy.requirements \subseteq e.proven]

----------------------------------------------------------------------------
\* Manifests.

Contract(x) == <<x.kind, x.target, x.side>>

\* canonicalBindings, and Manifest.Validate that asks for its order.
ValidManifest(m) ==
    /\ m.generation > 0 /\ m.bindings # <<>>
    /\ \A i \in DOMAIN m.bindings :
           /\ m.bindings[i].class # NoId /\ ValidPolicy(m.bindings[i].policy)
           /\ \A j \in 1..(i - 1) :
                  /\ m.bindings[j].class < m.bindings[i].class
                  /\ Contract(m.bindings[j]) # Contract(m.bindings[i])

BindingsOf(m, class) == {b \in ToSet(m.bindings) : b.class = class}

\* An ed25519 signature is what only the holder of the key can make of a content.
Sign(key, content) == [key |-> key, content |-> content]

SignManifest(m, key) == [manifest |-> m, key |-> key, signature |-> Sign(key, m)]

SelfVerify(s) == ValidManifest(s.manifest) /\ s.signature = Sign(s.key, s.manifest)

----------------------------------------------------------------------------
\* Rotations.

\* Mutant: only requirements are compared, not the contract they are for.
WeakenedRequirements(current, next) ==
    {b.class : b \in {x \in ToSet(current.bindings) :
        ~\E n \in BindingsOf(next, x.class) : x.policy.requirements \subseteq n.policy.requirements}}

\* weakenedOperations, with requirementsAtLeast; the code's list is sorted.
Weakened(current, next) ==
    {b.class : b \in {x \in ToSet(current.bindings) :
        ~\E n \in BindingsOf(next, x.class) :
            /\ x.policy.requirements \subseteq n.policy.requirements
            /\ Contract(n) = Contract(x)}}

Rotation(current, next, key, allow, weakened) ==
    LET material == [from |-> HashJSON(current), to |-> HashJSON(next),
                     allow |-> allow, weakened |-> weakened]
    IN  [material |-> material, signature |-> Sign(key, material)]

\* SignRotation: what a key holder who uses this package can be made to sign.
SignRotation(current, next, key, allow) ==
    LET weakened == Weakened(current.manifest, next.manifest) IN
    IF /\ SelfVerify(current) /\ SelfVerify(next)
       /\ next.manifest.generation = current.manifest.generation + 1
       /\ key = current.key
       /\ weakened = {} \/ allow
    THEN Rotation(current, next, key, allow, weakened)
    ELSE None

\* Rotation.Verify
VerifyRotation(r, current, next) ==
    LET weakened == Weakened(current.manifest, next.manifest) IN
    /\ SelfVerify(current) /\ SelfVerify(next)
    /\ next.manifest.generation = current.manifest.generation + 1
    /\ r.material.from = HashJSON(current) /\ r.material.to = HashJSON(next)
    /\ r.material.weakened = weakened
    /\ weakened = {} \/ r.material.allow
    /\ r.signature = Sign(current.key, r.material)

----------------------------------------------------------------------------
\* Chains and their heads.  A chain has manifests, and a rotation between neighbours.

Chains == Presented

\* A chain has a name that is not "no chain", and sequences; its generations are numbers.
NoChain == [manifests |-> <<>>, rotations |-> <<>>]

Sequence(s) == s \in Seq(ToSet(s))

ASSUME PolicyGateAssumption ==
    /\ NoChain \notin DOMAIN Chains
    /\ Root.manifest.generation \in Nat
    /\ \A k \in DOMAIN Chains :
           /\ Sequence(Chains[k].manifests) /\ Sequence(Chains[k].rotations)
           /\ \A s \in ToSet(Chains[k].manifests) : Sequence(s.manifest.bindings)

\* openVerifiedResolver, the trust root's check of the first manifest included.
OpenVerified(chain) ==
    /\ Len(chain.manifests) > 0 /\ Len(chain.rotations) = Len(chain.manifests) - 1
    /\ SelfVerify(chain.manifests[1]) /\ chain.manifests[1] = Root
    /\ \A i \in DOMAIN chain.rotations :
           VerifyRotation(chain.rotations[i], chain.manifests[i], chain.manifests[i + 1])

Verified == {k \in DOMAIN Chains : OpenVerified(Chains[k])}

\* The head of the chain's first n manifests.
HeadAt(chain, n) ==
    [generation |-> chain.manifests[n].manifest.generation, manifest |-> HashJSON(chain.manifests[n]),
     rotation |-> IF n = 1 THEN NoId ELSE HashJSON(chain.rotations[n - 1])]

ChainHead(chain) == HeadAt(chain, Len(chain.manifests))

\* acceptChainHead, where a head was accepted before.
MayFollow(chain, accepted) ==
    /\ ChainHead(chain).generation >= accepted.generation
    /\ \E n \in DOMAIN chain.manifests : HeadAt(chain, n) = accepted

----------------------------------------------------------------------------
\* Authorization of an operation under the last manifest of a chain.

Current(chain) == chain.manifests[Len(chain.manifests)]

\* Manifest.ResolveOperation and NewOperationDescriptor.
Descriptor(b, request) ==
    [class |-> b.class, kind |-> b.kind, target |-> b.target, side |-> b.side,
     inputHash |-> HashJSON(request.inputs)]

\* Resolver.ResolveOperation; VerifyAuthorization holds of what it returns.
Authorization(chain, b, request) ==
    [descriptor |-> Descriptor(b, request), policyHash |-> HashJSON(b.policy),
     head |-> ChainHead(chain), key |-> Current(chain).key]

\* A gate keeps its resolver, its authorization, its policy and its evidence: of
\* the resolver and the authorization the model keeps what they are computed from.
ChainOf(gate) == Chains[gate.chain]
Authorized(gate) == Authorization(ChainOf(gate), gate.binding, gate.operation)

VerifyAuthorization(chain, a) ==
    /\ a.head = ChainHead(chain) /\ a.key = Current(chain).key
    /\ \E b \in BindingsOf(Current(chain).manifest, a.descriptor.class) :
           Contract(b) = Contract(a.descriptor) /\ a.policyHash = HashJSON(b.policy)

\* newPolicyAuthorityGate: the gate, or no gate.
NewGates(k, request, requested, e) ==
    {[chain |-> k, binding |-> b, operation |-> request, evidence |-> e] :
        b \in {x \in ToSet(Current(Chains[k]).manifest.bindings) :
            /\ Contract(x) = Contract(request)
            /\ request.declared \in {NoId, x.class}
            /\ requested = None \/ requested = x.policy
            /\ Contract(request) \in Handlers
            /\ ValidEvidence(e)}}

Decision(gate) == Evaluate(gate.binding.policy, gate.evidence)

----------------------------------------------------------------------------
VARIABLES
    head,       \* the chain whose head is in the state file, or NoChain
    chain,      \* the chain of the running process, or NoChain
    slot,       \* per caller: None, or its gate and what became of it
    accepted    \* history: the chains whose heads were accepted into the file so far

gateVars == <<head, chain, slot, accepted>>

GateInit ==
    /\ head = NoChain /\ chain = NoChain /\ accepted = {}
    /\ slot = [c \in Callers |-> None]

\* OpenDurableResolver by a process that starts in the place of the last one.
Open ==
    /\ \E k \in Verified :
       /\ head # NoChain => MayFollow(Chains[k], ChainHead(Chains[head]))
       /\ head' = k /\ accepted' = accepted \cup {k}
       \* Where the process is killed, or has an error, after the rename there is no
       \* resolver, but the head is in the file.
       /\ chain' \in {k, NoChain}
    /\ UNCHANGED slot

\* NewGate, NewGateWithRequestedPolicy.
NewGate(c) ==
    /\ chain # NoChain
    /\ \E r \in Requests, p \in Policies \cup {None}, e \in Evidences :
       \E g \in NewGates(chain, r, p, e) :
           slot' = [slot EXCEPT ![c] = [gate |-> g, acted |-> FALSE, bound |-> None]]
    /\ UNCHANGED <<head, chain, accepted>>

\* Execute and Learn: the registered handler, or the learner, gets the operation.
Act(c) ==
    /\ slot[c] # None
    /\ LET d == Decision(slot[c].gate) IN d # None /\ d.allowed
    /\ slot' = [slot EXCEPT ![c] = [@ EXCEPT !.acted = TRUE]]
    /\ UNCHANGED <<head, chain, accepted>>

\* Mutant: the decision's policy is not compared with the authorized one.
BindUnchecked(c, d) ==
    /\ VerifyAuthorization(ChainOf(slot[c].gate), Authorized(slot[c].gate))
    /\ slot' = [slot EXCEPT ![c] = [@ EXCEPT !.bound = [gate |-> slot[c].gate, decision |-> d]]]

\* BindDecisionResult: the caller hands in a decision, of whichever gate.
Bind(c, d) ==
    /\ VerifyAuthorization(ChainOf(slot[c].gate), Authorized(slot[c].gate))
    /\ Authorized(slot[c].gate).policyHash = d.policyHash
    /\ slot' = [slot EXCEPT ![c] = [@ EXCEPT !.bound = [gate |-> slot[c].gate, decision |-> d]]]

BindResult(c) ==
    /\ slot[c] # None
    /\ \E x \in Callers : slot[x] # None /\ Bind(c, Decision(slot[x].gate))
    /\ UNCHANGED <<head, chain, accepted>>

\* ValidateDecisionResultBinding, for a result that carries the authorization of a gate.
ValidBinding(gate, result, d) ==
    /\ VerifyAuthorization(ChainOf(gate), Authorized(gate))
    /\ result.decision = d /\ Authorized(gate).policyHash = d.policyHash
    /\ Authorized(result.gate) = Authorized(gate)

GateNext ==
    \/ Open
    \/ \E c \in Callers : NewGate(c) \/ Act(c) \/ BindResult(c)

GateSpec == GateInit /\ [][GateNext]_gateVars

----------------------------------------------------------------------------
\* Properties.

Generation(k) == ChainHead(Chains[k]).generation

\* A rotation after manifest n of the chain says that it weakens the class, and who
\* held the key of the manifest before it has signed that it may.
SaidToWeaken(c, n, class) ==
    \E i \in n..Len(c.rotations) :
        LET r == c.rotations[i] IN
        /\ class \in r.material.weakened /\ r.material.allow
        /\ r.signature = Sign(c.manifests[i].key, r.material)

\* An operation that was executed or learned from meets what every manifest of every
\* accepted chain up to the generation of its gate asked of that operation, and is
\* under the same class still, unless a rotation of such a chain was signed, by the
\* issuer it took over from, to weaken that: a restart with an older chain or another
\* branch, chains that part and meet again under one head, a manifest that no
\* rotation covers, a class that the caller names or a policy it asks for do not get
\* around what was asked.
NoSilentWeakening ==
    \A c \in Callers : slot[c] # None /\ slot[c].acted =>
        LET g == slot[c].gate
            upTo == {k \in accepted : Generation(k) <= Generation(g.chain)}
        IN
        \A k \in upTo : \A n \in DOMAIN Chains[k].manifests :
        \A b \in ToSet(Chains[k].manifests[n].manifest.bindings) :
            Contract(b) = Contract(g.operation) =>
                \/ b.policy.requirements \subseteq g.evidence.proven /\ b.class = g.binding.class
                \/ \E j \in upTo : SaidToWeaken(Chains[j], n, b.class)

\* What is bound to a result names one policy: the one that the signed manifest of
\* its chain has for the contract of the operation, and the one its decision is
\* about; and the result is valid under no gate for another operation, other
\* inputs or another head.
ResultOfOnePolicy ==
    \A c \in Callers : slot[c] # None /\ slot[c].bound # None =>
        LET g == slot[c].gate
            r == slot[c].bound
        IN  /\ \E b \in ToSet(Current(ChainOf(g)).manifest.bindings) :
                   Contract(b) = Contract(g.operation) /\ HashJSON(b.policy) = r.decision.policyHash
            /\ \A x \in Callers : slot[x] # None /\ ValidBinding(slot[x].gate, r, r.decision) =>
                   /\ slot[x].gate.operation.inputs = g.operation.inputs
                   /\ Contract(slot[x].gate.operation) = Contract(g.operation)
                   /\ ChainHead(ChainOf(slot[x].gate)) = ChainHead(ChainOf(g))
=============================================================================
