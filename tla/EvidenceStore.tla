--------------------------- MODULE EvidenceStore ---------------------------
(***************************************************************************)
(* The mirror boundary (internal/mirror) and its command (cmd/liminal-     *)
(* proof).  A Metro receipt becomes external evidence for a claim only     *)
(* after it has been verified and its executor is authoritative under a    *)
(* policy; the proof of that is stored as seven content-addressed objects  *)
(* and a manifest, and anybody can replay it from the store alone.         *)
(*                                                                         *)
(* Processes store bundles and verify manifests side by side in one        *)
(* filesystem store.  They crash between any two calls of the filesystem;  *)
(* a power loss may also take back a rename whose directory was never      *)
(* flushed, and a stored object may be changed behind the store's back.    *)
(* Manifests reach the verifier from outside and may have been edited.     *)
(*                                                                         *)
(* A digest stands for the content it names, so a store is the condition   *)
(* of each content's object.                                               *)
(***************************************************************************)
EXTENDS DecisionPlane

CONSTANTS
    Processes,  \* runs of liminal-proof, or goroutines, that share the store
    Jobs,       \* materials that bundles are asked for: see Materials below
    Observed,   \* evidence that the gate is given beside the promoted one
    Fragile,    \* contents whose objects faults may hit (a bound of the model)
    MaxFaults   \* power losses and changed objects (a bound of the model)

ASSUME EvidenceAssumption == MaxFaults \in Nat

----------------------------------------------------------------------------
\* Claims, evidence and authority.  Materials are a record of a claim, a packet, a
\* route, a result, a receipt and a policy, with the envelope that goes with them.

Authorize(policy, kind, executor) ==
    /\ policy.id # NoId
    /\ kind \in DOMAIN policy.executors
    /\ executor \in ToSet(policy.executors[kind])

\* CanonicalJSON: executors sorted and without repetitions.
CanonicalJSON(policy) ==
    [policy EXCEPT !.executors =
        [k \in DOMAIN @ |-> SetToSortSeq(ToSet(@[k]), LAMBDA a, b : a < b)]]

AuthorizeProof(policy, kind, executor) ==
    IF Authorize(policy, kind, executor) /\ policy.ref # NoId
    THEN [policy |-> policy.id, ref |-> policy.ref, hash |-> HashJSON(CanonicalJSON(policy)),
          kind |-> kind, executor |-> executor]
    ELSE None

EvidenceFromVerifiedReceipt(m) ==
    IF /\ m.claim.id # NoId /\ m.claim.action = m.packet.action
       /\ m.receipt.status = "SUCCEEDED" /\ m.receipt.ref # NoId
       /\ Verify(m.packet, m.route, m.result, m.receipt)
       /\ m.receipt.resultHash = m.claim.value
       /\ AuthorizeProof(m.policy, m.packet.kind, m.receipt.executor) # None
    THEN [claim |-> m.claim.id, action |-> m.claim.action, source |-> "external",
          value |-> m.receipt.resultHash, verified |-> TRUE, provenance |-> TRUE]
    ELSE None

BuildProofEnvelope(m) ==
    IF EvidenceFromVerifiedReceipt(m) = None THEN None
    ELSE [claim |-> m.claim, kind |-> m.packet.kind, receipt |-> m.receipt,
          authority |-> AuthorizeProof(m.policy, m.packet.kind, m.receipt.executor)]

ValidateEnvelope(e) ==
    /\ e.claim.id # NoId
    /\ e.receipt.status = "SUCCEEDED" /\ e.receipt.ref # NoId
    /\ e.receipt.action = e.claim.action /\ e.receipt.resultHash = e.claim.value
    /\ e.authority.kind = e.kind /\ e.authority.executor = e.receipt.executor

\* Evidence about the claim, and whether some of it names another value.
Bound(claim, evidence) == {x \in evidence : x.claim = claim.id /\ x.action = claim.action}

Divergent(claim, evidence) ==
    \E x \in Bound(claim, evidence) : x.value # None /\ x.value # claim.value

\* Mutant: a verified opinion counts whatever its source.
GateTrustsMirrors(claim, evidence) ==
    LET bound == Bound(claim, evidence)
    IN  /\ claim.irreversible => ~Divergent(claim, evidence)
        /\ \E x \in bound : x.verified /\ x.provenance /\ x.value = claim.value

\* Mirror's Gate.
GateCommits(claim, evidence) ==
    LET bound == Bound(claim, evidence)
    IN  /\ claim.id # NoId
        /\ claim.irreversible => ~Divergent(claim, evidence)
        /\ \E x \in bound : /\ x.source = "external" /\ x.verified /\ x.provenance
                            /\ x.value = claim.value

----------------------------------------------------------------------------
\* Replay and manifests.

\* ReplayVerifier.Verify: its checks, in order.
ReplayChecks(m) ==
    LET e == m.envelope IN
    << ValidateEnvelope(e),
       m.packet.action = e.claim.action /\ m.packet.kind = e.kind,
       /\ m.route.action = m.packet.action /\ m.route.routeId = e.receipt.routeId
       /\ m.route.target = e.receipt.executor,
       m.receipt = e.receipt,
       Verify(m.packet, m.route, m.result, m.receipt),
       HashJSON(m.result) = e.claim.value,
       LET replayed == AuthorizeProof(m.policy, m.packet.kind, m.receipt.executor)
       IN  replayed # None /\ replayed = e.authority >>

Reproduced(m) == m.envelope # None /\ \A i \in DOMAIN ReplayChecks(m) : ReplayChecks(m)[i]

\* requiredBundleArtifacts, in the order in which they are stored and resolved.
Kinds == <<"packet", "route", "result", "receipt", "policy", "envelope", "replay">>

\* The bytes of each artifact.
Artifacts(m) ==
    [packet |-> m.packet, route |-> m.route, result |-> m.result, receipt |-> m.receipt,
     policy |-> CanonicalJSON(m.policy), envelope |-> m.envelope,
     replay |-> [claim |-> m.envelope.claim.id, action |-> m.envelope.claim.action,
                 status |-> "REPRODUCED", checks |-> ReplayChecks(m)]]

Manifest(claim, action, digests) ==
    LET body == [claim |-> claim, action |-> action, artifacts |-> digests]
    IN  [body |-> body, hash |-> HashJSON(body)]

BuildEvidenceBundle(m) ==
    IF ~Reproduced(m) THEN None
    ELSE Manifest(m.envelope.claim.id, m.envelope.claim.action,
                  [k \in ToSet(Kinds) |-> HashJSON(Artifacts(m)[k])])

ValidateBundle(b) ==
    /\ b.body.claim # NoId /\ b.body.action # NoId
    /\ DOMAIN b.body.artifacts = ToSet(Kinds)
    /\ b.hash = HashJSON(b.body)

\* What a verifier has decoded once it has resolved every reference of b.
Decoded(b) ==
    [k \in {"packet", "route", "result", "receipt", "policy", "envelope"} |->
        b.body.artifacts[k].sha256]

\* VerifyEvidenceBundleFromCAS after the objects are read, VerifyEvidenceBundle in it.
VerifyEvidenceBundle(b) ==
    /\ BuildEvidenceBundle(Decoded(b)) = b
    /\ b.body.artifacts.replay.sha256.status = "REPRODUCED"

----------------------------------------------------------------------------
\* The store and the processes.

VARIABLES
    object,     \* per content: "absent", "whole", "cached" (whole, but its bytes were
                \* never flushed), or damaged: "torn", "changed"
    proc,       \* per process: where it is and what it works on
    published,  \* manifests that a process wrote for others to read
    reproduced, \* history: manifests reported REPRODUCED
    harmed,     \* history: contents hit by a fault
    faults

storeVars == <<object, proc, published, reproduced, harmed, faults>>

Contents == UNION {{Artifacts(m)[k] : k \in ToSet(Kinds)} : m \in {n \in Jobs : Reproduced(n)}}

\* Resolve finds the object and its digest is right.
Readable(c) == object[c] \in {"whole", "cached"}

Idle == [pc |-> "idle"]

\* The content that a process is about to store or to resolve.
Current(p) == proc[p].bundle.body.artifacts[proc[p].todo[1]].sha256

\* A process with a bundle: what it does next, and to which artifact.
Work(pc, bundle, todo, own, flushed) ==
    [pc |-> pc, bundle |-> bundle, todo |-> todo, own |-> own, flushed |-> flushed]

Continued(w, pc, todo, flushed) == Work(pc, w.bundle, todo, w.own, flushed)

Advance(p, what) ==
    /\ proc' = [proc EXCEPT ![p] = what]
    /\ UNCHANGED <<harmed, faults>>

\* An error returns through every caller; temporary files are removed.
Fail(p) == Advance(p, Idle) /\ UNCHANGED <<object, published, reproduced>>

\* StoreEvidenceBundle up to the first Put: the replay and the manifest.
Store(p) ==
    /\ proc[p] = Idle
    /\ \E m \in Jobs :
       IF BuildEvidenceBundle(m) = None THEN Fail(p)
       ELSE /\ Advance(p, Work("stat", BuildEvidenceBundle(m), Kinds, TRUE, FALSE))
            /\ UNCHANGED <<object, published, reproduced>>

\* One artifact is in place: the next one, or back to the first to resolve them all.
Stored(p) ==
    LET rest == Tail(proc[p].todo) IN
    Advance(p, IF rest = <<>> THEN Continued(proc[p], "resolve", Kinds, FALSE)
               ELSE Continued(proc[p], "stat", rest, FALSE))

\* Mutant: the temporary file is closed without Sync.
StageUnflushed(p) ==
    /\ proc[p].pc = "stat"
    /\ \/ Readable(Current(p)) /\ Stored(p)
       \/ /\ object[Current(p)] = "absent"
          /\ Advance(p, Continued(proc[p], "rename", proc[p].todo, FALSE))
       \/ object[Current(p)] \in {"torn", "changed"} /\ Advance(p, Idle)
    /\ UNCHANGED <<object, published, reproduced>>

\* Put up to the rename: what is there already is verified and reused, and never
\* replaced; otherwise a temporary file is written, flushed and closed.
Stage(p) ==
    /\ proc[p].pc = "stat"
    /\ \/ Readable(Current(p)) /\ Stored(p)
       \/ /\ object[Current(p)] = "absent"
          /\ Advance(p, Continued(proc[p], "rename", proc[p].todo, TRUE))
       \/ object[Current(p)] \in {"torn", "changed"} /\ Advance(p, Idle)
    /\ UNCHANGED <<object, published, reproduced>>

Rename(p) ==
    /\ proc[p].pc = "rename"
    /\ \/ /\ object' = [object EXCEPT ![Current(p)] = IF proc[p].flushed THEN "whole" ELSE "cached"]
          /\ Advance(p, Continued(proc[p], "check", proc[p].todo, FALSE))
          /\ UNCHANGED <<published, reproduced>>
       \/ Fail(p)

\* Put reads back what it has renamed.
Check(p) ==
    /\ proc[p].pc = "check"
    /\ IF Readable(Current(p)) THEN Stored(p) ELSE Advance(p, Idle)
    /\ UNCHANGED <<object, published, reproduced>>

\* Manifests that the verifier may be handed.
Edited(a, b) ==
    LET mixed == {[a.body.artifacts EXCEPT ![k] = b.body.artifacts[k]] : k \in ToSet(Kinds)}
    IN  {Manifest(b.body.claim, a.body.action, a.body.artifacts),
         [a EXCEPT !.body = [@ EXCEPT !.action = b.body.action]]} \cup
        {Manifest(a.body.claim, a.body.action, d) : d \in mixed} \cup
        {[a EXCEPT !.body = [@ EXCEPT !.artifacts = d]] : d \in mixed}

Handed == UNION {{a} \cup Edited(a, b) : a, b \in published}

\* runVerify up to the first Resolve.
BeginVerify(p) ==
    /\ proc[p] = Idle
    /\ \E b \in Handed :
       IF ValidateBundle(b)
       THEN Advance(p, Work("resolve", b, Kinds, FALSE, FALSE))
       ELSE Advance(p, Idle)
    /\ UNCHANGED <<object, published, reproduced>>

\* One object is read and its digest compared; after the last, the proof is replayed.
\* A process that stored the bundle writes the manifest then.
Resolve(p) ==
    /\ proc[p].pc = "resolve"
    /\ LET b    == proc[p].bundle
           rest == Tail(proc[p].todo)
       IN  IF ~Readable(Current(p)) THEN Fail(p)
           ELSE IF rest # <<>>
           THEN /\ Advance(p, Continued(proc[p], "resolve", rest, FALSE))
                /\ UNCHANGED <<object, published, reproduced>>
           ELSE IF ~VerifyEvidenceBundle(b) THEN Fail(p)
           ELSE /\ reproduced' = reproduced \cup {b}
                /\ published' = IF proc[p].own THEN published \cup {b} ELSE published
                /\ Advance(p, Idle)
                /\ UNCHANGED object

\* A caller promotes its receipt and asks the gate.
Decide(p) ==
    /\ proc[p] = Idle
    /\ \E m \in Jobs, seen \in SUBSET Observed :
       LET own == EvidenceFromVerifiedReceipt(m)
           all == seen \cup (IF own = None THEN {} ELSE {own})
       IN  \E claim \in {n.claim : n \in Jobs} :
           /\ GateCommits(claim, all)
           /\ Advance(p, [pc |-> "committed", claim |-> claim,
                          divergent |-> Divergent(claim, all)])
    /\ UNCHANGED <<object, published, reproduced>>

----------------------------------------------------------------------------
\* Faults.

\* A process dies; its temporary file stays behind.
Crash(p) == proc[p] # Idle /\ Fail(p)

Exposed == {c \in Fragile : object[c] # "absent"}

\* Every process dies.  An object that was renamed may lose its name, for the
\* directory is not flushed: at most one in a power loss (a bound of the model).
PowerLoss ==
    /\ faults < MaxFaults /\ faults' = faults + 1
    /\ proc' = [p \in Processes |-> Idle]
    /\ \E lost \in {{}} \cup {{c} : c \in Exposed} :
          /\ object' = [c \in Contents |-> IF c \in lost THEN "absent"
                                          ELSE IF object[c] = "cached" THEN "torn" ELSE object[c]]
          /\ harmed' = harmed \cup lost
    /\ UNCHANGED <<published, reproduced>>

Change ==
    /\ faults < MaxFaults /\ faults' = faults + 1
    /\ \E c \in Exposed : /\ object' = [object EXCEPT ![c] = "changed"]
                           /\ harmed' = harmed \cup {c}
    /\ UNCHANGED <<proc, published, reproduced>>

StoreInit ==
    /\ object = [c \in Contents |-> "absent"]
    /\ proc = [p \in Processes |-> Idle]
    /\ published = {} /\ reproduced = {} /\ harmed = {} /\ faults = 0

StoreNext ==
    \/ \E p \in Processes : \/ Store(p) \/ Stage(p) \/ Rename(p) \/ Check(p)
                            \/ BeginVerify(p) \/ Resolve(p) \/ Decide(p) \/ Crash(p)
    \/ PowerLoss
    \/ Change

StoreSpec == StoreInit /\ [][StoreNext]_storeVars

----------------------------------------------------------------------------
\* Properties.

\* What stands at a digest path is complete, whenever a process died or the power
\* failed (Put flushes before it renames); and a published manifest can be replayed
\* from the store, however its objects were shared, raced for and left half stored
\* by others, as long as no fault hit one of them after it was stored.
PublishedIsReplayable ==
    /\ \A c \in Contents : object[c] # "torn"
    /\ \A b \in published, k \in ToSet(Kinds) :
           LET c == b.body.artifacts[k].sha256 IN Readable(c) \/ c \in harmed

\* A proof counts for a claim when its executor did the claimed action with the claimed
\* result, on a route that the packet allows, and has authority for such actions.
Earned(m, claim) ==
    /\ claim.action = m.packet.action /\ m.receipt.action = m.packet.action
    /\ HashJSON(m.result) = claim.value
    /\ m.receipt.executor = m.route.target /\ m.route.target \in m.packet.targets
    /\ m.receipt.executor \in ToSet(m.policy.executors[m.packet.kind])

\* What two materials of one proof agree on: everything that the receipt, the
\* envelope or the policy hash covers.  The packet's agent and its other targets, and
\* the router of the route, are covered by none of them.
SameProof(m, n) ==
    /\ m.envelope = n.envelope /\ m.receipt = n.receipt /\ m.result = n.result
    /\ CanonicalJSON(m.policy) = CanonicalJSON(n.policy)
    /\ \A f \in {"action", "kind", "inputs"} : m.packet[f] = n.packet[f]
    /\ \A f \in {"action", "routeId", "target"} : m.route[f] = n.route[f]

\* A manifest that replays from the store stands for a proof that was built, and that
\* counts for the claim it names: an artifact of another bundle that changes what was
\* proved, or another claim over the same artifacts, is rejected, rehashed or not.  A
\* claim is committed only when a proof counts for it or verified external evidence
\* with provenance was observed, whatever agents and mirrors say; and, if it is
\* irreversible, only when no evidence about it names another value.
OnlyEarnedProof ==
    /\ \A b \in reproduced : \E m \in Jobs :
           /\ Reproduced(m) /\ SameProof(Decoded(b), m)
           /\ b.body.claim = m.envelope.claim.id /\ Earned(Decoded(b), m.envelope.claim)
    /\ \A p \in Processes : proc[p].pc = "committed" =>
           LET claim == proc[p].claim IN
           /\ \/ \E m \in Jobs : m.claim.id = claim.id /\ Earned(m, claim)
              \/ \E x \in Bound(claim, Observed) :
                     x.source = "external" /\ x.verified /\ x.provenance /\ x.value = claim.value
           /\ claim.irreversible => ~proc[p].divergent
=============================================================================
