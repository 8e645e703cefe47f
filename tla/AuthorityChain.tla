--------------------------- MODULE AuthorityChain ---------------------------
(***************************************************************************)
(* Learners under a signed authority: internal/adaptive/authority.go,      *)
(* signed_authority.go, device_bound.go and provider_bound.go.             *)
(*                                                                         *)
(* A grant is an allow-list signed by its issuer.  A learner trusts the    *)
(* pinned root grant and every grant it reaches by rotations, each signed  *)
(* with the key of the grant that it leaves.  It keeps one journal, every  *)
(* line of which must belong to its current grant.  A bound learner takes  *)
(* a measurement only with an attestation that names the journal's head.   *)
(*                                                                         *)
(* A signature is the key that made it, a journal's hash head the calls    *)
(* that its lines are about.  Every grant signs for the root's authority   *)
(* id.  One process holds at most one learner per journal; what a learner  *)
(* does with its journal on disk is DurableJournal's subject, and here     *)
(* Apply is one step, under DurableLearner's mutex.                        *)
(***************************************************************************)
EXTENDS Integers, Sequences, FiniteSets

CONSTANTS
    Grants,     \* signed grants
    Root,       \* the one the trust root pins
    Allowed,    \* Allowed[g]: the actions of g
    Issuer,     \* Issuer[g]: the key that signed g, and that must rotate it
    Epoch,      \* Epoch[g]
    Offered,    \* rotations that were signed by others than the issuer
    Paths,      \* journal files
    Calls,      \* measurements: each one action, receipt and experience
    Contexts, Actions,
    MaxLines,   \* the bound on lines of a journal
    MaxRotations \* the bound on rotations in a chain

ASSUME AuthorityChainAssumption ==
    /\ Root \in Grants
    /\ Allowed \in [Grants -> SUBSET Actions]
    /\ \A r \in Offered : /\ {r.from, r.to} \subseteq Grants
                          /\ r.key # Issuer[r.from]
    /\ MaxLines \in Nat /\ MaxRotations \in Nat
    /\ "none" \notin Calls \cup Paths

Closed == [kind |-> "closed", chain |-> <<>>]
Unattested == <<"none">>

VARIABLES
    journal,    \* journal[p]: the lines of p
    learner,    \* learner[p]: the live learner of p and its verified chain
    rotations,  \* the rotations that Rotate signed and returned
    pc,         \* per call: idle, chosen, attested, or checked by a learner
    work,       \* per call: the measurement, with what its author saw
    target      \* per call: the learner it was last given to

callVars == <<pc, work, target>>
vars == <<journal, learner, rotations, callVars>>

\* The head of the hash chain.
JournalHead(p) == [i \in DOMAIN journal[p] |-> journal[p][i].call]

\* Chain.Current: the grant the last rotation leads to.
CurrentOf(chain) == IF chain = <<>> THEN Root ELSE chain[Len(chain)].to
Current(p) == CurrentOf(learner[p].chain)

\* SnapshotContext: how often each allowed action was rewarded in a context.
Rewarded(p, ctx, a) ==
    {i \in DOMAIN journal[p] : journal[p][i].ctx = ctx /\ journal[p][i].action = a}
Stats(p, ctx) == [a \in Allowed[Current(p)] |-> Cardinality(Rewarded(p, ctx, a))]

NoWork == [grant |-> Root, ctx |-> "none", action |-> "none", before |-> <<>>,
           head |-> Unattested]

Init ==
    /\ journal = [p \in Paths |-> <<>>]
    /\ learner = [p \in Paths |-> Closed]
    /\ rotations = {}
    /\ pc = [c \in Calls |-> "idle"]
    /\ work = [c \in Calls |-> NoWork]
    /\ target = [c \in Calls |-> "none"]

-----------------------------------------------------------------------------
(* Chains. *)

\* A mistake: a rotation is verified with the key of the grant it leads to.
VerifiesByNext(r) == r.key = Issuer[r.to] /\ Epoch[r.from] # Epoch[r.to]

\* AuthorityRotation.Verify.
Verifies(r) == r.key = Issuer[r.from] /\ Epoch[r.from] # Epoch[r.to]

\* AuthorityChain.Verify: from the root, each rotation where the last one led.
VerifyChain(chain) ==
    \A i \in DOMAIN chain :
        /\ chain[i].from = IF i = 1 THEN Root ELSE chain[i - 1].to
        /\ Verifies(chain[i])

\* A mistake: any journal will do.
AnyJournal(p, g) == TRUE

\* validateSignedAuthorityJournal and validateAuthorityJournal.
BelongsTo(p, g) ==
    \A i \in DOMAIN journal[p] :
        journal[p][i].grant = g /\ journal[p][i].action \in Allowed[g]

\* OpenChainedAuthorityLearner, with any chain somebody put together.
MayOpen(p, chain) ==
    /\ learner[p] = Closed
    /\ VerifyChain(chain)
    /\ BelongsTo(p, CurrentOf(chain))

ChainsOf(R) == UNION {[1 .. n -> R] : n \in 0 .. MaxRotations}

Open(p, kind) ==
    \E chain \in ChainsOf(rotations \cup Offered) :
        /\ MayOpen(p, chain)
        /\ learner' = [learner EXCEPT ![p] = [kind |-> kind, chain |-> chain]]
        /\ UNCHANGED <<journal, rotations, callVars>>

\* The process drops the learner, or ends; what was measured is kept by others.
Stop(p) ==
    /\ learner[p] # Closed
    /\ learner' = [learner EXCEPT ![p] = Closed]
    /\ pc' = [c \in Calls |-> IF pc[c] = "checked" /\ target[c] = p
                              THEN "attested" ELSE pc[c]]
    /\ UNCHANGED <<journal, rotations, work, target>>

\* A mistake: the anchor is the head of the next journal.
AnchorOfNext(p, q) == JournalHead(q)

AnchorOf(p, q) == JournalHead(p)

\* Rotate: sign, extend the chain, open a learner on another journal.
Rotate(p, q, next, key) ==
    LET current == Current(p)
        rotation == [from |-> current, to |-> next, key |-> key,
                     anchor |-> AnchorOf(p, q)]
        chain == Append(learner[p].chain, rotation)
    IN  /\ learner[p].kind = "chained"
        /\ q # p
        /\ Epoch[current] # Epoch[next] /\ key = Issuer[current]
        /\ Len(chain) <= MaxRotations
        /\ MayOpen(q, chain)
        /\ learner' = [learner EXCEPT ![q] = [kind |-> "chained", chain |-> chain]]
        /\ rotations' = rotations \cup {rotation}
        /\ UNCHANGED <<journal, callVars>>

-----------------------------------------------------------------------------
(* Learning. *)

\* Choose, and a measurement bound to the current grant.  The author is free
\* to run an action of its own instead.
Choose(c, p, ctx, a) ==
    /\ pc[c] = "idle" /\ learner[p] # Closed
    /\ work' = [work EXCEPT ![c] =
                   [grant |-> Current(p), ctx |-> ctx, action |-> a,
                    before |-> Stats(p, ctx), head |-> Unattested]]
    /\ pc' = [pc EXCEPT ![c] = "chosen"]
    /\ target' = [target EXCEPT ![c] = p]
    /\ UNCHANGED <<journal, learner, rotations>>

\* A mistake: the attestation does not commit to the journal.
CommitsToNothing(p) == Unattested

CommitsTo(p) == JournalHead(p)

\* IssueAttestation, by the learner that chose.
Attest(c) ==
    LET p == target[c]
    IN  /\ pc[c] = "chosen"
        /\ learner[p].kind = "bound" /\ Current(p) = work[c].grant
        /\ work' = [work EXCEPT ![c].head = CommitsTo(p)]
        /\ pc' = [pc EXCEPT ![c] = "attested"]
        /\ UNCHANGED <<journal, learner, rotations, target>>

\* A mistake: only the journal's length is compared.
AttestsLength(c, p) ==
    work[c].grant = Current(p) /\ Len(work[c].head) = Len(JournalHead(p))

\* VerifyAttestation: for the current grant and the current head.
Attests(c, p) == work[c].grant = Current(p) /\ work[c].head = JournalHead(p)

\* Apply of a bound learner, up to the Apply that it wraps.  The head was read
\* under DurableLearner's mutex, which is free again.
Check(c, p) ==
    /\ pc[c] = "attested"
    /\ learner[p].kind = "bound" /\ Attests(c, p)
    /\ pc' = [pc EXCEPT ![c] = "checked"]
    /\ target' = [target EXCEPT ![c] = p]
    /\ UNCHANGED <<journal, learner, rotations, work>>

\* A mistake: the statistics are not compared.
AppliesStale(c, p) == work[c].grant = Current(p)
                      /\ work[c].action \in Allowed[Current(p)]

\* validateSignedAuthorityEvidence, and the statistics the author saw.
Applies(c, p) ==
    /\ work[c].grant = Current(p)
    /\ work[c].action \in Allowed[Current(p)]
    /\ work[c].before = Stats(p, work[c].ctx)

\* DurableLearner.Apply; the same measurement again changes nothing.
MayApply(c, p) ==
    /\ \A i \in DOMAIN journal[p] : journal[p][i].call # c
    /\ Len(journal[p]) < MaxLines
    /\ Applies(c, p)

Apply(c, p, head) ==
    /\ MayApply(c, p)
    /\ journal' = [journal EXCEPT ![p] = Append(@,
          [call |-> c, grant |-> work[c].grant, ctx |-> work[c].ctx,
           action |-> work[c].action, head |-> head])]

\* ChainedAuthorityLearner.Apply: an attestation, if there is one, is not read.
Learn(c, p) ==
    /\ pc[c] \in {"chosen", "attested"} /\ learner[p].kind = "chained"
    /\ Apply(c, p, Unattested)
    /\ UNCHANGED <<learner, rotations, callVars>>

\* The rest of a bound learner's Apply, and its refusal.
LearnBound(c) ==
    /\ pc[c] = "checked"
    /\ Apply(c, target[c], work[c].head)
    /\ pc' = [pc EXCEPT ![c] = "attested"]
    /\ UNCHANGED <<learner, rotations, work, target>>

Refused(c) ==
    /\ pc[c] = "checked"
    /\ ~MayApply(c, target[c])
    /\ pc' = [pc EXCEPT ![c] = "attested"]
    /\ UNCHANGED <<journal, learner, rotations, work, target>>

Next ==
    \/ \E p \in Paths, kind \in {"chained", "bound"} : Open(p, kind)
    \/ \E p \in Paths : Stop(p)
    \/ \E p, q \in Paths, g \in Grants, k \in {Issuer[h] : h \in Grants} :
          Rotate(p, q, g, k)
    \/ \E c \in Calls, p \in Paths, x \in Contexts, a \in Actions :
          Choose(c, p, x, a)
    \/ \E c \in Calls : Attest(c) \/ LearnBound(c) \/ Refused(c)
    \/ \E c \in Calls, p \in Paths : Check(c, p) \/ Learn(c, p)

Spec == Init /\ [][Next]_vars

-----------------------------------------------------------------------------
Prefix(s, n) == [i \in 1 .. n |-> s[i]]

Measurements ==
    [grant : Grants, ctx : Contexts, action : Actions,
     before : UNION {[A -> 0 .. MaxLines] : A \in SUBSET Actions},
     head : {Unattested} \cup Seq(Calls)]

Lines == [call : Calls, grant : Grants, ctx : Contexts, action : Actions,
          head : {Unattested} \cup Seq(Calls)]

Rotations == [from : Grants, to : Grants, key : {Issuer[g] : g \in Grants},
              anchor : Seq(Calls)]

\* Every variable has its type, and a call that was attested or checked has an
\* attestation.
TypeOK ==
    /\ journal \in [Paths -> Seq(Lines)]
    /\ \A p \in Paths : Len(journal[p]) <= MaxLines
    /\ learner \in [Paths -> [kind : {"closed", "chained", "bound"},
                              chain : Seq(rotations \cup Offered)]]
    /\ rotations \subseteq Rotations
    /\ pc \in [Calls -> {"idle", "chosen", "attested", "checked"}]
    /\ work \in [Calls -> Measurements \cup {NoWork}]
    /\ target \in [Calls -> Paths \cup {"none"}]
    /\ \A c \in Calls : pc[c] \in {"attested", "checked"} =>
                            work[c].head # Unattested

\* The grants that the issuers handed authority to, starting from the root.
HandedTo(S) ==
    /\ Root \in S
    /\ \A r \in rotations \cup Offered :
          r.from \in S /\ r.key = Issuer[r.from] => r.to \in S

\* What is learned, is learned under a grant that the pinned root reaches by
\* rotations which each issuer signed itself, and is an action of that grant:
\* no self-signed grant enters a journal.  (AuthorityChain.Verify, Apply)
GrantedByIssuers ==
    \A p \in Paths, S \in SUBSET Grants : HandedTo(S) =>
        \A i \in DOMAIN journal[p] :
            /\ journal[p][i].grant \in S
            /\ journal[p][i].action \in Allowed[journal[p][i].grant]

\* A journal is of one grant, that of the learner that has it open: no state
\* is carried from one grant to the next, by whatever rotations and restarts.
OneGrantPerJournal ==
    \A p \in Paths :
        /\ \A i, j \in DOMAIN journal[p] :
              journal[p][i].grant = journal[p][j].grant
        /\ learner[p] # Closed =>
              \A i \in DOMAIN journal[p] : journal[p][i].grant = Current(p)

\* The anchor of a rotation is a head that a journal of the grant it leaves
\* once had, however that journal grew afterwards.  (Rotate)
AnchorsAreHeads ==
    \A r \in rotations : \E p \in Paths :
        /\ Len(r.anchor) <= Len(journal[p])
        /\ r.anchor = Prefix(JournalHead(p), Len(r.anchor))
        /\ \A i \in 1 .. Len(r.anchor) : journal[p][i].grant = r.from

\* The attestation of a line names an earlier head of its own journal, and what
\* came in between is about other contexts: the statistics that the author saw
\* tell a line of its own context.  (Apply of device_bound.go, provider_bound.go
\* and durable.go)
StaleOnlyElsewhere ==
    \A p \in Paths : \A i \in DOMAIN journal[p] :
        LET h == journal[p][i].head
        IN  h # Unattested =>
              /\ Len(h) < i /\ h = Prefix(JournalHead(p), Len(h))
              /\ \A j \in Len(h) + 1 .. i - 1 :
                    journal[p][j].ctx # journal[p][i].ctx

\* "A stale nonce or stale journal anchor fails closed before reward
\* application": the attestation of a line names the head just before it.
AttestedOnHead ==
    \A p \in Paths : \A i \in DOMAIN journal[p] :
        journal[p][i].head # Unattested =>
            journal[p][i].head = Prefix(JournalHead(p), i - 1)
=============================================================================
