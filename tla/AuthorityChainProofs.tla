------------------------- MODULE AuthorityChainProofs -----------------------
(* Theorems about AuthorityChain for any grants, keys, journals, measurements *)
(* and chains of any length, and whatever rotations others sign.              *)
EXTENDS AuthorityChain, FiniteSetTheorems, TLAPS

\* A live learner has a verified chain.
Linked ==
    \A p \in Paths : \/ learner[p] = Closed
                     \/ /\ learner[p].kind # "closed"
                        /\ VerifyChain(learner[p].chain)

\* Where measurements are: a chosen one has a learner, a checked one is inside a
\* live bound learner.
CallsPlaced ==
    \A c \in Calls :
        /\ pc[c] \in {"chosen", "checked"} => target[c] \in Paths
        /\ pc[c] = "checked" => learner[target[c]].kind = "bound"
        /\ pc[c] # "idle" => work[c] \in Measurements

\* A line says what its measurement says.
LinesAreWork ==
    \A p \in Paths : \A i \in DOMAIN journal[p] :
        LET l == journal[p][i]
        IN  /\ pc[l.call] # "idle"
            /\ l.ctx = work[l.call].ctx
            /\ l.action = work[l.call].action

Seen(c, a) ==
    {i \in DOMAIN work[c].head : /\ work[work[c].head[i]].ctx = work[c].ctx
                                 /\ work[work[c].head[i]].action = a}

\* The statistics an author saw count no more than is in its journal, and, once
\* it has an attestation, no more than the attested head covers.
SawBefore ==
    \A c \in Calls :
        /\ pc[c] = "chosen" =>
              \A a \in DOMAIN work[c].before :
                  work[c].before[a] <=
                      Cardinality(Rewarded(target[c], work[c].ctx, a))
        /\ pc[c] \in {"attested", "checked"} =>
              /\ \A i \in DOMAIN work[c].head : pc[work[c].head[i]] # "idle"
              /\ \A a \in DOMAIN work[c].before :
                    work[c].before[a] <= Cardinality(Seen(c, a))

\* The head a learner compared is still a prefix of its journal.
CheckedHead ==
    \A c \in Calls : pc[c] = "checked" =>
        /\ Len(work[c].head) <= Len(journal[target[c]])
        /\ \A i \in DOMAIN work[c].head :
              work[c].head[i] = journal[target[c]][i].call

LineActionAllowed ==
    \A p \in Paths : \A i \in DOMAIN journal[p] :
        journal[p][i].action \in Allowed[journal[p][i].grant]
-----------------------------------------------------------------------------
(* Heads, statistics and chains. *)

LEMMA JournalSeq ==
    ASSUME TypeOK, NEW p \in Paths
    PROVE  /\ journal[p] \in Seq(Lines) /\ Len(journal[p]) \in 0 .. MaxLines
           /\ DOMAIN journal[p] = 1 .. Len(journal[p])
           /\ \A i \in DOMAIN journal[p] : journal[p][i] \in Lines
BY AuthorityChainAssumption DEF TypeOK

LEMMA HeadTyped ==
    ASSUME TypeOK, NEW p \in Paths
    PROVE  /\ JournalHead(p) \in Seq(Calls)
           /\ Len(JournalHead(p)) = Len(journal[p])
           /\ JournalHead(p) # Unattested
<1>1. JournalHead(p) \in [1 .. Len(journal[p]) -> Calls]
  BY JournalSeq DEF JournalHead, Lines
<1>2. JournalHead(p) \in Seq(Calls) /\ Len(JournalHead(p)) = Len(journal[p])
  BY <1>1, JournalSeq
<1>3. Unattested \notin Seq(Calls)
  BY AuthorityChainAssumption DEF Unattested
<1>4. QED
  BY <1>2, <1>3

LEMMA RewardedFinite ==
    ASSUME TypeOK, NEW p \in Paths, NEW x, NEW a
    PROVE  /\ IsFiniteSet(Rewarded(p, x, a))
           /\ Cardinality(Rewarded(p, x, a)) \in 0 .. MaxLines
<1>1. /\ IsFiniteSet(1 .. Len(journal[p]))
      /\ Cardinality(1 .. Len(journal[p])) = Len(journal[p])
  BY JournalSeq, FS_Interval
<1>2. Rewarded(p, x, a) \subseteq 1 .. Len(journal[p])
  BY JournalSeq DEF Rewarded
<1>3. /\ IsFiniteSet(Rewarded(p, x, a))
      /\ Cardinality(Rewarded(p, x, a)) <= Len(journal[p])
  BY <1>1, <1>2, FS_Subset
<1>4. Cardinality(Rewarded(p, x, a)) \in Nat
  BY <1>3, FS_CardinalityType
<1>5. QED
  BY <1>3, <1>4, JournalSeq, AuthorityChainAssumption

LEMMA CurrentTyped ==
    ASSUME NEW chain \in Seq(rotations \cup Offered), rotations \subseteq Rotations
    PROVE  CurrentOf(chain) \in Grants
BY AuthorityChainAssumption DEF CurrentOf, Rotations

LEMMA StatsTyped ==
    ASSUME TypeOK, NEW p \in Paths, NEW x
    PROVE  /\ Stats(p, x) \in [Allowed[Current(p)] -> 0 .. MaxLines]
           /\ Allowed[Current(p)] \in SUBSET Actions
<1>1. Current(p) \in Grants
  BY CurrentTyped DEF TypeOK, Current
<1>2. QED
  BY <1>1, RewardedFinite, AuthorityChainAssumption DEF Stats

\* The least element of a set of numbers, from the well-founded order of the
\* intervals that start at one.
LEMMA LeastNumber ==
    ASSUME NEW T \in SUBSET Nat, T # {}
    PROVE  \E m \in T : \A n \in T : m <= n
<1> DEFINE Below(n) == 1 .. n
           Intervals == {Below(n) : n \in T}
<1>1. Intervals \subseteq FiniteSubsetsOf(Nat) /\ Intervals # {}
  <2>1. \A n \in T : IsFiniteSet(Below(n)) /\ Below(n) \in SUBSET Nat
    BY FS_Interval
  <2>2. QED
    BY <2>1 DEF FiniteSubsetsOf
<1>2. IsWellFoundedOn(StrictSubsetOrdering(Nat), FiniteSubsetsOf(Nat))
  BY FS_StrictSubsetOrderingWellFounded
<1>3. PICK I \in Intervals :
          \A J \in Intervals : <<J, I>> \notin StrictSubsetOrdering(Nat)
  <2> HIDE DEF Intervals
  <2>1. QED
    BY <1>1, <1>2, WFMin
<1>4. PICK m \in T : I = Below(m)
  OBVIOUS
<1>5. ASSUME NEW n \in T, n < m PROVE FALSE
  <2>1. Below(n) \subseteq Below(m) /\ m \in Below(m) /\ m \notin Below(n)
    BY <1>5
  <2>2. <<Below(n), I>> \in StrictSubsetOrdering(Nat)
    BY <2>1, <1>4, <1>1 DEF StrictSubsetOrdering
  <2>3. QED
    BY <1>3, <2>2
<1>6. QED
  BY <1>5

\* A verified chain never leaves the grants that the issuers handed authority to.
LEMMA ChainInside ==
    ASSUME NEW chain \in Seq(rotations \cup Offered), VerifyChain(chain),
           NEW S, HandedTo(S)
    PROVE  CurrentOf(chain) \in S
<1> DEFINE Outside == {i \in DOMAIN chain : chain[i].to \notin S}
<1>1. ASSUME Outside # {} PROVE FALSE
  <2>0. Outside \in SUBSET Nat
    OBVIOUS
  <2>1. PICK m \in Outside : \A n \in Outside : m <= n
    <3> HIDE DEF Outside
    <3>1. QED
      BY <1>1, <2>0, LeastNumber
  <2>2. m \in Nat /\ m >= 1 /\ chain[m] \in rotations \cup Offered
    OBVIOUS
  <2>3. chain[m].from \in S
    <3>1. CASE m = 1
      BY <3>1 DEF VerifyChain, HandedTo
    <3>2. CASE m # 1
      <4>1. m - 1 \in DOMAIN chain /\ m - 1 \notin Outside
        BY <2>1, <2>2, <3>2
      <4>2. chain[m].from = chain[m - 1].to
        BY <3>2 DEF VerifyChain
      <4>3. QED
        BY <4>1, <4>2
    <3>3. QED
      BY <3>1, <3>2
  <2>4. chain[m].key = Issuer[chain[m].from]
    BY DEF VerifyChain, Verifies
  <2>5. QED
    BY <2>2, <2>3, <2>4 DEF HandedTo
<1>2. QED
  BY <1>1 DEF CurrentOf, HandedTo
-----------------------------------------------------------------------------
(* Types, verified chains, and where the measurements are. *)

Base == TypeOK /\ Linked /\ CallsPlaced

\* What a line says, and that Apply appends it.
LineOf(c, head) ==
    [call |-> c, grant |-> work[c].grant, ctx |-> work[c].ctx,
     action |-> work[c].action, head |-> head]

LEMMA ApplyTyped ==
    ASSUME Base, NEW c \in Calls, NEW p \in Paths, pc[c] # "idle",
           NEW head, head \in {Unattested, work[c].head}, Apply(c, p, head)
    PROVE  /\ LineOf(c, head) \in Lines
           /\ journal' = [journal EXCEPT ![p] = Append(@, LineOf(c, head))]
           /\ journal' \in [Paths -> Seq(Lines)]
           /\ \A o \in Paths : Len(journal'[o]) <= MaxLines
<1>1. LineOf(c, head) \in Lines
  BY DEF LineOf, Lines, Base, CallsPlaced, Measurements
<1>2. journal' = [journal EXCEPT ![p] = Append(@, LineOf(c, head))]
  BY DEF Apply, LineOf
<1>3. Len(journal[p]) < MaxLines
  BY DEF Apply, MayApply
<1> HIDE DEF LineOf
<1>4. QED
  BY <1>1, <1>2, <1>3, AuthorityChainAssumption DEF Base, TypeOK

LEMMA BaseInvariant == Spec => []Base
<1>1. Init => Base
  <2> SUFFICES ASSUME Init PROVE Base
    OBVIOUS
  <2>1. TypeOK
    BY AuthorityChainAssumption DEF Init, TypeOK, Closed, NoWork
  <2>2. Linked /\ CallsPlaced
    BY DEF Init, Linked, CallsPlaced
  <2>3. QED
    BY <2>1, <2>2 DEF Base
<1>2. Base /\ [Next]_vars => Base'
  <2> SUFFICES ASSUME Base, [Next]_vars PROVE Base'
    OBVIOUS
  <2> USE DEF Base
  <2>1. ASSUME NEW p \in Paths, NEW kind \in {"chained", "bound"}, Open(p, kind)
        PROVE  Base'
    <3>1. PICK chain \in ChainsOf(rotations \cup Offered) :
              /\ MayOpen(p, chain)
              /\ learner' = [learner EXCEPT ![p] = [kind |-> kind, chain |-> chain]]
              /\ UNCHANGED <<journal, rotations, callVars>>
      BY <2>1 DEF Open
    <3>2. chain \in Seq(rotations \cup Offered)
      BY AuthorityChainAssumption DEF ChainsOf
    <3>3. TypeOK'
      BY <3>1, <3>2 DEF TypeOK, callVars
    <3>4. Linked'
      BY <3>1 DEF Linked, MayOpen, VerifyChain, Verifies, TypeOK
    <3>5. CallsPlaced'
      <4>1. learner[p] = Closed
        BY <3>1 DEF MayOpen
      <4>2. QED
        BY <3>1, <4>1 DEF CallsPlaced, callVars, Closed, TypeOK
    <3>6. QED
      BY <3>3, <3>4, <3>5
  <2>2. ASSUME NEW p \in Paths, Stop(p) PROVE Base'
    <3>1. TypeOK'
      BY <2>2 DEF Stop, TypeOK, Closed
    <3>2. Linked'
      BY <2>2 DEF Stop, Linked, VerifyChain, TypeOK
    <3>3. CallsPlaced'
      BY <2>2 DEF Stop, CallsPlaced, TypeOK
    <3>4. QED
      BY <3>1, <3>2, <3>3
  <2>3. ASSUME NEW p \in Paths, NEW q \in Paths, NEW g \in Grants,
               NEW k \in {Issuer[h] : h \in Grants}, Rotate(p, q, g, k)
        PROVE  Base'
    <3> DEFINE rotation == [from |-> Current(p), to |-> g, key |-> k,
                            anchor |-> AnchorOf(p, q)]
               chain == Append(learner[p].chain, rotation)
    <3>1. /\ MayOpen(q, chain)
          /\ learner' = [learner EXCEPT ![q] = [kind |-> "chained", chain |-> chain]]
          /\ rotations' = rotations \cup {rotation}
          /\ UNCHANGED <<journal, callVars>>
      BY <2>3 DEF Rotate
    <3>2. Current(p) \in Grants
      BY CurrentTyped DEF Current, TypeOK
    <3>3. rotation \in Rotations
      BY <3>2, HeadTyped DEF AnchorOf, Rotations
    <3> HIDE DEF rotation
    <3>4. /\ chain \in Seq(rotations' \cup Offered)
          /\ \A o \in Paths : learner[o].chain \in Seq(rotations' \cup Offered)
      <4>1. rotations \cup Offered \subseteq rotations' \cup Offered
            /\ rotation \in rotations' \cup Offered
        BY <3>1
      <4>2. \A o \in Paths : learner[o].chain \in Seq(rotations \cup Offered)
        BY DEF TypeOK
      <4>3. \A o \in Paths : learner[o].chain \in Seq(rotations' \cup Offered)
        BY <4>1, <4>2
      <4>4. QED
        BY <4>1, <4>3
    <3>5. TypeOK'
      <4> HIDE DEF chain
      <4>1. QED
        BY <3>1, <3>3, <3>4 DEF TypeOK, callVars
    <3>6. Linked'
      <4> HIDE DEF chain
      <4>1. QED
        BY <3>1 DEF Linked, MayOpen, VerifyChain, Verifies, TypeOK
    <3>7. CallsPlaced'
      <4>1. learner[q] = Closed
        BY <3>1 DEF MayOpen
      <4> HIDE DEF chain
      <4>2. QED
        BY <3>1, <4>1 DEF CallsPlaced, callVars, Closed, TypeOK
    <3>8. QED
      BY <3>5, <3>6, <3>7
  <2>4. ASSUME NEW c \in Calls, NEW p \in Paths, NEW x \in Contexts,
               NEW a \in Actions, Choose(c, p, x, a)
        PROVE  Base'
    <3>1. [grant |-> Current(p), ctx |-> x, action |-> a, before |-> Stats(p, x),
           head |-> Unattested] \in Measurements
      BY StatsTyped, CurrentTyped DEF Measurements, Current, TypeOK
    <3>2. QED
      BY <2>4, <3>1 DEF Choose, TypeOK, Linked, CallsPlaced, VerifyChain
  <2>5. ASSUME NEW c \in Calls, Attest(c) PROVE Base'
    <3>1. target[c] \in Paths
      BY <2>5 DEF Attest, CallsPlaced
    <3>2. JournalHead(target[c]) \in Seq(Calls)
          /\ JournalHead(target[c]) # Unattested
      BY <3>1, HeadTyped
    <3>0. [work[c] EXCEPT !.head = JournalHead(target[c])] \in Measurements
      BY <2>5, <3>2 DEF Attest, CallsPlaced, Measurements
    <3>3. TypeOK'
      BY <2>5, <3>2, <3>0 DEF Attest, CommitsTo, TypeOK
    <3>4. Linked' /\ CallsPlaced'
      BY <2>5, <3>0 DEF Attest, CommitsTo, Linked, CallsPlaced, VerifyChain, TypeOK
    <3>5. QED
      BY <3>3, <3>4
  <2>6. ASSUME NEW c \in Calls, NEW p \in Paths, Check(c, p) PROVE Base'
    BY <2>6 DEF Check, TypeOK, Linked, CallsPlaced, VerifyChain
  <2>7. ASSUME NEW c \in Calls, NEW p \in Paths, Learn(c, p) PROVE Base'
    BY <2>7, ApplyTyped DEF Learn, callVars, TypeOK, Linked, CallsPlaced, VerifyChain
  <2>8. ASSUME NEW c \in Calls, LearnBound(c) PROVE Base'
    <3>1. target[c] \in Paths
      BY <2>8 DEF LearnBound, CallsPlaced
    <3>2. QED
      BY <2>8, <3>1, ApplyTyped
         DEF LearnBound, TypeOK, Linked, CallsPlaced, VerifyChain
  <2>9. ASSUME NEW c \in Calls, Refused(c) PROVE Base'
    BY <2>9 DEF Refused, TypeOK, Linked, CallsPlaced, VerifyChain
  <2>10. CASE UNCHANGED vars
    BY <2>10 DEF vars, callVars, TypeOK, Linked, CallsPlaced, VerifyChain
  <2>11. QED
    BY <2>1, <2>2, <2>3, <2>4, <2>5, <2>6, <2>7, <2>8, <2>9, <2>10 DEF Next
<1>3. QED
  BY <1>1, <1>2, PTL DEF Spec

\* Types are kept: the state never leaves the sets it is declared over.
THEOREM AuthorityTypeCorrect == Spec => []TypeOK
BY BaseInvariant, PTL DEF Base
-----------------------------------------------------------------------------
(* Grants: what a step does to a journal, and what it does to a learner. *)

\* A journal changes by one line, about a measurement of the learner's grant.
Learns(c, p, head) ==
    /\ pc[c] # "idle"
    /\ learner[p].kind # "closed"
    /\ head \in {Unattested, work[c].head}
    /\ Apply(c, p, head)
    /\ UNCHANGED <<learner, rotations, work>>
    /\ head # Unattested => pc[c] = "checked" /\ p = target[c]

LEMMA OnlyAppends ==
    ASSUME Base, [Next]_vars
    PROVE  \/ journal' = journal
           \/ \E c \in Calls, p \in Paths, head \in {Unattested} \cup Seq(Calls) :
                 Learns(c, p, head)
<1>1. ASSUME NEW c \in Calls, NEW p \in Paths, Learn(c, p)
      PROVE  Learns(c, p, Unattested)
  BY <1>1 DEF Learn, Learns, callVars
<1>2. ASSUME NEW c \in Calls, LearnBound(c)
      PROVE  /\ target[c] \in Paths /\ work[c].head \in {Unattested} \cup Seq(Calls)
             /\ Learns(c, target[c], work[c].head)
  BY <1>2 DEF LearnBound, Learns, Base, CallsPlaced, Measurements
<1>3. ASSUME NEW c \in Calls, Attest(c) \/ Refused(c) PROVE journal' = journal
  BY <1>3 DEF Attest, Refused
<1>4. ASSUME NEW c \in Calls, NEW p \in Paths, Check(c, p) PROVE journal' = journal
  BY <1>4 DEF Check
<1>5. ASSUME NEW p \in Paths, Stop(p) \/ \E kind \in {"chained", "bound"} : Open(p, kind)
      PROVE journal' = journal
  BY <1>5 DEF Stop, Open
<1>6. ASSUME NEW p \in Paths, NEW q \in Paths, NEW g \in Grants,
             NEW k \in {Issuer[h] : h \in Grants}, Rotate(p, q, g, k)
      PROVE  journal' = journal
  BY <1>6 DEF Rotate
<1>7. ASSUME NEW c \in Calls, NEW p \in Paths, NEW x \in Contexts,
             NEW a \in Actions, Choose(c, p, x, a)
      PROVE  journal' = journal
  BY <1>7 DEF Choose
<1>8. CASE UNCHANGED vars
  BY <1>8 DEF vars
<1>9. QED
  BY <1>1, <1>2, <1>3, <1>4, <1>5, <1>6, <1>7, <1>8 DEF Next

\* A line that was there stays, and one that is new is of the learner's grant.
LEMMA LinesOf ==
    ASSUME Base, NEW c \in Calls, NEW p \in Paths,
           NEW head \in {Unattested} \cup Seq(Calls), Learns(c, p, head)
    PROVE  /\ journal' \in [Paths -> Seq(Lines)]
           /\ Len(journal'[p]) = Len(journal[p]) + 1
           /\ DOMAIN journal'[p] = 1 .. Len(journal[p]) + 1
           /\ \A i \in DOMAIN journal[p] : journal'[p][i] = journal[p][i]
           /\ journal'[p][Len(journal[p]) + 1] = LineOf(c, head)
           /\ LineOf(c, head).grant = Current(p)
           /\ LineOf(c, head).action \in Allowed[Current(p)]
           /\ \A o \in Paths \ {p} : journal'[o] = journal[o]
<1>1. /\ LineOf(c, head) \in Lines
      /\ journal' = [journal EXCEPT ![p] = Append(@, LineOf(c, head))]
      /\ journal' \in [Paths -> Seq(Lines)]
  BY ApplyTyped DEF Learns
<1>2. /\ LineOf(c, head).grant = Current(p)
      /\ LineOf(c, head).action \in Allowed[Current(p)]
  BY DEF Learns, Apply, MayApply, Applies, LineOf
<1>3. journal \in [Paths -> Seq(Lines)]
  BY DEF Base, TypeOK
<1> HIDE DEF LineOf
<1>4. QED
  BY <1>1, <1>2, <1>3

\* A rotation that was known stays known.
LEMMA RotationsStay ==
    ASSUME [Next]_vars PROVE rotations \subseteq rotations'
BY DEF Next, vars, callVars, Open, Stop, Rotate, Choose, Attest, Check, Learn,
       LearnBound, Refused

LEMMA HandedStays ==
    ASSUME [Next]_vars, NEW S, HandedTo(S)' PROVE HandedTo(S)
BY RotationsStay DEF HandedTo

LEMMA GrantedInvariant == Spec => []GrantedByIssuers
<1>1. Init => GrantedByIssuers
  BY DEF Init, GrantedByIssuers
<1>2. Base /\ GrantedByIssuers /\ [Next]_vars => GrantedByIssuers'
  <2> SUFFICES ASSUME Base, GrantedByIssuers, [Next]_vars,
                      NEW p \in Paths, NEW S \in SUBSET Grants, HandedTo(S)',
                      NEW i \in DOMAIN journal'[p]
               PROVE  /\ journal'[p][i].grant \in S
                      /\ journal'[p][i].action \in Allowed[journal'[p][i].grant]
    BY DEF GrantedByIssuers, HandedTo
  <2>1. HandedTo(S)
    BY HandedStays
  <2>2. CASE journal' = journal
    BY <2>1, <2>2 DEF GrantedByIssuers
  <2>3. ASSUME NEW c \in Calls, NEW o \in Paths,
               NEW head \in {Unattested} \cup Seq(Calls), Learns(c, o, head)
        PROVE  /\ journal'[p][i].grant \in S
               /\ journal'[p][i].action \in Allowed[journal'[p][i].grant]
    <3>1. CASE p = o /\ i = Len(journal[o]) + 1
      <4>1. learner[o].chain \in Seq(rotations \cup Offered)
            /\ VerifyChain(learner[o].chain)
        BY <2>3 DEF Learns, Base, TypeOK, Linked, Closed
      <4>2. Current(o) \in S
        BY <4>1, <2>1, ChainInside DEF Current
      <4>3. QED
        BY <3>1, <4>2, <2>3, LinesOf
    <3>2. CASE ~(p = o /\ i = Len(journal[o]) + 1)
      <4>1. i \in DOMAIN journal[p] /\ journal'[p][i] = journal[p][i]
        BY <3>2, <2>3, LinesOf, JournalSeq DEF Base
      <4>2. QED
        BY <4>1, <2>1 DEF GrantedByIssuers
    <3>3. QED
      BY <3>1, <3>2
  <2>4. QED
    BY <2>2, <2>3, OnlyAppends
<1>3. QED
  BY <1>1, <1>2, BaseInvariant, PTL DEF Spec

\* Whatever a learner learned was granted, from the pinned root, by issuers who
\* signed it themselves (AuthorityChain.Verify and Apply).
THEOREM NoSelfAuthorization == Spec => []GrantedByIssuers
BY GrantedInvariant
-----------------------------------------------------------------------------
(* One grant per journal, and what an anchor names. *)

\* What a step may do to the live learners.
LEMMA LearnerSteps ==
    ASSUME Base, [Next]_vars, journal' = journal, NEW p \in Paths, learner'[p] # Closed
    PROVE  \/ learner'[p] = learner[p]
           \/ BelongsTo(p, CurrentOf(learner'[p].chain))
<1>1. ASSUME NEW o \in Paths, NEW kind \in {"chained", "bound"}, Open(o, kind)
      PROVE  learner'[p] = learner[p] \/ BelongsTo(p, CurrentOf(learner'[p].chain))
  BY <1>1 DEF Open, MayOpen, Base, TypeOK
<1>2. ASSUME NEW o \in Paths, Stop(o) PROVE learner'[p] = learner[p]
  BY <1>2 DEF Stop, Base, TypeOK
<1>3. ASSUME NEW o \in Paths, NEW q \in Paths, NEW g \in Grants,
             NEW k \in {Issuer[h] : h \in Grants}, Rotate(o, q, g, k)
      PROVE  learner'[p] = learner[p] \/ BelongsTo(p, CurrentOf(learner'[p].chain))
  BY <1>3 DEF Rotate, MayOpen, Base, TypeOK
<1>4. CASE learner' = learner
  BY <1>4
<1>5. ASSUME NEW c \in Calls, Attest(c) \/ LearnBound(c) \/ Refused(c)
      PROVE  learner' = learner
  BY <1>5 DEF Attest, LearnBound, Refused
<1>6. ASSUME NEW c \in Calls, NEW o \in Paths, Check(c, o) \/ Learn(c, o)
      PROVE  learner' = learner
  BY <1>6 DEF Check, Learn
<1>7. ASSUME NEW c \in Calls, NEW o \in Paths, NEW x \in Contexts,
             NEW a \in Actions, Choose(c, o, x, a)
      PROVE  learner' = learner
  BY <1>7 DEF Choose
<1>8. CASE UNCHANGED vars
  BY <1>8 DEF vars
<1>9. QED
  BY <1>1, <1>2, <1>3, <1>4, <1>5, <1>6, <1>7, <1>8 DEF Next

LEMMA OneGrantInvariant == Spec => []OneGrantPerJournal
<1>1. Init => OneGrantPerJournal
  BY DEF Init, OneGrantPerJournal
<1>2. Base /\ OneGrantPerJournal /\ [Next]_vars => OneGrantPerJournal'
  <2> SUFFICES ASSUME Base, OneGrantPerJournal, [Next]_vars, NEW p \in Paths
               PROVE  /\ \A i, j \in DOMAIN journal'[p] :
                            journal'[p][i].grant = journal'[p][j].grant
                      /\ learner'[p] # Closed =>
                            \A i \in DOMAIN journal'[p] :
                                journal'[p][i].grant = Current(p)'
    BY DEF OneGrantPerJournal
  <2>1. CASE journal' = journal
    <3>1. ASSUME learner'[p] # Closed, NEW i \in DOMAIN journal[p]
          PROVE  journal[p][i].grant = Current(p)'
      <4>1. CASE learner'[p] = learner[p]
        BY <3>1, <4>1 DEF OneGrantPerJournal, Current
      <4>2. CASE BelongsTo(p, CurrentOf(learner'[p].chain))
        BY <3>1, <4>2 DEF BelongsTo, Current
      <4>3. QED
        BY <2>1, <3>1, <4>1, <4>2, LearnerSteps
    <3>2. QED
      BY <2>1, <3>1 DEF OneGrantPerJournal
  <2>2. ASSUME NEW c \in Calls, NEW o \in Paths,
               NEW head \in {Unattested} \cup Seq(Calls), Learns(c, o, head)
        PROVE  /\ \A i, j \in DOMAIN journal'[p] :
                     journal'[p][i].grant = journal'[p][j].grant
               /\ learner'[p] # Closed =>
                     \A i \in DOMAIN journal'[p] :
                         journal'[p][i].grant = Current(p)'
    <3>1. learner' = learner /\ Current(p)' = Current(p)
      BY <2>2 DEF Learns, Current
    <3>2. CASE p # o
      BY <2>2, <3>1, <3>2, LinesOf DEF OneGrantPerJournal
    <3>3. CASE p = o
      <4>1. learner[p] # Closed
        BY <2>2, <3>3 DEF Learns, Closed
      <4>2. ASSUME NEW i \in DOMAIN journal'[p]
            PROVE  journal'[p][i].grant = Current(p)
        <5>1. CASE i = Len(journal[p]) + 1
          BY <5>1, <3>3, <2>2, LinesOf
        <5>2. CASE i # Len(journal[p]) + 1
          <6>1. i \in DOMAIN journal[p] /\ journal'[p][i] = journal[p][i]
            BY <5>2, <3>3, <2>2, LinesOf, JournalSeq DEF Base
          <6>2. QED
            BY <6>1, <4>1 DEF OneGrantPerJournal
        <5>3. QED
          BY <5>1, <5>2
      <4>3. QED
        BY <4>2, <3>1
    <3>4. QED
      BY <3>2, <3>3
  <2>3. QED
    BY <2>1, <2>2, OnlyAppends
<1>3. QED
  BY <1>1, <1>2, BaseInvariant, PTL DEF Spec

\* No state is carried from one grant to the next (validateSignedAuthorityJournal).
THEOREM JournalsAreNotShared == Spec => []OneGrantPerJournal
BY OneGrantInvariant

\* A journal only grows, and so does its head.
LEMMA JournalsGrow ==
    ASSUME Base, [Next]_vars, NEW p \in Paths
    PROVE  /\ Len(journal[p]) <= Len(journal'[p])
           /\ \A i \in 1 .. Len(journal[p]) : journal'[p][i] = journal[p][i]
<1>1. CASE journal' = journal
  BY <1>1, JournalSeq DEF Base
<1>2. ASSUME NEW c \in Calls, NEW o \in Paths,
             NEW head \in {Unattested} \cup Seq(Calls), Learns(c, o, head)
      PROVE  /\ Len(journal[p]) <= Len(journal'[p])
             /\ \A i \in 1 .. Len(journal[p]) : journal'[p][i] = journal[p][i]
  BY <1>2, LinesOf, JournalSeq DEF Base
<1>3. QED
  BY <1>1, <1>2, OnlyAppends

LEMMA HeadEntry ==
    ASSUME TypeOK, NEW p \in Paths, NEW n \in 0 .. Len(journal[p])
    PROVE  /\ Prefix(JournalHead(p), n) \in Seq(Calls)
           /\ Len(Prefix(JournalHead(p), n)) = n
           /\ Prefix(JournalHead(p), n) = [i \in 1 .. n |-> journal[p][i].call]
<1>1. \A i \in 1 .. n : /\ JournalHead(p)[i] = journal[p][i].call
                        /\ journal[p][i].call \in Calls
  BY JournalSeq DEF JournalHead, Lines
<1>2. Prefix(JournalHead(p), n) = [i \in 1 .. n |-> journal[p][i].call]
  BY <1>1 DEF Prefix
<1>3. [i \in 1 .. n |-> journal[p][i].call] \in [1 .. n -> Calls]
  BY <1>1
<1>4. n \in Nat
  BY JournalSeq, AuthorityChainAssumption
<1>5. QED
  BY <1>2, <1>3, <1>4

AnchoredAt(r, p) ==
    /\ Len(r.anchor) <= Len(journal[p])
    /\ r.anchor = Prefix(JournalHead(p), Len(r.anchor))
    /\ \A i \in 1 .. Len(r.anchor) : journal[p][i].grant = r.from

LEMMA AnchorsInvariant == Spec => []AnchorsAreHeads
<1>1. Init => AnchorsAreHeads
  BY DEF Init, AnchorsAreHeads
<1>2. Base /\ Base' /\ OneGrantPerJournal /\ AnchorsAreHeads /\ [Next]_vars
         => AnchorsAreHeads'
  <2> SUFFICES ASSUME Base, Base', OneGrantPerJournal, AnchorsAreHeads, [Next]_vars
               PROVE  AnchorsAreHeads'
    OBVIOUS
  <2>1. ASSUME NEW r \in Rotations, NEW p \in Paths, AnchoredAt(r, p)
        PROVE  AnchoredAt(r, p)'
    <3>1. Len(r.anchor) \in 0 .. Len(journal[p])
      BY <2>1, JournalSeq, AuthorityChainAssumption DEF AnchoredAt, Rotations, Base
    <3>2. /\ Len(journal[p]) <= Len(journal'[p])
          /\ \A i \in 1 .. Len(journal[p]) : journal'[p][i] = journal[p][i]
      BY JournalsGrow
    <3>3. /\ Len(journal[p]) \in Nat /\ Len(journal'[p]) \in Nat
      BY JournalSeq, AuthorityChainAssumption DEF Base, TypeOK
    <3>4. Len(r.anchor) \in 0 .. Len(journal'[p])
      BY <3>1, <3>2, <3>3
    <3>5. Prefix(JournalHead(p), Len(r.anchor))
             = [i \in 1 .. Len(r.anchor) |-> journal[p][i].call]
      BY <3>1, HeadEntry DEF Base
    <3>6. Prefix(JournalHead(p)', Len(r.anchor))
             = [i \in 1 .. Len(r.anchor) |-> journal'[p][i].call]
      BY <3>4 DEF Prefix, JournalHead, Base, TypeOK
    <3>7. \A i \in 1 .. Len(r.anchor) : journal'[p][i] = journal[p][i]
      BY <3>1, <3>2, <3>3
    <3>8. r.anchor = Prefix(JournalHead(p)', Len(r.anchor))
      <4>1. [i \in 1 .. Len(r.anchor) |-> journal'[p][i].call]
               = [i \in 1 .. Len(r.anchor) |-> journal[p][i].call]
        BY <3>7
      <4>2. QED
        BY <2>1, <4>1, <3>5, <3>6 DEF AnchoredAt
    <3>9. /\ Len(r.anchor) <= Len(journal'[p])
          /\ \A i \in 1 .. Len(r.anchor) : journal'[p][i].grant = r.from
      BY <2>1, <3>4, <3>7, <3>3 DEF AnchoredAt
    <3>10. QED
      BY <3>8, <3>9 DEF AnchoredAt
  <2>2. ASSUME NEW r \in rotations' PROVE \E p \in Paths : AnchoredAt(r, p)'
    <3>1. r \in Rotations
      BY <2>2 DEF Base, TypeOK, Rotations
    <3>2. CASE r \in rotations
      <4>1. PICK p \in Paths : AnchoredAt(r, p)
        BY <3>2 DEF AnchorsAreHeads, AnchoredAt
      <4>2. QED
        BY <3>1, <4>1, <2>1
    <3>3. CASE r \notin rotations
      <4>1. PICK p \in Paths, q \in Paths, g \in Grants,
                 k \in {Issuer[h] : h \in Grants} :
               /\ Rotate(p, q, g, k)
               /\ r = [from |-> Current(p), to |-> g, key |-> k,
                       anchor |-> JournalHead(p)]
        <5>1. PICK p \in Paths, q \in Paths, g \in Grants,
                   k \in {Issuer[h] : h \in Grants} : Rotate(p, q, g, k)
          BY <3>3 DEF Next, vars, callVars, Open, Stop, Choose, Attest, Check,
                      Learn, LearnBound, Refused
        <5>2. QED
          BY <5>1, <3>3 DEF Rotate, AnchorOf
      <4>2. Len(r.anchor) = Len(journal[p])
            /\ r.anchor = Prefix(JournalHead(p), Len(journal[p]))
        <5>1. r.anchor = JournalHead(p)
          BY <4>1
        <5>2. DOMAIN JournalHead(p) = 1 .. Len(journal[p])
          BY JournalSeq DEF JournalHead, Base
        <5>3. QED
          BY <5>1, <5>2, HeadTyped DEF Prefix, Base, JournalHead
      <4>3. \A i \in 1 .. Len(journal[p]) : journal[p][i].grant = r.from
        <5>1. learner[p] # Closed
          BY <4>1 DEF Rotate, Closed
        <5>2. QED
          BY <4>1, <5>1, JournalSeq DEF OneGrantPerJournal, Base
      <4>4. AnchoredAt(r, p)
        BY <4>2, <4>3, JournalSeq, AuthorityChainAssumption DEF AnchoredAt, Base
      <4>5. QED
        BY <3>1, <4>4, <2>1
    <3>4. QED
      BY <3>2, <3>3
  <2>3. QED
    BY <2>2 DEF AnchorsAreHeads, AnchoredAt
<1>3. QED
  BY <1>1, <1>2, BaseInvariant, OneGrantInvariant, PTL DEF Spec

\* A signed rotation commits to what its grant had learned (Rotate).
THEOREM AnchorsNameHeads == Spec => []AnchorsAreHeads
BY AnchorsInvariant
-----------------------------------------------------------------------------
(* Attestations that are stale when their measurement is learned. *)

\* Once it is measured, a measurement keeps its context, action and statistics.
LEMMA WorkStays ==
    ASSUME Base, [Next]_vars, NEW c \in Calls, pc[c] # "idle"
    PROVE  /\ pc'[c] # "idle"
           /\ work'[c].ctx = work[c].ctx /\ work'[c].action = work[c].action
           /\ work'[c].before = work[c].before
           /\ work'[c].grant = work[c].grant
           /\ pc[c] # "chosen" => work'[c].head = work[c].head /\ pc'[c] # "chosen"
<1> USE DEF Base, TypeOK
<1>1. ASSUME NEW o \in Paths, NEW kind \in {"chained", "bound"}, Open(o, kind)
      PROVE  pc' = pc /\ work' = work
  BY <1>1 DEF Open, callVars
<1>2. ASSUME NEW o \in Paths, Stop(o)
      PROVE  /\ work' = work
             /\ pc' = [d \in Calls |-> IF pc[d] = "checked" /\ target[d] = o
                                       THEN "attested" ELSE pc[d]]
  BY <1>2 DEF Stop
<1>3. ASSUME NEW o \in Paths, NEW q \in Paths, NEW g \in Grants,
             NEW k \in {Issuer[h] : h \in Grants}, Rotate(o, q, g, k)
      PROVE  pc' = pc /\ work' = work
  BY <1>3 DEF Rotate, callVars
<1>4. ASSUME NEW d \in Calls, NEW o \in Paths, NEW x \in Contexts,
             NEW a \in Actions, Choose(d, o, x, a)
      PROVE  d # c /\ pc'[c] = pc[c] /\ work'[c] = work[c]
  BY <1>4 DEF Choose
<1>5. ASSUME NEW d \in Calls, Attest(d)
      PROVE  /\ pc[d] = "chosen"
             /\ pc' = [pc EXCEPT ![d] = "attested"]
             /\ work' = [work EXCEPT ![d].head = CommitsTo(target[d])]
  BY <1>5 DEF Attest
<1>6. ASSUME NEW d \in Calls, LearnBound(d) \/ Refused(d)
      PROVE  pc[d] = "checked" /\ pc' = [pc EXCEPT ![d] = "attested"] /\ work' = work
  BY <1>6 DEF LearnBound, Refused
<1>7. ASSUME NEW d \in Calls, NEW o \in Paths, Check(d, o)
      PROVE  pc[d] = "attested" /\ pc' = [pc EXCEPT ![d] = "checked"] /\ work' = work
  BY <1>7 DEF Check
<1>8. ASSUME NEW d \in Calls, NEW o \in Paths, Learn(d, o)
      PROVE  pc' = pc /\ work' = work
  BY <1>8 DEF Learn, callVars
<1>9. CASE UNCHANGED vars
  BY <1>9 DEF vars, callVars
<1>10. work[c] \in Measurements
  BY DEF CallsPlaced
<1>11. ASSUME NEW d \in Calls, Attest(d)
       PROVE  /\ pc'[c] # "idle"
              /\ work'[c].ctx = work[c].ctx /\ work'[c].action = work[c].action
              /\ work'[c].before = work[c].before
              /\ work'[c].grant = work[c].grant
              /\ pc[c] # "chosen" => work'[c].head = work[c].head /\ pc'[c] # "chosen"
  <2>1. CASE c # d
    BY <1>5, <1>11, <2>1
  <2>2. CASE c = d
    <3>1. work'[c] = [work[c] EXCEPT !.head = CommitsTo(target[c])]
      BY <1>5, <1>11, <2>2
    <3>2. QED
      BY <1>5, <1>11, <2>2, <3>1, <1>10 DEF Measurements
  <2>3. QED
    BY <2>1, <2>2
<1>12. QED
  BY <1>1, <1>2, <1>3, <1>4, <1>6, <1>7, <1>8, <1>9, <1>11 DEF Next

LEMMA LinesAreWorkInvariant == Spec => []LinesAreWork
<1>1. Init => LinesAreWork
  BY DEF Init, LinesAreWork
<1>2. Base /\ LinesAreWork /\ [Next]_vars => LinesAreWork'
  <2> SUFFICES ASSUME Base, LinesAreWork, [Next]_vars,
                      NEW p \in Paths, NEW i \in DOMAIN journal'[p]
               PROVE  /\ pc'[journal'[p][i].call] # "idle"
                      /\ journal'[p][i].ctx = work'[journal'[p][i].call].ctx
                      /\ journal'[p][i].action = work'[journal'[p][i].call].action
    BY DEF LinesAreWork
  <2>1. CASE i \in DOMAIN journal[p] /\ journal'[p][i] = journal[p][i]
    <3>1. journal[p][i].call \in Calls
      BY <2>1, JournalSeq DEF Base, Lines
    <3>2. QED
      BY <2>1, <3>1, WorkStays DEF LinesAreWork
  <2>2. ASSUME NEW c \in Calls, NEW o \in Paths,
               NEW head \in {Unattested} \cup Seq(Calls), Learns(c, o, head),
               p = o, i = Len(journal[o]) + 1
        PROVE  /\ pc'[journal'[p][i].call] # "idle"
               /\ journal'[p][i].ctx = work'[journal'[p][i].call].ctx
               /\ journal'[p][i].action = work'[journal'[p][i].call].action
    <3>1. journal'[p][i] = LineOf(c, head) /\ pc[c] # "idle"
      BY <2>2, LinesOf DEF Learns
    <3>2. QED
      BY <3>1, WorkStays DEF LineOf
  <2>3. ASSUME NEW c \in Calls, NEW o \in Paths,
               NEW head \in {Unattested} \cup Seq(Calls), Learns(c, o, head),
               ~(p = o /\ i = Len(journal[o]) + 1)
        PROVE  i \in DOMAIN journal[p] /\ journal'[p][i] = journal[p][i]
    BY <2>3, LinesOf, JournalSeq DEF Base
  <2>4. QED
    BY <2>1, <2>2, <2>3, OnlyAppends
<1>3. QED
  BY <1>1, <1>2, BaseInvariant, PTL DEF Spec

\* Statistics never go down.
LEMMA RewardedGrows ==
    ASSUME Base, Base', [Next]_vars, NEW p \in Paths, NEW x, NEW a
    PROVE  Cardinality(Rewarded(p, x, a)) <= Cardinality(Rewarded(p, x, a)')
<1>1. Rewarded(p, x, a)' =
         {i \in DOMAIN journal'[p] : journal'[p][i].ctx = x /\ journal'[p][i].action = a}
  BY DEF Rewarded
<1>2. IsFiniteSet(Rewarded(p, x, a)')
  <2>1. IsFiniteSet(1 .. Len(journal'[p]))
    BY JournalsGrow, FS_Interval DEF Base, TypeOK
  <2>2. Rewarded(p, x, a)' \subseteq 1 .. Len(journal'[p])
    BY <1>1 DEF Base, TypeOK
  <2>3. QED
    BY <2>1, <2>2, FS_Subset
<1>3. Rewarded(p, x, a) \subseteq Rewarded(p, x, a)'
  <2>0. DOMAIN journal'[p] = 1 .. Len(journal'[p]) /\ Len(journal'[p]) \in Nat
    BY DEF Base, TypeOK
  <2>1. \A i \in DOMAIN journal[p] :
            i \in DOMAIN journal'[p] /\ journal'[p][i] = journal[p][i]
    BY <2>0, JournalsGrow, JournalSeq, AuthorityChainAssumption DEF Base
  <2>2. QED
    BY <2>1, <1>1 DEF Rewarded
<1>4. QED
  BY <1>2, <1>3, FS_Subset

\* What an attestation covers does not change.
LEMMA SeenStays ==
    ASSUME Base, [Next]_vars, SawBefore, NEW c \in Calls,
           pc[c] \in {"attested", "checked"}, NEW a
    PROVE  Seen(c, a)' = Seen(c, a)
<1>1. work'[c].head = work[c].head /\ work'[c].ctx = work[c].ctx
  BY WorkStays
<1>2. work[c].head \in Seq(Calls)
  BY DEF Base, CallsPlaced, Measurements, TypeOK
<1>3. \A i \in DOMAIN work[c].head :
          /\ work'[work[c].head[i]].ctx = work[work[c].head[i]].ctx
          /\ work'[work[c].head[i]].action = work[work[c].head[i]].action
  BY <1>2, WorkStays DEF SawBefore
<1>4. QED
  BY <1>1, <1>3 DEF Seen

\* How a measurement comes to be chosen or attested.
LEMMA HowMeasured ==
    ASSUME Base, [Next]_vars, NEW c \in Calls
    PROVE  /\ pc'[c] = "chosen" =>
                 \/ pc[c] = "chosen"
                 \/ \E p \in Paths, x \in Contexts, a \in Actions : Choose(c, p, x, a)
           /\ pc'[c] \in {"attested", "checked"} =>
                 pc[c] \in {"attested", "checked"} \/ Attest(c)
<1> DEFINE Kept == \/ pc'[c] = pc[c]
                   \/ {pc[c], pc'[c]} \subseteq {"attested", "checked"}
<1>1. ASSUME NEW o \in Paths, NEW kind \in {"chained", "bound"}, Open(o, kind)
      PROVE  Kept
  BY <1>1 DEF Open, callVars
<1>2. ASSUME NEW o \in Paths, Stop(o) PROVE Kept
  BY <1>2 DEF Stop
<1>3. ASSUME NEW o \in Paths, NEW q \in Paths, NEW g \in Grants,
             NEW k \in {Issuer[h] : h \in Grants}, Rotate(o, q, g, k)
      PROVE  Kept
  BY <1>3 DEF Rotate, callVars
<1>4. ASSUME NEW d \in Calls, NEW o \in Paths, NEW x \in Contexts,
             NEW a \in Actions, Choose(d, o, x, a)
      PROVE  Kept \/ (c = d /\ pc'[c] = "chosen" /\ Choose(c, o, x, a))
  BY <1>4 DEF Choose, Base, TypeOK
<1>5. ASSUME NEW d \in Calls, Attest(d)
      PROVE  Kept \/ (c = d /\ pc'[c] = "attested" /\ Attest(c))
  BY <1>5 DEF Attest, Base, TypeOK
<1>6. ASSUME NEW d \in Calls, LearnBound(d) \/ Refused(d) PROVE Kept
  BY <1>6 DEF LearnBound, Refused, Base, TypeOK
<1>7. ASSUME NEW d \in Calls, NEW o \in Paths, Check(d, o) PROVE Kept
  BY <1>7 DEF Check, Base, TypeOK
<1>8. ASSUME NEW d \in Calls, NEW o \in Paths, Learn(d, o) PROVE Kept
  BY <1>8 DEF Learn, callVars
<1>9. CASE UNCHANGED vars
  BY <1>9 DEF vars, callVars
<1>10. QED
  BY <1>1, <1>2, <1>3, <1>4, <1>5, <1>6, <1>7, <1>8, <1>9 DEF Next

LEMMA SawBeforeInvariant == Spec => []SawBefore
<1>1. Init => SawBefore
  BY DEF Init, SawBefore
<1>2. Base /\ Base' /\ LinesAreWork /\ SawBefore /\ [Next]_vars => SawBefore'
  <2> SUFFICES ASSUME Base, Base', LinesAreWork, SawBefore, [Next]_vars,
                      NEW c \in Calls
               PROVE  /\ pc'[c] = "chosen" =>
                            \A a \in DOMAIN work'[c].before :
                                work'[c].before[a] <= Cardinality(
                                    Rewarded(target[c], work[c].ctx, a)')
                      /\ pc'[c] \in {"attested", "checked"} =>
                            /\ \A i \in DOMAIN work'[c].head :
                                  pc'[work'[c].head[i]] # "idle"
                            /\ \A a \in DOMAIN work'[c].before :
                                  work'[c].before[a] <= Cardinality(Seen(c, a)')
    BY DEF SawBefore
  <2>1. ASSUME NEW p \in Paths, NEW x \in Contexts, NEW b \in Actions,
               Choose(c, p, x, b)
        PROVE  \A a \in DOMAIN work'[c].before :
                   work'[c].before[a] <=
                       Cardinality(Rewarded(target[c], work[c].ctx, a)')
    <3>1. /\ work'[c].before = Stats(p, x) /\ work'[c].ctx = x /\ target'[c] = p
          /\ journal' = journal
      BY <2>1 DEF Choose, Base, TypeOK
    <3>2. \A a : Rewarded(target[c], work[c].ctx, a)' = Rewarded(p, x, a)
      BY <3>1 DEF Rewarded
    <3>3. \A a \in DOMAIN Stats(p, x) :
              /\ Stats(p, x)[a] = Cardinality(Rewarded(p, x, a))
              /\ Cardinality(Rewarded(p, x, a)) \in Nat
      BY RewardedFinite DEF Stats, Base
    <3>4. QED
      BY <3>1, <3>2, <3>3
  <2>2. ASSUME pc[c] = "chosen", pc'[c] = "chosen"
        PROVE  \A a \in DOMAIN work'[c].before :
                   work'[c].before[a] <=
                       Cardinality(Rewarded(target[c], work[c].ctx, a)')
    <3>1. target'[c] = target[c]
      BY <2>2 DEF Next, vars, callVars, Open, Stop, Rotate, Choose, Attest, Check,
                  Learn, LearnBound, Refused, Base, TypeOK
    <3>2. /\ work'[c].before = work[c].before /\ work'[c].ctx = work[c].ctx
          /\ target[c] \in Paths /\ work[c] \in Measurements
      BY <2>2, WorkStays DEF Base, CallsPlaced
    <3>3. ASSUME NEW a \in DOMAIN work[c].before
          PROVE  work[c].before[a] <=
                     Cardinality(Rewarded(target[c], work[c].ctx, a)')
      <4> DEFINE p == target[c]
                 x == work[c].ctx
      <4>1. Rewarded(target[c], work[c].ctx, a)' =
               {i \in DOMAIN journal'[p] :
                   journal'[p][i].ctx = x /\ journal'[p][i].action = a}
        BY <3>1, <3>2 DEF Rewarded
      <4>2. work[c].before[a] <= Cardinality(Rewarded(p, x, a))
        BY <2>2 DEF SawBefore
      <4>3. PICK q \in Paths, y \in Contexts : q = p /\ y = x
        BY <3>2 DEF Measurements
      <4>4. Cardinality(Rewarded(q, y, a)) <= Cardinality(Rewarded(q, y, a)')
        BY RewardedGrows
      <4>5. Rewarded(q, y, a)' =
               {i \in DOMAIN journal'[q] :
                   journal'[q][i].ctx = y /\ journal'[q][i].action = a}
        BY DEF Rewarded
      <4>6. /\ Cardinality(Rewarded(q, y, a)) \in Nat
            /\ Cardinality(Rewarded(q, y, a)') \in Nat
        <5>1. Cardinality(Rewarded(q, y, a)) \in Nat
          BY RewardedFinite DEF Base
        <5>2. Base' => Cardinality(Rewarded(q, y, a)') \in Nat
          <6>1. IsFiniteSet(1 .. Len(journal'[q]))
            BY FS_Interval DEF Base, TypeOK
          <6>2. Rewarded(q, y, a)' \subseteq 1 .. Len(journal'[q])
            BY <4>5 DEF Base, TypeOK
          <6>3. QED
            BY <6>1, <6>2, FS_Subset, FS_CardinalityType
        <5>3. QED
          BY <5>1, <5>2
      <4>7. work[c].before[a] \in Nat
        BY <3>2 DEF Measurements
      <4>8. work[c].before[a] <= Cardinality(Rewarded(q, y, a)')
        BY <4>2, <4>3, <4>4, <4>6, <4>7
      <4>9. Rewarded(q, y, a)' = Rewarded(target[c], work[c].ctx, a)'
        BY <4>1, <4>3, <4>5
      <4>10. QED
        BY <4>8, <4>9
    <3>4. QED
      BY <3>2, <3>3
  <2>3. ASSUME Attest(c)
        PROVE  /\ \A i \in DOMAIN work'[c].head : pc'[work'[c].head[i]] # "idle"
               /\ \A a \in DOMAIN work'[c].before :
                     work'[c].before[a] <= Cardinality(Seen(c, a)')
    <3> DEFINE p == target[c]
    <3>1. p \in Paths /\ pc[c] = "chosen" /\ work[c] \in Measurements
      BY <2>3 DEF Attest, Base, CallsPlaced
    <3>2. /\ work'[c].head = JournalHead(p) /\ work'[c].before = work[c].before
          /\ work'[c].ctx = work[c].ctx
      BY <2>3, <3>1, WorkStays DEF Attest, CommitsTo, Base, TypeOK
    <3>3. DOMAIN JournalHead(p) = DOMAIN journal[p]
          /\ \A i \in DOMAIN journal[p] : /\ JournalHead(p)[i] = journal[p][i].call
                                          /\ journal[p][i].call \in Calls
      BY <3>1, JournalSeq DEF JournalHead, Base, Lines
    <3>4. \A i \in DOMAIN journal[p] :
              LET d == journal[p][i].call
              IN  /\ pc'[d] # "idle"
                  /\ journal[p][i].ctx = work'[d].ctx
                  /\ journal[p][i].action = work'[d].action
      BY <3>1, <3>3, WorkStays DEF LinesAreWork
    <3>5. \A a : Seen(c, a)' = Rewarded(p, work[c].ctx, a)
      BY <3>2, <3>3, <3>4 DEF Seen, Rewarded
    <3>6. QED
      BY <3>1, <3>2, <3>3, <3>4, <3>5 DEF SawBefore
  <2>4. ASSUME pc[c] \in {"attested", "checked"}
        PROVE  /\ \A i \in DOMAIN work'[c].head : pc'[work'[c].head[i]] # "idle"
               /\ \A a \in DOMAIN work'[c].before :
                     work'[c].before[a] <= Cardinality(Seen(c, a)')
    <3>1. /\ work'[c].head = work[c].head
          /\ work'[c].before = work[c].before
      BY <2>4, WorkStays
    <3>2. work[c].head \in Seq(Calls)
      BY <2>4 DEF Base, CallsPlaced, Measurements, TypeOK
    <3>3. \A i \in DOMAIN work[c].head : pc'[work[c].head[i]] # "idle"
      BY <2>4, <3>2, WorkStays DEF SawBefore
    <3>4. \A a : Seen(c, a)' = Seen(c, a)
      BY <2>4, SeenStays
    <3>5. QED
      BY <2>4, <3>1, <3>3, <3>4 DEF SawBefore
  <2>5. /\ pc'[c] = "chosen" =>
              \/ pc[c] = "chosen"
              \/ \E p \in Paths, x \in Contexts, b \in Actions : Choose(c, p, x, b)
        /\ pc'[c] \in {"attested", "checked"} =>
              pc[c] \in {"attested", "checked"} \/ Attest(c)
    BY HowMeasured
  <2>6. QED
    BY <2>1, <2>2, <2>3, <2>4, <2>5
<1>3. QED
  BY <1>1, <1>2, BaseInvariant, LinesAreWorkInvariant, PTL DEF Spec

LEMMA CheckedHeadInvariant == Spec => []CheckedHead
<1>1. Init => CheckedHead
  BY DEF Init, CheckedHead
<1>2. Base /\ Base' /\ CheckedHead /\ [Next]_vars => CheckedHead'
  <2> SUFFICES ASSUME Base, Base', CheckedHead, [Next]_vars,
                      NEW c \in Calls, pc'[c] = "checked"
               PROVE  /\ Len(work'[c].head) <= Len(journal'[target'[c]])
                      /\ \A i \in DOMAIN work'[c].head :
                            work'[c].head[i] = journal'[target'[c]][i].call
    BY DEF CheckedHead
  <2>1. ASSUME NEW p \in Paths, Check(c, p)
        PROVE  /\ Len(work'[c].head) <= Len(journal'[target'[c]])
               /\ \A i \in DOMAIN work'[c].head :
                     work'[c].head[i] = journal'[target'[c]][i].call
    <3>1. /\ work'[c].head = JournalHead(p) /\ journal' = journal /\ target'[c] = p
      BY <2>1 DEF Check, Attests, Base, TypeOK
    <3>2. QED
      BY <3>1, HeadTyped, JournalSeq, AuthorityChainAssumption DEF JournalHead, Base
  <2>2. ASSUME pc[c] = "checked", target'[c] = target[c]
        PROVE  /\ Len(work'[c].head) <= Len(journal'[target'[c]])
               /\ \A i \in DOMAIN work'[c].head :
                     work'[c].head[i] = journal'[target'[c]][i].call
    <3>1. /\ work'[c].head = work[c].head /\ target[c] \in Paths
          /\ work[c].head \in Seq(Calls)
      BY <2>2, WorkStays DEF Base, CallsPlaced, Measurements, TypeOK
    <3>2. /\ Len(journal[target[c]]) <= Len(journal'[target[c]])
          /\ Len(journal[target[c]]) \in Nat /\ Len(journal'[target[c]]) \in Nat
          /\ \A i \in 1 .. Len(journal[target[c]]) :
                journal'[target[c]][i] = journal[target[c]][i]
      BY <3>1, JournalsGrow, JournalSeq, AuthorityChainAssumption DEF Base, TypeOK
    <3>3. /\ Len(work[c].head) \in Nat
          /\ DOMAIN work[c].head = 1 .. Len(work[c].head)
      BY <3>1
    <3>4. QED
      BY <2>2, <3>1, <3>2, <3>3 DEF CheckedHead
  <2>3. \/ pc[c] = "checked" /\ target'[c] = target[c]
        \/ \E p \in Paths : Check(c, p)
    <3>1. ASSUME NEW o \in Paths, Stop(o) PROVE pc[c] = "checked" /\ target' = target
      BY <3>1 DEF Stop, Base, TypeOK
    <3>2. ASSUME NEW d \in Calls, NEW o \in Paths, NEW x \in Contexts,
                 NEW a \in Actions, Choose(d, o, x, a)
          PROVE  pc[c] = "checked" /\ target'[c] = target[c]
      BY <3>2 DEF Choose, Base, TypeOK
    <3>3. ASSUME NEW d \in Calls, Attest(d) PROVE pc[c] = "checked" /\ target' = target
      BY <3>3 DEF Attest, Base, TypeOK
    <3>4. ASSUME NEW d \in Calls, LearnBound(d) \/ Refused(d)
          PROVE  pc[c] = "checked" /\ target' = target
      BY <3>4 DEF LearnBound, Refused, Base, TypeOK
    <3>5. ASSUME NEW d \in Calls, NEW o \in Paths, Check(d, o)
          PROVE  Check(c, o) \/ (pc[c] = "checked" /\ target'[c] = target[c])
      BY <3>5 DEF Check, Base, TypeOK
    <3>6. CASE UNCHANGED callVars
      BY <3>6 DEF callVars
    <3>7. CASE UNCHANGED vars
      BY <3>7 DEF vars, callVars
    <3>8. QED
      BY <3>1, <3>2, <3>3, <3>4, <3>5, <3>6, <3>7 DEF Next, Open, Rotate, Learn
  <2>4. QED
    BY <2>1, <2>2, <2>3
<1>3. QED
  BY <1>1, <1>2, BaseInvariant, PTL DEF Spec

StaleAt(p, i) ==
    LET h == journal[p][i].head
    IN  h # Unattested =>
          /\ Len(h) < i /\ h = Prefix(JournalHead(p), Len(h))
          /\ \A j \in Len(h) + 1 .. i - 1 :
                journal[p][j].ctx # journal[p][i].ctx

\* The statistics that its author saw forbid a line of the same context between
\* the attested head and the line.
LEMMA NoneBetween ==
    ASSUME Base, GrantedByIssuers, OneGrantPerJournal, LinesAreWork, SawBefore,
           CheckedHead, NEW c \in Calls, NEW p \in Paths,
           pc[c] = "checked", p = target[c], Learns(c, p, work[c].head),
           NEW j \in Len(work[c].head) + 1 .. Len(journal[p])
    PROVE  journal[p][j].ctx # work[c].ctx
<1> DEFINE h == work[c].head
           x == work[c].ctx
           a == journal[p][j].action
<1>0. SUFFICES ASSUME journal[p][j].ctx = x PROVE FALSE
  OBVIOUS
<1>1. /\ h \in Seq(Calls) /\ Len(h) \in Nat /\ DOMAIN h = 1 .. Len(h)
      /\ work[c] \in Measurements
  BY DEF Base, CallsPlaced, Measurements, TypeOK
<1>2. Len(h) <= Len(journal[p]) /\ \A i \in DOMAIN h : h[i] = journal[p][i].call
  BY DEF CheckedHead
<1>3. Len(journal[p]) \in Nat /\ DOMAIN journal[p] = 1 .. Len(journal[p])
  BY JournalSeq, AuthorityChainAssumption DEF Base
<1>4. j \in DOMAIN journal[p] /\ j \notin DOMAIN h
  BY <1>1, <1>3
<1>5. a \in Allowed[Current(p)]
  <2>1. learner[p] # Closed
    BY DEF Learns, Closed
  <2>2. journal[p][j].grant = Current(p)
    BY <1>4, <2>1 DEF OneGrantPerJournal
  <2>3. HandedTo(Grants)
    BY AuthorityChainAssumption DEF HandedTo, Base, TypeOK, Rotations
  <2>4. journal[p][j].action \in Allowed[journal[p][j].grant]
    BY <1>4, <2>3 DEF GrantedByIssuers
  <2>5. QED
    BY <2>2, <2>4
<1>6. a \in DOMAIN work[c].before
      /\ work[c].before[a] = Cardinality(Rewarded(p, x, a))
  BY <1>5 DEF Learns, Apply, MayApply, Applies, Stats
<1>7. work[c].before[a] <= Cardinality(Seen(c, a))
  BY <1>6 DEF SawBefore
<1>8. Seen(c, a) \subseteq Rewarded(p, x, a) /\ j \in Rewarded(p, x, a)
      /\ j \notin Seen(c, a)
  <2>1. ASSUME NEW i \in Seen(c, a) PROVE i \in Rewarded(p, x, a)
    <3>1. i \in DOMAIN h /\ i \in DOMAIN journal[p]
      BY <1>1, <1>2, <1>3 DEF Seen
    <3>2. /\ journal[p][i].ctx = work[h[i]].ctx
          /\ journal[p][i].action = work[h[i]].action
      BY <3>1, <1>2 DEF LinesAreWork
    <3>3. QED
      BY <3>1, <3>2 DEF Seen, Rewarded
  <2>2. j \in Rewarded(p, x, a)
    BY <1>0, <1>4 DEF Rewarded
  <2>3. j \notin Seen(c, a)
    BY <1>4 DEF Seen
  <2>4. QED
    BY <2>1, <2>2, <2>3
<1>9. IsFiniteSet(Rewarded(p, x, a))
  BY RewardedFinite DEF Base
<1>10. /\ IsFiniteSet(Seen(c, a))
       /\ Cardinality(Seen(c, a)) < Cardinality(Rewarded(p, x, a))
  <2> HIDE DEF x, a, h
  <2>1. Seen(c, a) # Rewarded(p, x, a)
    BY <1>8
  <2>2. /\ IsFiniteSet(Seen(c, a))
        /\ Cardinality(Seen(c, a)) <= Cardinality(Rewarded(p, x, a))
        /\ Cardinality(Seen(c, a)) # Cardinality(Rewarded(p, x, a))
    BY <1>8, <1>9, <2>1, FS_Subset
  <2>3. Cardinality(Seen(c, a)) \in Nat /\ Cardinality(Rewarded(p, x, a)) \in Nat
    BY <1>9, <2>2, FS_CardinalityType
  <2>4. QED
    BY <2>2, <2>3
<1>11. Cardinality(Seen(c, a)) \in Nat /\ Cardinality(Rewarded(p, x, a)) \in Nat
  BY <1>9, <1>10, FS_CardinalityType
<1>12. QED
  <2> HIDE DEF x, a, h
  <2>1. QED
    BY <1>6, <1>7, <1>10, <1>11

LEMMA StaleInvariant == Spec => []StaleOnlyElsewhere
<1>1. Init => StaleOnlyElsewhere
  BY DEF Init, StaleOnlyElsewhere
<1>2. Base /\ Base' /\ GrantedByIssuers /\ OneGrantPerJournal /\ LinesAreWork
         /\ SawBefore /\ CheckedHead /\ StaleOnlyElsewhere /\ [Next]_vars
            => StaleOnlyElsewhere'
  <2> SUFFICES ASSUME Base, Base', GrantedByIssuers, OneGrantPerJournal,
                      LinesAreWork, SawBefore, CheckedHead, StaleOnlyElsewhere,
                      [Next]_vars
               PROVE  StaleOnlyElsewhere'
    OBVIOUS
  <2> SUFFICES ASSUME NEW p \in Paths, NEW i \in DOMAIN journal'[p]
                 PROVE  StaleAt(p, i)'
    BY DEF StaleOnlyElsewhere, StaleAt
  <2>0. /\ DOMAIN journal[p] = 1 .. Len(journal[p]) /\ Len(journal[p]) \in Nat
        /\ DOMAIN journal'[p] = 1 .. Len(journal'[p]) /\ Len(journal'[p]) \in Nat
        /\ Len(journal[p]) <= Len(journal'[p])
        /\ \A k \in 1 .. Len(journal[p]) : journal'[p][k] = journal[p][k]
    BY JournalsGrow, JournalSeq, AuthorityChainAssumption DEF Base, TypeOK
  <2>1. ASSUME i \in DOMAIN journal[p] PROVE StaleAt(p, i)'
    <3> DEFINE h == journal[p][i].head
    <3>1. journal'[p][i] = journal[p][i] /\ i \in 1 .. Len(journal[p])
      BY <2>0, <2>1
    <3>2. SUFFICES ASSUME h # Unattested
                   PROVE  /\ Len(h) < i /\ h = Prefix(JournalHead(p)', Len(h))
                          /\ \A k \in Len(h) + 1 .. i - 1 :
                                journal'[p][k].ctx # journal'[p][i].ctx
      BY <3>1 DEF StaleAt
    <3>3. /\ h \in Seq(Calls) /\ Len(h) \in Nat
      BY <2>1, <3>2, JournalSeq DEF Base, Lines
    <3>4. /\ Len(h) < i /\ h = Prefix(JournalHead(p), Len(h))
          /\ \A k \in Len(h) + 1 .. i - 1 : journal[p][k].ctx # journal[p][i].ctx
      BY <2>1, <3>2 DEF StaleOnlyElsewhere
    <3>5. Prefix(JournalHead(p)', Len(h)) = Prefix(JournalHead(p), Len(h))
      <4>1. \A k \in 1 .. Len(h) : k \in DOMAIN journal[p] /\ k \in DOMAIN journal'[p]
        BY <2>0, <3>1, <3>3, <3>4
      <4>2. \A k \in 1 .. Len(h) : JournalHead(p)'[k] = JournalHead(p)[k]
        BY <4>1, <2>0 DEF JournalHead
      <4>3. QED
        BY <4>2 DEF Prefix
    <3>6. \A k \in Len(h) + 1 .. i - 1 : k \in 1 .. Len(journal[p])
      BY <3>1, <3>3
    <3>7. QED
      BY <2>0, <3>1, <3>4, <3>5, <3>6
  <2>2. ASSUME NEW c \in Calls, NEW o \in Paths,
               NEW head \in {Unattested} \cup Seq(Calls), Learns(c, o, head),
               i \notin DOMAIN journal[p]
        PROVE  StaleAt(p, i)'
    <3>1. p = o /\ i = Len(journal[p]) + 1 /\ journal'[p][i] = LineOf(c, head)
      BY <2>0, <2>2, LinesOf, JournalSeq DEF Base
    <3>2. journal'[p][i].head = head /\ journal'[p][i].ctx = work[c].ctx
      BY <3>1 DEF LineOf
    <3>3. SUFFICES ASSUME head # Unattested
                   PROVE  /\ Len(head) < i
                          /\ head = Prefix(JournalHead(p)', Len(head))
                          /\ \A k \in Len(head) + 1 .. i - 1 :
                                journal'[p][k].ctx # work[c].ctx
      BY <3>2 DEF StaleAt
    <3>4. /\ pc[c] = "checked" /\ p = target[c] /\ head = work[c].head
          /\ head \in Seq(Calls) /\ Len(head) \in Nat
      BY <2>2, <3>1, <3>3 DEF Learns
    <3>5. /\ Len(head) <= Len(journal[p])
          /\ \A k \in DOMAIN head : head[k] = journal[p][k].call
      BY <3>4 DEF CheckedHead
    <3>6. head = Prefix(JournalHead(p)', Len(head))
      <4>1. \A k \in 1 .. Len(head) : k \in DOMAIN journal'[p]
                                      /\ journal'[p][k].call = head[k]
        BY <2>0, <3>4, <3>5
      <4>2. \A k \in 1 .. Len(head) : JournalHead(p)'[k] = head[k]
        BY <4>1 DEF JournalHead
      <4>3. head = [k \in 1 .. Len(head) |-> head[k]]
        BY <3>4
      <4>4. QED
        BY <4>2, <4>3 DEF Prefix
    <3>7. \A k \in Len(head) + 1 .. Len(journal[p]) : journal[p][k].ctx # work[c].ctx
      BY <2>2, <3>1, <3>4, NoneBetween
    <3>8. QED
      BY <2>0, <3>1, <3>4, <3>5, <3>6, <3>7
  <2>3. QED
    <3>1. CASE journal' = journal
      BY <3>1, <2>1
    <3>2. QED
      BY <3>1, <2>1, <2>2, OnlyAppends
<1>3. QED
  BY <1>1, <1>2, BaseInvariant, GrantedInvariant, OneGrantInvariant,
     LinesAreWorkInvariant, SawBeforeInvariant, CheckedHeadInvariant, PTL DEF Spec

\* An attestation that is stale when its measurement is learned is stale only by
\* lines of other contexts, however the calls interleave.
THEOREM AttestationsStaleElsewhere == Spec => []StaleOnlyElsewhere
BY StaleInvariant

=============================================================================
