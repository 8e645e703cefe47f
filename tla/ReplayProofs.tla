----------------------------- MODULE ReplayProofs -----------------------------
(***************************************************************************)
(* Theorems about what is shown to have been executed: the proof objects   *)
(* of PreviewAPI, for any handlers, slots, capacity and actions, and the   *)
(* stored evidence of EvidenceStore, for any processes, materials and      *)
(* faults.                                                                 *)
(***************************************************************************)
EXTENDS PreviewAPI, EvidenceStore, FiniteSetTheorems, SequenceTheorems, TLAPS

\* What Run returns, if it is no error, is about the action it was given.
LEMMA RunIsAbout ==
    ASSUME NEW a, Run(a) # None
    PROVE  Run(a).e.packet.action = a.id
BY DEF Run, Proof, PacketOf, Packet

-----------------------------------------------------------------------------
(* The inductive invariant: ids are consumed before anything is executed     *)
(* under them, and a handler between the two holds its id alone.             *)

Consumed ==
    /\ used \subseteq Ids /\ IsFiniteSet(used) /\ Cardinality(used) <= Capacity
    /\ executed \in [Ids -> {0, 1}]
    /\ pc \in [Handlers -> {"idle", "admitted", "reserved", "answered"}]
    /\ DOMAIN req = Handlers
    /\ \A i \in Ids : executed[i] = 1 => i \in used
    /\ \A h \in Handlers : pc[h] = "reserved" =>
           /\ req[h].action.id \in used /\ executed[req[h].action.id] = 0
           /\ \A g \in Handlers \ {h} :
                  pc[g] = "reserved" => req[g].action.id # req[h].action.id

\* Steps that only move handlers out of the way of the others.
LEMMA QuietStep ==
    ASSUME Consumed, UNCHANGED <<used, executed>>,
           NEW h \in Handlers, NEW at \in {"idle", "admitted", "answered"}, NEW what,
           Step(h, at, what)
    PROVE  Consumed'
BY DEF Consumed, Step

LEMMA RefuseStep ==
    ASSUME Consumed, NEW h \in Handlers, Refuse(h) PROVE Consumed'
<1>1. Step(h, "idle", Nothing) /\ UNCHANGED <<used, executed>>
  BY DEF Refuse, Finish
<1>2. QED
  BY <1>1, QuietStep

\* An id that is taken is nobody's, and nothing was executed under it.
LEMMA ReserveStep ==
    ASSUME Consumed, NEW h \in Handlers, Reserve(h) PROVE Consumed'
<1>1. PICK a \in Actions :
         IF a.id = NoId \/ a.id \in used \/ Cardinality(used) >= Capacity THEN Refuse(h)
         ELSE /\ used' = used \cup {a.id}
              /\ Step(h, "reserved", [kind |-> "action", action |-> a])
              /\ UNCHANGED <<gone, proofs, executed>>
  BY DEF Reserve
<1>2. CASE a.id = NoId \/ a.id \in used \/ Cardinality(used) >= Capacity
  BY <1>1, <1>2, RefuseStep
<1>3. CASE ~(a.id = NoId \/ a.id \in used \/ Cardinality(used) >= Capacity)
  <2>1. /\ used' = used \cup {a.id} /\ a.id \notin used
        /\ Step(h, "reserved", [kind |-> "action", action |-> a])
        /\ executed' = executed
    BY <1>1, <1>3
  <2>2. a.id \in Ids /\ executed[a.id] = 0
    BY <2>1 DEF Consumed, Ids
  <2>3. IsFiniteSet(used') /\ Cardinality(used') <= Capacity
    <3>1. Cardinality(used) \in Nat /\ Cardinality(used) < Capacity
      BY <1>3, FS_CardinalityType, PreviewAssumption DEF Consumed
    <3>2. IsFiniteSet(used \cup {a.id}) /\ Cardinality(used \cup {a.id}) = Cardinality(used) + 1
      BY <2>1, FS_AddElement DEF Consumed
    <3>3. QED
      BY <2>1, <3>1, <3>2, PreviewAssumption
  <2>4. /\ pc' = [pc EXCEPT ![h] = "reserved"]
        /\ req' = [req EXCEPT ![h] = [kind |-> "action", action |-> a]]
    BY <2>1 DEF Step
  <2>5. req'[h].action = a
    BY <2>4 DEF Consumed
  <2>6. QED
    BY <2>1, <2>2, <2>3, <2>4, <2>5 DEF Consumed
<1>4. QED
  BY <1>2, <1>3

\* The execution under an id comes out of the one handler that holds it.
LEMMA ExecuteStep ==
    ASSUME Consumed, NEW h \in Handlers, Execute(h) PROVE Consumed'
<1> DEFINE a == req[h].action
           p == Run(a)
<1>1. CASE (p = None \/ h \in gone) /\ Refuse(h)
  BY <1>1, RefuseStep
<1>2. CASE /\ p # None
           /\ Step(h, "answered", [kind |-> "proof", proof |-> p])
           /\ executed' = IF p.e.dispatched
                          THEN [executed EXCEPT ![p.e.packet.action] = @ + 1] ELSE executed
           /\ UNCHANGED <<used, gone, proofs>>
  <2>1. CASE ~p.e.dispatched
    BY <1>2, <2>1, QuietStep
  <2>2. CASE p.e.dispatched
    <3>1. p.e.packet.action = a.id
      BY <1>2, RunIsAbout
    <3>2. pc[h] = "reserved" /\ a.id \in used /\ a.id \in Ids /\ executed[a.id] = 0
      BY DEF Execute, Consumed
    <3>3. executed' = [executed EXCEPT ![a.id] = 1]
      BY <1>2, <2>2, <3>1, <3>2 DEF Consumed
    <3>4. /\ used' = used
          /\ pc' = [pc EXCEPT ![h] = "answered"]
          /\ req' = [req EXCEPT ![h] = [kind |-> "proof", proof |-> p]]
      BY <1>2 DEF Step
    <3>5. \A g \in Handlers \ {h} :
             pc[g] = "reserved" => req'[g] = req[g] /\ req[g].action.id # a.id
      BY <3>2, <3>4 DEF Consumed
    <3>6. QED
      BY <3>2, <3>3, <3>4, <3>5 DEF Consumed
  <2>3. QED
    BY <2>1, <2>2
<1>3. QED
  BY <1>1, <1>2 DEF Execute

LEMMA ConsumedInvariant == Spec => []Consumed
<1>1. Init => Consumed
  BY FS_EmptySet, PreviewAssumption DEF Init, Consumed
<1>2. Consumed /\ [Next]_vars => Consumed'
  <2> SUFFICES ASSUME Consumed, [Next]_vars PROVE Consumed'
    OBVIOUS
  <2>1. ASSUME NEW h \in Handlers, NEW path \in {"action", "verify"}, Admit(h, path)
        PROVE  Consumed'
    BY <2>1, QuietStep DEF Admit
  <2>2. ASSUME NEW h \in Handlers, Reserve(h) PROVE Consumed'
    BY <2>2, ReserveStep
  <2>3. ASSUME NEW h \in Handlers, Reject(h) PROVE Consumed'
    BY <2>3, RefuseStep DEF Reject
  <2>4. ASSUME NEW h \in Handlers, Execute(h) PROVE Consumed'
    BY <2>4, ExecuteStep
  <2>5. ASSUME NEW h \in Handlers, CheckProof(h) PROVE Consumed'
    BY <2>5, RefuseStep, QuietStep DEF CheckProof
  <2>6. ASSUME NEW h \in Handlers, Answer(h) PROVE Consumed'
    BY <2>6, QuietStep DEF Answer, Finish
  <2>7. ASSUME NEW h \in Handlers, Disconnect(h) PROVE Consumed'
    BY <2>7 DEF Disconnect, Consumed
  <2>8. CASE Restart
    BY <2>8, FS_EmptySet, PreviewAssumption DEF Restart, Consumed
  <2>9. CASE UNCHANGED vars
    BY <2>9 DEF vars, Consumed
  <2>10. QED
    BY <2>1, <2>2, <2>3, <2>4, <2>5, <2>6, <2>7, <2>8, <2>9 DEF Next
<1>3. QED
  BY <1>1, <1>2, PTL DEF Spec

\* A process executes an action id at most once, and knows it afterwards: whatever the
\* number of handlers, their interleavings, disconnects and restarts.
THEOREM IdsDispatchOnce == Spec => []OneDispatch
<1>1. Consumed => OneDispatch
  BY DEF Consumed, OneDispatch
<1>2. QED
  BY <1>1, ConsumedInvariant, PTL

\* The registry stays within its capacity, and every handler past reserve holds a
\* consumed id that is its own and that nothing was executed under.
THEOREM ReservationsHold == Spec => []ReservedAreUsed
<1>1. Consumed => ReservedAreUsed
  BY DEF Consumed, ReservedAreUsed
<1>2. QED
  BY <1>1, ConsumedInvariant, PTL

-----------------------------------------------------------------------------
(* What Run makes.  An action has one choice, so its folds are over one      *)
(* element: their recursive functions are given here.                        *)

LEMMA MaxOfOne == Max({1}) = 1
BY DEF Max

LEMMA TotalOfOne ==
    ASSUME NEW s, DOMAIN s = {1}, s[1] \in Int
    PROVE  Total(s) = s[1]
<1> DEFINE f == [t \in SUBSET {1} |-> IF t = {} THEN 0 ELSE s[1]]
           R(g) == g = [t \in SUBSET {1} |->
                          IF t = {} THEN 0 ELSE g[t \ {Max(t)}] + s[Max(t)]]
<1>1. R(f)
  <2>1. ASSUME NEW t \in SUBSET {1}
        PROVE f[t] = IF t = {} THEN 0 ELSE f[t \ {Max(t)}] + s[Max(t)]
    <3>1. CASE t = {}
      BY <3>1
    <3>2. CASE t = {1}
      <4>1. t \ {Max(t)} = {} /\ Max(t) = 1
        BY <3>2, MaxOfOne
      <4>2. f[t] = s[1] /\ f[{}] = 0
        BY <3>2
      <4> HIDE DEF f
      <4> QED  BY <3>2, <4>1, <4>2
    <3> QED  BY <3>1, <3>2
  <2> QED  BY <2>1
<1>2. PICK g : R(g) /\ Total(s) = g[{1}]
  <2>1. R(CHOOSE g : R(g))
    BY <1>1
  <2>2. Total(s) = (CHOOSE g : R(g))[{1}]
    BY DEF Total, FoldLeft, MapThenFoldSet
  <2> QED  BY <2>1, <2>2
<1>3. g[{}] = 0
  BY <1>2
<1>4. g[{1}] = g[{1} \ {Max({1})}] + s[Max({1})]
  BY <1>2
<1> QED  BY <1>2, <1>3, <1>4, MaxOfOne

LEMMA RunnerUpOfOne ==
    ASSUME NEW d, DOMAIN d.probs = {1}, d.probs[1].id = d.selected
    PROVE  RunnerUp(d) = 0
<1> DEFINE Worse(q, acc) == IF q.id # d.selected /\ q.p > acc THEN q.p ELSE acc
           f == [t \in SUBSET {1} |-> 0]
           R(g) == g = [t \in SUBSET {1} |->
                          IF t = {} THEN 0 ELSE Worse(d.probs[Max(t)], g[t \ {Max(t)}])]
<1>1. R(f)
  <2>1. ASSUME NEW t \in SUBSET {1}
        PROVE 0 = IF t = {} THEN 0 ELSE Worse(d.probs[Max(t)], f[t \ {Max(t)}])
    <3>1. CASE t = {}
      BY <3>1
    <3>2. CASE t = {1}
      BY <3>2, MaxOfOne
    <3> QED  BY <3>1, <3>2
  <2> QED  BY <2>1
<1>2. PICK g : R(g) /\ RunnerUp(d) = g[{1}]
  <2>1. R(CHOOSE g : R(g))
    BY <1>1
  <2>2. RunnerUp(d) = (CHOOSE g : R(g))[{1}]
    BY DEF RunnerUp, FoldLeft, MapThenFoldSet
  <2> QED  BY <2>1, <2>2
<1>3. g[{}] = 0
  BY <1>2
<1>4. g[{1}] = Worse(d.probs[Max({1})], g[{1} \ {Max({1})}])
  BY <1>2
<1> QED  BY <1>2, <1>3, <1>4, MaxOfOne

LEMMA OneTuple == ASSUME NEW x PROVE <<x>> = [i \in {1} |-> x] /\ DOMAIN <<x>> = {1}
OBVIOUS

LEMMA SetOfOne == ASSUME NEW x, NEW s, s = [i \in {1} |-> x] PROVE ToSet(s) = {x}
BY DEF ToSet

LEMMA HashesDiffer == ASSUME NEW a, NEW b, HashJSON(a) = HashJSON(b) PROVE a = b
<1>1. HashJSON(a).sha256 = HashJSON(b).sha256
  OBVIOUS
<1> QED  BY <1>1 DEF HashJSON

TheChoices(a) == <<[id |-> 1, target |-> Target(a)]>>

TheRequest(a) ==
    [rid |-> a.rid, action |-> a.id, packetHash |-> HashJSON(PacketOf(a)), state |-> a.state,
     stateHash |-> HashJSON(a.state), choices |-> TheChoices(a),
     choicesHash |-> HashJSON({TheChoices(a)[1]})]

LEMMA RequestMade ==
    ASSUME NEW a, Valid(a)
    PROVE  RequestOf(a) = TheRequest(a) /\ RequestOf(a) # None
<1> DEFINE cs == TheChoices(a)
           p == PacketOf(a)
<1>1. DOMAIN cs = {1} /\ cs[1].id = 1 /\ cs[1].target = Target(a) /\ cs # <<>> /\ ToSet(cs) = {cs[1]}
  BY DEF TheChoices, ToSet
<1>2. p.action = a.id /\ p.targets = {Target(a)}
  BY DEF PacketOf, Packet
<1>3. RequestOf(a) = NewRequest(p, a.rid, a.state, cs)
  BY DEF RequestOf, TheChoices
<1>4. a.id # NoId /\ a.rid # NoId
  BY DEF Valid
<1> HIDE DEF cs, p
<1>5. Bindable(p, a.rid, cs)
  BY <1>1, <1>2, <1>4 DEF Bindable, NoId
<1>6. RequestOf(a) = TheRequest(a)
  BY <1>1, <1>2, <1>3, <1>5 DEF NewRequest, TheRequest, cs, p
<1>7. TheRequest(a) # None
  BY DEF TheRequest, None
<1> QED  BY <1>6, <1>7

TheDecision(a) ==
    [rid |-> a.rid, action |-> a.id, packetHash |-> HashJSON(PacketOf(a)),
     stateHash |-> HashJSON(a.state), choicesHash |-> HashJSON({TheChoices(a)[1]}),
     provider |-> ProviderID, selected |-> 1, probs |-> <<[id |-> 1, p |-> 100]>>,
     confidence |-> 100]

LEMMA DecisionMade ==
    ASSUME NEW a, Valid(a)
    PROVE  StaticDecide(RequestOf(a), ProviderID, [i \in {1} |-> 1]) = TheDecision(a)
<1> DEFINE r == RequestOf(a)
           scores == [i \in {1} |-> 1]
           raw == [i \in DOMAIN r.choices |->
                     IF r.choices[i].id \in DOMAIN scores THEN scores[r.choices[i].id] ELSE 0]
           share == [i \in DOMAIN raw |->
                     [id |-> r.choices[i].id, p |-> (100 * raw[i]) \div Total(raw)]]
           one == [id |-> 1, p |-> 100]
           best == CHOOSE x \in ToSet(share) : \A y \in ToSet(share) :
                     x.p > y.p \/ (x.p = y.p /\ x.id <= y.id)
<1>1. /\ r = TheRequest(a) /\ DOMAIN r.choices = {1} /\ r.choices[1].id = 1
  BY RequestMade DEF TheRequest, TheChoices
<1> HIDE DEF r
<1>2. raw = [i \in {1} |-> 1]
  BY <1>1
<1>3. Total(raw) = 1
  <2>1. DOMAIN raw = {1} /\ raw[1] = 1
    BY <1>2
  <2> HIDE DEF raw
  <2> QED  BY <2>1, TotalOfOne
<1>4. share = [i \in {1} |-> one]
  <2>1. DOMAIN raw = {1} /\ raw[1] = 1
    BY <1>2
  <2> HIDE DEF raw
  <2>2. (100 * raw[1]) \div Total(raw) = 100
    BY <2>1, <1>3
  <2> QED  BY <2>1, <2>2, <1>1
<1>5. ToSet(share) = {one}
  <2> HIDE DEF share
  <2> QED  BY <1>4, SetOfOne
<1>6. best = one
  <2> HIDE DEF share
  <2>1. \A y \in ToSet(share) : one.p > y.p \/ (one.p = y.p /\ one.id <= y.id)
    BY <1>5
  <2> QED  BY <1>5, <2>1
<1>7. share = <<one>>
  BY <1>4, OneTuple
<1>8. ~((\E i \in DOMAIN raw : raw[i] < 0) \/ Total(raw) <= 0)
  BY <1>2, <1>3
<1>9. StaticDecide(r, ProviderID, scores) = NewDecision(r, ProviderID, best.id, share, best.p)
  <2>1. StaticDecide(r, ProviderID, scores)
          = IF (\E i \in DOMAIN raw : raw[i] < 0) \/ Total(raw) <= 0 THEN None
            ELSE NewDecision(r, ProviderID, best.id, share, best.p)
    BY DEF StaticDecide
  <2> QED  BY <1>8, <2>1
<1>10. NewDecision(r, ProviderID, 1, <<one>>, 100) = TheDecision(a)
  BY <1>1 DEF NewDecision, TheDecision, TheRequest
<1>11. best.id = 1 /\ best.p = 100
  <2> HIDE DEF best
  <2> QED  BY <1>6
<1> HIDE DEF best, share, raw
<1>12. StaticDecide(r, ProviderID, scores) = TheDecision(a)
  BY <1>7, <1>9, <1>10, <1>11
<1> QED  BY <1>12 DEF r
LEMMA ProbabilityOfOne ==
    ASSUME NEW d, NEW q, d.probs = <<q>>
    PROVE  ProbabilityOf(d, q.id) = q.p
<1> DEFINE own == {i \in DOMAIN d.probs : d.probs[i].id = q.id}
<1>1. own = {1} /\ d.probs[1] = q
  BY OneTuple
<1>2. (CHOOSE i \in own : TRUE) = 1
  BY <1>1
<1>3. ProbabilityOf(d, q.id) = d.probs[CHOOSE i \in own : TRUE].p
  BY <1>1 DEF ProbabilityOf
<1> QED  BY <1>1, <1>2, <1>3

LEMMA TargetOfOne ==
    ASSUME NEW r, NEW c, r.choices = <<c>> PROVE TargetOf(r, c.id) = c.target
<1> DEFINE i == CHOOSE i \in DOMAIN r.choices : r.choices[i].id = c.id
<1>1. DOMAIN r.choices = {1} /\ r.choices[1] = c
  BY OneTuple
<1>2. i = 1
  BY <1>1
<1>3. TargetOf(r, c.id) = r.choices[i].target
  BY DEF TargetOf
<1> HIDE DEF i
<1> QED  BY <1>1, <1>2, <1>3

\* What the gate does with a decision that is valid and sure.
LEMMA GateOfSure ==
    ASSUME NEW p, NEW r, NEW d, ValidateDecision(p, r, d), d.confidence = 100,
           ProbabilityOf(d, d.selected) = 100, RunnerUp(d) = 0
    PROVE  /\ p.sideEffect =>
                  ApplyDecision(p, r, d, DefaultGatePolicy) = Held("REQUIRE_APPROVAL")
           /\ ~p.sideEffect =>
                  ApplyDecision(p, r, d, DefaultGatePolicy)
                    = [disposition |-> "AUTO_ROUTE",
                       route |-> [routeId |-> p.action, action |-> p.action,
                                  router |-> d.provider, target |-> TargetOf(r, d.selected)]]
<1>1. /\ DefaultGatePolicy.confidence = 98 /\ DefaultGatePolicy.margin = 15
      /\ DefaultGatePolicy.approval = TRUE
  BY DEF DefaultGatePolicy
<1>2. ~(\/ d.confidence < DefaultGatePolicy.confidence
        \/ ProbabilityOf(d, d.selected) < DefaultGatePolicy.confidence
        \/ ProbabilityOf(d, d.selected) - RunnerUp(d) < DefaultGatePolicy.margin)
  BY <1>1
<1> QED  BY <1>1, <1>2 DEF ApplyDecision

TheRoute(a) ==
    [routeId |-> a.id, action |-> a.id, router |-> ProviderID, target |-> Target(a)]

\* A sure decision about a valid action is valid: only a side effect holds it back.
LEMMA GateMade ==
    ASSUME NEW a, Valid(a)
    PROVE  ApplyDecision(PacketOf(a), TheRequest(a), TheDecision(a), DefaultGatePolicy)
             = IF a.side.v THEN Held("REQUIRE_APPROVAL")
               ELSE [disposition |-> "AUTO_ROUTE", route |-> TheRoute(a)]
<1> DEFINE p == PacketOf(a)
           r == TheRequest(a)
           d == TheDecision(a)
           one == [id |-> 1, p |-> 100]
           c == [id |-> 1, target |-> Target(a)]
<1>1. /\ p.action = a.id /\ p.targets = {Target(a)} /\ (p.sideEffect <=> a.side.v)
  BY DEF PacketOf, Packet
<1>2. /\ r.rid = a.rid /\ r.action = a.id /\ r.packetHash = HashJSON(p) /\ r.state = a.state
      /\ r.stateHash = HashJSON(a.state) /\ r.choices = <<c>> /\ r.choicesHash = HashJSON({c})
  BY DEF TheRequest, TheChoices
<1>3. /\ d.rid = a.rid /\ d.action = a.id /\ d.packetHash = HashJSON(p)
      /\ d.stateHash = HashJSON(a.state) /\ d.choicesHash = HashJSON({c})
      /\ d.provider = ProviderID /\ d.selected = 1 /\ d.probs = <<one>> /\ d.confidence = 100
  BY DEF TheDecision, TheChoices
<1>4. a.id # NoId
  BY DEF Valid
<1> HIDE DEF p, r, d
<1>5. ToSet(r.choices) = {c} /\ ToSet(d.probs) = {one}
  BY <1>2, <1>3, OneTuple, SetOfOne
<1>6. ProbabilityOf(d, 1) = 100
  BY <1>3, ProbabilityOfOne
<1>7. RunnerUp(d) = 0
  BY <1>3, RunnerUpOfOne
<1>8. Total([i \in DOMAIN d.probs |-> d.probs[i].p]) = 100
  <2> DEFINE s == [i \in DOMAIN d.probs |-> d.probs[i].p]
  <2>1. DOMAIN s = {1} /\ s[1] = 100
    BY <1>3
  <2> HIDE DEF s
  <2> QED  BY <2>1, TotalOfOne DEF s
<1>9. ValidateDecision(p, r, d)
  <2>1. /\ d.action = p.action /\ r.packetHash = HashJSON(p)
        /\ r.stateHash = HashJSON(r.state) /\ r.choicesHash = HashJSON(ToSet(r.choices))
        /\ d.provider # NoId /\ d.selected # NoId /\ d.confidence \in 0..100
    BY <1>1, <1>2, <1>3, <1>5 DEF ProviderID, NoId
  <2>2. Binding(d) = Binding(r)
    BY <1>2, <1>3 DEF Binding
  <2>3. \E i \in DOMAIN r.choices : r.choices[i].id = d.selected /\ r.choices[i].target \in p.targets
    BY <1>1, <1>2, <1>3
  <2>4. Len(d.probs) = Len(r.choices)
    BY <1>2, <1>3
  <2>5. {q.id : q \in ToSet(d.probs)} = {x.id : x \in ToSet(r.choices)}
    BY <1>5
  <2>6. \A q \in ToSet(d.probs) : q.p \in 0..100 /\ q.p <= ProbabilityOf(d, d.selected)
    BY <1>3, <1>5, <1>6
  <2> QED  BY <1>8, <2>1, <2>2, <2>3, <2>4, <2>5, <2>6 DEF ValidateDecision
<1>10. TargetOf(r, d.selected) = Target(a)
  <2>1. c.id = 1 /\ c.target = Target(a)
    OBVIOUS
  <2> HIDE DEF c
  <2> QED  BY <1>2, <1>3, <2>1, TargetOfOne
<1>11. /\ a.side.v => ApplyDecision(p, r, d, DefaultGatePolicy) = Held("REQUIRE_APPROVAL")
       /\ ~a.side.v => ApplyDecision(p, r, d, DefaultGatePolicy)
                         = [disposition |-> "AUTO_ROUTE", route |-> TheRoute(a)]
  BY <1>1, <1>3, <1>6, <1>7, <1>9, <1>10, GateOfSure DEF TheRoute
<1> QED  BY <1>11 DEF r, d, p

\* What Run returns for a valid action: nothing was executed if it needs approval.
Receipt(a) ==
    [action |-> a.id, routeId |-> a.id, executor |-> Target(a), status |-> "SUCCEEDED",
     inputHash |-> HashJSON(PacketOf(a).inputs), resultHash |-> HashJSON(HashText(a.text))]

Withheld(a) ==
    [packet |-> PacketOf(a), request |-> TheRequest(a), decision |-> TheDecision(a),
     gate |-> Held("REQUIRE_APPROVAL"), dispatched |-> FALSE, result |-> None, receipt |-> None]

Executed(a) ==
    [packet |-> PacketOf(a), request |-> TheRequest(a), decision |-> TheDecision(a),
     gate |-> [disposition |-> "AUTO_ROUTE", route |-> TheRoute(a)],
     dispatched |-> TRUE, result |-> HashText(a.text), receipt |-> Receipt(a)]

LEMMA RunMade ==
    ASSUME NEW a, Valid(a)
    PROVE  Run(a) = Proof(IF a.side.v THEN Withheld(a) ELSE Executed(a))
<1> DEFINE p == PacketOf(a)
           r == RequestOf(a)
           d == StaticDecide(r, ProviderID, [i \in {1} |-> 1])
           g == ApplyDecision(p, r, d, DefaultGatePolicy)
           res == HashText(a.text)
<1>1. r = TheRequest(a) /\ d = TheDecision(a)
  BY RequestMade, DecisionMade
<1>2. g = IF a.side.v THEN Held("REQUIRE_APPROVAL")
          ELSE [disposition |-> "AUTO_ROUTE", route |-> TheRoute(a)]
  <2> HIDE DEF p, r, d
  <2> QED  BY <1>1, GateMade DEF p
<1>3. Run(a) = IF g = None THEN None
               ELSE IF g.disposition # "AUTO_ROUTE"
               THEN Proof([packet |-> p, request |-> r, decision |-> d, gate |-> g,
                           dispatched |-> FALSE, result |-> None, receipt |-> None])
               ELSE IF a.kind # "hash_text" \/ p.sideEffect \/ g.route.target # "codex-local-sha256"
                    THEN None
               ELSE Proof([packet |-> p, request |-> r, decision |-> d, gate |-> g, dispatched |-> TRUE,
                           result |-> res, receipt |-> MakeSuccessReceipt(p, g.route, res)])
  BY DEF Run
<1>4. p.sideEffect <=> a.side.v
  BY DEF PacketOf, Packet
<1>5. p = PacketOf(a) /\ p.action = a.id /\ p.targets = {Target(a)}
  BY DEF PacketOf, Packet
<1> HIDE DEF g, d, r, p
<1>6. CASE a.side.v
  <2>1. g = Held("REQUIRE_APPROVAL")
    BY <1>2, <1>6
  <2>2. g # None /\ g.disposition # "AUTO_ROUTE"
    BY <2>1 DEF Held, None
  <2> QED  BY <1>1, <1>3, <1>5, <1>6, <2>1, <2>2 DEF Withheld
<1>7. CASE ~a.side.v
  <2>1. a.kind = "hash_text"
    BY <1>7 DEF Valid
  <2>2. g = [disposition |-> "AUTO_ROUTE", route |-> TheRoute(a)]
    BY <1>2, <1>7
  <2>3. g # None /\ g.disposition = "AUTO_ROUTE" /\ g.route = TheRoute(a)
    BY <2>2 DEF None
  <2>4. g.route.target = "codex-local-sha256"
    BY <2>1, <2>3 DEF TheRoute, Target
  <2>5. MakeSuccessReceipt(p, g.route, res) = Receipt(a)
    BY <1>5, <2>3 DEF MakeSuccessReceipt, TheRoute, Receipt
  <2>6. Run(a) = Proof([packet |-> p, request |-> r, decision |-> d, gate |-> g, dispatched |-> TRUE,
                        result |-> res, receipt |-> MakeSuccessReceipt(p, g.route, res)])
    BY <1>3, <1>4, <1>7, <2>1, <2>3, <2>4
  <2> QED  BY <1>1, <1>5, <1>7, <2>2, <2>5, <2>6 DEF Executed
<1> QED  BY <1>6, <1>7

\* An action can be read back from the packet and the request it was prepared as:
\* Run does the same for it, and each proof of Run verifies.
LEMMA ReadBack ==
    ASSUME NEW a, Valid(a), NEW e, e.packet = PacketOf(a), e.request = TheRequest(a)
    PROVE  LET b == ActionOf(e) IN
           /\ Valid(b) /\ PacketOf(b) = PacketOf(a) /\ TheRequest(b) = TheRequest(a)
           /\ TheDecision(b) = TheDecision(a) /\ Target(b) = Target(a)
           /\ b.kind = a.kind /\ b.id = a.id /\ (b.side.v <=> a.side.v)
           /\ a.kind = "hash_text" => b.text = a.text
<1> DEFINE b == ActionOf(e)
<1>1. /\ b.id = a.id /\ b.rid = a.rid /\ b.kind = a.kind /\ b.state = a.state
      /\ b.side = [v |-> PacketOf(a).sideEffect] /\ PacketOf(a).sideEffect = a.side.v
  BY DEF ActionOf, PacketOf, Packet, TheRequest
<1>2. CASE a.kind = "hash_text"
  <2>1. PacketOf(a).inputs = [text |-> a.text]
    BY <1>2 DEF PacketOf, Packet
  <2>2. b.text = a.text /\ b.description = None
    BY <2>1 DEF ActionOf
  <2> HIDE DEF b
  <2>3. Valid(b)
    BY <1>1, <1>2, <2>2 DEF Valid, None
  <2>4. PacketOf(b) = PacketOf(a) /\ Target(b) = Target(a)
    BY <1>1, <1>2, <2>2 DEF PacketOf, Target
  <2>5. TheRequest(b) = TheRequest(a) /\ TheDecision(b) = TheDecision(a)
    BY <1>1, <2>4 DEF TheRequest, TheDecision, TheChoices
  <2> QED  BY <1>1, <2>2, <2>3, <2>4, <2>5 DEF b
<1>3. CASE a.kind = "external_action"
  <2>1. PacketOf(a).inputs = [description |-> a.description]
    BY <1>3 DEF PacketOf, Packet
  <2>2. b.text = None /\ b.description = a.description
    BY <2>1 DEF ActionOf
  <2>3. a.side = [v |-> TRUE]
    BY <1>3 DEF Valid
  <2> HIDE DEF b
  <2>4. b.side = [v |-> TRUE]
    BY <1>1, <2>3
  <2>5. Valid(b)
    BY <1>1, <1>3, <2>2, <2>4 DEF Valid, None
  <2>6. PacketOf(b) = PacketOf(a) /\ Target(b) = Target(a)
    BY <1>1, <1>3, <2>2 DEF PacketOf, Target
  <2>7. TheRequest(b) = TheRequest(a) /\ TheDecision(b) = TheDecision(a)
    BY <1>1, <2>6 DEF TheRequest, TheDecision, TheChoices
  <2> QED  BY <1>1, <1>3, <2>2, <2>5, <2>6, <2>7 DEF b
<1> QED  BY <1>2, <1>3 DEF Valid

IsRun(p) == \E a : Valid(a) /\ p = Run(a)

LEMMA RunVerifies ==
    ASSUME NEW p, IsRun(p)
    PROVE  VerifyProof(p) /\ Run(ActionOf(p.e)) = p
<1>1. PICK a : Valid(a) /\ p = Run(a)
  BY DEF IsRun
<1> DEFINE e == IF a.side.v THEN Withheld(a) ELSE Executed(a)
           b == ActionOf(e)
<1>2. p = Proof(e)
  BY <1>1, RunMade
<1>3. /\ e.packet = PacketOf(a) /\ e.request = TheRequest(a) /\ e.decision = TheDecision(a)
      /\ e.gate = IF a.side.v THEN Held("REQUIRE_APPROVAL")
                  ELSE [disposition |-> "AUTO_ROUTE", route |-> TheRoute(a)]
  BY DEF Withheld, Executed
<1>4. a.side.v => ~e.dispatched /\ e.result = None /\ e.receipt = None
  BY DEF Withheld
<1>5. ~a.side.v => e.dispatched /\ e.result = HashText(a.text) /\ e.receipt = Receipt(a)
  BY DEF Executed
<1>6. p.e = e /\ p.hash = HashJSON(e)
  BY <1>2 DEF Proof
<1> HIDE DEF e
<1>7. /\ Valid(b) /\ PacketOf(b) = PacketOf(a) /\ TheRequest(b) = TheRequest(a)
      /\ TheDecision(b) = TheDecision(a) /\ Target(b) = Target(a)
      /\ b.kind = a.kind /\ b.id = a.id /\ (b.side.v <=> a.side.v)
      /\ a.kind = "hash_text" => b.text = a.text
  BY <1>1, <1>3, ReadBack
<1> HIDE DEF b
<1>8. ~a.side.v => a.kind = "hash_text"
  BY <1>1 DEF Valid
<1>9. Run(b) = p
  <2>1. Run(b) = Proof(IF b.side.v THEN Withheld(b) ELSE Executed(b))
    BY <1>7, RunMade
  <2>2. CASE a.side.v
    <3>1. Withheld(b) = Withheld(a)
      BY <1>7 DEF Withheld
    <3> QED  BY <1>2, <1>7, <2>1, <2>2, <3>1 DEF e
  <2>3. CASE ~a.side.v
    <3>1. TheRoute(b) = TheRoute(a) /\ Receipt(b) = Receipt(a) /\ b.text = a.text
      BY <1>7, <1>8, <2>3 DEF TheRoute, Receipt
    <3>2. Executed(b) = Executed(a)
      BY <1>7, <3>1 DEF Executed
    <3> QED  BY <1>2, <1>7, <2>1, <2>3, <3>2 DEF e
  <2> QED  BY <2>2, <2>3
<1> DEFINE g == ApplyDecision(e.packet, e.request, e.decision, DefaultGatePolicy)
<1>10. g = e.gate
  BY <1>1, <1>3, GateMade
<1> HIDE DEF g
<1>11. /\ e.packet.agent = "codex" /\ e.decision.provider = ProviderID
       /\ RequestOf(b).choicesHash = e.request.choicesHash
  <2>1. RequestOf(b) = TheRequest(b)
    BY <1>7, RequestMade
  <2>2. PacketOf(a).agent = "codex"
    BY DEF PacketOf, Packet
  <2>3. TheDecision(a).provider = ProviderID
    BY DEF TheDecision
  <2> QED  BY <1>3, <1>7, <2>1, <2>2, <2>3
<1>12. CASE a.side.v
  <2>1. g # None /\ g.disposition # "AUTO_ROUTE"
    BY <1>3, <1>10, <1>12 DEF Held, None
  <2> QED  BY <1>3, <1>4, <1>6, <1>7, <1>9, <1>10, <1>11, <1>12, <2>1 DEF VerifyProof, b, g
<1>13. CASE ~a.side.v
  <2>1. g # None /\ g.disposition = "AUTO_ROUTE" /\ g.route = TheRoute(a)
    BY <1>3, <1>10, <1>13 DEF None
  <2>2. e.dispatched /\ e.result = HashText(b.text) /\ e.receipt = Receipt(a)
    BY <1>5, <1>7, <1>8, <1>13
  <2>3. Receipt(a) # None /\ Receipt(a).status = "SUCCEEDED"
    BY DEF Receipt, None
  <2>4. Verify(e.packet, g.route, e.result, e.receipt)
    <3>1. PacketOf(a).action = a.id /\ PacketOf(a).targets = {Target(a)}
      BY DEF PacketOf, Packet
    <3>2. Verify(PacketOf(a), TheRoute(a), HashText(a.text), Receipt(a))
      BY <3>1 DEF Verify, TheRoute, Receipt
    <3> QED  BY <1>3, <1>5, <1>13, <2>1, <3>2
  <2> QED  BY <1>3, <1>6, <1>7, <1>8, <1>9, <1>10, <1>11, <1>13, <2>1, <2>2, <2>3, <2>4
              DEF VerifyProof, b, g
<1> QED  BY <1>12, <1>13

-----------------------------------------------------------------------------
(* Proofs that clients hand in are put together from what Run made.          *)

Fields == {"packet", "request", "decision", "gate", "dispatched", "result", "receipt"}
ReceiptFields == {"action", "routeId", "executor", "status", "inputHash", "resultHash"}

\* The form that decoding gives a proof: all of its fields, and no others.
Shaped(e) ==
    /\ e = [f \in Fields |-> e[f]]
    /\ e.dispatched \in BOOLEAN
    /\ \E a : Valid(a) /\ e.request = TheRequest(a)
    /\ e.receipt = None \/ e.receipt = [f \in ReceiptFields |-> e.receipt[f]]

LEMMA RunIsShaped == ASSUME NEW p, IsRun(p) PROVE Shaped(p.e)
<1>1. PICK a : Valid(a) /\ p = Run(a)
  BY DEF IsRun
<1>2. CASE a.side.v
  <2>1. p.e = Withheld(a)
    BY <1>1, <1>2, RunMade DEF Proof
  <2>2. Withheld(a) = [f \in Fields |-> Withheld(a)[f]]
    BY DEF Withheld, Fields
  <2>3. Withheld(a).dispatched = FALSE /\ Withheld(a).request = TheRequest(a) /\ Withheld(a).receipt = None
    BY DEF Withheld
  <2> QED  BY <1>1, <2>1, <2>2, <2>3 DEF Shaped
<1>3. CASE ~a.side.v
  <2>1. p.e = Executed(a)
    BY <1>1, <1>3, RunMade DEF Proof
  <2>2. Executed(a) = [f \in Fields |-> Executed(a)[f]]
    BY DEF Executed, Fields
  <2>3. Executed(a).dispatched = TRUE /\ Executed(a).request = TheRequest(a) /\ Executed(a).receipt = Receipt(a)
    BY DEF Executed
  <2>4. Receipt(a) = [f \in ReceiptFields |-> Receipt(a)[f]]
    BY DEF Receipt, ReceiptFields
  <2> QED  BY <1>1, <2>1, <2>2, <2>3, <2>4 DEF Shaped
<1> QED  BY <1>2, <1>3

LEMMA PartReplaced ==
    ASSUME NEW e, Shaped(e), NEW k \in {"packet", "decision", "gate", "result"}, NEW v
    PROVE  Shaped([e EXCEPT ![k] = v])
<1> DEFINE x == [e EXCEPT ![k] = v]
<1>1. /\ DOMAIN e = Fields /\ k \in Fields
      /\ \A f \in Fields : x[f] = IF f = k THEN v ELSE e[f]
      /\ x = [f \in Fields |-> x[f]]
  BY DEF Shaped, Fields
<1> HIDE DEF x
<1>2. x.dispatched = e.dispatched /\ x.request = e.request /\ x.receipt = e.receipt
  BY <1>1 DEF Fields
<1> QED  BY <1>1, <1>2 DEF Shaped, x

LEMMA MixesAreShaped ==
    ASSUME NEW p, NEW q, IsRun(p), IsRun(q), NEW e \in Mixes(p, q)
    PROVE  Shaped(e)
<1>1. Shaped(p.e) /\ Shaped(q.e)
  BY RunIsShaped
<1>2. DOMAIN p.e = Fields /\ DOMAIN q.e = Fields
  BY <1>1 DEF Shaped
<1>3. CASE e \in {[p.e EXCEPT !.packet = q.e.packet], [p.e EXCEPT !.gate = q.e.gate],
                  [p.e EXCEPT !.result = q.e.result], [p.e EXCEPT !.decision = q.e.decision],
                  [p.e EXCEPT !.decision.confidence = 97], [p.e EXCEPT !.packet.sideEffect = FALSE]}
  BY <1>1, <1>3, PartReplaced
<1>4. CASE e = [p.e EXCEPT !.receipt = q.e.receipt]
  BY <1>1, <1>4 DEF Shaped, Fields
<1>5. CASE e = [p.e EXCEPT !.request = q.e.request]
  BY <1>1, <1>5 DEF Shaped, Fields
<1>6. CASE e = [p.e EXCEPT !.dispatched = ~@]
  BY <1>1, <1>6 DEF Shaped, Fields
<1>7. CASE e = [p.e EXCEPT !.decision.confidence = 97, !.gate = q.e.gate]
  <2> DEFINE x == [p.e EXCEPT !.decision.confidence = 97]
  <2>1. Shaped(x)
    BY <1>1, PartReplaced
  <2>2. e = [x EXCEPT !.gate = q.e.gate]
    BY <1>7
  <2> HIDE DEF x
  <2> QED  BY <2>1, <2>2, PartReplaced
<1>8. CASE e = [q.e EXCEPT !.result = p.e.result, !.receipt = p.e.receipt, !.dispatched = TRUE]
  <2> DEFINE x == [q.e EXCEPT !.result = p.e.result]
             y == [x EXCEPT !.receipt = p.e.receipt]
  <2>1. Shaped(x)
    BY <1>1, PartReplaced
  <2>2. e = [y EXCEPT !.dispatched = TRUE]
    BY <1>8
  <2> HIDE DEF x
  <2>3. Shaped(y)
    BY <1>1, <2>1 DEF Shaped, Fields
  <2> HIDE DEF y
  <2> QED  BY <2>2, <2>3 DEF Shaped, Fields
<1> QED  BY <1>3, <1>4, <1>5, <1>6, <1>7, <1>8 DEF Mixes

\* An AUTO_ROUTE decision is valid, under its confidence, for a packet without side effect.
LEMMA AutoRouteOf ==
    ASSUME NEW p, NEW r, NEW d,
           ApplyDecision(p, r, d, DefaultGatePolicy) # None,
           ApplyDecision(p, r, d, DefaultGatePolicy).disposition = "AUTO_ROUTE"
    PROVE  /\ ValidateDecision(p, r, d)
           /\ ApplyDecision(p, r, d, DefaultGatePolicy)
                = [disposition |-> "AUTO_ROUTE",
                   route |-> [routeId |-> p.action, action |-> p.action,
                              router |-> d.provider, target |-> TargetOf(r, d.selected)]]
<1> DEFINE g == ApplyDecision(p, r, d, DefaultGatePolicy)
           auto == [disposition |-> "AUTO_ROUTE",
                    route |-> [routeId |-> p.action, action |-> p.action,
                               router |-> d.provider, target |-> TargetOf(r, d.selected)]]
<1>1. /\ Held("REQUIRE_APPROVAL").disposition = "REQUIRE_APPROVAL"
      /\ Held("ESCALATE_SYSTEM2").disposition = "ESCALATE_SYSTEM2"
  BY DEF Held
<1>2. ValidateDecision(p, r, d)
  BY DEF ApplyDecision
<1>3. g \in {Held("REQUIRE_APPROVAL"), Held("ESCALATE_SYSTEM2"), auto}
  BY <1>2 DEF ApplyDecision
<1> HIDE DEF auto, g
<1>4. g = auto
  BY <1>1, <1>3 DEF g
<1> QED  BY <1>2, <1>4 DEF auto, g

\* A request and its decision that pass the gate for a valid action are, but for what
\* the decision says of probabilities, the ones that Run makes.
LEMMA RequestIsTheOne ==
    ASSUME NEW b, Valid(b), NEW a, Valid(a), NEW r, r = TheRequest(a), NEW d,
           ValidateDecision(PacketOf(b), r, d), r.rid = b.rid, r.state = b.state,
           r.choicesHash = TheRequest(b).choicesHash
    PROVE  r = TheRequest(b) /\ TargetOf(r, d.selected) = Target(b)
<1> DEFINE c(x) == [id |-> 1, target |-> Target(x)]
<1>1. /\ r.choices = <<c(a)>> /\ r.choicesHash = HashJSON({c(a)}) /\ r.stateHash = HashJSON(a.state)
      /\ r.rid = a.rid /\ r.action = a.id /\ r.state = a.state /\ r.packetHash = HashJSON(PacketOf(a))
      /\ TheRequest(b).choicesHash = HashJSON({c(b)})
  BY DEF TheRequest, TheChoices
<1>2. Target(a) = Target(b)
  <2>. HIDE DEF c
  <2>1. {c(a)} = {c(b)}
    <3>1. HashJSON({c(a)}) = HashJSON({c(b)})
      BY <1>1
    <3> QED  BY <3>1, HashesDiffer
  <2>. USE DEF c
  <2>2. c(a) = c(b)
    BY <2>1
  <2> QED  BY <2>2
<1>3. r.packetHash = HashJSON(PacketOf(b)) /\ r.action = PacketOf(b).action
  BY DEF ValidateDecision, Binding
<1>4. PacketOf(b).action = b.id
  BY DEF PacketOf, Packet
<1>5. a.rid = b.rid /\ a.id = b.id /\ a.state = b.state /\ HashJSON(PacketOf(a)) = HashJSON(PacketOf(b))
  BY <1>1, <1>3, <1>4
<1>6. r = TheRequest(b)
  BY <1>2, <1>5 DEF TheRequest, TheChoices
<1>7. d.selected = 1
  <2>1. \E i \in DOMAIN r.choices : r.choices[i].id = d.selected
    BY DEF ValidateDecision
  <2>2. DOMAIN r.choices = {1} /\ r.choices[1].id = 1
    BY <1>1, OneTuple
  <2> QED  BY <2>1, <2>2
<1>8. TargetOf(r, 1) = Target(a)
  <2>1. c(a).id = 1 /\ c(a).target = Target(a)
    OBVIOUS
  <2> HIDE DEF c
  <2> QED  BY <1>1, <2>1, TargetOfOne
<1> QED  BY <1>2, <1>6, <1>7, <1>8

LEMMA VerifiedIsRun ==
    ASSUME NEW p, Shaped(p.e), VerifyProof(p), p.e.dispatched
    PROVE  LET q == Run(ActionOf(p.e)) IN
           q # None /\ [p.e EXCEPT !.decision = q.e.decision] = q.e
<1> DEFINE e == p.e
           b == ActionOf(e)
           g == ApplyDecision(e.packet, e.request, e.decision, DefaultGatePolicy)
           x == Executed(b)
<1>1. /\ e.decision.provider = ProviderID /\ Valid(b) /\ PacketOf(b) = e.packet
      /\ RequestOf(b).choicesHash = e.request.choicesHash
      /\ g # None /\ g = e.gate /\ g.disposition = "AUTO_ROUTE"
      /\ ~b.side.v /\ e.receipt # None /\ e.result = HashText(b.text)
      /\ e.receipt.status = "SUCCEEDED"
      /\ Verify(e.packet, g.route, e.result, e.receipt)
  BY DEF VerifyProof
<1>2. b.rid = e.request.rid /\ b.state = e.request.state
  BY DEF ActionOf
<1>3. PICK a : Valid(a) /\ e.request = TheRequest(a)
  BY DEF Shaped
<1>4. /\ ValidateDecision(e.packet, e.request, e.decision)
      /\ g = [disposition |-> "AUTO_ROUTE",
              route |-> [routeId |-> e.packet.action, action |-> e.packet.action,
                         router |-> e.decision.provider,
                         target |-> TargetOf(e.request, e.decision.selected)]]
  BY <1>1, AutoRouteOf
<1>5. DOMAIN e = Fields /\ e = [f \in Fields |-> e[f]] /\ e.dispatched = TRUE
      /\ e.receipt = [f \in ReceiptFields |-> e.receipt[f]]
  BY <1>1 DEF Shaped
<1> HIDE DEF e, b, g
<1>6. e.request = TheRequest(b) /\ TargetOf(e.request, e.decision.selected) = Target(b)
  <2>1. RequestOf(b) = TheRequest(b)
    BY <1>1, RequestMade
  <2> QED  BY <1>1, <1>2, <1>3, <1>4, <2>1, RequestIsTheOne
<1>7. PacketOf(b).action = b.id
  BY DEF PacketOf, Packet
<1>8. g = [disposition |-> "AUTO_ROUTE", route |-> TheRoute(b)]
  BY <1>1, <1>4, <1>6, <1>7 DEF TheRoute
<1>9. g.route = TheRoute(b)
  BY <1>8
<1>10. e.receipt = Receipt(b)
  <2>1. /\ e.receipt.action = b.id /\ e.receipt.routeId = b.id /\ e.receipt.executor = Target(b)
        /\ e.receipt.inputHash = HashJSON(PacketOf(b).inputs)
        /\ e.receipt.resultHash = HashJSON(HashText(b.text)) /\ e.receipt.status = "SUCCEEDED"
    BY <1>1, <1>7, <1>9 DEF Verify, TheRoute
  <2>2. Receipt(b) = [f \in ReceiptFields |-> Receipt(b)[f]]
    BY DEF Receipt, ReceiptFields
  <2>3. \A f \in ReceiptFields : e.receipt[f] = Receipt(b)[f]
    BY <2>1 DEF Receipt, ReceiptFields
  <2> QED  BY <1>5, <2>2, <2>3
<1>11. Run(b) = Proof(x)
  BY <1>1, RunMade
<1>12. /\ x = [f \in Fields |-> x[f]]
       /\ x.packet = PacketOf(b) /\ x.request = TheRequest(b)
       /\ x.gate = [disposition |-> "AUTO_ROUTE", route |-> TheRoute(b)]
       /\ x.dispatched = TRUE /\ x.result = HashText(b.text) /\ x.receipt = Receipt(b)
  BY DEF Executed, Fields
<1>13. Run(b).e = x /\ Run(b) # None
  BY <1>11 DEF Proof, None
<1> HIDE DEF x
<1> DEFINE y == [e EXCEPT !.decision = x.decision]
<1>14. y = x
  <2>1. /\ y = [f \in Fields |-> y[f]] /\ y.decision = x.decision
        /\ \A f \in Fields \ {"decision"} : y[f] = e[f]
    BY <1>5 DEF Fields
  <2> HIDE DEF y
  <2>2. \A f \in Fields \ {"decision"} : e[f] = x[f]
    <3>1. /\ e.packet = x.packet /\ e.request = x.request /\ e.gate = x.gate
          /\ e.dispatched = x.dispatched /\ e.result = x.result /\ e.receipt = x.receipt
      BY <1>1, <1>5, <1>6, <1>8, <1>10, <1>12
    <3> QED  BY <3>1 DEF Fields
  <2>3. \A f \in Fields : y[f] = x[f]
    BY <2>1, <2>2
  <2> QED  BY <1>12, <2>1, <2>3
<1> QED  BY <1>13, <1>14 DEF e, b

-----------------------------------------------------------------------------
(* The invariant: every proof that reached a client is one of Run, and so is *)
(* what the handlers answer, or it verified and has the form of one.         *)

AnswerInv(x) ==
    \/ x.kind = "proof" /\ IsRun(x.proof)
    \/ x.kind = "verified" /\ VerifyProof(x.proof) /\ Shaped(x.proof.e)

ProofsInv ==
    /\ \A p \in proofs : IsRun(p)
    /\ \A h \in Handlers : pc[h] = "answered" => AnswerInv(req[h])

LEMMA ProofsStepKeeps ==
    ASSUME Consumed, ProofsInv, NEW h \in Handlers, NEW at, NEW what, Step(h, at, what),
           at = "answered" => AnswerInv(what), \A p \in proofs' : IsRun(p)
    PROVE  ProofsInv'
<1>1. /\ \A k \in Handlers : pc'[k] = IF k = h THEN at ELSE pc[k]
      /\ \A k \in Handlers : req'[k] = IF k = h THEN what ELSE req[k]
  BY DEF Step, Consumed
<1>2. \A k \in Handlers : pc'[k] = "answered" => AnswerInv(req'[k])
  BY <1>1 DEF ProofsInv
<1> QED  BY <1>2 DEF ProofsInv, AnswerInv

LEMMA TamperedAreShaped ==
    ASSUME ProofsInv, NEW p \in proofs \cup Tampered
    PROVE  Shaped(p.e)
<1>1. CASE p \in proofs
  BY <1>1, RunIsShaped DEF ProofsInv
<1>2. CASE p \in Tampered
  <2>1. PICK x \in proofs, y \in proofs :
           p \in {[e |-> e, hash |-> h] : e \in Mixes(x, y), h \in {x.hash}}
                   \cup {Proof(e) : e \in Mixes(x, y)}
    BY <1>2 DEF Tampered
  <2>2. p.e \in Mixes(x, y)
    BY <2>1 DEF Proof
  <2> QED  BY <2>2, MixesAreShaped DEF ProofsInv
<1> QED  BY <1>1, <1>2

LEMMA ProofsInvariant == Spec => []ProofsInv
<1>1. Init => ProofsInv
  BY DEF Init, ProofsInv
<1>2. Consumed /\ ProofsInv /\ [Next]_vars => ProofsInv'
  <2> SUFFICES ASSUME Consumed, ProofsInv, [Next]_vars PROVE ProofsInv'
    OBVIOUS
  <2>0. \A p \in proofs : IsRun(p)
    BY DEF ProofsInv
  <2>1. ASSUME NEW h \in Handlers, NEW path \in {"action", "verify"}, Admit(h, path)
        PROVE  ProofsInv'
    BY <2>0, <2>1, ProofsStepKeeps DEF Admit
  <2>2. ASSUME NEW h \in Handlers, Refuse(h) PROVE ProofsInv'
    BY <2>0, <2>2, ProofsStepKeeps DEF Refuse, Finish
  <2>3. ASSUME NEW h \in Handlers, Reserve(h) PROVE ProofsInv'
    <3>1. PICK a \in Actions :
             \/ Refuse(h)
             \/ /\ Step(h, "reserved", [kind |-> "action", action |-> a])
                /\ proofs' = proofs
      BY <2>3 DEF Reserve
    <3> QED  BY <2>0, <2>2, <3>1, ProofsStepKeeps
  <2>4. ASSUME NEW h \in Handlers, Reject(h) PROVE ProofsInv'
    BY <2>2, <2>4 DEF Reject
  <2>5. ASSUME NEW h \in Handlers, Execute(h) PROVE ProofsInv'
    <3> DEFINE p == Run(req[h].action)
               x == [kind |-> "proof", proof |-> p]
    <3>1. \/ Refuse(h)
          \/ p # None /\ Step(h, "answered", x) /\ proofs' = proofs
      BY <2>5 DEF Execute
    <3>2. CASE p # None /\ Step(h, "answered", x) /\ proofs' = proofs
      <4>1. Valid(req[h].action)
        BY <3>2 DEF Run
      <4>2. IsRun(p)
        BY <4>1 DEF IsRun
      <4> HIDE DEF p
      <4>3. AnswerInv(x)
        BY <4>2 DEF AnswerInv
      <4> HIDE DEF x
      <4> QED  BY <2>0, <3>2, <4>3, ProofsStepKeeps
    <3> QED  BY <2>2, <3>1, <3>2
  <2>6. ASSUME NEW h \in Handlers, CheckProof(h) PROVE ProofsInv'
    <3>1. PICK p \in proofs \cup Tampered :
             \/ Refuse(h)
             \/ /\ VerifyProof(p) /\ proofs' = proofs
                /\ Step(h, "answered", [kind |-> "verified", proof |-> p])
      BY <2>6 DEF CheckProof
    <3>2. CASE /\ VerifyProof(p) /\ proofs' = proofs
               /\ Step(h, "answered", [kind |-> "verified", proof |-> p])
      <4> DEFINE x == [kind |-> "verified", proof |-> p]
      <4>1. Shaped(p.e)
        BY TamperedAreShaped
      <4>2. AnswerInv(x)
        BY <3>2, <4>1 DEF AnswerInv
      <4> QED  BY <2>0, <3>2, <4>2, ProofsStepKeeps
    <3> QED  BY <2>2, <3>1, <3>2
  <2>7. ASSUME NEW h \in Handlers, Answer(h) PROVE ProofsInv'
    <3>1. /\ AnswerInv(req[h]) /\ Step(h, "idle", Nothing)
          /\ proofs' = IF req[h].kind = "proof" /\ h \notin gone
                       THEN proofs \cup {req[h].proof} ELSE proofs
      BY <2>7 DEF Answer, Finish, ProofsInv
    <3>2. \A p \in proofs' : IsRun(p)
      BY <2>0, <3>1 DEF AnswerInv
    <3> QED  BY <3>1, <3>2, ProofsStepKeeps
  <2>8. ASSUME NEW h \in Handlers, Disconnect(h) PROVE ProofsInv'
    BY <2>8 DEF Disconnect, ProofsInv, AnswerInv
  <2>9. CASE Restart
    BY <2>9 DEF Restart, ProofsInv
  <2>10. CASE UNCHANGED vars
    BY <2>10 DEF vars, ProofsInv, AnswerInv
  <2> QED  BY <2>1, <2>3, <2>4, <2>5, <2>6, <2>7, <2>8, <2>9, <2>10 DEF Next
<1> QED  BY <1>1, <1>2, ConsumedInvariant, PTL DEF Spec

\* Whatever clients put together from the proofs they have: an answer is a proof that
\* verifies, and one that claims an execution is, but for the confidence in its
\* decision, the one that Run makes for its action (codexadapter.Run and Verify).
THEOREM ProofsReproduce == Spec => []VerifiedIsReproducible
<1>1. ProofsInv => VerifiedIsReproducible
  <2> SUFFICES ASSUME ProofsInv, NEW h \in Handlers, pc[h] = "answered"
               PROVE  LET p == req[h].proof
                          q == Run(ActionOf(p.e))
                      IN  /\ VerifyProof(p)
                          /\ req[h].kind = "proof" => p = q
                          /\ p.e.dispatched => q # None /\ [p.e EXCEPT !.decision = q.e.decision] = q.e
    BY DEF VerifiedIsReproducible
  <2> DEFINE p == req[h].proof
  <2>1. AnswerInv(req[h])
    BY DEF ProofsInv
  <2>2. VerifyProof(p) /\ Shaped(p.e) /\ (req[h].kind = "proof" => p = Run(ActionOf(p.e)))
    BY <2>1, RunVerifies, RunIsShaped DEF AnswerInv
  <2>3. p.e.dispatched => LET q == Run(ActionOf(p.e)) IN
                          q # None /\ [p.e EXCEPT !.decision = q.e.decision] = q.e
    BY <2>2, VerifiedIsRun
  <2> QED  BY <2>2, <2>3
<1> QED  BY <1>1, ProofsInvariant, PTL


-----------------------------------------------------------------------------
(* The store of evidence: what is published stays replayable.                *)

KindSet == ToSet(Kinds)

LEMMA KindsAreASequence == Kinds \in Seq(KindSet) \ {<<>>}
BY DEF Kinds, KindSet, ToSet

LEMMA NamedKinds == {"packet", "route", "result", "receipt", "policy", "envelope", "replay"} = KindSet
<1>1. DOMAIN Kinds = 1..7
  BY DEF Kinds
<1>2. KindSet = {Kinds[i] : i \in 1..7}
  BY <1>1 DEF KindSet, ToSet
<1>3. 1..7 = {1, 2, 3, 4, 5, 6, 7}
  OBVIOUS
<1> QED  BY <1>2, <1>3 DEF Kinds

LEMMA HeadOrTail ==
    ASSUME NEW S, NEW s \in Seq(S) \ {<<>>}
    PROVE  Tail(s) \in Seq(S) /\ ToSet(s) \subseteq {s[1]} \cup ToSet(Tail(s)) /\ s[1] \in S
<1>1. /\ Tail(s) \in Seq(S) /\ Len(Tail(s)) = Len(s) - 1 /\ Len(s) \in Nat \ {0}
      /\ \A i \in 1..Len(Tail(s)) : Tail(s)[i] = s[i + 1]
      /\ DOMAIN s = 1..Len(s) /\ DOMAIN Tail(s) = 1..Len(Tail(s))
  BY HeadTailProperties, EmptySeq
<1>2. ASSUME NEW i \in 1..Len(s), i # 1
      PROVE  \E j \in DOMAIN Tail(s) : s[i] = Tail(s)[j]
  <2>1. i - 1 \in 1..Len(Tail(s)) /\ (i - 1) + 1 = i
    BY <1>1, <1>2
  <2> QED  BY <1>1, <2>1
<1>3. ToSet(s) \subseteq {s[1]} \cup ToSet(Tail(s))
  BY <1>1, <1>2 DEF ToSet
<1>4. s[1] \in S
  BY <1>1, ElementOfSeq
<1> QED  BY <1>1, <1>3, <1>4

\* Manifests of proofs that replay.
Bundles == {BuildEvidenceBundle(m) : m \in {n \in Jobs : Reproduced(n)}}

LEMMA BundleParts ==
    ASSUME NEW b \in Bundles
    PROVE  \E m \in Jobs :
              /\ Reproduced(m) /\ b = BuildEvidenceBundle(m)
              /\ b = [body |-> b.body, hash |-> b.hash]
              /\ b.body = [claim |-> b.body.claim, action |-> b.body.action,
                           artifacts |-> b.body.artifacts]
              /\ DOMAIN b.body.artifacts = KindSet
              /\ \A k \in KindSet : b.body.artifacts[k].sha256 = Artifacts(m)[k]
<1>1. PICK m \in Jobs : Reproduced(m) /\ b = BuildEvidenceBundle(m)
  BY DEF Bundles
<1>2. b = Manifest(m.envelope.claim.id, m.envelope.claim.action,
                   [k \in KindSet |-> HashJSON(Artifacts(m)[k])])
  BY <1>1 DEF BuildEvidenceBundle, KindSet
<1>3. \A k \in KindSet : HashJSON(Artifacts(m)[k]).sha256 = Artifacts(m)[k]
  BY DEF HashJSON
<1>4. /\ b = [body |-> b.body, hash |-> b.hash]
      /\ b.body = [claim |-> b.body.claim, action |-> b.body.action,
                   artifacts |-> b.body.artifacts]
      /\ b.body.artifacts = [k \in KindSet |-> HashJSON(Artifacts(m)[k])]
  BY <1>2 DEF Manifest
<1>5. \A k \in KindSet : b.body.artifacts[k].sha256 = Artifacts(m)[k]
  BY <1>3, <1>4
<1>6. DOMAIN b.body.artifacts = KindSet
  BY <1>4
<1> QED  BY <1>1, <1>4, <1>5, <1>6

LEMMA BundleContents ==
    ASSUME NEW b \in Bundles, NEW k \in KindSet
    PROVE  b.body.artifacts[k].sha256 \in Contents
<1>1. PICK m \in Jobs : Reproduced(m) /\ b.body.artifacts[k].sha256 = Artifacts(m)[k]
  BY BundleParts
<1>2. m \in {n \in Jobs : Reproduced(n)}
  BY <1>1
<1>3. Artifacts(m)[k] \in {Artifacts(m)[l] : l \in ToSet(Kinds)}
  BY DEF KindSet
<1> HIDE DEF Reproduced
<1> QED  BY <1>1, <1>2, <1>3 DEF Contents

Kept(b, k) ==
    LET c == b.body.artifacts[k].sha256 IN object[c] \in {"whole", "cached"} \/ c \in harmed

Working == {"stat", "rename", "check", "resolve"}

\* A process that stores a bundle, or resolves one: its own bundle is built, it renames
\* flushed files only, and what it has resolved is kept.
WorkInv(w) ==
    /\ w.todo \in Seq(KindSet) \ {<<>>}
    /\ w.pc # "resolve" => w.own = TRUE
    /\ w.own = TRUE => w.bundle \in Bundles
    /\ w.pc = "rename" => w.flushed = TRUE
    /\ w.own = TRUE /\ w.pc = "resolve" => \A k \in KindSet \ ToSet(w.todo) : Kept(w.bundle, k)

StoreInv ==
    /\ object \in [Contents -> {"absent", "whole", "changed"}]
    /\ \A b \in published : b \in Bundles /\ \A k \in KindSet : Kept(b, k)
    /\ DOMAIN proc = Processes
    /\ \A p \in Processes : proc[p].pc \in Working => WorkInv(proc[p])

\* An object leaves its place only by a fault, which is remembered.
Preserved ==
    /\ harmed \subseteq harmed'
    /\ \A c \in Contents : object[c] = "whole" => object'[c] = "whole" \/ c \in harmed'

LEMMA KeptStays ==
    ASSUME StoreInv, Preserved, NEW b \in Bundles, NEW k \in KindSet, Kept(b, k)
    PROVE  Kept(b, k)'
BY BundleContents DEF StoreInv, Preserved, Kept

LEMMA WorkStays ==
    ASSUME StoreInv, Preserved, NEW w, WorkInv(w)
    PROVE  WorkInv(w)'
<1>1. w.own = TRUE /\ w.pc = "resolve" => \A k \in KindSet \ ToSet(w.todo) : Kept(w.bundle, k)'
  BY KeptStays DEF WorkInv
<1> QED  BY <1>1 DEF WorkInv

LEMMA PublishedStays ==
    ASSUME StoreInv, Preserved
    PROVE  \A b \in published : b \in Bundles /\ \A k \in KindSet : Kept(b, k)'
BY KeptStays DEF StoreInv

\* A step of one process that leaves the store in order.
LEMMA AdvanceKeeps ==
    ASSUME StoreInv, NEW p \in Processes, NEW what, Advance(p, what), Preserved,
           object' \in [Contents -> {"absent", "whole", "changed"}],
           what.pc \in Working => WorkInv(what)',
           \A b \in published' : b \in published \/ (b \in Bundles /\ \A k \in KindSet : Kept(b, k)')
    PROVE  StoreInv'
<1>1. /\ DOMAIN proc' = Processes
      /\ \A q \in Processes : proc'[q] = IF q = p THEN what ELSE proc[q]
  BY DEF Advance, StoreInv
<1>2. \A b \in published' : b \in Bundles /\ \A k \in KindSet : Kept(b, k)'
  BY PublishedStays
<1>3. \A q \in Processes : proc[q].pc \in Working => WorkInv(proc[q])
  BY DEF StoreInv
<1>4. ASSUME NEW q \in Processes, proc'[q].pc \in Working
      PROVE  \E w : w = proc'[q] /\ WorkInv(w)'
  <2>1. CASE q = p
    BY <1>1, <1>4, <2>1
  <2>2. CASE q # p
    <3>1. proc'[q] = proc[q] /\ WorkInv(proc[q])
      BY <1>1, <1>3, <1>4, <2>2
    <3> QED  BY <3>1, WorkStays
  <2> QED  BY <2>1, <2>2
<1>5. \A q \in Processes : proc'[q].pc \in Working => WorkInv(proc[q])'
  <2> SUFFICES ASSUME NEW q \in Processes, proc'[q].pc \in Working
               PROVE  WorkInv(proc[q])'
    OBVIOUS
  <2>1. PICK w : w = proc'[q] /\ WorkInv(w)'
    BY <1>4
  <2> QED  BY <2>1 DEF WorkInv, Kept
<1> QED  BY <1>1, <1>2, <1>5 DEF StoreInv

LEMMA QuietAdvance ==
    ASSUME StoreInv, NEW p \in Processes, NEW what, Advance(p, what),
           UNCHANGED <<object, published>>, what.pc \in Working => WorkInv(what)
    PROVE  StoreInv'
<1>1. Preserved
  BY DEF Advance, Preserved
<1>2. what.pc \in Working => WorkInv(what)'
  BY <1>1, WorkStays
<1>3. object' \in [Contents -> {"absent", "whole", "changed"}]
  BY DEF StoreInv
<1> QED  BY <1>1, <1>2, <1>3, AdvanceKeeps

LEMMA IdleKeeps ==
    ASSUME StoreInv, NEW p \in Processes, Advance(p, Idle), UNCHANGED <<object, published>>
    PROVE  StoreInv'
BY QuietAdvance DEF Idle, Working

\* A process goes on to the next artifact.
LEMMA ContinuedInv ==
    ASSUME NEW w, WorkInv(w), NEW at \in Working, NEW todo \in Seq(KindSet) \ {<<>>},
           NEW flushed, at # "resolve" => w.own = TRUE, at = "rename" => flushed = TRUE,
           w.own = TRUE /\ at = "resolve" => \A k \in KindSet \ ToSet(todo) : Kept(w.bundle, k)
    PROVE  WorkInv(Continued(w, at, todo, flushed))
BY DEF WorkInv, Continued, Work

LEMMA StoredKeeps ==
    ASSUME StoreInv, NEW p \in Processes, proc[p].pc \in {"stat", "check"}, Stored(p),
           UNCHANGED <<object, published>>
    PROVE  StoreInv'
<1>1. PICK w : w = proc[p]
  OBVIOUS
<1> DEFINE rest == Tail(w.todo)
<1>2. WorkInv(w) /\ w.own = TRUE
  BY <1>1 DEF StoreInv, Working, WorkInv
<1>3. rest \in Seq(KindSet)
  BY <1>2, HeadOrTail DEF WorkInv
<1>4. PICK what : what = IF rest = <<>> THEN Continued(w, "resolve", Kinds, FALSE)
                         ELSE Continued(w, "stat", rest, FALSE)
  OBVIOUS
<1>5. Advance(p, what)
  BY <1>1, <1>4 DEF Stored
<1>6. WorkInv(what)
  <2>1. KindSet \ ToSet(Kinds) = {}
    BY DEF KindSet
  <2>2. WorkInv(Continued(w, "resolve", Kinds, FALSE))
    BY <1>2, <2>1, KindsAreASequence, ContinuedInv DEF Working
  <2>3. rest # <<>> => WorkInv(Continued(w, "stat", rest, FALSE))
    BY <1>2, <1>3, ContinuedInv DEF Working
  <2> QED  BY <1>4, <2>2, <2>3
<1> QED  BY <1>5, <1>6, QuietAdvance

LEMMA RenameKeeps ==
    ASSUME StoreInv, NEW p \in Processes, proc[p].pc = "rename",
           object' = [object EXCEPT ![Current(p)] = IF proc[p].flushed THEN "whole" ELSE "cached"],
           Advance(p, Continued(proc[p], "check", proc[p].todo, FALSE)), UNCHANGED published
    PROVE  StoreInv'
<1>1. PICK w : w = proc[p]
  OBVIOUS
<1>2. WorkInv(w) /\ w.flushed = TRUE /\ w.pc = "rename"
  BY <1>1 DEF StoreInv, Working, WorkInv
<1>3. /\ object' \in [Contents -> {"absent", "whole", "changed"}]
      /\ \A c \in Contents : object[c] = "whole" => object'[c] = "whole"
  BY <1>1, <1>2 DEF StoreInv
<1>4. Preserved
  BY <1>3 DEF Preserved, Advance
<1>5. PICK what : what = Continued(w, "check", w.todo, FALSE)
  OBVIOUS
<1>6. WorkInv(what)
  BY <1>2, <1>5, ContinuedInv DEF WorkInv, Working
<1>7. WorkInv(what)'
  BY <1>4, <1>6, WorkStays
<1> QED  BY <1>1, <1>3, <1>4, <1>5, <1>7, AdvanceKeeps

LEMMA ResolveKeeps ==
    ASSUME StoreInv, NEW p \in Processes, Resolve(p)
    PROVE  StoreInv'
<1>1. PICK w : w = proc[p]
  OBVIOUS
<1> DEFINE rest == Tail(w.todo)
<1>2. WorkInv(w) /\ w.pc = "resolve"
  BY <1>1 DEF StoreInv, Working, Resolve
<1>3. /\ rest \in Seq(KindSet) /\ w.todo[1] \in KindSet
      /\ ToSet(w.todo) \subseteq {w.todo[1]} \cup ToSet(rest)
  BY <1>2, HeadOrTail DEF WorkInv
<1>4. Readable(Current(p)) => Kept(w.bundle, w.todo[1])
  BY <1>1 DEF Readable, Current, Kept
<1>5. CASE UNCHANGED <<object, published>> /\ Advance(p, Idle)
  BY <1>5, IdleKeeps
<1>6. CASE /\ Readable(Current(p)) /\ rest # <<>> /\ UNCHANGED <<object, published>>
           /\ Advance(p, Continued(w, "resolve", rest, FALSE))
  <2>1. w.own = TRUE => \A k \in KindSet \ ToSet(rest) : Kept(w.bundle, k)
    BY <1>2, <1>3, <1>4, <1>6 DEF WorkInv
  <2>2. WorkInv(Continued(w, "resolve", rest, FALSE))
    BY <1>2, <1>3, <1>6, <2>1, ContinuedInv DEF Working
  <2> QED  BY <1>6, <2>2, QuietAdvance
<1>7. CASE /\ Readable(Current(p)) /\ rest = <<>> /\ Advance(p, Idle) /\ UNCHANGED object
           /\ published' = IF w.own THEN published \cup {w.bundle} ELSE published
  <2>1. \A k \in KindSet : w.own = TRUE => Kept(w.bundle, k)
    <3>1. ToSet(rest) = {}
      BY <1>7 DEF ToSet
    <3> QED  BY <1>2, <1>3, <1>4, <1>7, <3>1 DEF WorkInv
  <2>2. Preserved /\ object' \in [Contents -> {"absent", "whole", "changed"}]
    BY <1>7 DEF Preserved, Advance, StoreInv
  <2>3. \A k \in KindSet : w.own = TRUE => Kept(w.bundle, k)'
    BY <2>1, <1>7 DEF Kept, Advance
  <2>4. \A b \in published' : b \in published \/ (b \in Bundles /\ \A k \in KindSet : Kept(b, k)')
    <3>1. w.own = TRUE => w.bundle \in Bundles
      BY <1>2 DEF WorkInv
    <3>2. \A b \in published' : b \in published \/ (w.own = TRUE /\ b = w.bundle)
      BY <1>7
    <3> QED  BY <2>3, <3>1, <3>2
  <2> QED  BY <1>7, <2>2, <2>4, AdvanceKeeps DEF Idle, Working
<1> QED  BY <1>1, <1>4, <1>5, <1>6, <1>7 DEF Resolve, Fail

LEMMA StoreStepKeeps ==
    ASSUME StoreInv, [StoreNext]_storeVars
    PROVE  StoreInv'
<1>1. CASE UNCHANGED storeVars
  <2>1. Preserved
    BY <1>1 DEF Preserved, storeVars
  <2>2. \A p \in Processes : proc[p].pc \in Working => WorkInv(proc[p])'
    BY <1>1 DEF StoreInv, WorkInv, Kept, storeVars
  <2> QED  BY <1>1, <2>1, <2>2, PublishedStays DEF StoreInv, storeVars
<1>2. ASSUME NEW p \in Processes, Store(p)
      PROVE  StoreInv'
  <2>1. PICK m \in Jobs :
            IF BuildEvidenceBundle(m) = None THEN Fail(p)
            ELSE /\ Advance(p, Work("stat", BuildEvidenceBundle(m), Kinds, TRUE, FALSE))
                 /\ UNCHANGED <<object, published, reproduced>>
    BY <1>2 DEF Store
  <2>2. BuildEvidenceBundle(m) # None => BuildEvidenceBundle(m) \in Bundles
    BY DEF BuildEvidenceBundle, Bundles
  <2>3. BuildEvidenceBundle(m) # None
           => WorkInv(Work("stat", BuildEvidenceBundle(m), Kinds, TRUE, FALSE))
    BY <2>2, KindsAreASequence DEF WorkInv, Work
  <2>4. CASE Fail(p)
    BY <2>4, IdleKeeps DEF Fail
  <2> QED  BY <2>1, <2>3, <2>4, QuietAdvance
<1>3. ASSUME NEW p \in Processes, Stage(p)
      PROVE  StoreInv'
  <2>1. CASE Stored(p)
    BY <1>3, <2>1, StoredKeeps DEF Stage
  <2>2. CASE Advance(p, Continued(proc[p], "rename", proc[p].todo, TRUE))
    <3>1. WorkInv(proc[p]) /\ proc[p].own = TRUE
      BY <1>3 DEF Stage, StoreInv, Working, WorkInv
    <3>2. WorkInv(Continued(proc[p], "rename", proc[p].todo, TRUE))
      BY <3>1, ContinuedInv DEF WorkInv, Working
    <3> QED  BY <1>3, <2>2, <3>2, QuietAdvance DEF Stage
  <2>3. CASE Advance(p, Idle)
    BY <1>3, <2>3, IdleKeeps DEF Stage
  <2> QED  BY <1>3, <2>1, <2>2, <2>3 DEF Stage
<1>4. ASSUME NEW p \in Processes, Rename(p)
      PROVE  StoreInv'
  BY <1>4, RenameKeeps, IdleKeeps DEF Rename, Fail
<1>5. ASSUME NEW p \in Processes, Check(p)
      PROVE  StoreInv'
  BY <1>5, StoredKeeps, IdleKeeps DEF Check
<1>6. ASSUME NEW p \in Processes, BeginVerify(p)
      PROVE  StoreInv'
  <2>1. PICK b \in Handed :
            Advance(p, IF ValidateBundle(b) THEN Work("resolve", b, Kinds, FALSE, FALSE) ELSE Idle)
    BY <1>6 DEF BeginVerify
  <2>2. WorkInv(Work("resolve", b, Kinds, FALSE, FALSE))
    BY KindsAreASequence DEF WorkInv, Work
  <2>3. CASE Advance(p, Work("resolve", b, Kinds, FALSE, FALSE))
    BY <1>6, <2>2, <2>3, QuietAdvance DEF BeginVerify
  <2> QED  BY <1>6, <2>1, <2>3, IdleKeeps DEF BeginVerify
<1>7. ASSUME NEW p \in Processes, Resolve(p)
      PROVE  StoreInv'
  BY <1>7, ResolveKeeps
<1>8. ASSUME NEW p \in Processes, Decide(p)
      PROVE  StoreInv'
  <2>1. PICK what : Advance(p, what) /\ what.pc = "committed"
    BY <1>8 DEF Decide
  <2> QED  BY <1>8, <2>1, QuietAdvance DEF Decide, Working
<1>9. ASSUME NEW p \in Processes, Crash(p)
      PROVE  StoreInv'
  BY <1>9, IdleKeeps DEF Crash, Fail
<1>10. CASE PowerLoss
  <2>1. PICK lost : /\ object' = [c \in Contents |-> IF c \in lost THEN "absent"
                                    ELSE IF object[c] = "cached" THEN "torn" ELSE object[c]]
                    /\ harmed' = harmed \cup lost
    BY <1>10 DEF PowerLoss
  <2>2. /\ \A c \in Contents : object'[c] = IF c \in lost THEN "absent" ELSE object[c]
        /\ object' \in [Contents -> {"absent", "whole", "changed"}]
    BY <2>1 DEF StoreInv
  <2>3. Preserved
    BY <2>1, <2>2 DEF Preserved
  <2>4. DOMAIN proc' = Processes /\ \A p \in Processes : proc'[p].pc = "idle"
    BY <1>10 DEF PowerLoss, Idle
  <2>5. published' = published
    BY <1>10 DEF PowerLoss
  <2> QED  BY <2>2, <2>3, <2>4, <2>5, PublishedStays DEF StoreInv, Working
<1>11. CASE Change
  <2>1. PICK c \in Exposed : object' = [object EXCEPT ![c] = "changed"] /\ harmed' = harmed \cup {c}
    BY <1>11 DEF Change
  <2>2. /\ \A d \in Contents : object'[d] = IF d = c THEN "changed" ELSE object[d]
        /\ object' \in [Contents -> {"absent", "whole", "changed"}]
    BY <2>1 DEF StoreInv
  <2>3. Preserved
    BY <2>1, <2>2 DEF Preserved
  <2>4. proc' = proc /\ published' = published
    BY <1>11 DEF Change
  <2>5. \A p \in Processes : proc[p].pc \in Working => \E w : w = proc[p] /\ WorkInv(w)'
    BY <2>3, WorkStays DEF StoreInv
  <2>6. \A p \in Processes : proc'[p].pc \in Working => WorkInv(proc[p])'
    <3> SUFFICES ASSUME NEW p \in Processes, proc[p].pc \in Working
                 PROVE  WorkInv(proc[p])'
      BY <2>4
    <3>1. PICK w : w = proc'[p] /\ WorkInv(w)'
      BY <2>4, <2>5
    <3> QED  BY <3>1 DEF WorkInv, Kept
  <2> QED  BY <2>2, <2>3, <2>4, <2>6, PublishedStays DEF StoreInv
<1> QED  BY <1>1, <1>2, <1>3, <1>4, <1>5, <1>6, <1>7, <1>8, <1>9, <1>10, <1>11 DEF StoreNext

LEMMA StoreInvariant == StoreSpec => []StoreInv
<1>1. StoreInit => StoreInv
  BY DEF StoreInit, StoreInv, Idle, Working
<1>2. StoreInv /\ [StoreNext]_storeVars => StoreInv'
  BY StoreStepKeeps
<1> QED  BY <1>1, <1>2, PTL DEF StoreSpec

\* What was published can be replayed from the store but for what a fault took, and no
\* file at a digest path is torn (StoreEvidenceBundle, FilesystemCAS.Put).
THEOREM PublishedReplays == StoreSpec => []PublishedIsReplayable
<1>1. StoreInv => PublishedIsReplayable
  BY DEF StoreInv, PublishedIsReplayable, Kept, Readable, KindSet
<1> QED  BY <1>1, StoreInvariant, PTL

-----------------------------------------------------------------------------
(* What replays was earned.  A manifest may mix the objects of many bundles, *)
(* but the envelope it names was built from verified materials, and whatever *)
(* it covers has to agree with it.                                           *)

\* The materials m of a manifest have passed the replay.
LEMMA ReplayHolds ==
    ASSUME NEW m, Reproduced(m)
    PROVE  LET e == m.envelope IN
           /\ m.receipt = e.receipt
           /\ e.receipt.action = e.claim.action
           /\ m.packet.action = e.claim.action /\ m.packet.kind = e.kind
           /\ m.route.action = m.packet.action /\ m.route.routeId = e.receipt.routeId
           /\ m.route.target = e.receipt.executor
           /\ Verify(m.packet, m.route, m.result, m.receipt)
           /\ HashJSON(m.result) = e.claim.value
           /\ e.authority # None
           /\ AuthorizeProof(m.policy, m.packet.kind, m.receipt.executor) = e.authority
           /\ ValidateEnvelope(e)
<1>1. DOMAIN ReplayChecks(m) = 1..7
  BY DEF ReplayChecks
<1>2. \A i \in 1..7 : ReplayChecks(m)[i]
  BY <1>1 DEF Reproduced
<1>3. /\ ReplayChecks(m)[1] /\ ReplayChecks(m)[2] /\ ReplayChecks(m)[3] /\ ReplayChecks(m)[4]
      /\ ReplayChecks(m)[5] /\ ReplayChecks(m)[6] /\ ReplayChecks(m)[7]
  BY <1>2
<1>4. ValidateEnvelope(m.envelope)
  BY <1>3 DEF ReplayChecks
<1>5. m.packet.action = m.envelope.claim.action /\ m.packet.kind = m.envelope.kind
  BY <1>3 DEF ReplayChecks
<1>6. /\ m.route.action = m.packet.action /\ m.route.routeId = m.envelope.receipt.routeId
      /\ m.route.target = m.envelope.receipt.executor
  BY <1>3 DEF ReplayChecks
<1>7. m.receipt = m.envelope.receipt
  BY <1>3 DEF ReplayChecks
<1>8. Verify(m.packet, m.route, m.result, m.receipt)
  BY <1>3 DEF ReplayChecks
<1>9. HashJSON(m.result) = m.envelope.claim.value
  BY <1>3 DEF ReplayChecks
<1>10. m.envelope.authority # None /\ AuthorizeProof(m.policy, m.packet.kind, m.receipt.executor) = m.envelope.authority
  BY <1>3 DEF ReplayChecks
<1>11. m.envelope.receipt.action = m.envelope.claim.action
  BY <1>4 DEF ValidateEnvelope
<1> QED  BY <1>4, <1>5, <1>6, <1>7, <1>8, <1>9, <1>10, <1>11

Stands(b, m) ==
    /\ Reproduced(m) /\ SameProof(Decoded(b), m)
    /\ b.body.claim = m.envelope.claim.id /\ Earned(Decoded(b), m.envelope.claim)

LEMMA ReplayedStands ==
    ASSUME NEW b, b # None, NEW m, Reproduced(m), b.body.artifacts.envelope.sha256 = m.envelope,
           VerifyEvidenceBundle(b)
    PROVE  Stands(b, m)
<1> DEFINE d == Decoded(b)
           e == m.envelope
<1>1. Reproduced(d) /\ b.body.claim = d.envelope.claim.id
  BY DEF VerifyEvidenceBundle, BuildEvidenceBundle, Manifest
<1>2. d.envelope = e
  BY DEF Decoded
<1> HIDE DEF d, e
<1>3. /\ d.receipt = e.receipt
      /\ e.receipt.action = e.claim.action
      /\ d.packet.action = e.claim.action /\ d.packet.kind = e.kind
      /\ d.route.action = d.packet.action /\ d.route.routeId = e.receipt.routeId
      /\ d.route.target = e.receipt.executor
      /\ Verify(d.packet, d.route, d.result, d.receipt)
      /\ HashJSON(d.result) = e.claim.value /\ e.authority # None
      /\ AuthorizeProof(d.policy, d.packet.kind, d.receipt.executor) = e.authority
  BY <1>1, <1>2, ReplayHolds
<1>4. /\ m.receipt = e.receipt
      /\ m.packet.action = e.claim.action /\ m.packet.kind = e.kind
      /\ m.route.action = m.packet.action /\ m.route.routeId = e.receipt.routeId
      /\ m.route.target = e.receipt.executor
      /\ Verify(m.packet, m.route, m.result, m.receipt)
      /\ HashJSON(m.result) = e.claim.value
      /\ AuthorizeProof(m.policy, m.packet.kind, m.receipt.executor) = e.authority
  BY ReplayHolds DEF e
<1>5. CanonicalJSON(d.policy) = CanonicalJSON(m.policy)
  <2>1. e.authority.hash = HashJSON(CanonicalJSON(d.policy))
    BY <1>3 DEF AuthorizeProof
  <2>2. e.authority.hash = HashJSON(CanonicalJSON(m.policy))
    BY <1>3, <1>4 DEF AuthorizeProof
  <2> QED  BY <2>1, <2>2, HashesDiffer
<1>6. d.result = m.result
  BY <1>3, <1>4, HashesDiffer
<1>7. d.packet.inputs = m.packet.inputs
  BY <1>3, <1>4, HashesDiffer DEF Verify
<1>8. SameProof(d, m)
  BY <1>2, <1>3, <1>4, <1>5, <1>6, <1>7 DEF SameProof, e
<1>9. d.receipt.executor \in ToSet(d.policy.executors[d.packet.kind])
  BY <1>3 DEF AuthorizeProof, Authorize
<1>10. Earned(d, e.claim)
  BY <1>3, <1>9 DEF Earned, Verify
<1> QED  BY <1>1, <1>2, <1>8, <1>10 DEF Stands, d, e

\* A manifest that names the envelope of a proof.
Handable(b) ==
    /\ b # None
    /\ \E m \in Jobs : Reproduced(m) /\ b.body.artifacts.envelope.sha256 = m.envelope

LEMMA BundleIsHandable == ASSUME NEW b \in Bundles PROVE Handable(b)
<1>1. PICK m \in Jobs :
          /\ Reproduced(m)
          /\ b = [body |-> b.body, hash |-> b.hash]
          /\ b.body.artifacts["envelope"].sha256 = Artifacts(m)["envelope"]
  BY BundleParts, NamedKinds
<1>2. Artifacts(m)["envelope"] = m.envelope
  BY DEF Artifacts
<1>3. b # None
  BY <1>1 DEF None
<1> QED  BY <1>1, <1>2, <1>3 DEF Handable

LEMMA ManifestIsHandable ==
    ASSUME NEW claim, NEW action, NEW digests, NEW m \in Jobs, Reproduced(m),
           digests.envelope.sha256 = m.envelope
    PROVE  Handable(Manifest(claim, action, digests))
BY DEF Handable, Manifest, None

LEMMA HandedIsHandable ==
    ASSUME \A b \in published : b \in Bundles, NEW x \in Handed
    PROVE  Handable(x)
<1>1. PICK a \in published, b \in published : x \in {a} \cup Edited(a, b)
  BY DEF Handed
<1>2. /\ a = [body |-> a.body, hash |-> a.hash]
      /\ a.body = [claim |-> a.body.claim, action |-> a.body.action, artifacts |-> a.body.artifacts]
      /\ DOMAIN a.body.artifacts = KindSet
  BY <1>1, BundleParts
<1>3. PICK m \in Jobs : Reproduced(m) /\ a.body.artifacts.envelope.sha256 = m.envelope
  BY <1>1, BundleIsHandable DEF Handable
<1>4. PICK n \in Jobs : Reproduced(n) /\ b.body.artifacts.envelope.sha256 = n.envelope
  BY <1>1, BundleIsHandable DEF Handable
<1>5. CASE x = a
  BY <1>1, <1>5, BundleIsHandable
<1>6. CASE x = Manifest(b.body.claim, a.body.action, a.body.artifacts)
  BY <1>3, <1>6, ManifestIsHandable
<1>7. CASE x = [a EXCEPT !.body = [@ EXCEPT !.action = b.body.action]]
  <2>1. [a.body EXCEPT !.action = b.body.action].artifacts = a.body.artifacts
    BY <1>2
  <2>2. x = [body |-> [a.body EXCEPT !.action = b.body.action], hash |-> a.hash]
    BY <1>2, <1>7
  <2> QED  BY <1>3, <2>1, <2>2 DEF Handable, None
<1>8. ASSUME NEW k \in KindSet, NEW d, d = [a.body.artifacts EXCEPT ![k] = b.body.artifacts[k]]
      PROVE  \E l \in Jobs : Reproduced(l) /\ d.envelope.sha256 = l.envelope
  <2>1. "envelope" \in KindSet
    BY NamedKinds
  <2>2. d.envelope = IF k = "envelope" THEN b.body.artifacts.envelope ELSE a.body.artifacts.envelope
    BY <1>2, <1>8, <2>1
  <2> QED  BY <1>3, <1>4, <2>2
<1>9. ASSUME NEW k \in KindSet, NEW d, d = [a.body.artifacts EXCEPT ![k] = b.body.artifacts[k]],
             x = Manifest(a.body.claim, a.body.action, d)
      PROVE  Handable(x)
  BY <1>8, <1>9, ManifestIsHandable
<1>10. ASSUME NEW k \in KindSet, NEW d, d = [a.body.artifacts EXCEPT ![k] = b.body.artifacts[k]],
              x = [a EXCEPT !.body = [@ EXCEPT !.artifacts = d]]
       PROVE  Handable(x)
  <2>1. [a.body EXCEPT !.artifacts = d].artifacts = d
    BY <1>2
  <2>2. x = [body |-> [a.body EXCEPT !.artifacts = d], hash |-> a.hash]
    BY <1>2, <1>10
  <2>3. PICK l \in Jobs : Reproduced(l) /\ d.envelope.sha256 = l.envelope
    BY <1>8, <1>10
  <2>4. x.body.artifacts = d /\ x # None
    BY <2>1, <2>2 DEF None
  <2> QED  BY <2>3, <2>4 DEF Handable
<1> DEFINE mixed == {[a.body.artifacts EXCEPT ![k] = b.body.artifacts[k]] : k \in KindSet}
<1>11. \/ x = a \/ x = Manifest(b.body.claim, a.body.action, a.body.artifacts)
       \/ x = [a EXCEPT !.body = [@ EXCEPT !.action = b.body.action]]
       \/ x \in {Manifest(a.body.claim, a.body.action, d) : d \in mixed}
       \/ x \in {[a EXCEPT !.body = [@ EXCEPT !.artifacts = d]] : d \in mixed}
  BY <1>1 DEF Edited, KindSet
<1>12. CASE x \in {Manifest(a.body.claim, a.body.action, d) : d \in mixed}
  BY <1>9, <1>12
<1>13. CASE x \in {[a EXCEPT !.body = [@ EXCEPT !.artifacts = d]] : d \in mixed}
  BY <1>10, <1>13
<1> QED  BY <1>5, <1>6, <1>7, <1>11, <1>12, <1>13

\* A claim is committed for evidence that says so: a receipt of ours, or an observed one.
Committed(claim) ==
    \/ \E m \in Jobs : m.claim.id = claim.id /\ Earned(m, claim)
    \/ \E x \in Bound(claim, Observed) :
           x.source = "external" /\ x.verified /\ x.provenance /\ x.value = claim.value

LEMMA PromotedIsEarned ==
    ASSUME NEW m, EvidenceFromVerifiedReceipt(m) # None, NEW claim,
           EvidenceFromVerifiedReceipt(m).claim = claim.id,
           EvidenceFromVerifiedReceipt(m).action = claim.action,
           EvidenceFromVerifiedReceipt(m).value = claim.value
    PROVE  m.claim.id = claim.id /\ Earned(m, claim)
<1>1. /\ m.claim.action = m.packet.action
      /\ Verify(m.packet, m.route, m.result, m.receipt)
      /\ m.receipt.resultHash = m.claim.value
      /\ AuthorizeProof(m.policy, m.packet.kind, m.receipt.executor) # None
      /\ EvidenceFromVerifiedReceipt(m) =
            [claim |-> m.claim.id, action |-> m.claim.action, source |-> "external",
             value |-> m.receipt.resultHash, verified |-> TRUE, provenance |-> TRUE]
  BY DEF EvidenceFromVerifiedReceipt
<1>2. m.claim.id = claim.id /\ m.claim.action = claim.action /\ m.receipt.resultHash = claim.value
  BY <1>1
<1>3. m.receipt.executor \in ToSet(m.policy.executors[m.packet.kind])
  BY <1>1 DEF AuthorizeProof, Authorize
<1> QED  BY <1>1, <1>2, <1>3 DEF Earned, Verify

LEMMA DecidedIsEarned ==
    ASSUME NEW m \in Jobs, NEW seen \in SUBSET Observed, NEW all, NEW claim,
           all = seen \cup (IF EvidenceFromVerifiedReceipt(m) = None THEN {}
                            ELSE {EvidenceFromVerifiedReceipt(m)}),
           GateCommits(claim, all)
    PROVE  Committed(claim) /\ (claim.irreversible => ~Divergent(claim, all))
<1>1. PICK x \in all : /\ x.claim = claim.id /\ x.action = claim.action
                       /\ x.source = "external" /\ x.verified /\ x.provenance
                       /\ x.value = claim.value
  BY DEF GateCommits, Bound
<1>2. x \in Observed => Committed(claim)
  <2>1. x \in Observed => x \in Bound(claim, Observed)
    BY <1>1 DEF Bound
  <2> QED  BY <1>1, <2>1, Zenon DEF Committed
<1>3. x = EvidenceFromVerifiedReceipt(m) /\ x # None => Committed(claim)
  BY <1>1, PromotedIsEarned DEF Committed
<1>4. claim.irreversible => ~Divergent(claim, all)
  BY Zenon DEF GateCommits
<1>5. x \in Observed \/ (x = EvidenceFromVerifiedReceipt(m) /\ x # None)
  BY <1>1
<1> QED  BY <1>2, <1>3, <1>4, <1>5

\* Published manifests are built from proofs, handed ones name the envelope of one,
\* and so those that replay stand for one; committed claims are earned.
EarnedInv ==
    /\ \A b \in reproduced : \E m \in Jobs : Stands(b, m)
    /\ \A p \in Processes :
           /\ proc[p].pc \in Working => Handable(proc[p].bundle)
           /\ proc[p].pc = "committed" =>
                 /\ Committed(proc[p].claim)
                 /\ proc[p].claim.irreversible => ~proc[p].divergent

\* What a process may become, whatever the others do.
EarnedWork(w) ==
    /\ w.pc \in Working => Handable(w.bundle)
    /\ w.pc = "committed" => Committed(w.claim) /\ (w.claim.irreversible => ~w.divergent)

LEMMA EarnedAdvance ==
    ASSUME StoreInv, EarnedInv, NEW p \in Processes, NEW what, Advance(p, what),
           EarnedWork(what), \A b \in reproduced' : b \in reproduced \/ \E m \in Jobs : Stands(b, m)
    PROVE  EarnedInv'
<1>1. \A q \in Processes : proc'[q] = IF q = p THEN what ELSE proc[q]
  BY DEF Advance, StoreInv
<1>2. \A q \in Processes : EarnedWork(proc[q])
  BY DEF EarnedInv, EarnedWork
<1>3. \A q \in Processes : EarnedWork(proc'[q])
  BY <1>1, <1>2
<1>4. \A b \in reproduced' : \E m \in Jobs : Stands(b, m)
  BY DEF EarnedInv
<1> QED  BY <1>3, <1>4 DEF EarnedInv, EarnedWork, Handable, Stands, Committed

LEMMA EarnedIdle == EarnedWork(Idle)
BY DEF EarnedWork, Idle, Working

LEMMA EarnedContinued ==
    ASSUME NEW w, EarnedWork(w), w.pc \in Working, NEW at \in Working, NEW todo, NEW flushed
    PROVE  EarnedWork(Continued(w, at, todo, flushed))
BY DEF EarnedWork, Continued, Work, Working

LEMMA EarnedStepKeeps ==
    ASSUME StoreInv, EarnedInv, [StoreNext]_storeVars
    PROVE  EarnedInv'
<1>1. CASE UNCHANGED storeVars
  BY <1>1 DEF EarnedInv, storeVars
<1> DEFINE Quiet == reproduced' = reproduced
<1>2. \A p \in Processes : EarnedWork(proc[p])
  BY DEF EarnedInv, EarnedWork
<1>3. \A p \in Processes : Quiet /\ Advance(p, Idle) => EarnedInv'
  BY EarnedIdle, EarnedAdvance
<1>4. ASSUME NEW p \in Processes, proc[p].pc \in Working, NEW at \in Working, NEW todo, NEW flushed,
             Quiet, Advance(p, Continued(proc[p], at, todo, flushed))
      PROVE  EarnedInv'
  BY <1>2, <1>4, EarnedContinued, EarnedAdvance
<1>5. ASSUME NEW p \in Processes, Store(p)
      PROVE  EarnedInv'
  <2>1. PICK m \in Jobs :
            IF BuildEvidenceBundle(m) = None THEN Fail(p)
            ELSE /\ Advance(p, Work("stat", BuildEvidenceBundle(m), Kinds, TRUE, FALSE))
                 /\ UNCHANGED <<object, published, reproduced>>
    BY <1>5 DEF Store
  <2>2. BuildEvidenceBundle(m) # None => Handable(BuildEvidenceBundle(m))
    BY BundleIsHandable DEF BuildEvidenceBundle, Bundles
  <2>3. BuildEvidenceBundle(m) # None
           => EarnedWork(Work("stat", BuildEvidenceBundle(m), Kinds, TRUE, FALSE))
    BY <2>2 DEF EarnedWork, Work
  <2>4. CASE Fail(p)
    BY <1>3, <2>4 DEF Fail
  <2> QED  BY <2>1, <2>3, <2>4, EarnedAdvance
<1>6. ASSUME NEW p \in Processes, proc[p].pc \in Working, Stored(p), Quiet
      PROVE  EarnedInv'
  BY <1>4, <1>6 DEF Stored, Working
<1>7. ASSUME NEW p \in Processes, Stage(p) \/ Rename(p) \/ Check(p)
      PROVE  EarnedInv'
  BY <1>3, <1>4, <1>6, <1>7 DEF Stage, Rename, Check, Fail, Working
<1>8. ASSUME NEW p \in Processes, BeginVerify(p)
      PROVE  EarnedInv'
  <2>1. PICK b \in Handed :
            Advance(p, IF ValidateBundle(b) THEN Work("resolve", b, Kinds, FALSE, FALSE) ELSE Idle)
    BY <1>8 DEF BeginVerify
  <2>2. Handable(b)
    BY HandedIsHandable DEF StoreInv
  <2>3. EarnedWork(Work("resolve", b, Kinds, FALSE, FALSE))
    BY <2>2 DEF EarnedWork, Work
  <2>4. CASE Advance(p, Work("resolve", b, Kinds, FALSE, FALSE))
    BY <1>8, <2>3, <2>4, EarnedAdvance DEF BeginVerify
  <2> QED  BY <1>3, <1>8, <2>1, <2>4 DEF BeginVerify
<1>9. ASSUME NEW p \in Processes, Resolve(p)
      PROVE  EarnedInv'
  <2>1. PICK b : b = proc[p].bundle
    OBVIOUS
  <2>2. proc[p].pc \in Working /\ Handable(b)
    BY <1>2, <1>9, <2>1 DEF Resolve, Working, EarnedWork
  <2>3. \/ Fail(p)
        \/ Advance(p, Continued(proc[p], "resolve", Tail(proc[p].todo), FALSE)) /\ Quiet
        \/ VerifyEvidenceBundle(b) /\ reproduced' = reproduced \cup {b} /\ Advance(p, Idle)
    BY <1>9, <2>1 DEF Resolve
  <2>4. VerifyEvidenceBundle(b) => \E m \in Jobs : Stands(b, m)
    BY <2>2, ReplayedStands DEF Handable
  <2>5. CASE VerifyEvidenceBundle(b) /\ reproduced' = reproduced \cup {b} /\ Advance(p, Idle)
    BY <2>4, <2>5, EarnedIdle, EarnedAdvance
  <2> QED  BY <1>3, <1>4, <2>2, <2>3, <2>5 DEF Fail, Working
<1>10. ASSUME NEW p \in Processes, Decide(p)
       PROVE  EarnedInv'
  <2>1. PICK claim, all :
            /\ \E m \in Jobs, seen \in SUBSET Observed :
                  /\ all = seen \cup (IF EvidenceFromVerifiedReceipt(m) = None THEN {}
                                     ELSE {EvidenceFromVerifiedReceipt(m)})
                  /\ GateCommits(claim, all)
            /\ Advance(p, [pc |-> "committed", claim |-> claim, divergent |-> Divergent(claim, all)])
    BY <1>10 DEF Decide
  <2>2. Committed(claim) /\ (claim.irreversible => ~Divergent(claim, all))
    BY <2>1, DecidedIsEarned
  <2>3. EarnedWork([pc |-> "committed", claim |-> claim, divergent |-> Divergent(claim, all)])
    BY <2>2 DEF EarnedWork, Working
  <2> QED  BY <1>10, <2>1, <2>3, EarnedAdvance DEF Decide
<1>11. ASSUME NEW p \in Processes, Crash(p)
       PROVE  EarnedInv'
  BY <1>3, <1>11 DEF Crash, Fail
<1>12. CASE PowerLoss
  <2>1. \A p \in Processes : proc'[p] = Idle
    BY <1>12 DEF PowerLoss
  <2>2. \A p \in Processes : EarnedWork(proc'[p])
    BY <2>1, EarnedIdle
  <2>3. reproduced' = reproduced
    BY <1>12 DEF PowerLoss
  <2> QED  BY <2>2, <2>3 DEF EarnedInv, EarnedWork, Handable, Stands, Committed
<1>13. CASE Change
  BY <1>13 DEF Change, EarnedInv
<1> QED  BY <1>1, <1>5, <1>7, <1>8, <1>9, <1>10, <1>11, <1>12, <1>13 DEF StoreNext

LEMMA EarnedInvariant == StoreSpec => []EarnedInv
<1>1. StoreInit => EarnedInv
  BY DEF StoreInit, EarnedInv, Idle, Working
<1>2. StoreInv /\ EarnedInv /\ [StoreNext]_storeVars => EarnedInv'
  BY EarnedStepKeeps
<1> QED  BY <1>1, <1>2, StoreInvariant, PTL DEF StoreSpec

\* What replays is a proof that was built and counts for its claim, and what is committed
\* was earned (VerifyEvidenceBundleFromCAS, Gate.Evaluate), for any materials, evidence,
\* and number of processes.
THEOREM OnlyEarned == StoreSpec => []OnlyEarnedProof
<1>1. EarnedInv => OnlyEarnedProof
  BY DEF EarnedInv, OnlyEarnedProof, Stands, Committed
<1> QED  BY <1>1, EarnedInvariant, PTL
====
