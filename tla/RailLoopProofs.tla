--------------------------- MODULE RailLoopProofs ---------------------------
(***************************************************************************)
(* Every packet a client follows is owed to it, for any clients, packets,  *)
(* proposals and bounds, whichever action the child names in a line.       *)
(*                                                                         *)
(* A line does not say whom it is for.  What it repeats is the ids of a    *)
(* receipt: the invariant keeps, of every line under way, which question   *)
(* it answers, and of every question, which hop it was asked about.  Where *)
(* an action id is used once, the ids alone lead back to that hop.         *)
(***************************************************************************)
EXTENDS RailLoop, SequenceTheorems, TLAPS

----------------------------------------------------------------------------
\* Sequences of anything.

IsSequence(s) == Len(s) \in Nat /\ s = [i \in 1..Len(s) |-> s[i]]

Elements(s) == {s[i] : i \in 1..Len(s)}

LEMMA OverElements ==
    ASSUME NEW s, IsSequence(s), NEW S, Elements(s) \subseteq S
    PROVE  s \in Seq(S)
<1>1. s \in [1..Len(s) -> S]
  BY DEF IsSequence, Elements
<1> QED  BY <1>1 DEF IsSequence

LEMMA SeqIsSequence ==
    ASSUME NEW S, NEW s \in Seq(S)
    PROVE  IsSequence(s)
  BY DEF IsSequence

LEMMA NotEmpty ==
    ASSUME NEW s, IsSequence(s), s # <<>>
    PROVE  Len(s) \in Nat \ {0}
<1>1. s \in Seq(Elements(s))
  BY OverElements
<1> QED  BY <1>1, EmptySeq

\* Append adds one element and keeps the others.
LEMMA AppendOne ==
    ASSUME NEW s, IsSequence(s), NEW e
    PROVE  /\ IsSequence(Append(s, e)) /\ Len(Append(s, e)) = Len(s) + 1
           /\ \A i \in 1..(Len(s) + 1) : Append(s, e)[i] = IF i = Len(s) + 1 THEN e ELSE s[i]
<1> DEFINE S == Elements(s) \cup {e}
<1>1. s \in Seq(S) /\ e \in S
  BY OverElements
<1> HIDE DEF S
<1>2. Append(s, e) \in Seq(S) /\ Len(Append(s, e)) = Len(s) + 1
  BY <1>1
<1>3. \A i \in 1..(Len(s) + 1) : Append(s, e)[i] = IF i = Len(s) + 1 THEN e ELSE s[i]
  BY <1>1
<1> QED  BY <1>2, <1>3, SeqIsSequence

\* Tail takes nothing in.
LEMMA TailOf ==
    ASSUME NEW s, IsSequence(s), s # <<>>
    PROVE  /\ IsSequence(Tail(s)) /\ Elements(Tail(s)) \subseteq Elements(s)
           /\ Head(s) \in Elements(s)
<1>1. s \in Seq(Elements(s))
  BY OverElements
<1>2. Tail(s) \in Seq(Elements(s)) /\ Head(s) \in Elements(s)
  BY <1>1, HeadTailProperties
<1>3. \A i \in 1..Len(Tail(s)) : Tail(s)[i] \in Elements(s)
  BY <1>2, ElementOfSeq
<1> QED  BY <1>2, <1>3, SeqIsSequence DEF Elements

----------------------------------------------------------------------------
\* The invariant.

\* Hop j of d is not touched any more.
Settled(d, j) == j \in 1..Len(hops[d]) /\ (j < Len(hops[d]) \/ at[d] # "packet")

Received(d, j) ==
    hops[d][j].receipt # None /\ hops[d][j].receipt.action = hops[d][j].packet.action

\* r is a question of d about the receipt of its hop j.
Asked(d, j, r) ==
    /\ Settled(d, j) /\ Received(d, j)
    /\ r.obs = ReceiptToObservation(hops[d][j].receipt) /\ r.next \in Nexts[d]

Question(r) == \E d \in Clients : \E j \in 1..Len(hops[d]) : Asked(d, j, r)

Line(line) == line \in {Useless, TooLong} \/ (Question(line.of) /\ line \in Replies(line.of))

\* The line has the ids of c's last receipt, and answers a question of some client.
Answers(c, line) ==
    /\ Settled(c, Len(hops[c])) /\ Received(c, Len(hops[c]))
    /\ line.causedBy = hops[c][Len(hops[c])].receipt.action
    /\ line.receiptRef = hops[c][Len(hops[c])].receipt.action
    /\ Question(line.of) /\ line \in Replies(line.of)

\* A packet that has a route goes where the router sends its kind and the packet allows.
Sent(hop) ==
    hop.route # None => /\ hop.route.target = Policy[hop.packet.kind]
                        /\ hop.route.target \in hop.packet.targets

Owed(c, i) ==
    LET before == hops[c][i - 1]
        hop    == hops[c][i]
        r      == hop.packet.of
    IN  /\ r.obs.receipt = before.receipt.action
        /\ Unshared(c, i - 1) =>
               r.obs = ReceiptToObservation(before.receipt) /\ r.next \in Nexts[c]
        /\ hop.packet.previous = before.receipt.action
        /\ hop.packet.action # before.packet.action
        /\ Sent(hop)

HopsOf(c) ==
    /\ IsSequence(hops[c]) /\ hops[c] # <<>>
    /\ at[c] \notin {"packet", "stopped"} => Received(c, Len(hops[c]))
    /\ \A i \in 2..Len(hops[c]) : Owed(c, i)

TalkOf(c) ==
    /\ Inside(c) => Asked(c, Len(hops[c]), talk[c])
    /\ at[c] = "decided" /\ DecisionToPacket(talk[c]) # None => Answers(c, talk[c])

Shape ==
    /\ at = [c \in Clients |-> at[c]] /\ hops = [c \in Clients |-> hops[c]]
    /\ talk = [c \in Clients |-> talk[c]]

Pipes ==
    /\ IsSequence(inbox) /\ IsSequence(work) /\ IsSequence(outbox)
    /\ \A r \in Elements(inbox) \cup Elements(work) : Question(r)
    /\ \A line \in Elements(outbox) : Line(line)

Inv == Shape /\ Pipes /\ \A c \in Clients : HopsOf(c) /\ TalkOf(c)

\* What is settled stays, and no packet changes.
Steady ==
    \A d \in Clients :
        /\ Len(hops[d]) \in Nat /\ Len(hops[d])' \in Nat /\ Len(hops[d]) <= Len(hops[d])'
        /\ \A j \in 1..Len(hops[d]) :
               /\ hops'[d][j].packet = hops[d][j].packet
               /\ Settled(d, j) => Settled(d, j)' /\ hops[d][j]' = hops[d][j]

----------------------------------------------------------------------------
\* What Bridge and Binding give.

LEMMA DispatchedFields ==
    ASSUME NEW d, DecisionToPacket(d) # None
    PROVE  /\ d.verdict = "ALLOW" /\ d.next # None /\ d.next.id # d.causedBy
           /\ DecisionToPacket(d).action = d.next.id
           /\ DecisionToPacket(d).previous = d.receiptRef
           /\ DecisionToPacket(d).of = d.of
  BY DEF DecisionToPacket

LEMMA NoVerdicts == Useless.verdict = "useless" /\ TooLong.verdict = "too long"
  BY DEF Useless, TooLong

\* An ALLOW repeats the ids of the request it answers.
LEMMA AllowFields ==
    ASSUME NEW r, NEW line \in Replies(r), line.verdict = "ALLOW"
    PROVE  line.of = r /\ line.causedBy = r.obs.action /\ line.receiptRef = r.obs.receipt
<1> DEFINE about(verdict, authority, next) ==
               [observation |-> r.obs.id, causedBy |-> r.obs.action,
                receiptRef |-> r.obs.receipt, verdict |-> verdict,
                authority |-> authority, next |-> next, of |-> r]
<1>1. line \in {about("ALLOW", r.obs.id, next) : next \in Offers \cup {r.next}}
  <2>1. about("BLOCK", NoId, None).verdict = "BLOCK"
    OBVIOUS
  <2> QED  BY <2>1, NoVerdicts DEF Replies
<1>2. PICK next \in Offers \cup {r.next} : line = about("ALLOW", r.obs.id, next)
  BY <1>1
<1> QED  BY <1>2

LEMMA ObservationFields ==
    ASSUME NEW receipt
    PROVE  /\ ReceiptToObservation(receipt).action = receipt.action
           /\ ReceiptToObservation(receipt).receipt = receipt.action
  BY DEF ReceiptToObservation

----------------------------------------------------------------------------
\* Steps.

LEMMA SteadyQuestions ==
    ASSUME Steady, NEW d \in Clients, NEW j \in 1..Len(hops[d]), NEW r, Asked(d, j, r)
    PROVE  Asked(d, j, r)'
  BY DEF Steady, Asked, Received

LEMMA SteadyLines ==
    ASSUME Steady
    PROVE  /\ \A r : Question(r) => Question(r)'
           /\ \A line : Line(line) => Line(line)'
<1>1. ASSUME NEW r, Question(r) PROVE Question(r)'
  <2>1. PICK d \in Clients : \E j \in 1..Len(hops[d]) : Asked(d, j, r)
    BY <1>1 DEF Question
  <2>2. PICK j \in 1..Len(hops[d]) : Asked(d, j, r)
    BY <2>1
  <2>3. Asked(d, j, r)'
    BY <2>2, SteadyQuestions
  <2> QED  BY <2>3 DEF Question, Asked, Settled
<1> QED  BY <1>1 DEF Line

\* The pipes of a step that puts in only what may be there.
LEMMA PipesStep ==
    ASSUME Steady, Pipes,
           IsSequence(inbox'), IsSequence(work'), IsSequence(outbox'),
           \A r \in Elements(inbox') \cup Elements(work') :
               r \in Elements(inbox) \cup Elements(work) \/ Question(r)',
           \A line \in Elements(outbox') : line \in Elements(outbox) \/ Line(line)'
    PROVE  Pipes'
<1>1. /\ \A r \in Elements(inbox') \cup Elements(work') : Question(r)'
      /\ \A line \in Elements(outbox') : Line(line)'
  BY SteadyLines DEF Pipes
<1> QED  BY <1>1 DEF Pipes, IsSequence, Elements

\* Every id that is in use stays in use.
LEMMA SteadyIds ==
    ASSUME Steady, NEW c \in Clients, NEW i \in 1..Len(hops[c]), Unshared(c, i)'
    PROVE  Unshared(c, i)
<1>1. hops'[c][i].packet = hops[c][i].packet
  BY DEF Steady
<1>2. ASSUME NEW d \in Clients, NEW j \in 1..Len(hops[d]),
             hops[d][j].packet.action = hops[c][i].packet.action
      PROVE  d = c /\ j = i
  <2>1. hops'[d][j].packet = hops[d][j].packet /\ j \in 1..Len(hops'[d])
    BY DEF Steady
  <2> QED  BY <1>1, <1>2, <2>1 DEF Unshared
<1> QED  BY <1>2 DEF Unshared

LEMMA SteadyOwed ==
    ASSUME Steady, NEW c \in Clients, NEW i \in 2..Len(hops[c]), Owed(c, i), Sent(hops'[c][i])
    PROVE  Owed(c, i)'
<1>1. Len(hops[c]) \in Nat /\ i - 1 \in 1..Len(hops[c]) /\ i \in 1..Len(hops[c])
      /\ i - 1 < Len(hops[c])
  BY DEF Steady
<1>2. hops'[c][i].packet = hops[c][i].packet /\ hops'[c][i - 1] = hops[c][i - 1]
  BY <1>1 DEF Steady, Settled
<1>3. Unshared(c, i - 1)' => Unshared(c, i - 1)
  BY <1>1, SteadyIds
<1> QED  BY <1>2, <1>3 DEF Owed, Sent

\* A client that stays where it is.
LEMMA OneRests ==
    ASSUME Steady, NEW c \in Clients, HopsOf(c), TalkOf(c),
           hops'[c] = hops[c], at'[c] = at[c], talk'[c] = talk[c]
    PROVE  HopsOf(c)' /\ TalkOf(c)'
<1>1. \A i \in 2..Len(hops[c]) : Sent(hops'[c][i])
  BY DEF HopsOf, Owed
<1>2. HopsOf(c)'
  BY <1>1, SteadyOwed DEF HopsOf, IsSequence, Received
<1>3. TalkOf(c)'
  BY SteadyLines DEF TalkOf, Inside, Asked, Answers, Settled, Received
<1> QED  BY <1>2, <1>3

\* A step that leaves the clients alone.
LEMMA ClientsRest ==
    ASSUME Inv, UNCHANGED clients
    PROVE  Steady /\ Shape' /\ \A c \in Clients : HopsOf(c)' /\ TalkOf(c)'
<1> at' = at /\ hops' = hops /\ talk' = talk
  BY DEF clients
<1>1. Steady
  <2>1. \A d \in Clients : Len(hops[d]) \in Nat
    BY DEF Inv, HopsOf, IsSequence
  <2> QED  BY <2>1 DEF Steady, Settled
<1>2. Shape'
  BY DEF Inv, Shape
<1> QED  BY <1>1, <1>2, OneRests DEF Inv

\* A client moves on from its packet, with what it has to say.
LEMMA ClientMoves ==
    ASSUME Inv, NEW c \in Clients, NEW step, NEW said,
           at[c] \notin {"packet", "stopped"}, step # "packet",
           at' = [at EXCEPT ![c] = step], UNCHANGED hops,
           talk' = [talk EXCEPT ![c] = said],
           step \in {"lock", "write", "rest", "scan", "reap"} => Asked(c, Len(hops[c]), said),
           step = "decided" /\ DecisionToPacket(said) # None => Answers(c, said)
    PROVE  Steady /\ Shape' /\ \A e \in Clients : HopsOf(e)' /\ TalkOf(e)'
<1>1. /\ Shape'
      /\ \A e \in Clients : at'[e] = (IF e = c THEN step ELSE at[e])
                            /\ talk'[e] = (IF e = c THEN said ELSE talk[e])
  BY DEF Inv, Shape
<1>2. \A e \in Clients : Len(hops[e]) \in Nat \ {0}
  BY NotEmpty DEF Inv, HopsOf
<1>3. Steady
  BY <1>1, <1>2 DEF Steady, Settled
<1>4. ASSUME NEW e \in Clients PROVE HopsOf(e)'
  <2>1. hops' = hops /\ HopsOf(e)
    BY DEF Inv
  <2>2. at'[e] \notin {"packet", "stopped"} => Received(e, Len(hops[e]))'
    <3>1. at'[e] \notin {"packet", "stopped"} => at[e] \notin {"packet", "stopped"}
      BY <1>1
    <3>2. Received(e, Len(hops[e])) => Received(e, Len(hops[e]))'
      BY <2>1 DEF Received
    <3> QED  BY <2>1, <3>1, <3>2 DEF HopsOf
  <2>3. \A i \in 2..Len(hops[e]) : Owed(e, i) => Owed(e, i)'
    BY <1>3, <2>1, SteadyOwed DEF Owed
  <2> QED  BY <2>1, <2>2, <2>3 DEF HopsOf, IsSequence
<1>5. ASSUME NEW e \in Clients PROVE TalkOf(e)'
  <2>1. \A r : Asked(e, Len(hops[e]), r) => Asked(e, Len(hops[e]), r)'
    BY <1>2, <1>3, SteadyQuestions
  <2>2. CASE e = c
    <3>1. Answers(c, said) => Answers(c, said)'
      BY <1>1, <1>3, SteadyLines DEF Answers, Settled, Received
    <3> QED  BY <1>1, <2>1, <2>2, <3>1 DEF TalkOf, Inside
  <2>3. CASE e # c
    BY <1>1, <1>3, <2>3, OneRests DEF Inv
  <2> QED  BY <2>2, <2>3
<1> QED  BY <1>1, <1>3, <1>4, <1>5

----------------------------------------------------------------------------
\* The actions of the client.

\* A question that is asked now.
LEMMA AsksNow ==
    ASSUME Inv, NEW c \in Clients, NEW next \in Nexts[c], MayAsk(c)
    PROVE  /\ at[c] \notin {"packet", "stopped"}
           /\ Asked(c, Len(hops[c]), Request(c, next))
<1>1. at[c] \in {"receipt", "failed"} /\ HopsOf(c) /\ Len(hops[c]) \in Nat \ {0}
  BY NotEmpty DEF Inv, MayAsk, HopsOf
<1>2. Settled(c, Len(hops[c])) /\ Received(c, Len(hops[c]))
  BY <1>1 DEF Settled, HopsOf
<1> QED  BY <1>1, <1>2 DEF Asked, Request, Hop, MayAsk

\* An ALLOW that repeats the ids of a question of c.
LEMMA AnswersNow ==
    ASSUME NEW c \in Clients, NEW r, Asked(c, Len(hops[c]), r), NEW line,
           line.causedBy = r.obs.action, line.receiptRef = r.obs.receipt,
           Question(line.of), line \in Replies(line.of)
    PROVE  Answers(c, line)
  BY ObservationFields DEF Asked, Answers

\* So does a line that binds to it.
LEMMA BoundLine ==
    ASSUME NEW c \in Clients, NEW r, Asked(c, Len(hops[c]), r),
           NEW line, Line(line), Binds(r, line), DecisionToPacket(line) # None
    PROVE  Answers(c, line)
<1>1. line.verdict = "ALLOW"
  BY DispatchedFields
<1>2. Question(line.of) /\ line \in Replies(line.of)
  BY <1>1, NoVerdicts DEF Line
<1> QED  BY <1>2, AnswersNow DEF Binds

LEMMA OneShotStep ==
    ASSUME Inv, NEW c \in Clients, NEW next \in Nexts[c], OneShot(c, next)
    PROVE  Inv'
<1> DEFINE r == Request(c, next)
<1>1. /\ at[c] \notin {"packet", "stopped"} /\ Asked(c, Len(hops[c]), r)
  BY AsksNow DEF OneShot
<1>2. PICK line \in Replies(r) :
          \/ Binds(r, line) /\ Goto(c, "decided") /\ talk' = [talk EXCEPT ![c] = line]
          \/ Goto(c, "failed") /\ talk' = [talk EXCEPT ![c] = None]
  BY DEF OneShot
<1>3. UNCHANGED hops /\ UNCHANGED pipes
  BY DEF OneShot
<1> HIDE DEF r
<1>4. /\ Steady /\ Shape' /\ \A e \in Clients : HopsOf(e)' /\ TalkOf(e)'
  <2>1. CASE Goto(c, "failed") /\ talk' = [talk EXCEPT ![c] = None]
    BY <1>1, <1>3, <2>1, ClientMoves DEF Goto
  <2>2. CASE Goto(c, "decided") /\ talk' = [talk EXCEPT ![c] = line]
    <3>1. DecisionToPacket(line) # None =>
              line.of = r /\ line.causedBy = r.obs.action /\ line.receiptRef = r.obs.receipt
      BY DispatchedFields, AllowFields
    <3>2. DecisionToPacket(line) # None => Answers(c, line)
      BY <1>1, <3>1, AnswersNow DEF Question, Asked, Settled
    <3> QED  BY <1>1, <1>3, <2>2, <3>2, ClientMoves DEF Goto
  <2> QED  BY <1>2, <2>1, <2>2
<1>5. Pipes'
  BY <1>3, <1>4, PipesStep DEF Inv, Pipes, pipes
<1> QED  BY <1>4, <1>5 DEF Inv

LEMMA EvaluateStep ==
    ASSUME Inv, NEW c \in Clients, NEW next \in Nexts[c], Evaluate(c, next)
    PROVE  Inv'
<1>1. /\ at[c] \notin {"packet", "stopped"} /\ Asked(c, Len(hops[c]), Request(c, next))
  BY AsksNow DEF Evaluate
<1>2. /\ Steady /\ Shape' /\ \A e \in Clients : HopsOf(e)' /\ TalkOf(e)'
  BY <1>1, ClientMoves DEF Evaluate, Goto
<1>3. Pipes'
  BY <1>2, PipesStep DEF Inv, Pipes, pipes, Evaluate
<1> QED  BY <1>2, <1>3 DEF Inv

\* Route goes where the packet allows, and the receipt is that packet's.
LEMMA ExecuteStep ==
    ASSUME Inv, NEW c \in Clients, Execute(c)
    PROVE  Inv'
<1> DEFINE n == Len(hops[c])
           packet == Hop(c).packet
           route == Route(packet)
<1>1. /\ n \in Nat \ {0} /\ n \in 1..n /\ HopsOf(c) /\ at[c] = "packet"
      /\ packet = hops[c][n].packet
  BY NotEmpty DEF Inv, HopsOf, Execute, Hop
<1>2. UNCHANGED <<talk, pipes>>
  BY DEF Execute
<1>3. PICK result \in Results :
       LET receipt == MakeSuccessReceipt(packet, route, result)
       IN  IF route # None /\ receipt # None /\ Verify(packet, route, result, receipt)
           THEN /\ Goto(c, "receipt")
                /\ hops' = [hops EXCEPT ![c][Len(hops[c])] =
                               [packet |-> packet, route |-> route, receipt |-> receipt]]
           ELSE Goto(c, "stopped") /\ UNCHANGED hops
  BY DEF Execute
<1> DEFINE receipt == MakeSuccessReceipt(packet, route, result)
<1>4. ASSUME NEW step, step \in {"receipt", "stopped"}, Goto(c, step),
             NEW seq, hops' = [hops EXCEPT ![c] = seq],
             IsSequence(seq), Len(seq) = n,
             \A i \in 1..n : i # n => seq[i] = hops[c][i],
             seq[n].packet = packet,
             n > 1 => Sent(seq[n]),
             step = "receipt" => seq[n].receipt # None /\ seq[n].receipt.action = packet.action
      PROVE  Inv'
  <2>1. /\ Shape'
        /\ \A e \in Clients : /\ hops'[e] = (IF e = c THEN seq ELSE hops[e])
                              /\ at'[e] = (IF e = c THEN step ELSE at[e]) /\ talk'[e] = talk[e]
    BY <1>2, <1>4 DEF Inv, Shape, Goto
  <2>2. \A e \in Clients : Len(hops[e]) \in Nat \ {0} /\ Len(hops'[e]) = Len(hops[e])
    BY <2>1, <1>4, NotEmpty DEF Inv, HopsOf
  <2>3. Steady
    BY <1>1, <1>4, <2>1, <2>2 DEF Steady, Settled
  <2>4. ASSUME NEW e \in Clients, e # c PROVE HopsOf(e)' /\ TalkOf(e)'
    BY <2>1, <2>3, <2>4, OneRests DEF Inv
  <2>5. hops'[c] = seq /\ at'[c] = step
    BY <2>1
  <2>6. HopsOf(c)'
    <3>1. IsSequence(seq) /\ seq # <<>>
      BY <1>1, <1>4
    <3>3. step \notin {"packet", "stopped"} => Received(c, n)'
      BY <1>1, <1>4, <2>5 DEF Received
    <3>4. ASSUME NEW i \in 2..n PROVE Owed(c, i)'
      <4>1. Owed(c, i) /\ i \in 1..n
        BY <1>1 DEF HopsOf
      <4>2. Sent(seq[i])
        BY <1>1, <1>4, <4>1 DEF Owed
      <4> QED  BY <2>3, <2>5, <4>1, <4>2, SteadyOwed
    <3> QED  BY <1>4, <2>5, <3>1, <3>3, <3>4 DEF HopsOf, IsSequence
  <2>7. TalkOf(c)'
    BY <1>4, <2>5 DEF TalkOf, Inside
  <2>8. Pipes'
    BY <1>2, <2>3, PipesStep DEF Inv, Pipes, pipes
  <2> QED  BY <2>1, <2>4, <2>6, <2>7, <2>8 DEF Inv
<1>5. route # None => route.target = Policy[packet.kind] /\ route.target \in packet.targets
  BY DEF Route
<1>6. receipt # None => receipt.action = packet.action
  BY DEF MakeSuccessReceipt
<1>7. CASE Goto(c, "stopped") /\ UNCHANGED hops
  <2>1. hops' = [hops EXCEPT ![c] = hops[c]]
    BY <1>7 DEF Inv, Shape
  <2>2. n > 1 => Sent(hops[c][n])
    <3> HIDE DEF packet
    <3> QED  BY <1>1 DEF HopsOf, Owed
  <2> QED  BY <1>1, <1>4, <1>7, <2>1, <2>2 DEF HopsOf
<1>8. CASE /\ route # None /\ receipt # None /\ Goto(c, "receipt")
           /\ hops' = [hops EXCEPT ![c][Len(hops[c])] =
                          [packet |-> packet, route |-> route, receipt |-> receipt]]
  <2> DEFINE e == [packet |-> packet, route |-> route, receipt |-> receipt]
             seq == [hops[c] EXCEPT ![n] = e]
  <2>1. hops' = [hops EXCEPT ![c] = seq]
    BY <1>8
  <2>2. /\ IsSequence(seq) /\ Len(seq) = n
        /\ \A i \in 1..n : seq[i] = IF i = n THEN e ELSE hops[c][i]
    <3> DEFINE S == Elements(hops[c]) \cup {e}
    <3> HIDE DEF e
    <3>1. hops[c] \in Seq(S) /\ e \in S
      BY <1>1, OverElements DEF HopsOf
    <3> HIDE DEF S
    <3>2. seq \in Seq(S) /\ Len(seq) = n
      BY <1>1, <3>1
    <3>3. \A i \in 1..n : seq[i] = IF i = n THEN e ELSE hops[c][i]
      BY <1>1, <3>1
    <3> QED  BY <3>2, <3>3, SeqIsSequence
  <2>3. e.packet = packet /\ e.route = route /\ e.receipt = receipt
    OBVIOUS
  <2> HIDE DEF seq, e, packet, route, receipt
  <2>4. Sent(e)
    BY <1>5, <2>3 DEF Sent
  <2> QED  BY <1>1, <1>4, <1>6, <1>8, <2>1, <2>2, <2>3, <2>4
<1> QED  BY <1>3, <1>7, <1>8

----------------------------------------------------------------------------
\* What is followed.

LEMMA FollowStep ==
    ASSUME Inv, NEW c \in Clients, Follow(c)
    PROVE  Inv'
<1> DEFINE n == Len(hops[c])
           p == DecisionToPacket(talk[c])
<1>1. /\ n \in Nat \ {0} /\ n \in 1..n /\ HopsOf(c) /\ TalkOf(c) /\ IsSequence(hops[c])
      /\ at[c] = "decided" /\ talk' = [talk EXCEPT ![c] = None]
      /\ UNCHANGED pipes
  BY NotEmpty DEF Inv, HopsOf, Follow
<1>2. CASE p = None
  <2>1. at' = [at EXCEPT ![c] = "stopped"] /\ UNCHANGED hops
    BY <1>2 DEF Follow, Goto
  <2>2. /\ Steady /\ Shape' /\ \A e \in Clients : HopsOf(e)' /\ TalkOf(e)'
    BY <1>1, <2>1, ClientMoves
  <2>3. Pipes'
    BY <1>1, <2>2, PipesStep DEF Inv, Pipes, pipes
  <2> QED  BY <2>2, <2>3 DEF Inv
<1>3. CASE p # None
  <2> DEFINE hop == [packet |-> p, route |-> None, receipt |-> None]
             seq == Append(hops[c], hop)
             r == talk[c].of
  <2>1. /\ at' = [at EXCEPT ![c] = "packet"] /\ hops' = [hops EXCEPT ![c] = seq]
    BY <1>3 DEF Follow, Goto
  <2>2. Answers(c, talk[c])
    BY <1>1, <1>3 DEF TalkOf
  <2>3. /\ p.of = r /\ p.previous = hops[c][n].receipt.action
        /\ p.action # hops[c][n].packet.action
        /\ r.obs.action = hops[c][n].packet.action
        /\ r.obs.receipt = hops[c][n].receipt.action /\ Question(r)
    <3>1. /\ talk[c].verdict = "ALLOW" /\ p.action # talk[c].causedBy
          /\ p.previous = talk[c].receiptRef /\ p.of = r
      BY <1>3, DispatchedFields
    <3> HIDE DEF p
    <3>2. r.obs.action = talk[c].causedBy /\ r.obs.receipt = talk[c].receiptRef
      BY <2>2, <3>1, AllowFields DEF Answers
    <3> QED  BY <2>2, <3>1, <3>2 DEF Answers, Received
  <2>4. hop.packet = p /\ hop.route = None
    OBVIOUS
  <2> HIDE DEF p, hop, r
  <2>5. /\ IsSequence(seq) /\ Len(seq) = n + 1 /\ seq[n + 1] = hop
        /\ \A i \in 1..n : seq[i] = hops[c][i]
    BY <1>1, AppendOne
  <2> HIDE DEF seq
  <2>6. /\ Shape'
        /\ \A e \in Clients : /\ hops'[e] = (IF e = c THEN seq ELSE hops[e])
                              /\ at'[e] = (IF e = c THEN "packet" ELSE at[e])
                              /\ talk'[e] = (IF e = c THEN None ELSE talk[e])
    BY <1>1, <2>1 DEF Inv, Shape
  <2>7. \A e \in Clients : Len(hops[e]) \in Nat \ {0}
    BY NotEmpty DEF Inv, HopsOf
  <2>8. Steady
    <3>1. ASSUME NEW d \in Clients
          PROVE  /\ Len(hops[d]) \in Nat /\ Len(hops'[d]) \in Nat /\ Len(hops[d]) <= Len(hops'[d])
                 /\ \A j \in 1..Len(hops[d]) : hops'[d][j] = hops[d][j]
      BY <1>1, <2>5, <2>6, <2>7
    <3> QED  BY <1>1, <2>5, <2>6, <3>1 DEF Steady, Settled
  <2>9. ASSUME NEW e \in Clients, e # c PROVE HopsOf(e)' /\ TalkOf(e)'
    BY <2>6, <2>8, <2>9, OneRests DEF Inv
  <2>10. hops'[c] = seq /\ at'[c] = "packet"
    BY <2>6
  <2>11. HopsOf(c)'
    <3>1. seq # <<>>
      BY <1>1, <2>5
    <3>2. ASSUME NEW i \in 2..(n + 1) PROVE Owed(c, i)'
      <4>1. CASE i \in 2..n
        <5>1. Owed(c, i) /\ seq[i] = hops[c][i] /\ Sent(hops[c][i])
          BY <1>1, <2>5, <4>1 DEF HopsOf, Owed
        <5> QED  BY <2>8, <2>10, <4>1, <5>1, SteadyOwed
      <4>2. CASE i = n + 1
        <5>1. seq[i] = hop /\ i - 1 = n /\ seq[n] = hops[c][n]
          BY <1>1, <2>5, <4>2
        <5>2. ASSUME Unshared(c, i - 1)'
              PROVE  r.obs = ReceiptToObservation(hops[c][n].receipt) /\ r.next \in Nexts[c]
          <6>1. PICK d \in Clients : \E j \in 1..Len(hops[d]) : Asked(d, j, r)
            BY <2>3 DEF Question
          <6>2. PICK j \in 1..Len(hops[d]) : Asked(d, j, r)
            BY <6>1
          <6>3. hops[d][j].packet.action = hops[c][n].packet.action
            BY <2>3, <6>2, ObservationFields DEF Asked, Received
          <6>4. Unshared(c, i - 1)
            BY <1>1, <2>8, <5>1, <5>2, SteadyIds
          <6>5. d = c /\ j = n
            BY <5>1, <6>3, <6>4 DEF Unshared
          <6> QED  BY <6>2, <6>5 DEF Asked
        <5>3. Sent(seq[i])
          BY <2>4, <5>1 DEF Sent
        <5> HIDE DEF n
        <5> QED  BY <2>3, <2>4, <2>10, <5>1, <5>2, <5>3 DEF Owed, Sent
      <4> QED  BY <1>1, <4>1, <4>2
    <3> QED  BY <2>5, <2>10, <3>1, <3>2 DEF HopsOf, IsSequence
  <2>12. TalkOf(c)'
    BY <2>10 DEF TalkOf, Inside
  <2>13. Pipes'
    BY <1>1, <2>8, PipesStep DEF Inv, Pipes, pipes
  <2> QED  BY <2>6, <2>9, <2>11, <2>12, <2>13 DEF Inv
<1> QED  BY <1>2, <1>3

----------------------------------------------------------------------------
\* The actions of PersistentProcess and of the child.

LEMMA NoElements ==
    /\ IsSequence(<<>>) /\ Elements(<<>>) = {}
    /\ \A e : IsSequence(<<e>>) /\ Elements(<<e>>) = {e}
  BY DEF IsSequence, Elements

\* A caller with mu goes on or fails; what it has asked stays asked.
LEMMA CallerStep ==
    ASSUME Inv, NEW c \in Clients, Inside(c), UNCHANGED hops,
           \/ Fail(c)
           \/ \E step \in {"write", "rest", "scan", "reap"} : Goto(c, step) /\ UNCHANGED talk
    PROVE  Steady /\ Shape' /\ \A e \in Clients : HopsOf(e)' /\ TalkOf(e)'
<1>1. at[c] \notin {"packet", "stopped"} /\ Asked(c, Len(hops[c]), talk[c])
  BY DEF Inv, TalkOf, Inside
<1>2. CASE Fail(c)
  BY <1>1, <1>2, ClientMoves DEF Fail, Goto
<1>3. CASE \E step \in {"write", "rest", "scan", "reap"} : Goto(c, step) /\ UNCHANGED talk
  <2>1. PICK step \in {"write", "rest", "scan", "reap"} : Goto(c, step) /\ UNCHANGED talk
    BY <1>3
  <2>2. talk' = [talk EXCEPT ![c] = talk[c]]
    BY <2>1 DEF Inv, Shape
  <2> QED  BY <1>1, <2>1, <2>2, ClientMoves DEF Goto
<1> QED  BY <1>2, <1>3

LEMMA LockStep ==
    ASSUME Inv, NEW c \in Clients, Lock(c) PROVE Inv'
<1>1. Steady /\ Shape' /\ \A e \in Clients : HopsOf(e)' /\ TalkOf(e)'
  BY CallerStep DEF Lock, Inside
<1>2. Pipes'
  BY <1>1, PipesStep DEF Inv, Pipes, pipes, Lock
<1> QED  BY <1>1, <1>2 DEF Inv

LEMMA WriteStep ==
    ASSUME Inv, NEW c \in Clients, Write(c) PROVE Inv'
<1>1. Inside(c) /\ UNCHANGED <<hops, work, outbox>>
  BY DEF Write, Inside
<1>2. Steady /\ Shape' /\ \A e \in Clients : HopsOf(e)' /\ TalkOf(e)'
  BY <1>1, CallerStep DEF Write, Leave, Keep
<1>3. CASE inbox' = <<talk[c]>> /\ \E step \in {"rest", "scan"} : Keep(c, step)
  <2>1. talk' = talk /\ at'[c] \in {"rest", "scan"} /\ TalkOf(c)'
    BY <1>2, <1>3 DEF Keep, Goto, Inv, Shape
  <2>2. Asked(c, Len(hops[c]), talk[c])'
    BY <2>1 DEF TalkOf, Inside
  <2>3. Question(talk[c])'
    BY <2>2 DEF Question, Asked, Settled
  <2>4. \A r \in Elements(inbox') : Question(r)'
    BY <1>3, <2>1, <2>3, NoElements DEF Question, Asked
  <2>5. IsSequence(inbox') /\ Elements(work') = Elements(work)
    BY <1>1, <1>3, NoElements
  <2>6. Pipes'
    BY <1>1, <1>2, <2>4, <2>5, PipesStep DEF Inv, Pipes
  <2> QED  BY <1>2, <2>6 DEF Inv
<1>4. CASE UNCHANGED inbox
  <2>1. Pipes'
    BY <1>1, <1>2, <1>4, PipesStep DEF Inv, Pipes
  <2> QED  BY <1>2, <2>1 DEF Inv
<1> QED  BY <1>3, <1>4 DEF Write

LEMMA ScanStep ==
    ASSUME Inv, NEW c \in Clients, Scan(c) PROVE Inv'
<1>1. /\ Inside(c) /\ at[c] \notin {"packet", "stopped"} /\ UNCHANGED <<hops, inbox, work>>
      /\ Asked(c, Len(hops[c]), talk[c])
  BY DEF Scan, Inside, Inv, TalkOf
<1>2. CASE outbox # <<>> /\ outbox' = Tail(outbox)
  <2>1. /\ IsSequence(outbox') /\ Elements(outbox') \subseteq Elements(outbox)
        /\ Line(Head(outbox))
    BY <1>2, TailOf DEF Inv, Pipes
  <2>2. Steady /\ Shape' /\ \A e \in Clients : HopsOf(e)' /\ TalkOf(e)'
    <3>1. CASE Binds(talk[c], Head(outbox)) /\ Goto(c, "decided")
               /\ talk' = [talk EXCEPT ![c] = Head(outbox)]
      <4>1. DecisionToPacket(Head(outbox)) # None =>
                Answers(c, Head(outbox))
        BY <1>1, <2>1, <3>1, BoundLine
      <4> QED  BY <1>1, <3>1, <4>1, ClientMoves DEF Goto
    <3>2. CASE Fail(c)
      BY <1>1, <3>2, CallerStep
    <3> QED  BY <1>2, <3>1, <3>2 DEF Scan, Leave
  <2>3. Pipes'
    BY <1>1, <2>1, <2>2, PipesStep DEF Inv, Pipes
  <2> QED  BY <2>2, <2>3 DEF Inv
<1>3. CASE UNCHANGED outbox /\ Fail(c)
  <2>1. Steady /\ Shape' /\ \A e \in Clients : HopsOf(e)' /\ TalkOf(e)'
    BY <1>1, <1>3, CallerStep
  <2>2. Pipes'
    BY <1>1, <1>3, <2>1, PipesStep DEF Inv, Pipes
  <2> QED  BY <2>1, <2>2 DEF Inv
<1> QED  BY <1>2, <1>3 DEF Scan, Leave

\* What only empties pipes.
LEMMA Emptying ==
    ASSUME Inv, Steady, inbox' \in {inbox, <<>>}, work' \in {work, <<>>},
           outbox' \in {outbox, <<>>}
    PROVE  Pipes'
<1>1. /\ IsSequence(inbox') /\ Elements(inbox') \subseteq Elements(inbox)
      /\ IsSequence(work') /\ Elements(work') \subseteq Elements(work)
      /\ IsSequence(outbox') /\ Elements(outbox') \subseteq Elements(outbox)
  BY NoElements DEF Inv, Pipes
<1> QED  BY <1>1, PipesStep DEF Inv

LEMMA DeadlineStep ==
    ASSUME Inv, NEW c \in Clients, Deadline(c) PROVE Inv'
<1>1. Steady /\ Shape' /\ \A e \in Clients : HopsOf(e)' /\ TalkOf(e)'
  BY CallerStep DEF Deadline, Inside, Keep
<1> QED  BY <1>1, Emptying DEF Inv, Deadline, Ends

LEMMA ReapStep ==
    ASSUME Inv, NEW c \in Clients, Reap(c) PROVE Inv'
<1>1. Steady /\ Shape' /\ \A e \in Clients : HopsOf(e)' /\ TalkOf(e)'
  BY CallerStep DEF Reap, Inside, Leave
<1> QED  BY <1>1, Emptying DEF Inv, Reap

\* Start and Close, a child that hangs or ends, and steps that change nothing.
LEMMA OthersStep ==
    ASSUME Inv, UNCHANGED clients, inbox' \in {inbox, <<>>}, work' \in {work, <<>>},
           outbox' \in {outbox, <<>>}
    PROVE  Inv'
  BY ClientsRest, Emptying DEF Inv

LEMMA ReadStep ==
    ASSUME Inv, Read PROVE Inv'
<1>1. Steady /\ Shape' /\ \A e \in Clients : HopsOf(e)' /\ TalkOf(e)'
  BY ClientsRest DEF Read, Child
<1>2. /\ inbox # <<>> /\ inbox' = Tail(inbox) /\ work' = Append(work, Head(inbox))
      /\ UNCHANGED outbox /\ IsSequence(inbox) /\ IsSequence(work) /\ IsSequence(outbox)
  BY DEF Read, Inv, Pipes
<1>3. /\ IsSequence(inbox') /\ Elements(inbox') \subseteq Elements(inbox)
      /\ Head(inbox) \in Elements(inbox)
  BY <1>2, TailOf
<1>4. IsSequence(work') /\ Elements(work') \subseteq Elements(work) \cup {Head(inbox)}
  BY <1>2, AppendOne DEF Elements
<1>5. Pipes'
  BY <1>1, <1>2, <1>3, <1>4, PipesStep DEF Inv
<1> QED  BY <1>1, <1>5 DEF Inv

LEMMA SayStep ==
    ASSUME Inv, Say PROVE Inv'
<1>1. Steady /\ Shape' /\ \A e \in Clients : HopsOf(e)' /\ TalkOf(e)'
  BY ClientsRest DEF Say, Child
<1>2. /\ IsSequence(work) /\ IsSequence(outbox) /\ IsSequence(inbox) /\ work # <<>> /\ UNCHANGED inbox
  BY DEF Say, Inv, Pipes
<1>3. /\ IsSequence(Tail(work)) /\ Elements(Tail(work)) \subseteq Elements(work)
      /\ Question(Head(work))
  BY <1>2, TailOf DEF Inv, Pipes
<1>4. IsSequence(work') /\ Elements(work') \subseteq Elements(work)
  BY <1>2, <1>3 DEF Say
<1>5. PICK line \in Replies(Head(work)) : outbox' = Append(outbox, line)
  BY DEF Say
<1>6. Line(line)
  BY <1>3 DEF Line, Replies
<1>7. Line(line)'
  BY <1>1, <1>6, SteadyLines
<1>8. IsSequence(outbox') /\ Elements(outbox') \subseteq Elements(outbox) \cup {line}
  BY <1>2, <1>5, AppendOne DEF Elements
<1>9. Pipes'
  BY <1>1, <1>2, <1>4, <1>7, <1>8, PipesStep DEF Inv
<1> QED  BY <1>1, <1>9 DEF Inv

----------------------------------------------------------------------------

LEMMA InitInv == Init => Inv
<1> SUFFICES ASSUME Init PROVE Inv
  OBVIOUS
<1>1. /\ Shape /\ Pipes
  BY NoElements DEF Init, Shape, Pipes
<1>2. PICK first \in Firsts :
          hops = [c \in Clients |-> <<[packet |-> first[c], route |-> None, receipt |-> None]>>]
  BY DEF Init
<1>3. ASSUME NEW c \in Clients PROVE HopsOf(c) /\ TalkOf(c)
  <2>1. hops[c] = <<[packet |-> first[c], route |-> None, receipt |-> None]>> /\ at[c] = "packet"
    BY <1>2 DEF Init
  <2>2. hops[c] # <<>> /\ Len(hops[c]) = 1 /\ IsSequence(hops[c])
    BY <2>1, NoElements
  <2>3. 2..1 = {}
    OBVIOUS
  <2> QED  BY <2>1, <2>2, <2>3 DEF HopsOf, TalkOf, Inside
<1> QED  BY <1>1, <1>3 DEF Inv

LEMMA StepInv == Inv /\ [Next]_vars => Inv'
<1> SUFFICES ASSUME Inv, [Next]_vars PROVE Inv'
  OBVIOUS
<1>1. CASE UNCHANGED vars
  BY <1>1, OthersStep DEF vars, clients, pipes
<1>2. ASSUME NEW c \in Clients, NEW n \in Nexts[c], OneShot(c, n) \/ Evaluate(c, n) PROVE Inv'
  BY <1>2, OneShotStep, EvaluateStep
<1>3. ASSUME NEW c \in Clients,
             \/ Execute(c) \/ Follow(c)
             \/ Lock(c) \/ Write(c) \/ Scan(c) \/ Deadline(c) \/ Reap(c)
      PROVE  Inv'
  BY <1>3, ExecuteStep, FollowStep, LockStep, WriteStep, ScanStep, DeadlineStep, ReapStep
<1>4. ASSUME NEW k \in Closers, CallClose(k) \/ LockClose(k) \/ CloseWait(k) PROVE Inv'
  BY <1>4, OthersStep DEF CallClose, LockClose, CloseWait, clients, pipes
<1>5. CASE Start \/ Hang \/ Exit
  BY <1>5, OthersStep DEF Start, Hang, Exit, Ends, Child, clients, pipes
<1>6. CASE Read \/ Say
  BY <1>6, ReadStep, SayStep
<1> QED  BY <1>1, <1>2, <1>3, <1>4, <1>5, <1>6 DEF Next

\* Every packet after the first comes of an answer to a question about an action with
\* the id of the packet before it - this client's question about that very receipt,
\* where the id is used once - follows that receipt under another id, and goes where
\* the router sends its kind and the packet allows (PersistentProcess.Evaluate,
\* validateBinding, DecisionToPacket, Router.Route).
THEOREM HopsAreAnswers == Spec => []HopsAreOwed
<1>1. Inv => HopsAreOwed
  BY DEF Inv, HopsOf, Owed, Sent, HopsAreOwed
<1> QED  BY InitInv, StepInv, <1>1, PTL DEF Spec
=============================================================================
