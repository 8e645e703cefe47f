------------------------------ MODULE RailLoop ------------------------------
(***************************************************************************)
(* The rail loop: a client routes a packet (metro.Router), executes it,    *)
(* turns the receipt into an observation (lifetrabridge), asks a Lifetra   *)
(* station what to do next, and goes on with the packet that an ALLOW      *)
(* carries.  The station is a child process behind one mutex               *)
(* (PersistentProcess), which serves all clients one request and one line  *)
(* at a time, or a process of its own for each request (Process).          *)
(*                                                                         *)
(* The child may allow another action than the proposed one, print a line  *)
(* too many or too long, stop reading, hang or die; deadlines pass; Close  *)
(* is called beside all that.  Nothing in a line says which request it     *)
(* answers but the ids of a receipt, which the child repeats.              *)
(***************************************************************************)
EXTENDS DecisionPlane

CONSTANTS
    Clients,    \* goroutines that share the station
    Closers,    \* goroutines that call Close
    Firsts,     \* functions from clients to the packets they begin with
    Nexts,      \* Nexts[c]: the next actions c may propose
    Offers,     \* next actions the child may allow instead of the proposed one
    Long,       \* proposed actions whose requests the child's stdin cannot hold
    Policy,     \* Router.Policy: kinds to targets
    Results,    \* what executors return
    MaxHops,    \* bound: packets of one client
    MaxLines,   \* lines that the child's stdout can hold
    MaxAhead,   \* bound: requests the child has read and not answered
    MaxNoise    \* bound: lines the child prints too many

ASSUME RailAssumption ==
    /\ MaxHops \in Nat \ {0} /\ MaxLines \in Nat \ {0}
    /\ MaxAhead \in Nat \ {0} /\ MaxNoise \in Nat

VARIABLES
    mu,         \* who holds PersistentProcess.mu, or Nobody
    child,      \* "none" (cmd is nil), "alive", "hung", "dead"
    stdin,      \* the child's stdin is open
    closed, waited,
    broken,     \* the scanner met a line longer than its buffer
    inbox,      \* requests in the child's stdin
    work,       \* requests the child has read
    outbox,     \* lines in the child's stdout
    noise,      \* lines too many so far
    at,         \* per client: its step
    hops,       \* per client: its packets, with their routes and receipts
    talk,       \* per client: the request it asks, or the decision it got
    closing     \* per closer: "idle", "lock", "wait", "done"

process == <<mu, child, stdin, closed, waited, broken>>
pipes == <<inbox, work, outbox, noise>>
clients == <<at, hops, talk>>
vars == <<process, pipes, clients, closing>>

Nobody == "nobody"

----------------------------------------------------------------------------
\* Metro and the bridge.

\* Router.Route
Route(packet) ==
    IF packet.kind \in DOMAIN Policy /\ Policy[packet.kind] \in packet.targets
    THEN [routeId |-> packet.action, action |-> packet.action, target |-> Policy[packet.kind]]
    ELSE None

\* The observation and receipt ids are the action's with a prefix.
ReceiptToObservation(receipt) ==
    [id |-> receipt.action, action |-> receipt.action, receipt |-> receipt.action,
     status |-> receipt.status, hash |-> HashJSON(receipt)]

\* StationRequest.Validate
ValidRequest(request) ==
    /\ request.obs.action # NoId
    /\ request.next.id # NoId /\ request.next.id # request.obs.action
    /\ request.next.targets # {}

\* DecisionToPacket; None is its error (history: of, the request that was answered).
DecisionToPacket(d) ==
    IF /\ d.verdict = "ALLOW" /\ d.authority # NoId /\ d.next # None
       /\ d.next.id # NoId /\ d.next.targets # {} /\ d.next.id # d.causedBy
    THEN [action |-> d.next.id, agent |-> "lifetra-control", kind |-> d.next.kind,
          inputs |-> d.next.inputs, targets |-> d.next.targets, sideEffect |-> FALSE,
          previous |-> d.receiptRef, context |-> <<d.observation, d.authority>>, of |-> d.of]
    ELSE None

\* Mutant: a decision is taken for the answer because it is the line that came.
UnboundDecision(request, line) ==
    line.verdict \in {"ALLOW", "BLOCK"} /\ (line.verdict = "ALLOW" => DecisionToPacket(line) # None)

\* validateBinding, of a line that is a decision.
Binds(request, line) ==
    /\ line.observation = request.obs.id /\ line.causedBy = request.obs.action
    /\ line.receiptRef = request.obs.receipt
    /\ \/ line.verdict = "ALLOW" /\ DecisionToPacket(line) # None
       \/ line.verdict \in {"BLOCK", "REQUIRE_APPROVAL"} /\ line.authority = NoId /\ line.next = None

\* A line that is an error of the station, nothing that can be decoded, or a decision
\* that validateBinding refuses whatever was asked.
Useless == [verdict |-> "useless", observation |-> NoId, causedBy |-> NoId, receiptRef |-> NoId]

\* A line longer than the scanner's buffer, which ends the scanner; what fits into the
\* buffer is no decision.
TooLong == [Useless EXCEPT !.verdict = "too long"]

\* What the child may print about a request: the ids of the receipt are the request's,
\* the action that an ALLOW names is any.
Replies(request) ==
    LET about(verdict, authority, next) ==
            [observation |-> request.obs.id, causedBy |-> request.obs.action,
             receiptRef |-> request.obs.receipt, verdict |-> verdict,
             authority |-> authority, next |-> next, of |-> request]
    IN  {about("ALLOW", request.obs.id, next) : next \in Offers \cup {request.next}} \cup
        {about("BLOCK", NoId, None), Useless, TooLong}

----------------------------------------------------------------------------
\* The client.

Hop(c) == hops[c][Len(hops[c])]

Goto(c, step) == at' = [at EXCEPT ![c] = step]

\* Route, the target's execution, MakeSuccessReceipt and Verify, which concern one client.
Execute(c) ==
    /\ at[c] = "packet"
    /\ \E result \in Results :
       LET packet  == Hop(c).packet
           route   == Route(packet)
           receipt == MakeSuccessReceipt(packet, route, result)
       IN  IF route # None /\ receipt # None /\ Verify(packet, route, result, receipt)
           THEN /\ Goto(c, "receipt")
                /\ hops' = [hops EXCEPT ![c][Len(hops[c])] =
                               [packet |-> packet, route |-> route, receipt |-> receipt]]
           ELSE Goto(c, "stopped") /\ UNCHANGED hops
    /\ UNCHANGED <<process, pipes, talk, closing>>

Request(c, next) == [obs |-> ReceiptToObservation(Hop(c).receipt), next |-> next]

\* A question about the receipt, the first or a further one.
MayAsk(c) == at[c] \in {"receipt", "failed"} /\ Len(hops[c]) < MaxHops

\* Process.Evaluate: a child for this request alone, which must print one decision.
OneShot(c, next) ==
    LET request == Request(c, next) IN
    /\ MayAsk(c)
    /\ \E line \in Replies(request), count \in 0..2 :
       IF ValidRequest(request) /\ count = 1 /\ Binds(request, line)
       THEN Goto(c, "decided") /\ talk' = [talk EXCEPT ![c] = line]
       ELSE Goto(c, "failed") /\ talk' = [talk EXCEPT ![c] = None]
    /\ UNCHANGED <<process, pipes, hops, closing>>

\* PersistentProcess.Evaluate is called.
Evaluate(c, next) ==
    /\ MayAsk(c)
    /\ talk' = [talk EXCEPT ![c] = Request(c, next)]
    /\ Goto(c, "lock")
    /\ UNCHANGED <<process, pipes, hops, closing>>

Follow(c) ==
    /\ at[c] = "decided"
    /\ IF DecisionToPacket(talk[c]) = None THEN Goto(c, "stopped") /\ UNCHANGED hops
       ELSE /\ Goto(c, "packet")
            /\ hops' = [hops EXCEPT ![c] =
                   Append(@, [packet |-> DecisionToPacket(talk[c]), route |-> None, receipt |-> None])]
    /\ talk' = [talk EXCEPT ![c] = None]
    /\ UNCHANGED <<process, pipes, closing>>

----------------------------------------------------------------------------
\* PersistentProcess.

\* A step of the caller that has mu, to a step that keeps it or to one that ends.
Keep(c, step) == Goto(c, step) /\ UNCHANGED <<mu, talk>>
Fail(c) == Goto(c, "failed") /\ talk' = [talk EXCEPT ![c] = None]
Leave(c) == Fail(c) /\ mu' = Nobody

Start ==
    /\ mu = Nobody /\ child = "none"
    /\ child' = "alive" /\ stdin' = TRUE
    /\ UNCHANGED <<mu, closed, waited, broken, pipes, clients, closing>>

Lock(c) ==
    /\ at[c] = "lock" /\ mu = Nobody
    /\ IF ValidRequest(talk[c]) /\ child # "none" /\ ~closed
       THEN Goto(c, "write") /\ mu' = c /\ UNCHANGED talk
       ELSE Fail(c) /\ UNCHANGED mu
    /\ UNCHANGED <<child, stdin, closed, waited, broken, pipes, hops, closing>>

\* The pipe takes one request, or a part of one that the child must read before the
\* rest is written; the deadline has not begun.
Write(c) ==
    /\ at[c] \in {"write", "rest"}
    /\ \/ child = "dead" /\ Leave(c) /\ UNCHANGED inbox
       \/ /\ child # "dead" /\ inbox = <<>>
          /\ IF at[c] = "write" THEN inbox' = <<talk[c]>> ELSE UNCHANGED inbox
          /\ Keep(c, IF at[c] = "write" /\ talk[c].next \in Long THEN "rest" ELSE "scan")
    /\ UNCHANGED <<child, stdin, closed, waited, broken, work, outbox, noise, hops, closing>>

\* One line, or the end of the child's output; a scanner that is broken has no more.
Scan(c) ==
    /\ at[c] = "scan"
    /\ \/ /\ ~broken /\ outbox # <<>> /\ outbox' = Tail(outbox)
          /\ broken' = (Head(outbox) = TooLong)
          /\ IF Binds(talk[c], Head(outbox))
             THEN Goto(c, "decided") /\ mu' = Nobody /\ talk' = [talk EXCEPT ![c] = Head(outbox)]
             ELSE Leave(c)
       \/ /\ broken \/ (outbox = <<>> /\ child = "dead")
          /\ Leave(c) /\ UNCHANGED <<outbox, broken>>
    /\ UNCHANGED <<child, stdin, closed, waited, inbox, work, noise, hops, closing>>

\* A process that is killed or ends takes what it has not printed with it.
Ends == child' = "dead" /\ inbox' = <<>> /\ work' = <<>>

\* Mutant: the child is left to notice the end of its input.
DeadlineUnkilled(c) ==
    /\ at[c] = "scan" /\ Keep(c, "reap")
    /\ closed' = TRUE /\ stdin' = FALSE
    /\ UNCHANGED <<child, waited, broken, pipes, hops, closing>>

\* ctx.Done: the child is killed.
Deadline(c) ==
    /\ at[c] = "scan" /\ Keep(c, "reap")
    /\ closed' = TRUE /\ stdin' = FALSE /\ Ends
    /\ UNCHANGED <<waited, broken, outbox, noise, hops, closing>>

\* Wait, unless it was waited for; what the child has printed is gone.
Reap(c) ==
    /\ at[c] = "reap" /\ (waited \/ child = "dead")
    /\ waited' = TRUE /\ outbox' = <<>> /\ Leave(c)
    /\ UNCHANGED <<child, stdin, closed, broken, inbox, work, noise, hops, closing>>

CallClose(k) ==
    /\ closing[k] = "idle" /\ closing' = [closing EXCEPT ![k] = "lock"]
    /\ UNCHANGED <<process, pipes, clients>>

LockClose(k) ==
    /\ closing[k] = "lock" /\ mu = Nobody
    /\ closed' = (closed \/ child # "none")
    /\ IF child = "none" \/ waited
       THEN closing' = [closing EXCEPT ![k] = "done"] /\ UNCHANGED <<mu, stdin, waited>>
       ELSE /\ closing' = [closing EXCEPT ![k] = "wait"]
            /\ mu' = k /\ stdin' = FALSE /\ waited' = TRUE
    /\ UNCHANGED <<child, broken, pipes, clients>>

CloseWait(k) ==
    /\ closing[k] = "wait" /\ child = "dead"
    /\ closing' = [closing EXCEPT ![k] = "done"]
    /\ mu' = Nobody /\ outbox' = <<>>
    /\ UNCHANGED <<child, stdin, closed, waited, broken, inbox, work, noise, clients>>

----------------------------------------------------------------------------
\* The child.

Child(state) ==
    /\ child' = state
    /\ UNCHANGED <<mu, stdin, closed, waited, broken, clients, closing>>

Read ==
    /\ child = "alive" /\ inbox # <<>> /\ Len(work) < MaxAhead
    /\ inbox' = Tail(inbox) /\ work' = Append(work, Head(inbox))
    /\ Child(child) /\ UNCHANGED <<outbox, noise>>

\* A line about the oldest request, which the child may go on to answer again.
Say ==
    /\ child = "alive" /\ work # <<>> /\ Len(outbox) < MaxLines
    /\ \E line \in Replies(Head(work)) : outbox' = Append(outbox, line)
    /\ \/ work' = Tail(work) /\ UNCHANGED noise
       \/ noise < MaxNoise /\ noise' = noise + 1 /\ UNCHANGED work
    /\ Child(child) /\ UNCHANGED inbox

\* From now on it neither reads nor prints.
Hang == child = "alive" /\ Child("hung") /\ UNCHANGED pipes

Exit ==
    /\ child \in {"alive", "hung"} /\ Ends
    /\ UNCHANGED <<mu, stdin, closed, waited, broken, outbox, noise, clients, closing>>

AtEOF == child = "alive" /\ ~stdin /\ inbox = <<>> /\ work = <<>> /\ Exit

Init ==
    /\ mu = Nobody /\ child = "none" /\ stdin = FALSE /\ closed = FALSE /\ waited = FALSE
    /\ broken = FALSE
    /\ inbox = <<>> /\ work = <<>> /\ outbox = <<>> /\ noise = 0
    /\ at = [c \in Clients |-> "packet"]
    /\ \E first \in Firsts :
           hops = [c \in Clients |-> <<[packet |-> first[c], route |-> None, receipt |-> None]>>]
    /\ talk = [c \in Clients |-> None]
    /\ closing = [k \in Closers |-> "idle"]

Next ==
    \/ \E c \in Clients : \E n \in Nexts[c] : OneShot(c, n) \/ Evaluate(c, n)
    \/ \E c \in Clients : \/ Execute(c) \/ Follow(c)
                          \/ Lock(c) \/ Write(c) \/ Scan(c) \/ Deadline(c) \/ Reap(c)
    \/ \E k \in Closers : CallClose(k) \/ LockClose(k) \/ CloseWait(k)
    \/ Start \/ Read \/ Say \/ Hang \/ Exit

Spec == Init /\ [][Next]_vars

\* Goroutines that can run do run, a waiter gets sync.Mutex in the end (its
\* starvation mode), and with a Timeout every deadline passes.  Of the child: unless
\* it hangs it answers what it has read, when there is room for the line, then reads
\* on, and ends with its input.
Fairness ==
    /\ \A c \in Clients : SF_vars(Lock(c)) /\ WF_vars(Write(c) \/ Scan(c) \/ Deadline(c) \/ Reap(c))
    /\ \A k \in Closers : SF_vars(LockClose(k)) /\ WF_vars(CloseWait(k))
    /\ WF_vars(Say) /\ WF_vars(work = <<>> /\ Read) /\ WF_vars(AtEOF)

FairSpec == Spec /\ Fairness

----------------------------------------------------------------------------
\* Properties.

\* No other packet, of any client, has the action id of hop i of c.
Unshared(c, i) ==
    \A d \in Clients : \A j \in 1..Len(hops[d]) :
        hops[d][j].packet.action = hops[c][i].packet.action => d = c /\ j = i

\* Every packet after a client's first is what the child allowed in answer to a
\* question about an action with the id of the packet before it, follows that one's
\* receipt under another id, and goes where the router sends its kind and the packet
\* allows - whichever action the child names, and although lines come one too late,
\* from a child that answered twice, was given up by another caller or died.  The
\* question was this client's own, about that very receipt, if nobody shares the id:
\* validateBinding compares ids, neither the receipt's hash nor the next action.
HopsAreOwed ==
    \A c \in Clients : \A i \in 2..Len(hops[c]) :
        LET before == hops[c][i - 1]
            hop    == hops[c][i]
            r      == hop.packet.of
        IN  /\ r.obs.receipt = before.receipt.action
            /\ Unshared(c, i - 1) =>
                   r.obs = ReceiptToObservation(before.receipt) /\ r.next \in Nexts[c]
            /\ hop.packet.previous = before.receipt.action
            /\ hop.packet.action # before.packet.action
            /\ hop.route # None =>
                   /\ hop.route.target = Policy[hop.packet.kind]
                   /\ hop.route.target \in hop.packet.targets

Inside(c) == at[c] \in {"lock", "write", "rest", "scan", "reap"}

\* The child reads no further: it hangs, or has a line to print and no room for it.
Stopped == child = "hung" \/ (child = "alive" /\ work # <<>> /\ Len(outbox) = MaxLines)

\* Neither Close nor the write of a request has a deadline, and both wait with mu in
\* hand: Close for the child's end, the write for the child to read.
Stuck ==
    /\ Stopped
    /\ (\E k \in Closers : closing[k] = "wait") \/ (\E c \in Clients : at[c] \in {"write", "rest"})

\* Every call of Evaluate and of Close returns, although both hold the one mutex
\* while they wait for the child, and clients ask on and on: a deadline kills a child
\* whose answer it waits for.  The one exception is a child that reads no further for
\* ever, with a Close or a write waiting for it, and whoever comes after them.
CallsReturn ==
    /\ \A c \in Clients : Inside(c) ~> (~Inside(c) \/ []Stuck)
    /\ \A k \in Closers : (closing[k] = "lock") ~> (closing[k] = "done" \/ []Stuck)

\* "A request timeout is fail-closed" (docs/persistent-station-v0.3.md): a call with a
\* deadline returns.  The code does not keep this, without any Close: the deadline
\* starts after the request is written.
TimeoutsReturn == \A c \in Clients : Inside(c) ~> ~Inside(c)
=============================================================================
