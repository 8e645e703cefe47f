--------------------------- MODULE MultiplexProofs ---------------------------
(* Theorems about Multiplex for any number of callers, closers and ids, any   *)
(* pipe capacities and any station faults.                                    *)
EXTENDS Multiplex, TLAPS, SequenceTheorems

USE MultiplexAssumption

LEMMA OutcomesTyped ==
    ASSUME NEW l \in Lines, NEW c \in Callers
    PROVE  Outcome(l, c) \in Outcomes /\ Outcome(l, c) # NoResult
BY DEF Lines, Outcomes, Outcome, Err, NoResult

LEMMA ErrTyped ==
    ASSUME NEW k \in {"none", "rejected", "unsent", "timeout", "fault",
                      "stationError", "misbound"}
    PROVE  Err(k) \in Outcomes
BY DEF Err, Outcomes

\* A call past Register has an id, and ids that calls have are seen.
CallsHaveIds ==
    \A c \in Callers :
        /\ pc[c] \notin {"idle", "returned"} => req[c] # NoId
        /\ pc[c] = "idle" => req[c] = NoId
        /\ req[c] # NoId => req[c] \in seen

TypedCalls == TypeOK /\ CallsHaveIds

\* Types are kept, and a call past its checks has an id that is in seen.
LEMMA TypedCallsInvariant == Spec => []TypedCalls
<1>1. Init => TypedCalls
  <2> SUFFICES ASSUME Init PROVE TypedCalls
    OBVIOUS
  <2>1. NoResult \in Outcomes /\ NoLine \in Lines
    BY ErrTyped DEF NoResult, NoLine, Lines
  <2>2. /\ inbox \in Seq(Requests) /\ outbox \in Seq(Lines)
        /\ work \subseteq Requests
    BY DEF Init
  <2>3. /\ started \in BOOLEAN /\ closed \in BOOLEAN /\ readerErr \in BOOLEAN
        /\ waited \in BOOLEAN /\ stdinOpen \in BOOLEAN /\ alive \in BOOLEAN
    BY DEF Init
  <2>4. /\ pending \in [ReqIds -> Callers \cup {Nobody}]
        /\ pc \in [Callers -> {"idle", "registered", "writing", "awaiting",
                               "withdrawing", "expired", "returned"}]
        /\ req \in [Callers -> ReqIds \cup {NoId}]
        /\ closePc \in [Closers -> {"idle", "locked", "marked", "joining",
                                    "reaping", "returned"}]
    BY DEF Init
  <2>5. result \in [Callers -> Outcomes] /\ answer \in [Callers -> Outcomes]
    BY <2>1 DEF Init
  <2>6. CallsHaveIds
    BY DEF Init, CallsHaveIds
  <2>7. QED
    BY <2>1, <2>2, <2>3, <2>4, <2>5, <2>6 DEF Init, TypeOK, TypedCalls
<1>2. TypedCalls /\ [Next]_vars => TypedCalls'
  <2> SUFFICES ASSUME TypedCalls, [Next]_vars PROVE TypedCalls'
    OBVIOUS
  <2>0. NoResult \in Outcomes /\ NoLine \in Lines
    BY ErrTyped DEF NoResult, NoLine, Lines
  <2> USE DEF TypedCalls, TypeOK, CallsHaveIds
  <2>1. CASE Start
    BY <2>1 DEF Start, tableVars, callVars
  <2>2. ASSUME NEW c \in Callers, Evaluate(c) PROVE TypedCalls'
    <3>1. ASSUME NEW i \in ReqIds \cup {NoId}, Reject(c, i) PROVE TypedCalls'
      BY <3>1, ErrTyped DEF Reject, Return, tableVars, flagVars, readerVars,
         childVars
    <3>2. ASSUME NEW i \in ReqIds \cup {NoId}, Register(c, i) PROVE TypedCalls'
      BY <3>2 DEF Register, Refused, flagVars, readerVars, childVars
    <3>3. CASE EncodeFails(c)
      BY <3>3 DEF EncodeFails, tableVars, flagVars, readerVars, childVars
    <3>4. CASE LockWrite(c)
      BY <3>4 DEF LockWrite, tableVars, flagVars, readerVars, childVars
    <3>5. CASE Write(c)
      <4>1. [id |-> req[c], from |-> c] \in Requests
        BY <3>5 DEF Write, Requests
      <4>2. QED
        BY <3>5, <4>1 DEF Write, tableVars, flagVars, readerVars
    <3>6. CASE WriteFails(c)
      BY <3>6 DEF WriteFails, tableVars, flagVars, readerVars, childVars
    <3>7. CASE Withdraw(c)
      BY <3>7, ErrTyped DEF Withdraw, RemovePending, PendingWithout, Return,
         flagVars, readerVars, childVars
    <3>8. CASE Receive(c)
      BY <2>0, <3>8 DEF Receive, Return, tableVars, flagVars, readerVars,
         childVars
    <3>9. CASE Expire(c)
      BY <3>9 DEF Expire, tableVars, flagVars, readerVars, childVars
    <3>10. CASE GiveUp(c)
      BY <3>10, ErrTyped DEF GiveUp, RemovePending, PendingWithout, Return,
         flagVars, readerVars, childVars
    <3>11. QED
      BY <2>2, <3>1, <3>2, <3>3, <3>4, <3>5, <3>6, <3>7, <3>8, <3>9, <3>10
         DEF Evaluate
  <2>3. CASE ReadLoop
    <3>1. ASSUME Scan PROVE Head(outbox) \in Lines /\ Tail(outbox) \in Seq(Lines)
      BY <3>1 DEF Scan
    <3>2. CASE ReadAbandoned
      BY <3>1, <3>2 DEF ReadAbandoned, Scan, flagVars, callVars, readerVars
    <3>3. CASE ReadPending
      <4>1. Head(outbox).id \in ReqIds
        BY <3>1, <3>3 DEF ReadPending, Dispatchable, PendingIds
      <4>2. QED
        BY <3>1, <3>3, <4>1 DEF ReadPending, Scan, PendingWithout, flagVars,
           callVars
    <3>4. CASE ReadFault
      BY <3>1, <3>4 DEF ReadFault, Scan, tableVars, flagVars, callVars
    <3>5. CASE ReadEOF
      BY <3>5 DEF ReadEOF, tableVars, flagVars, callVars, childVars
    <3>6. CASE Deliver
      <4>1. entry \in Callers => Outcome(line, entry) \in Outcomes
        BY OutcomesTyped
      <4>2. QED
        BY <2>0, <3>6, <4>1 DEF Deliver, tableVars, flagVars, childVars
    <3>7. CASE FailClosed
      BY <3>7 DEF FailClosed, tableVars, flagVars, callVars, childVars
    <3>8. CASE FailFatal
      <4>1. PendingCallers \subseteq Callers
        BY DEF PendingCallers, PendingIds
      <4>2. QED
        BY <3>8, <4>1 DEF FailFatal, callVars, childVars
    <3>9. ASSUME NEW c \in Callers, DrainOne(c) PROVE TypedCalls'
      BY <3>9, ErrTyped DEF DrainOne, tableVars, flagVars, childVars
    <3>10. CASE KillChild
      BY <3>10 DEF KillChild, tableVars, flagVars, callVars
    <3>11. QED
      BY <2>3, <3>2, <3>3, <3>4, <3>5, <3>6, <3>7, <3>8, <3>9, <3>10
         DEF ReadLoop
  <2>4. ASSUME NEW k \in Closers, Close(k) PROVE TypedCalls'
    <3> USE DEF tableVars, flagVars, callVars, readerVars, childVars
    <3>1. CASE CloseLock(k)
      BY <3>1 DEF CloseLock
    <3>2. CASE CloseUnstarted(k)
      BY <3>2 DEF CloseUnstarted
    <3>3. CASE CloseMark(k)
      BY <3>3 DEF CloseMark
    <3>4. CASE CloseStdin(k)
      BY <3>4 DEF CloseStdin
    <3>5. CASE CloseJoin(k)
      BY <3>5 DEF CloseJoin
    <3>6. CASE CloseReap(k)
      BY <3>6 DEF CloseReap
    <3>7. QED
      BY <2>4, <3>1, <3>2, <3>3, <3>4, <3>5, <3>6 DEF Close
  <2>5. CASE Station
    <3>1. CASE StationRead
      BY <3>1 DEF StationRead, tableVars, flagVars, callVars, readerVars
    <3>2. ASSUME NEW l \in Lines, Emit(l), work' \subseteq work
          PROVE TypedCalls'
      BY <3>2 DEF Emit, tableVars, flagVars, callVars, readerVars
    <3>3. ASSUME NEW r \in work, StationAnswer(r) PROVE TypedCalls'
      <4>1. /\ [kind |-> "decision", id |-> r.id, about |-> r.from] \in Lines
            /\ [kind |-> "error", id |-> r.id, about |-> Nobody] \in Lines
        BY DEF Lines, Requests
      <4>2. QED
        BY <3>2, <3>3, <4>1 DEF StationAnswer
    <3>4. CASE StationMisbehave
      <4>1. ASSUME NEW i \in ReqIds \cup {NoId}, NEW c \in Callers
            PROVE [kind |-> "decision", id |-> i, about |-> c] \in Lines
        BY DEF Lines
      <4>2. QED
        BY <2>0, <3>2, <3>4, <4>1 DEF StationMisbehave
    <3>5. CASE StationEOF
      BY <3>5 DEF StationEOF, tableVars, flagVars, callVars, readerVars
    <3>6. CASE StationExit
      BY <3>6 DEF StationExit, tableVars, flagVars, callVars, readerVars
    <3>7. QED
      BY <2>5, <3>1, <3>3, <3>4, <3>5, <3>6 DEF Station
  <2>6. CASE UNCHANGED vars
    BY <2>6 DEF vars, tableVars, flagVars, callVars, readerVars, childVars
  <2>7. QED
    BY <2>1, <2>2, <2>3, <2>4, <2>5, <2>6 DEF Next
<1>3. QED
  BY <1>1, <1>2, PTL DEF Spec

\* Every variable of the station keeps its type, in every reachable state.
THEOREM TypeCorrect == Spec => []TypeOK
<1>1. TypedCalls => TypeOK
  BY DEF TypedCalls
<1>2. QED
  BY <1>1, TypedCallsInvariant, PTL

-----------------------------------------------------------------------------
(* Who is owed an answer.  The invariants EveryWaiterIsOwed and               *)
(* AnswersNeverCollide are not inductive alone: they rest on an id being the  *)
(* id of one call, and on each call having at most one of an entry in         *)
(* pending, an entry in the reader's hands and a result in its channel.       *)

OneCallPerId ==
    \A c, d \in Callers : req[c] = req[d] /\ req[c] # NoId => c = d

PendingIsOwn ==
    \A i \in ReqIds : pending[i] # Nobody =>
        /\ req[pending[i]] = i
        /\ result[pending[i]] = NoResult
        /\ ~Taken(pending[i])

TakenIsOwn == \A c \in Callers : Taken(c) =>
                  req[c] # NoId /\ result[c] = NoResult

ResultHasCall == \A c \in Callers : result[c] # NoResult => req[c] # NoId

ReaderHolds ==
    /\ ~started => reader = "off"
    /\ reader = "deliver" => entry \in Callers
    /\ reader # "drain" => batch = {}
    /\ readerErr => /\ closed /\ reader \in {"drain", "done"}
                    /\ \A i \in ReqIds : pending[i] = Nobody

Owed == /\ OneCallPerId /\ PendingIsOwn /\ TakenIsOwn /\ ResultHasCall
        /\ ReaderHolds /\ EveryWaiterIsOwed

AnswerInv == TypedCalls /\ Owed

LEMMA InitOwed == Init => Owed
BY DEF Init, Owed, OneCallPerId, PendingIsOwn, TakenIsOwn, ResultHasCall,
   ReaderHolds, EveryWaiterIsOwed, Taken

\* A step that leaves the table, the channels and the reader alone, and moves
\* calls only out of the waiting states.
LEMMA OwedFrame ==
    ASSUME TypedCalls, Owed,
           pending' = pending, req' = req, result' = result, reader' = reader,
           entry' = entry, batch' = batch, readerErr' = readerErr,
           started' = started, closed => closed',
           \A c \in Callers :
               pc'[c] \in {"registered", "writing", "awaiting"} =>
               pc[c] \in {"registered", "writing", "awaiting"}
    PROVE  Owed'
BY DEF Owed, OneCallPerId, PendingIsOwn, TakenIsOwn, ResultHasCall,
   ReaderHolds, EveryWaiterIsOwed, Taken

LEMMA OwedEvaluate ==
    ASSUME TypedCalls, Owed, NEW c \in Callers, Evaluate(c)
    PROVE  Owed'
<1> USE DEF TypedCalls, TypeOK
<1>1. ASSUME NEW i \in ReqIds \cup {NoId}, Reject(c, i) PROVE Owed'
  BY <1>1, OwedFrame DEF Reject, Return, tableVars, flagVars, readerVars
<1>2. ASSUME NEW i \in ReqIds \cup {NoId}, Register(c, i) PROVE Owed'
  <2> USE <1>2 DEF Register, Refused, flagVars, readerVars, childVars, Owed,
                   CallsHaveIds
  <2>1. i \in ReqIds /\ i \notin seen /\ req[c] = NoId /\ pending[i] = Nobody
    BY DEF PendingIsOwn
  <2>2. result[c] = NoResult /\ ~Taken(c)
    BY <2>1 DEF ResultHasCall, TakenIsOwn
  <2>3. \A d \in Callers : Taken(d)' <=> Taken(d)
    BY DEF Taken
  <2>4. /\ req' = [req EXCEPT ![c] = i] /\ pending' = [pending EXCEPT ![i] = c]
        /\ \A d \in Callers : req[d] # i
    BY <2>1
  <2>5. OneCallPerId'
    BY <2>1, <2>4 DEF OneCallPerId
  <2>6. PendingIsOwn'
    BY <2>1, <2>2, <2>3, <2>4 DEF PendingIsOwn
  <2>7. TakenIsOwn' /\ ResultHasCall'
    BY <2>1, <2>3, <2>4 DEF TakenIsOwn, ResultHasCall
  <2>8. ReaderHolds'
    BY DEF ReaderHolds
  <2>9. EveryWaiterIsOwed'
    BY <2>1, <2>3, <2>4 DEF EveryWaiterIsOwed
  <2>10. QED
    BY <2>5, <2>6, <2>7, <2>8, <2>9
<1>3. CASE EncodeFails(c)
  BY <1>3, OwedFrame DEF EncodeFails, tableVars, flagVars, readerVars
<1>4. CASE LockWrite(c)
  BY <1>4, OwedFrame DEF LockWrite, tableVars, flagVars, readerVars
<1>5. CASE Write(c)
  BY <1>5, OwedFrame DEF Write, tableVars, flagVars, readerVars
<1>6. CASE WriteFails(c)
  BY <1>6, OwedFrame DEF WriteFails, tableVars, flagVars, readerVars
<1>7. ASSUME NEW a \in BOOLEAN, pc[c] \in {"withdrawing", "expired"},
             RemovePending(req[c], a), pc' = [pc EXCEPT ![c] = "returned"],
             UNCHANGED <<flagVars, req, result, readerVars>>
      PROVE  Owed'
  <2> USE <1>7 DEF flagVars, readerVars, Owed, CallsHaveIds
  <2>1. req[c] \in ReqIds /\ pending' = [pending EXCEPT ![req[c]] = Nobody]
    BY DEF RemovePending, PendingWithout
  <2>2. \A d \in Callers : Taken(d)' <=> Taken(d)
    BY DEF Taken
  <2>3. OneCallPerId' /\ TakenIsOwn' /\ ResultHasCall'
    BY <2>2 DEF OneCallPerId, TakenIsOwn, ResultHasCall
  <2>4. PendingIsOwn'
    BY <2>1, <2>2 DEF PendingIsOwn
  <2>5. ReaderHolds'
    BY <2>1 DEF ReaderHolds
  <2>6. EveryWaiterIsOwed'
    <3> SUFFICES ASSUME NEW d \in Callers,
                        pc'[d] \in {"registered", "writing", "awaiting"},
                        result[d] = NoResult, ~Taken(d)
                 PROVE  pending'[req[d]] = d
      BY <2>2 DEF EveryWaiterIsOwed
    <3>1. d # c /\ pc'[d] = pc[d]
      OBVIOUS
    <3>2. pending[req[d]] = d /\ req[d] # NoId
      BY <3>1 DEF EveryWaiterIsOwed
    <3>3. req[d] # req[c]
      BY <3>1, <3>2 DEF OneCallPerId
    <3>4. QED
      BY <2>1, <3>2, <3>3
  <2>7. QED
    BY <2>3, <2>4, <2>5, <2>6
<1>8. CASE Withdraw(c)
  BY <1>7, <1>8 DEF Withdraw, Return
<1>9. CASE GiveUp(c)
  BY <1>7, <1>9 DEF GiveUp, Return
<1>10. CASE Receive(c)
  <2> USE <1>10 DEF Receive, Return, tableVars, flagVars, readerVars, Owed
  <2>1. /\ result' = [result EXCEPT ![c] = NoResult]
        /\ pc' = [pc EXCEPT ![c] = "returned"]
        /\ \A d \in Callers : Taken(d)' <=> Taken(d)
    BY DEF Taken
  <2>2. OneCallPerId' /\ TakenIsOwn' /\ ResultHasCall'
    BY <2>1 DEF OneCallPerId, TakenIsOwn, ResultHasCall
  <2>3. PendingIsOwn' /\ ReaderHolds'
    BY <2>1 DEF PendingIsOwn, ReaderHolds
  <2>4. EveryWaiterIsOwed'
    BY <2>1 DEF EveryWaiterIsOwed
  <2>5. QED
    BY <2>2, <2>3, <2>4
<1>11. CASE Expire(c)
  BY <1>11, OwedFrame DEF Expire, tableVars, flagVars, readerVars
<1>12. QED
  BY <1>1, <1>2, <1>3, <1>4, <1>5, <1>6, <1>8, <1>9, <1>10, <1>11 DEF Evaluate

LEMMA OwedReadLoop ==
    ASSUME TypedCalls, Owed, ReadLoop
    PROVE  Owed'
<1> USE DEF TypedCalls, TypeOK
<1>1. CASE ReadAbandoned
  BY <1>1, OwedFrame DEF ReadAbandoned, Scan, flagVars, callVars, readerVars
<1>2. CASE ReadPending
  <2> USE <1>2 DEF ReadPending, Scan, flagVars, callVars, Owed
  <2> DEFINE i == Head(outbox).id
  <2>1. /\ i \in ReqIds /\ pending[i] # Nobody
        /\ entry' = pending[i] /\ entry' \in Callers
        /\ pending' = [pending EXCEPT ![i] = Nobody]
    BY DEF Dispatchable, PendingIds, PendingWithout
  <2>2. batch = {} /\ ~readerErr /\ \A d \in Callers : ~Taken(d)
    BY DEF ReaderHolds, Taken
  <2> HIDE DEF i
  <2>3. \A d \in Callers : Taken(d)' <=> d = pending[i]
    BY <2>1, <2>2 DEF Taken
  <2>4. req[pending[i]] = i /\ result[pending[i]] = NoResult
    BY <2>1 DEF PendingIsOwn
  <2>5. \A j \in ReqIds : pending'[j] # Nobody => pending'[j] # pending[i]
    BY <2>1, <2>4 DEF PendingIsOwn
  <2>6. OneCallPerId' /\ ResultHasCall' /\ ReaderHolds'
    BY <2>1, <2>2 DEF OneCallPerId, ResultHasCall, ReaderHolds
  <2>7. PendingIsOwn'
    BY <2>1, <2>3, <2>5 DEF PendingIsOwn
  <2>8. TakenIsOwn'
    BY <2>1, <2>3, <2>4 DEF TakenIsOwn
  <2>9. EveryWaiterIsOwed'
    BY <2>1, <2>2, <2>3 DEF EveryWaiterIsOwed, CallsHaveIds
  <2>10. QED
    BY <2>6, <2>7, <2>8, <2>9
<1>3. CASE ReadFault \/ ReadEOF \/ FailClosed
  <2>1. /\ reader \in {"scan", "fail"} /\ reader' \in {"fail", "done"}
        /\ UNCHANGED <<pending, flagVars, callVars, entry, batch>>
    BY <1>3 DEF ReadFault, ReadEOF, FailClosed, Scan, tableVars, childVars
  <2>2. \A d \in Callers : Taken(d)' <=> Taken(d)
    BY <2>1 DEF Taken
  <2>3. QED
    BY <2>1, <2>2 DEF Owed, OneCallPerId, PendingIsOwn, TakenIsOwn,
       ResultHasCall, ReaderHolds, EveryWaiterIsOwed, flagVars, callVars
<1>4. CASE Deliver
  <2> USE <1>4 DEF Deliver, tableVars, flagVars, Owed
  <2>1. /\ entry \in Callers /\ batch = {} /\ ~readerErr
        /\ Outcome(line, entry) # NoResult
    BY OutcomesTyped DEF ReaderHolds
  <2>2. /\ result' = [result EXCEPT ![entry] = Outcome(line, entry)]
        /\ Taken(entry) /\ \A d \in Callers : ~Taken(d)'
    BY <2>1 DEF Taken
  <2>3. OneCallPerId' /\ TakenIsOwn' /\ ReaderHolds'
    BY <2>1, <2>2 DEF OneCallPerId, TakenIsOwn, ReaderHolds
  <2>4. ResultHasCall'
    BY <2>1, <2>2 DEF ResultHasCall, TakenIsOwn
  <2>5. PendingIsOwn'
    BY <2>1, <2>2 DEF PendingIsOwn
  <2>6. \A d \in Callers : Taken(d) => d = entry
    BY <2>1 DEF Taken
  <2>7. EveryWaiterIsOwed'
    BY <2>1, <2>2, <2>6 DEF EveryWaiterIsOwed
  <2>8. QED
    BY <2>3, <2>4, <2>5, <2>7
<1>5. CASE FailFatal
  <2> USE <1>5 DEF FailFatal, callVars, childVars, Owed
  <2>1. \A d \in Callers : Taken(d)' <=> \E i \in ReqIds : pending[i] = d
    BY MultiplexAssumption DEF Taken, PendingCallers, PendingIds
  <2>2. \A d \in Callers : ~Taken(d)
    BY DEF Taken, ReaderHolds
  <2>3. OneCallPerId' /\ ResultHasCall' /\ ReaderHolds' /\ PendingIsOwn'
    BY DEF OneCallPerId, ResultHasCall, ReaderHolds, PendingIsOwn
  <2>4. TakenIsOwn'
    BY <2>1, MultiplexAssumption DEF TakenIsOwn, PendingIsOwn
  <2>5. EveryWaiterIsOwed'
    BY <2>1, <2>2, MultiplexAssumption DEF EveryWaiterIsOwed, CallsHaveIds
  <2>6. QED
    BY <2>3, <2>4, <2>5
<1>6. ASSUME NEW c \in Callers, DrainOne(c) PROVE Owed'
  <2> USE <1>6 DEF DrainOne, tableVars, flagVars, childVars, Owed
  <2>1. /\ Taken(c) /\ Err("fault") # NoResult
        /\ result' = [result EXCEPT ![c] = Err("fault")]
        /\ \A d \in Callers : Taken(d)' <=> Taken(d) /\ d # c
    BY DEF Taken, Err, NoResult
  <2> HIDE DEF Err
  <2>2. OneCallPerId' /\ TakenIsOwn' /\ ReaderHolds'
    BY <2>1 DEF OneCallPerId, TakenIsOwn, ReaderHolds
  <2>3. ResultHasCall'
    BY <2>1 DEF ResultHasCall, TakenIsOwn
  <2>4. PendingIsOwn'
    BY <2>1 DEF PendingIsOwn
  <2>5. EveryWaiterIsOwed'
    BY <2>1 DEF EveryWaiterIsOwed
  <2>6. QED
    BY <2>2, <2>3, <2>4, <2>5
<1>7. CASE KillChild
  <2>1. /\ reader = "drain" /\ batch = {} /\ reader' = "done"
        /\ UNCHANGED <<pending, flagVars, callVars, entry, batch>>
    BY <1>7 DEF KillChild, tableVars
  <2>2. \A d \in Callers : Taken(d)' <=> Taken(d)
    BY <2>1 DEF Taken
  <2>3. QED
    BY <2>1, <2>2 DEF Owed, OneCallPerId, PendingIsOwn, TakenIsOwn,
       ResultHasCall, ReaderHolds, EveryWaiterIsOwed, flagVars, callVars
<1>8. QED
  BY <1>1, <1>2, <1>3, <1>4, <1>5, <1>6, <1>7 DEF ReadLoop

LEMMA AnswerInvariant == Spec => []AnswerInv
<1>1. Init => Owed
  BY InitOwed
<1>2. TypedCalls /\ Owed /\ [Next]_vars => Owed'
  <2> SUFFICES ASSUME TypedCalls, Owed, [Next]_vars PROVE Owed'
    OBVIOUS
  <2>1. CASE Start
    <3>1. /\ UNCHANGED <<pending, pc, req, result, entry, batch, closed,
                         readerErr>>
          /\ reader = "off" /\ reader' = "scan" /\ started'
      BY <2>1 DEF Start, tableVars, callVars, Owed, ReaderHolds
    <3>2. \A c \in Callers : Taken(c)' <=> Taken(c)
      BY <3>1 DEF Taken
    <3>3. ReaderHolds'
      BY <3>1 DEF Owed, ReaderHolds
    <3>4. OneCallPerId' /\ ResultHasCall' /\ TakenIsOwn'
      BY <3>1, <3>2 DEF Owed, OneCallPerId, TakenIsOwn, ResultHasCall
    <3>5. PendingIsOwn'
      BY <3>1, <3>2 DEF Owed, PendingIsOwn, TypedCalls, TypeOK
    <3>6. EveryWaiterIsOwed'
      BY <3>1, <3>2 DEF Owed, EveryWaiterIsOwed
    <3>7. QED
      BY <3>3, <3>4, <3>5, <3>6 DEF Owed
  <2>2. ASSUME NEW c \in Callers, Evaluate(c) PROVE Owed'
    BY <2>2, OwedEvaluate
  <2>3. CASE ReadLoop
    BY <2>3, OwedReadLoop
  <2>4. ASSUME NEW k \in Closers, Close(k) PROVE Owed'
    <3>1. /\ UNCHANGED <<tableVars, callVars, readerVars, readerErr>>
          /\ started' = started /\ (closed => closed')
      BY <2>4 DEF Close, CloseLock, CloseUnstarted, CloseMark, CloseStdin,
         CloseJoin, CloseReap, flagVars
    <3>2. QED
      BY <3>1, OwedFrame DEF tableVars, callVars, readerVars
  <2>5. CASE Station
    <3>1. UNCHANGED <<tableVars, flagVars, callVars, readerVars>>
      BY <2>5 DEF Station, StationRead, StationAnswer, StationMisbehave, Emit,
         StationEOF, StationExit
    <3>2. QED
      BY <3>1, OwedFrame DEF tableVars, flagVars, callVars, readerVars
  <2>6. CASE UNCHANGED vars
    BY <2>6, OwedFrame DEF vars, tableVars, flagVars, callVars, readerVars
  <2>7. QED
    BY <2>1, <2>2, <2>3, <2>4, <2>5, <2>6 DEF Next
<1>3. QED
  BY <1>1, <1>2, TypedCallsInvariant, PTL DEF Spec, AnswerInv

\* A caller waiting with an empty channel is in pending or in the reader's
\* hands, for any number of callers, ids and closers.
THEOREM WaitersAreOwed == Spec => []EveryWaiterIsOwed
<1>1. AnswerInv => EveryWaiterIsOwed
  BY DEF AnswerInv, Owed
<1>2. QED
  BY <1>1, AnswerInvariant, PTL

\* The reader never blocks on a caller's channel.
THEOREM ReaderNeverBlocks == Spec => []AnswersNeverCollide
<1>1. AnswerInv => AnswersNeverCollide
  BY MultiplexAssumption
     DEF AnswerInv, Owed, AnswersNeverCollide, TakenIsOwn, PendingIsOwn,
         ReaderHolds
<1>2. QED
  BY <1>1, AnswerInvariant, PTL

\* When the reader has failed the station, every waiting caller has its answer.
THEOREM FatalAnswersAll == Spec => []FatalStrandsNobody
<1>1. AnswerInv => FatalStrandsNobody
  <2> SUFFICES ASSUME AnswerInv, readerErr, reader = "done",
                      NEW c \in Callers, pc[c] = "awaiting",
                      result[c] = NoResult
               PROVE  FALSE
    BY DEF FatalStrandsNobody
  <2>1. Taken(c) \/ pending[req[c]] = c
    BY DEF AnswerInv, Owed, EveryWaiterIsOwed
  <2>2. ~Taken(c) /\ \A i \in ReqIds : pending[i] = Nobody
    BY DEF AnswerInv, Owed, ReaderHolds, Taken
  <2>3. req[c] \in ReqIds
    BY DEF AnswerInv, TypedCalls, TypeOK, CallsHaveIds
  <2>4. QED
    BY <2>1, <2>2, <2>3, MultiplexAssumption
<1>2. QED
  BY <1>1, AnswerInvariant, PTL

-----------------------------------------------------------------------------
(* The station implements RequestReply.  What the refinement needs: a         *)
(* decision in a channel is about the call that owns the channel, and a call  *)
(* has no answer before it returns.                                           *)

ResultsBound ==
    \A c \in Callers :
        /\ result[c].about = IF result[c].kind = "decision" THEN c ELSE Nobody
        /\ pc[c] # "returned" => answer[c] = NoResult

LEMMA ResultsBoundInvariant == Spec => []ResultsBound
<1>1. Init => ResultsBound
  BY DEF Init, ResultsBound, NoResult, Err
<1>2. TypedCalls /\ ResultsBound /\ [Next]_vars => ResultsBound'
  <2> SUFFICES ASSUME TypedCalls, ResultsBound, [Next]_vars
               PROVE  ResultsBound'
    OBVIOUS
  <2> USE DEF TypedCalls, TypeOK, ResultsBound
  <2>1. ASSUME NEW c \in Callers, Evaluate(c) PROVE ResultsBound'
    <3>1. ASSUME NEW i \in ReqIds \cup {NoId}, Reject(c, i) \/ Register(c, i)
          PROVE  ResultsBound'
      BY <3>1 DEF Reject, Register, Return, tableVars, flagVars
    <3>2. CASE EncodeFails(c) \/ LockWrite(c) \/ Write(c) \/ WriteFails(c)
               \/ Expire(c)
      BY <3>2 DEF EncodeFails, LockWrite, Write, WriteFails, Expire
    <3>3. CASE Withdraw(c) \/ GiveUp(c)
      BY <3>3 DEF Withdraw, GiveUp, Return
    <3>4. CASE Receive(c)
      <4>1. NoResult.about = Nobody /\ NoResult.kind # "decision"
        BY DEF NoResult, Err
      <4>2. QED
        BY <3>4, <4>1 DEF Receive, Return
    <3>5. QED
      BY <2>1, <3>1, <3>2, <3>3, <3>4 DEF Evaluate
  <2>2. CASE ReadLoop
    <3>1. CASE Deliver
      <4>1. ASSUME NEW c \in Callers
            PROVE  Outcome(line, c).about =
                       IF Outcome(line, c).kind = "decision" THEN c ELSE Nobody
        BY DEF Outcome, Err, Lines
      <4>2. pc' = pc /\ answer' = answer
            /\ result' = [result EXCEPT ![entry] = Outcome(line, entry)]
        BY <3>1 DEF Deliver
      <4>3. QED
        BY <4>1, <4>2
    <3>2. ASSUME NEW c \in Callers, DrainOne(c) PROVE ResultsBound'
      BY <3>2 DEF DrainOne, Err
    <3>3. CASE ReadAbandoned \/ ReadPending \/ ReadFault \/ ReadEOF
               \/ FailClosed \/ FailFatal \/ KillChild
      BY <3>3 DEF ReadAbandoned, ReadPending, ReadFault, ReadEOF, FailClosed,
         FailFatal, KillChild, callVars
    <3>4. QED
      BY <2>2, <3>1, <3>2, <3>3 DEF ReadLoop
  <2>3. CASE \/ Start \/ Station \/ UNCHANGED vars
             \/ \E k \in Closers : Close(k)
    <3>1. UNCHANGED callVars
      BY <2>3 DEF Start, Station, StationRead, StationAnswer, StationMisbehave,
         Emit, StationEOF, StationExit, vars, Close, CloseLock, CloseUnstarted,
         CloseMark, CloseStdin, CloseJoin, CloseReap
    <3>2. QED
      BY <3>1 DEF callVars
  <2>4. QED
    BY <2>1, <2>2, <2>3 DEF Next
<1>3. QED
  BY <1>1, <1>2, TypedCallsInvariant, PTL DEF Spec

AboutOf(c) == {answer[c].about} \ {Nobody}

\* A step that leaves callVars and seen alone is a stutter of RequestReply.
LEMMA QuietStep ==
    ASSUME UNCHANGED <<pc, req, answer, seen>>
    PROVE  UNCHANGED Promise!vars
BY DEF Promise!vars, CallState

LEMMA InitRefined == Init => Promise!Init
BY DEF Init, Promise!Init, CallState, NoResult, Err

\* A step of one call is a step of the same call of RequestReply, or a stutter.
LEMMA EvaluateRefined ==
    ASSUME TypedCalls, ResultsBound, NEW c \in Callers, Evaluate(c)
    PROVE  [Promise!Next]_(Promise!vars)
<1> USE DEF TypedCalls, TypeOK
<1> DEFINE call == [d \in Callers |-> CallState(d)]
           about == [d \in Callers |-> AboutOf(d)]
<1>1. ASSUME NEW r \in Outcomes, Return(c, r),
             pc[c] \in {"idle", "withdrawing", "expired", "awaiting"},
             r.kind # "decision", r.about = Nobody,
             UNCHANGED <<req, seen>>
      PROVE  Promise!Fail(c)
  <2>1. CallState(c) \in {"idle", "open", "sent"}
    BY <1>1 DEF CallState
  <2>2. \A d \in Callers : CallState(d)' = IF d = c THEN "failed"
                                                      ELSE CallState(d)
    BY <1>1 DEF CallState, Return
  <2>3. \A d \in Callers : AboutOf(d)' = AboutOf(d)
    BY <1>1 DEF AboutOf, Return, ResultsBound, NoResult, Err
  <2>4. call' = [call EXCEPT ![c] = "failed"]
    BY <2>2
  <2>5. about' = about
    BY <2>3
  <2>6. QED
    BY <1>1, <2>1, <2>4, <2>5 DEF Promise!Fail, AboutOf
<1>2. ASSUME NEW i \in ReqIds \cup {NoId}, Reject(c, i) PROVE Promise!Fail(c)
  BY <1>1, <1>2, ErrTyped DEF Reject, tableVars, Err
<1>3. ASSUME NEW i \in ReqIds \cup {NoId}, Register(c, i)
      PROVE  i \in ReqIds /\ Promise!Open(c, i)
  <2>1. CallState(c) = "idle" /\ i \notin seen /\ i \in ReqIds
    BY <1>3 DEF CallState, Register, Refused
  <2>2. \A d \in Callers : CallState(d)' = IF d = c THEN "open"
                                                      ELSE CallState(d)
    BY <1>3 DEF CallState, Register
  <2>3. call' = [call EXCEPT ![c] = "open"]
    BY <2>2
  <2>4. about' = about /\ req' = [req EXCEPT ![c] = i]
        /\ seen' = seen \cup {i}
    BY <1>3 DEF Register, AboutOf
  <2>5. QED
    BY <2>1, <2>3, <2>4 DEF Promise!Open, AboutOf
<1>4. CASE EncodeFails(c) \/ LockWrite(c) \/ WriteFails(c) \/ Expire(c)
  <2>1. UNCHANGED <<req, answer, seen>>
    BY <1>4 DEF EncodeFails, LockWrite, WriteFails, Expire, tableVars
  <2>2. \A d \in Callers : CallState(d)' = CallState(d)
    BY <1>4 DEF EncodeFails, LockWrite, WriteFails, Expire, CallState
  <2>3. call' = call /\ about' = about
    BY <2>1, <2>2 DEF AboutOf
  <2>4. QED
    BY <2>1, <2>3 DEF Promise!vars, AboutOf
<1>5. CASE Write(c)
  <2>1. CallState(c) = "open" /\ UNCHANGED <<req, answer, seen>>
    BY <1>5 DEF CallState, Write, tableVars
  <2>2. \A d \in Callers : CallState(d)' = IF d = c THEN "sent"
                                                      ELSE CallState(d)
    BY <1>5 DEF CallState, Write
  <2>3. call' = [call EXCEPT ![c] = "sent"] /\ about' = about
    BY <2>1, <2>2 DEF AboutOf
  <2>4. QED
    BY <2>1, <2>3 DEF Promise!Next, Promise!Send, AboutOf
<1>6. CASE Withdraw(c) \/ GiveUp(c)
  BY <1>1, <1>6, ErrTyped DEF Withdraw, GiveUp, Err, Promise!Next
<1>7. CASE Receive(c)
  <2>1. CASE result[c].kind = "decision"
    <3>1. CallState(c) = "sent" /\ UNCHANGED <<req, seen>>
          /\ answer'[c] = result[c] /\ result[c].about = c
      BY <1>7, <2>1 DEF CallState, Receive, Return, tableVars, ResultsBound
    <3>2. \A d \in Callers : CallState(d)' = IF d = c THEN "decided"
                                                        ELSE CallState(d)
      BY <1>7, <2>1, <3>1 DEF CallState, Receive, Return
    <3>3. \A d \in Callers : AboutOf(d)' = IF d = c THEN {c} ELSE AboutOf(d)
      BY <1>7, <3>1, MultiplexAssumption DEF AboutOf, Receive, Return
    <3>4. call' = [call EXCEPT ![c] = "decided"]
          /\ about' = [about EXCEPT ![c] = {c}]
      BY <3>2, <3>3
    <3>5. QED
      BY <3>1, <3>4 DEF Promise!Next, Promise!Answer, AboutOf
  <2>2. CASE result[c].kind # "decision"
    BY <1>1, <1>7, <2>2 DEF Receive, ResultsBound, tableVars, Promise!Next
  <2>3. QED
    BY <2>1, <2>2
<1>8. QED
  BY <1>2, <1>3, <1>4, <1>5, <1>6, <1>7 DEF Evaluate, Promise!Next

\* The station keeps the promise of RequestReply to every caller.
THEOREM ImplementsRequestReply == Spec => KeepsPromise
<1>1. TypedCalls /\ ResultsBound /\ [Next]_vars =>
          [Promise!Next]_(Promise!vars)
  <2> SUFFICES ASSUME TypedCalls, ResultsBound, [Next]_vars
               PROVE  [Promise!Next]_(Promise!vars)
    OBVIOUS
  <2>1. ASSUME NEW c \in Callers, Evaluate(c)
        PROVE  [Promise!Next]_(Promise!vars)
    BY <2>1, EvaluateRefined
  <2>2. CASE \/ Start \/ ReadLoop \/ Station \/ UNCHANGED vars
             \/ \E k \in Closers : Close(k)
    <3>1. UNCHANGED <<pc, req, answer, seen>>
      <4>1. CASE ReadLoop
        BY <4>1 DEF ReadLoop, ReadAbandoned, ReadPending, ReadFault, ReadEOF,
           Deliver, FailClosed, FailFatal, DrainOne, KillChild, callVars,
           tableVars
      <4>2. CASE Start \/ Station \/ UNCHANGED vars
        BY <4>2 DEF Start, Station, StationRead, StationAnswer,
           StationMisbehave, Emit, StationEOF, StationExit, vars, tableVars,
           callVars
      <4>3. CASE \E k \in Closers : Close(k)
        BY <4>3 DEF Close, CloseLock, CloseUnstarted, CloseMark, CloseStdin,
           CloseJoin, CloseReap, tableVars, callVars
      <4>4. QED
        BY <2>2, <4>1, <4>2, <4>3
    <3>2. QED
      BY <3>1, QuietStep
  <2>3. QED
    BY <2>1, <2>2 DEF Next
<1>2. QED
  BY <1>1, InitRefined, TypedCallsInvariant, ResultsBoundInvariant, PTL
     DEF Spec, KeepsPromise, Promise!Spec

-----------------------------------------------------------------------------
(* A station that keeps the protocol is trusted.  Every id that is under way   *)
(* is in exactly one place: a request in the child's stdin, in its hands, or a *)
(* line in its stdout.  It is the id of a call that has been written, and      *)
(* while the reader reads it is pending or abandoned, so that the reader knows *)
(* every line it meets.                                                        *)

Honest == StationFaults \cap {"forge", "garble"} = {}

Written == {"awaiting", "expired", "returned"}
Reading == reader \in {"off", "scan", "deliver"}

\* c's call is under id i, and was written to the child.
Asked(c, i) == c \in Callers /\ req[c] = i /\ pc[c] \in Written

Answers(l) ==
    /\ l.kind # "garbled" /\ l.id \in ReqIds
    /\ \E c \in Callers : Asked(c, l.id) /\ (l.kind = "decision" => l.about = c)

RequestsAreAsked ==
    /\ \A n \in 1..Len(inbox) : Asked(inbox[n].from, inbox[n].id)
    /\ \A r \in work : Asked(r.from, r.id)
LinesAnswer == \A n \in 1..Len(outbox) : Answers(outbox[n])

Has(s, i)  == \E n \in 1..Len(s) : s[n].id = i
Once(s)    == \A m, n \in 1..Len(s) : s[m].id = s[n].id => m = n
Working(i) == \E r \in work : r.id = i

InOnePlace ==
    /\ Once(inbox) /\ Once(outbox)
    /\ \A i \in ReqIds : /\ ~(Has(inbox, i) /\ Working(i))
                         /\ ~(Has(inbox, i) /\ Has(outbox, i))
                         /\ ~(Working(i) /\ Has(outbox, i))

UnderWay(i) == Has(inbox, i) \/ Working(i) \/ Has(outbox, i)

Expected ==
    Reading =>
        /\ \A i \in ReqIds : UnderWay(i) => i \in abandoned \/ pending[i] # Nobody
        /\ \A c \in Callers : pc[c] \in {"registered", "writing"} => pending[req[c]] = c

Trusted ==
    /\ reader = "deliver" =>
           line.kind # "garbled" /\ (line.kind = "decision" => line.about = entry)
    /\ reader = "fail" => ~alive /\ outbox = <<>>
    /\ \A c \in Callers : result[c].kind # "misbound" /\ answer[c].kind # "misbound"

Accounted ==
    RequestsAreAsked /\ LinesAnswer /\ InOnePlace /\ Expected /\ Trusted

LEMMA AppendHas ==
    ASSUME NEW S, NEW s \in Seq(S), NEW x \in S
    PROVE  /\ \A i : Has(Append(s, x), i) <=> Has(s, i) \/ i = x.id
           /\ Once(s) /\ ~Has(s, x.id) => Once(Append(s, x))
           /\ \A n \in 1..Len(Append(s, x)) :
                 Append(s, x)[n] = x \/ \E m \in 1..Len(s) : Append(s, x)[n] = s[m]
<1> DEFINE t == Append(s, x)
<1>1. /\ Len(s) \in Nat /\ Len(t) = Len(s) + 1 /\ t[Len(s) + 1] = x
      /\ \A n \in 1..Len(s) : t[n] = s[n]
  BY AppendProperties
<1> HIDE DEF t
<1>2. \A n \in 1..Len(t) : t[n] = x \/ \E m \in 1..Len(s) : t[n] = s[m]
  BY <1>1
<1>3. \A i : Has(t, i) <=> Has(s, i) \/ i = x.id
  BY <1>1 DEF Has
<1>4. ASSUME Once(s), ~Has(s, x.id) PROVE Once(t)
  BY <1>1, <1>4 DEF Once, Has
<1>5. QED
  BY <1>2, <1>3, <1>4 DEF t

LEMMA TailHas ==
    ASSUME NEW S, NEW s \in Seq(S), s # <<>>, Once(s)
    PROVE  /\ Once(Tail(s)) /\ Head(s) = s[1] /\ 1 \in 1..Len(s)
           /\ \A i : Has(Tail(s), i) <=> Has(s, i) /\ i # Head(s).id
           /\ \A n \in 1..Len(Tail(s)) : \E m \in 1..Len(s) : Tail(s)[n] = s[m]
<1> DEFINE t == Tail(s)
<1>1. /\ Len(s) \in Nat \ {0} /\ Len(t) = Len(s) - 1 /\ Head(s) = s[1]
      /\ \A n \in 1..Len(t) : t[n] = s[n + 1]
  BY HeadTailProperties, EmptySeq
<1> HIDE DEF t
<1>2. \A n \in 1..Len(t) : n + 1 \in 1..Len(s) /\ t[n] = s[n + 1]
  BY <1>1
<1>3. Once(t)
  BY <1>1, <1>2 DEF Once
<1>4. \A i : Has(t, i) => Has(s, i) /\ i # Head(s).id
  BY <1>1, <1>2 DEF Has, Once
<1>5. ASSUME NEW i, Has(s, i), i # Head(s).id PROVE Has(t, i)
  <2>1. PICK n \in 1..Len(s) : s[n].id = i
    BY <1>5 DEF Has
  <2>2. n # 1 /\ n - 1 \in 1..Len(t) /\ t[n - 1] = s[n]
    BY <2>1, <1>5, <1>1
  <2>3. QED
    BY <2>1, <2>2 DEF Has
<1>6. QED
  BY <1>1, <1>2, <1>3, <1>4, <1>5 DEF t

\* A written call keeps its id, whatever happens.
LEMMA AskedStays ==
    ASSUME TypedCalls, [Next]_vars
    PROVE  \A c \in Callers, i \in ReqIds : Asked(c, i) => Asked(c, i)'
<1> SUFFICES ASSUME NEW c \in Callers, NEW i \in ReqIds, Asked(c, i)
             PROVE  Asked(c, i)'
  OBVIOUS
<1> USE DEF TypedCalls, TypeOK, CallsHaveIds, Asked, Written
<1>1. ASSUME NEW d \in Callers, Evaluate(d) PROVE Asked(c, i)'
  BY <1>1 DEF Evaluate, Reject, Register, EncodeFails, LockWrite, Write, WriteFails, Withdraw,
     Receive, Expire, GiveUp, Return
<1>2. CASE \/ Start \/ Station \/ ReadLoop \/ UNCHANGED vars \/ \E k \in Closers : Close(k)
  <2>1. pc' = pc /\ req' = req
    BY <1>2 DEF Start, Station, StationRead, StationAnswer, StationMisbehave, Emit, StationEOF,
       StationExit, ReadLoop, ReadAbandoned, ReadPending, ReadFault, ReadEOF, Deliver, FailClosed,
       FailFatal, DrainOne, KillChild, Close, CloseLock, CloseUnstarted, CloseMark, CloseStdin,
       CloseJoin, CloseReap, vars, callVars
  <2>2. QED
    BY <2>1
<1>3. QED
  BY <1>1, <1>2 DEF Next

LEMMA PipesTyped ==
    ASSUME TypedCalls
    PROVE  /\ \A n \in 1..Len(inbox) : inbox[n].from \in Callers /\ inbox[n].id \in ReqIds
           /\ \A r \in work : r.from \in Callers /\ r.id \in ReqIds
<1>1. /\ inbox \in Seq(Requests) /\ work \subseteq Requests
      /\ \A r \in Requests : r.from \in Callers /\ r.id \in ReqIds
  BY DEF TypedCalls, TypeOK, Requests
<1>2. \A n \in 1..Len(inbox) : inbox[n] \in Requests
  BY <1>1, ElementOfSeq
<1>3. QED
  BY <1>1, <1>2

\* An id that is under way is that of a written call, and of no other.
LEMMA UnderWayIsAsked ==
    ASSUME TypedCalls, Accounted
    PROVE  \A i \in ReqIds : UnderWay(i) => \E c \in Callers : Asked(c, i)
BY DEF Accounted, RequestsAreAsked, LinesAnswer, Answers, UnderWay, Has, Working, Asked

LEMMA LinesStay ==
    ASSUME TypedCalls, [Next]_vars, LinesAnswer, outbox' = outbox
    PROVE  LinesAnswer'
BY AskedStays DEF LinesAnswer, Answers, Asked

\* A step that leaves the three places alone.
LEMMA AccountedFrame ==
    ASSUME TypedCalls, Accounted, [Next]_vars, UNCHANGED <<inbox, work, outbox>>,
           Expected', Trusted'
    PROVE  Accounted'
<1> USE DEF Accounted
<1>1. \A c \in Callers, i \in ReqIds : Asked(c, i) => Asked(c, i)'
  BY AskedStays
<1>2. RequestsAreAsked'
  BY <1>1, PipesTyped DEF RequestsAreAsked, Asked
<1>3. LinesAnswer'
  BY LinesStay
<1>4. InOnePlace'
  BY DEF InOnePlace, Has, Once, Working
<1>5. QED
  BY <1>2, <1>3, <1>4

LEMMA AccountedEvaluate ==
    ASSUME TypedCalls, Owed, Accounted, NEW c \in Callers, Evaluate(c)
    PROVE  Accounted'
<1> USE DEF TypedCalls, TypeOK
<1>0. [Next]_vars
  BY DEF Next
<1>1. ASSUME NEW i \in ReqIds \cup {NoId}, Reject(c, i) PROVE Accounted'
  <2>1. Expected' /\ Trusted'
    BY <1>1 DEF Reject, Return, tableVars, flagVars, readerVars, childVars, Err,
       Accounted, Expected, Trusted, Reading, UnderWay, Has, Working
  <2>2. QED
    BY <1>0, <1>1, <2>1, AccountedFrame DEF Reject, childVars
<1>2. ASSUME NEW i \in ReqIds \cup {NoId}, Register(c, i) PROVE Accounted'
  <2> USE <1>2 DEF Register, Refused, flagVars, readerVars, childVars
  <2>1. /\ i \in ReqIds /\ pc[c] = "idle" /\ req' = [req EXCEPT ![c] = i]
        /\ pending' = [pending EXCEPT ![i] = c] /\ abandoned' = abandoned
        /\ reader' = reader /\ \A d \in Callers : req[d] # i
    BY DEF CallsHaveIds
  <2>2. \A j \in ReqIds : UnderWay(j)' <=> UnderWay(j)
    BY DEF UnderWay, Has, Working
  <2>3. \A d \in Callers : pc[d] \in {"registered", "writing"} => req[d] # NoId /\ req[d] \in ReqIds
    BY DEF CallsHaveIds
  <2>4. Expected'
    BY <2>1, <2>2, <2>3 DEF Accounted, Expected, Reading
  <2>5. Trusted'
    BY DEF Accounted, Trusted
  <2>6. QED
    BY <1>0, <2>4, <2>5, AccountedFrame
<1>3. CASE EncodeFails(c) \/ LockWrite(c) \/ WriteFails(c) \/ Expire(c)
  <2>1. /\ UNCHANGED <<pending, abandoned, reader, inbox, work, outbox, req>>
        /\ \A d \in Callers : pc'[d] \in {"registered", "writing"} => pc[d] \in {"registered", "writing"}
    BY <1>3 DEF EncodeFails, LockWrite, WriteFails, Expire, tableVars, readerVars, childVars
  <2>2. Expected'
    BY <2>1 DEF Accounted, Expected, Reading, UnderWay, Has, Working
  <2>3. Trusted'
    BY <1>3 DEF Accounted, Trusted, EncodeFails, LockWrite, WriteFails, Expire, readerVars, childVars
  <2>4. QED
    BY <1>0, <2>1, <2>2, <2>3, AccountedFrame
<1>4. CASE Withdraw(c) \/ GiveUp(c)
  <2>1. /\ pc[c] \in {"withdrawing", "expired"} /\ pc' = [pc EXCEPT ![c] = "returned"]
        /\ req[c] \in ReqIds /\ pending' = [pending EXCEPT ![req[c]] = Nobody]
        /\ abandoned \subseteq abandoned'
        /\ pc[c] = "expired" /\ pending[req[c]] # Nobody => req[c] \in abandoned'
        /\ UNCHANGED <<reader, req, inbox, work, outbox>>
    BY <1>4 DEF Withdraw, GiveUp, RemovePending, PendingWithout, Return, readerVars, childVars,
       CallsHaveIds
  <2>2. \A i \in ReqIds : UnderWay(i)' <=> UnderWay(i)
    BY <2>1 DEF UnderWay, Has, Working
  <2>3. UnderWay(req[c]) => pc[c] = "expired"
    BY <2>1, UnderWayIsAsked DEF Asked, Written, Owed, OneCallPerId
  <2>4. \A d \in Callers : pc'[d] \in {"registered", "writing"} =>
            d # c /\ pc[d] = pc'[d] /\ req[d] # req[c] /\ req[d] \in ReqIds
    BY <2>1 DEF Owed, OneCallPerId, CallsHaveIds
  <2>5. Expected'
    <3> SUFFICES ASSUME Reading' PROVE Expected'
      BY DEF Expected
    <3>1. Reading
      BY <2>1 DEF Reading
    <3>2. ASSUME NEW i \in ReqIds, UnderWay(i) PROVE i \in abandoned' \/ pending'[i] # Nobody
      BY <2>1, <2>3, <3>1, <3>2 DEF Accounted, Expected
    <3>3. \A d \in Callers : pc'[d] \in {"registered", "writing"} => pending'[req'[d]] = d
      BY <2>1, <2>4, <3>1 DEF Accounted, Expected
    <3>4. QED
      BY <2>2, <3>2, <3>3 DEF Expected
  <2>6. Trusted'
    <3>1. /\ UNCHANGED <<result, reader, line, entry, alive, outbox>>
          /\ \E k \in {"unsent", "timeout"} : answer' = [answer EXCEPT ![c] = Err(k)]
      BY <1>4 DEF Withdraw, GiveUp, Return, readerVars, childVars
    <3>2. QED
      BY <3>1 DEF Accounted, Trusted, Err
  <2>7. QED
    BY <1>0, <2>1, <2>5, <2>6, AccountedFrame
<1>5. CASE Receive(c)
  <2>1. /\ UNCHANGED <<pending, abandoned, reader, inbox, work, outbox, req>>
        /\ \A d \in Callers : pc'[d] \in {"registered", "writing"} => pc[d] \in {"registered", "writing"}
    BY <1>5 DEF Receive, Return, tableVars, readerVars, childVars
  <2>2. Expected'
    BY <2>1 DEF Accounted, Expected, Reading, UnderWay, Has, Working
  <2>3. Trusted'
    BY <1>5 DEF Accounted, Trusted, Receive, Return, NoResult, Err, readerVars, childVars
  <2>4. QED
    BY <1>0, <2>1, <2>2, <2>3, AccountedFrame
<1>6. CASE Write(c)
  <2> DEFINE r == [id |-> req[c], from |-> c]
  <2> USE DEF Accounted
  <2>1. /\ pc[c] = "writing" /\ pc' = [pc EXCEPT ![c] = "awaiting"] /\ alive
        /\ inbox' = Append(inbox, r) /\ r \in Requests
        /\ UNCHANGED <<pending, abandoned, req, result, answer, reader, entry, line, alive, work, outbox>>
    BY <1>6 DEF Write, CallsHaveIds, Requests, tableVars, readerVars
  <2>2. r.id = req[c] /\ r.from = c
    OBVIOUS
  <2>3. ~UnderWay(r.id) /\ r.id \in ReqIds
    BY <2>1, <2>2, UnderWayIsAsked DEF Asked, Written, Owed, OneCallPerId, Requests
  <2> HIDE DEF r
  <2>4. /\ \A i : Has(inbox', i) <=> Has(inbox, i) \/ i = r.id
        /\ Once(inbox) /\ ~Has(inbox, r.id) => Once(inbox')
        /\ \A n \in 1..Len(inbox') : inbox'[n] = r \/ \E m \in 1..Len(inbox) : inbox'[n] = inbox[m]
    BY <2>1, AppendHas
  <2>5. \A d \in Callers, i \in ReqIds : Asked(d, i) => Asked(d, i)'
    BY <1>0, AskedStays
  <2>6. RequestsAreAsked'
    <3>1. req'[c] = r.id /\ pc'[c] \in Written
      BY <2>1, <2>2 DEF Written
    <3>2. \A n \in 1..Len(inbox) : req'[inbox[n].from] = inbox[n].id /\ pc'[inbox[n].from] \in Written
      BY <2>5, PipesTyped DEF RequestsAreAsked, Asked
    <3>3. \A n \in 1..Len(inbox') : Asked(inbox[n].from, inbox[n].id)'
      BY <2>2, <2>4, <3>1, <3>2, PipesTyped DEF Asked
    <3>4. QED
      BY <2>1, <2>5, <3>3, PipesTyped DEF RequestsAreAsked, Asked
  <2>7. LinesAnswer'
    BY <1>0, <2>1, LinesStay
  <2>8. \A i \in ReqIds : /\ Has(inbox, i)' <=> Has(inbox, i) \/ i = r.id
                          /\ Working(i)' <=> Working(i)
                          /\ Has(outbox, i)' <=> Has(outbox, i)
    BY <2>1, <2>4 DEF Has, Working
  <2>9. Once(inbox)' /\ Once(outbox)'
    BY <2>1, <2>3, <2>4 DEF InOnePlace, Once, UnderWay
  <2>10. InOnePlace'
    BY <2>3, <2>8, <2>9 DEF InOnePlace, UnderWay
  <2>11. Expected'
    <3> SUFFICES ASSUME Reading PROVE Expected'
      BY <2>1 DEF Expected, Reading
    <3>1. pending[r.id] # Nobody
      BY <2>1, <2>2 DEF Expected
    <3>2. QED
      BY <2>1, <2>8, <3>1 DEF Expected, UnderWay
  <2>12. Trusted'
    BY <2>1 DEF Trusted
  <2>13. QED
    BY <2>6, <2>7, <2>10, <2>11, <2>12
<1>7. QED
  BY <1>1, <1>2, <1>3, <1>4, <1>5, <1>6 DEF Evaluate

LEMMA AccountedReadLoop ==
    ASSUME TypedCalls, Owed, Accounted, ReadLoop
    PROVE  Accounted'
<1> USE DEF TypedCalls, TypeOK
<1>0. [Next]_vars
  BY DEF Next
<1>1. CASE ReadAbandoned \/ ReadPending
  <2> DEFINE l == Head(outbox)
  <2> USE DEF Accounted
  <2>1. /\ reader = "scan" /\ outbox # <<>> /\ outbox' = Tail(outbox) /\ outbox \in Seq(Lines)
        /\ UNCHANGED <<inbox, work, pc, req, result, answer>>
    BY <1>1 DEF ReadAbandoned, ReadPending, Scan, callVars
  <2>2. /\ Once(outbox)' /\ l = outbox[1] /\ 1 \in 1..Len(outbox)
        /\ \A i : Has(outbox, i)' <=> Has(outbox, i) /\ i # l.id
        /\ \A n \in 1..Len(outbox') : \E m \in 1..Len(outbox) : outbox'[n] = outbox[m]
    <3>1. Once(outbox)
      BY DEF InOnePlace
    <3>2. /\ Once(Tail(outbox)) /\ Head(outbox) = outbox[1] /\ 1 \in 1..Len(outbox)
          /\ \A i : Has(Tail(outbox), i) <=> Has(outbox, i) /\ i # Head(outbox).id
          /\ \A n \in 1..Len(Tail(outbox)) : \E m \in 1..Len(outbox) : Tail(outbox)[n] = outbox[m]
      BY <2>1, <3>1, TailHas
    <3>3. QED
      BY <2>1, <3>2 DEF Has, Once
  <2>3. Answers(l) /\ l.id \in ReqIds /\ Has(outbox, l.id)
    BY <2>2 DEF LinesAnswer, Answers, Has
  <2>4. /\ \/ abandoned' = abandoned \ {l.id} /\ pending' = pending /\ UNCHANGED <<reader, line, entry>>
           \/ /\ abandoned' = abandoned /\ pending' = [pending EXCEPT ![l.id] = Nobody]
              /\ reader' = "deliver" /\ line' = l /\ entry' = pending[l.id] /\ pending[l.id] # Nobody
    BY <1>1 DEF ReadAbandoned, ReadPending, Dispatchable, PendingIds, PendingWithout, readerVars
  <2> HIDE DEF l
  <2>5. \A c \in Callers, i \in ReqIds : Asked(c, i) => Asked(c, i)'
    BY <1>0, AskedStays
  <2>6. RequestsAreAsked'
    BY <2>1, <2>5, PipesTyped DEF RequestsAreAsked, Asked
  <2>7. LinesAnswer'
    <3>1. \A m \in 1..Len(outbox) : Answers(outbox[m])
      BY DEF LinesAnswer
    <3>2. QED
      BY <2>1, <2>2, <3>1 DEF LinesAnswer, Answers, Asked
  <2>8. \A i : (Has(inbox, i)' <=> Has(inbox, i)) /\ (Working(i)' <=> Working(i))
    BY <2>1 DEF Has, Working
  <2>9. InOnePlace'
    BY <2>1, <2>2, <2>8 DEF InOnePlace, Once
  <2>10. \A i \in ReqIds : UnderWay(i)' => UnderWay(i) /\ i # l.id
    BY <2>2, <2>3, <2>8 DEF UnderWay, InOnePlace
  <2>11. \A c \in Callers : pc[c] \in {"registered", "writing"} => req[c] # l.id /\ req[c] \in ReqIds
    BY <2>3 DEF Answers, Asked, Written, Owed, OneCallPerId, CallsHaveIds
  <2>12. Expected'
    BY <2>1, <2>4, <2>10, <2>11 DEF Expected, Reading
  <2>13. Trusted'
    <3>1. ASSUME pending[l.id] # Nobody, l.kind = "decision" PROVE l.about = pending[l.id]
      BY <2>3, <3>1 DEF Answers, Asked, Owed, OneCallPerId, PendingIsOwn
    <3>2. QED
      BY <2>1, <2>3, <2>4, <3>1 DEF Trusted, Answers
  <2>14. QED
    BY <2>6, <2>7, <2>9, <2>12, <2>13
<1>2. CASE ReadFault
  \* The reader never meets such a line.
  <2>1. /\ reader = "scan" /\ outbox # <<>> /\ ~Dispatchable(Head(outbox)) /\ outbox \in Seq(Lines)
    BY <1>2 DEF ReadFault, Scan
  <2>2. Head(outbox) = outbox[1] /\ 1 \in 1..Len(outbox)
    BY <2>1, TailHas DEF Accounted, InOnePlace
  <2>3. Answers(Head(outbox)) /\ Has(outbox, Head(outbox).id)
    BY <2>2 DEF Accounted, LinesAnswer, Has
  <2>4. FALSE
    BY <2>1, <2>3 DEF Accounted, Expected, Reading, UnderWay, Answers, Dispatchable, PendingIds
  <2>5. QED
    BY <2>4
<1>3. CASE ReadEOF
  <2>1. Expected' /\ Trusted' /\ UNCHANGED <<inbox, work, outbox>>
    BY <1>3 DEF ReadEOF, callVars, childVars, Accounted, Expected, Trusted, Reading
  <2>2. QED
    BY <1>0, <2>1, AccountedFrame
<1>4. CASE Deliver
  <2>1. /\ UNCHANGED <<pending, abandoned, pc, req, answer, inbox, work, outbox>>
        /\ reader = "deliver" /\ reader' = "scan" /\ entry \in Callers
        /\ result' = [result EXCEPT ![entry] = Outcome(line, entry)]
    BY <1>4 DEF Deliver, tableVars, childVars, Owed, ReaderHolds
  <2>2. Expected'
    BY <2>1 DEF Accounted, Expected, Reading, UnderWay, Has, Working
  <2>3. line \in Lines /\ Outcome(line, entry).kind # "misbound"
    BY <2>1 DEF Accounted, Trusted, Outcome, Err, Lines
  <2>4. Trusted'
    BY <2>1, <2>3 DEF Accounted, Trusted
  <2>5. QED
    BY <1>0, <2>1, <2>2, <2>4, AccountedFrame
<1>5. CASE FailClosed \/ FailFatal \/ KillChild
  <2>1. /\ UNCHANGED <<inbox, work, outbox, result, answer>> /\ reader' \in {"done", "drain"}
    BY <1>5 DEF FailClosed, FailFatal, KillChild, callVars, childVars
  <2>2. Expected' /\ Trusted'
    BY <2>1 DEF Accounted, Expected, Trusted, Reading
  <2>3. QED
    BY <1>0, <2>1, <2>2, AccountedFrame
<1>6. ASSUME NEW c \in Callers, DrainOne(c) PROVE Accounted'
  <2>1. /\ UNCHANGED <<inbox, work, outbox, answer, reader, line, entry>> /\ reader = "drain"
        /\ result' = [result EXCEPT ![c] = Err("fault")]
    BY <1>6 DEF DrainOne, childVars
  <2>2. Expected' /\ Trusted'
    BY <2>1 DEF Accounted, Expected, Trusted, Reading, Err
  <2>3. QED
    BY <1>0, <2>1, <2>2, AccountedFrame
<1>7. QED
  BY <1>1, <1>2, <1>3, <1>4, <1>5, <1>6 DEF ReadLoop

LEMMA AccountedStation ==
    ASSUME TypedCalls, Owed, Accounted, Honest, Station
    PROVE  Accounted'
<1> USE DEF TypedCalls, TypeOK
<1>0. [Next]_vars
  BY DEF Next
<1>1. UNCHANGED <<pending, abandoned, pc, req, result, answer, reader, line, entry>>
  BY DEF Station, StationRead, StationAnswer, StationMisbehave, Emit, StationEOF, StationExit,
     tableVars, callVars, readerVars
<1>2. \A c \in Callers, i \in ReqIds : Asked(c, i) => Asked(c, i)'
  BY <1>0, AskedStays
<1>3. CASE StationRead
  <2> USE DEF Accounted
  <2>1. /\ alive /\ inbox # <<>> /\ inbox \in Seq(Requests) /\ inbox' = Tail(inbox)
        /\ work' = work \cup {Head(inbox)} /\ UNCHANGED <<alive, outbox>>
    BY <1>3 DEF StationRead
  <2>2. Once(inbox)
    BY DEF InOnePlace
  <2>3. /\ Once(inbox') /\ Head(inbox) = inbox[1] /\ 1 \in 1..Len(inbox)
        /\ \A i : Has(inbox', i) <=> Has(inbox, i) /\ i # Head(inbox).id
        /\ \A n \in 1..Len(inbox') : \E m \in 1..Len(inbox) : inbox'[n] = inbox[m]
    BY <2>1, <2>2, TailHas
  <2>4. /\ Has(inbox, Head(inbox).id)
        /\ \A i : Working(i)' <=> Working(i) \/ i = Head(inbox).id
        /\ \A i : Has(outbox, i)' <=> Has(outbox, i)
    BY <2>1, <2>3 DEF Has, Working
  <2>5. RequestsAreAsked'
    <3>1. \A n \in 1..Len(inbox) : req'[inbox[n].from] = inbox[n].id /\ pc'[inbox[n].from] \in Written
      BY <1>2, PipesTyped DEF RequestsAreAsked, Asked
    <3>2. QED
      BY <1>2, <2>1, <2>3, <3>1, PipesTyped DEF RequestsAreAsked, Asked
  <2>6. LinesAnswer'
    BY <1>0, <2>1, LinesStay
  <2>7. InOnePlace'
    BY <2>1, <2>3, <2>4 DEF InOnePlace, Once, Has
  <2>8. \A i \in ReqIds : UnderWay(i)' => UnderWay(i)
    BY <2>3, <2>4 DEF UnderWay, Has
  <2>9. Expected' /\ Trusted'
    BY <1>1, <2>1, <2>8 DEF Expected, Reading, Trusted
  <2>10. QED
    BY <2>5, <2>6, <2>7, <2>9
<1>4. ASSUME NEW r \in work, StationAnswer(r) PROVE Accounted'
  <2> USE DEF Accounted
  <2>1. PICK l \in Lines :
            /\ outbox' = Append(outbox, l) /\ l.id = r.id /\ alive
            /\ \/ l.kind = "decision" /\ l.about = r.from
               \/ l.kind = "error"
    <3>1. r.id \in ReqIds /\ r.from \in Callers
      BY PipesTyped
    <3>2. CASE Emit([kind |-> "decision", id |-> r.id, about |-> r.from])
      BY <3>1, <3>2 DEF Emit, Lines
    <3>3. CASE Emit([kind |-> "error", id |-> r.id, about |-> Nobody])
      <4> DEFINE e == [kind |-> "error", id |-> r.id, about |-> Nobody]
      <4>1. e \in Lines /\ e.id = r.id /\ e.kind = "error"
        BY <3>1 DEF Lines
      <4>2. outbox' = Append(outbox, e) /\ alive
        BY <3>3 DEF Emit
      <4> HIDE DEF e
      <4>3. QED
        BY <4>1, <4>2
    <3>4. QED
      BY <1>4, <3>2, <3>3 DEF StationAnswer
  <2>2. work' = work \ {r} /\ UNCHANGED <<alive, inbox>> /\ outbox \in Seq(Lines)
    BY <1>4 DEF StationAnswer, Emit
  <2>3. Working(r.id) /\ r.id \in ReqIds /\ Asked(r.from, r.id)
    BY PipesTyped DEF Working, RequestsAreAsked
  <2>4. ~Has(inbox, r.id) /\ ~Has(outbox, r.id)
    BY <2>3 DEF InOnePlace
  <2>5. \A w \in work : w.id = r.id => w = r
    <3>1. \A w \in work : w.id = r.id => w.from = r.from
      BY <2>3 DEF RequestsAreAsked, Asked, Owed, OneCallPerId
    <3>2. QED
      BY <3>1 DEF Requests
  <2>6. /\ \A i : Has(outbox', i) <=> Has(outbox, i) \/ i = r.id
        /\ Once(outbox')
        /\ \A n \in 1..Len(outbox') : outbox'[n] = l \/ \E m \in 1..Len(outbox) : outbox'[n] = outbox[m]
    BY <2>1, <2>2, <2>4, AppendHas DEF InOnePlace
  <2>7. /\ \A i : Working(i)' <=> Working(i) /\ i # r.id
        /\ \A i : Has(inbox, i)' <=> Has(inbox, i)
    BY <2>2, <2>5 DEF Working, Has
  <2>8. RequestsAreAsked'
    BY <1>2, <2>2, PipesTyped DEF RequestsAreAsked, Asked
  <2>9. LinesAnswer'
    <3>1. l.kind # "garbled" /\ l.id \in ReqIds
          /\ \E c \in Callers : req'[c] = l.id /\ pc'[c] \in Written /\ (l.kind = "decision" => l.about = c)
      BY <1>2, <2>1, <2>3 DEF Asked
    <3>2. \A m \in 1..Len(outbox) :
              /\ outbox[m].kind # "garbled" /\ outbox[m].id \in ReqIds
              /\ \E c \in Callers : /\ req'[c] = outbox[m].id /\ pc'[c] \in Written
                                    /\ outbox[m].kind = "decision" => outbox[m].about = c
      BY <1>2 DEF LinesAnswer, Answers, Asked
    <3>3. QED
      BY <2>6, <3>1, <3>2 DEF LinesAnswer, Answers, Asked
  <2>10. InOnePlace'
    BY <2>2, <2>4, <2>6, <2>7 DEF InOnePlace, Once, Has
  <2>11. \A i \in ReqIds : UnderWay(i)' => UnderWay(i)
    BY <2>3, <2>6, <2>7 DEF UnderWay, Has
  <2>12. Expected' /\ Trusted'
    BY <1>1, <2>1, <2>2, <2>11 DEF Expected, Reading, Trusted
  <2>13. QED
    BY <2>8, <2>9, <2>10, <2>12
<1>5. CASE StationMisbehave
  BY <1>5 DEF StationMisbehave, Honest
<1>6. CASE StationEOF \/ StationExit
  <2>1. UNCHANGED <<inbox, work, outbox>> /\ ~alive'
    BY <1>6 DEF StationEOF, StationExit
  <2>2. Expected' /\ Trusted'
    BY <1>1, <2>1 DEF Accounted, Expected, Reading, Trusted, UnderWay, Has, Working
  <2>3. QED
    BY <1>0, <2>1, <2>2, AccountedFrame
<1>7. QED
  BY <1>3, <1>4, <1>5, <1>6 DEF Station

LEMMA AccountedInvariant == Honest => (Spec => []Accounted)
<1> SUFFICES ASSUME Honest PROVE Spec => []Accounted
  OBVIOUS
<1>1. Init => Accounted
  BY DEF Init, Accounted, RequestsAreAsked, LinesAnswer, InOnePlace, Expected, Trusted, Reading,
     UnderWay, Has, Once, Working, NoResult, Err
<1>2. TypedCalls /\ Owed /\ Accounted /\ [Next]_vars => Accounted'
  <2> SUFFICES ASSUME TypedCalls, Owed, Accounted, [Next]_vars PROVE Accounted'
    OBVIOUS
  <2>1. CASE Start
    <3>1. /\ UNCHANGED <<pending, abandoned, pc, req, result, answer, inbox, work, outbox>>
          /\ reader = "off" /\ reader' = "scan"
      BY <2>1 DEF Start, tableVars, callVars, Owed, ReaderHolds
    <3>2. Expected' /\ Trusted'
      BY <3>1 DEF Accounted, Expected, Trusted, Reading, UnderWay, Has, Working
    <3>3. QED
      BY <3>1, <3>2, AccountedFrame
  <2>2. ASSUME NEW c \in Callers, Evaluate(c) PROVE Accounted'
    BY <2>2, AccountedEvaluate
  <2>3. CASE ReadLoop
    BY <2>3, AccountedReadLoop
  <2>4. CASE Station
    BY <2>4, AccountedStation
  <2>5. CASE UNCHANGED vars \/ \E k \in Closers : Close(k)
    <3>1. UNCHANGED <<pending, abandoned, pc, req, result, answer, reader, line, entry, alive, inbox, work, outbox>>
      BY <2>5 DEF vars, Close, CloseLock, CloseUnstarted, CloseMark, CloseStdin, CloseJoin, CloseReap,
         tableVars, callVars, readerVars, childVars
    <3>2. Expected' /\ Trusted'
      BY <3>1 DEF Accounted, Expected, Trusted, Reading, UnderWay, Has, Working
    <3>3. QED
      BY <3>1, <3>2, AccountedFrame
  <2>6. QED
    BY <2>1, <2>2, <2>3, <2>4, <2>5 DEF Next
<1>3. Spec => [](TypedCalls /\ Owed)
  BY AnswerInvariant, PTL DEF AnswerInv
<1>4. QED
  BY <1>1, <1>2, <1>3, PTL DEF Spec

\* A station that keeps the protocol is failed at the end of its output only, and
\* nobody ever receives somebody else's decision.
THEOREM HonestStationTrusted == Spec => []HonestStationIsTrusted
<1>1. CASE Honest
  <2>1. Accounted => HonestStationIsTrusted
    BY DEF Accounted, Trusted, HonestStationIsTrusted
  <2>2. QED
    BY <1>1, <2>1, AccountedInvariant, PTL
<1>2. CASE ~Honest
  <2>1. HonestStationIsTrusted
    BY <1>2 DEF Honest, HonestStationIsTrusted
  <2>2. QED
    BY <2>1, PTL
<1>3. QED
  BY <1>1, <1>2
=============================================================================
