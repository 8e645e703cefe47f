----------------------------- MODULE Multiplex -----------------------------
(***************************************************************************)
(* MultiplexProcess (internal/lifetrastation/multiplex.go): goroutines     *)
(* share one child process.  Each Evaluate registers a request id, writes  *)
(* one line to the child's stdin and waits for the reader goroutine to     *)
(* route the line that carries the same id back to it.  Lines may come     *)
(* back in any order, late, or never; Close and a fatal protocol error     *)
(* race with all of it.                                                    *)
(*                                                                         *)
(* The station mutex mu is modelled by atomic steps, except in Close,      *)
(* which keeps it while it waits for the child (MuFree).  writeMu is held  *)
(* over several steps and is the variable writeMu.  A request is told      *)
(* apart from another by the caller that made it: observation, action and  *)
(* receipt ids are one value, the caller.                                  *)
(***************************************************************************)
EXTENDS Integers, Sequences, FiniteSets

CONSTANTS
    Callers,        \* goroutines, each in one call of Evaluate
    Closers,        \* goroutines, each in one call of Close
    ReqIds,         \* the request ids callers choose from
    Nobody,         \* no goroutine
    NoId,           \* the empty request id
    Deadlines,      \* callers with a deadline: Config.Timeout, or their context's
    StationFaults,  \* how the child may misbehave
    InCap,          \* lines that fit in the child's stdin pipe
    OutCap          \* lines that fit in the child's stdout pipe

Faults == {"exit", "error", "forge", "garble"}

ASSUME MultiplexAssumption ==
    /\ Callers \cap Closers = {}
    /\ Nobody \notin Callers \cup Closers
    /\ NoId \notin ReqIds
    /\ Deadlines \subseteq Callers
    /\ StationFaults \subseteq Faults
    /\ InCap \in Nat \ {0}
    /\ OutCap \in Nat \ {0}

VARIABLES
    started,    \* station.cmd is set
    pending,    \* pending[i]: the caller whose entry is under id i
    seen,       \* ids used in this station's lifetime
    abandoned,  \* ids whose caller gave up before the reply
    closed, readerErr, waited,
    writeMu,    \* the goroutine that holds writeMu
    stdinOpen,  \* our end of the child's stdin
    pc, req,    \* per caller: where it is in Evaluate, and its request id
    result,     \* per caller: its result channel, of capacity one
    answer,     \* per caller: what Evaluate returned
    reader,     \* where the reader goroutine is
    entry, line,\* the entry taken from pending and the line being dispatched
    batch,      \* entries failFatal still has to answer
    closePc,    \* per closer: where it is in Close
    alive,      \* the child process runs
    inbox,      \* lines in the child's stdin pipe
    work,       \* requests the child has read and not answered
    outbox      \* lines in the child's stdout pipe

tableVars  == <<pending, seen, abandoned>>
flagVars   == <<started, closed, readerErr, waited, stdinOpen>>
callVars   == <<pc, req, result, answer>>
readerVars == <<reader, entry, line, batch>>
childVars  == <<alive, inbox, work, outbox>>
vars == <<tableVars, flagVars, callVars, readerVars, childVars,
          writeMu, closePc>>

Lines == [kind  : {"decision", "error", "garbled"},
          id    : ReqIds \cup {NoId},
          about : Callers \cup {Nobody}]
Requests == [id : ReqIds, from : Callers]

NoLine == [kind |-> "garbled", id |-> NoId, about |-> Nobody]

Outcomes == [kind  : {"none", "rejected", "unsent", "timeout", "fault",
                      "stationError", "misbound", "decision"},
             about : Callers \cup {Nobody}]

\* A result without a decision.
Err(k) == [kind |-> k, about |-> Nobody]
NoResult == Err("none")

\* Close holds mu from the end of the reader to the end of the child.
MuFree == \A k \in Closers : closePc[k] # "reaping"

Return(c, r) ==
    /\ pc' = [pc EXCEPT ![c] = "returned"]
    /\ answer' = [answer EXCEPT ![c] = r]

Init ==
    /\ started = FALSE
    /\ pending = [i \in ReqIds |-> Nobody]
    /\ seen = {} /\ abandoned = {}
    /\ closed = FALSE /\ readerErr = FALSE /\ waited = FALSE
    /\ writeMu = Nobody
    /\ stdinOpen = FALSE
    /\ pc = [c \in Callers |-> "idle"]
    /\ req = [c \in Callers |-> NoId]
    /\ result = [c \in Callers |-> NoResult]
    /\ answer = [c \in Callers |-> NoResult]
    /\ reader = "off" /\ entry = Nobody /\ line = NoLine
    /\ batch = {}
    /\ closePc = [k \in Closers |-> "idle"]
    /\ alive = FALSE
    /\ inbox = <<>> /\ work = {} /\ outbox = <<>>

-----------------------------------------------------------------------------
(* Start: one child and one reader goroutine. *)
Start ==
    /\ ~started
    /\ started' = TRUE
    /\ alive' = TRUE
    /\ stdinOpen' = TRUE
    /\ reader' = "scan"
    /\ UNCHANGED <<tableVars, closed, readerErr, waited, callVars, entry, line,
                   batch, inbox, work, outbox, writeMu, closePc>>

-----------------------------------------------------------------------------
(* Evaluate. *)

PendingIds == {i \in ReqIds : pending[i] # Nobody}

\* Mistakes the properties reject: ids used again once their call is over, and
\* no check for the empty id.
RefusedWhilePending(i) == i = NoId \/ ~started \/ closed \/ i \in PendingIds
RefusedIfSeen(i) == ~started \/ closed \/ i \in seen

Refused(i) == i = NoId \/ ~started \/ closed \/ i \in seen

\* The checks before anything is recorded: empty id, not started, closed, or
\* an id this station has already used.
Reject(c, i) ==
    /\ pc[c] = "idle" /\ MuFree
    /\ Refused(i)
    /\ Return(c, Err("rejected"))
    /\ UNCHANGED <<tableVars, flagVars, req, result, readerVars, childVars,
                   writeMu, closePc>>

Register(c, i) ==
    /\ pc[c] = "idle" /\ MuFree
    /\ ~Refused(i)
    /\ seen' = seen \cup {i}
    /\ pending' = [pending EXCEPT ![i] = c]
    /\ req' = [req EXCEPT ![c] = i]
    /\ pc' = [pc EXCEPT ![c] = "registered"]
    /\ UNCHANGED <<abandoned, flagVars, result, answer, readerVars, childVars,
                   writeMu, closePc>>

\* json.Marshal refuses the envelope (an unencodable action input).
EncodeFails(c) ==
    /\ pc[c] = "registered"
    /\ pc' = [pc EXCEPT ![c] = "withdrawing"]
    /\ UNCHANGED <<tableVars, flagVars, req, result, answer, readerVars,
                   childVars, writeMu, closePc>>

LockWrite(c) ==
    /\ pc[c] = "registered"
    /\ writeMu = Nobody
    /\ writeMu' = c
    /\ pc' = [pc EXCEPT ![c] = "writing"]
    /\ UNCHANGED <<tableVars, flagVars, req, result, answer, readerVars,
                   childVars, closePc>>

\* The write blocks, with writeMu held, while the pipe is full.  The deadline
\* starts only after it.
Write(c) ==
    /\ pc[c] = "writing"
    /\ stdinOpen /\ alive
    /\ Len(inbox) < InCap
    /\ inbox' = Append(inbox, [id |-> req[c], from |-> c])
    /\ writeMu' = Nobody
    /\ pc' = [pc EXCEPT ![c] = "awaiting"]
    /\ UNCHANGED <<tableVars, flagVars, req, result, answer, readerVars,
                   alive, work, outbox, closePc>>

\* The pipe is closed on our side, or the child is gone.
WriteFails(c) ==
    /\ pc[c] = "writing"
    /\ ~stdinOpen \/ ~alive
    /\ writeMu' = Nobody
    /\ pc' = [pc EXCEPT ![c] = "withdrawing"]
    /\ UNCHANGED <<tableVars, flagVars, req, result, answer, readerVars,
                   childVars, closePc>>

\* A mistake: the entry is read and left in the table.
PendingKept(i) == pending

PendingWithout(i) == [pending EXCEPT ![i] = Nobody]

RemovePending(i, abandon) ==
    /\ MuFree
    /\ pending' = PendingWithout(i)
    /\ abandoned' = IF abandon /\ pending[i] # Nobody
                    THEN abandoned \cup {i}
                    ELSE abandoned

\* A request that was not sent is removed and its id is not abandoned.
Withdraw(c) ==
    /\ pc[c] = "withdrawing"
    /\ RemovePending(req[c], FALSE)
    /\ Return(c, Err("unsent"))
    /\ UNCHANGED <<seen, flagVars, req, result, readerVars, childVars,
                   writeMu, closePc>>

\* select, first case.
Receive(c) ==
    /\ pc[c] = "awaiting"
    /\ result[c] # NoResult
    /\ Return(c, result[c])
    /\ result' = [result EXCEPT ![c] = NoResult]
    /\ UNCHANGED <<tableVars, flagVars, req, readerVars, childVars,
                   writeMu, closePc>>

\* select, second case: it may be taken although a result is there.
Expire(c) ==
    /\ pc[c] = "awaiting"
    /\ c \in Deadlines
    /\ pc' = [pc EXCEPT ![c] = "expired"]
    /\ UNCHANGED <<tableVars, flagVars, req, result, answer, readerVars,
                   childVars, writeMu, closePc>>

GiveUp(c) ==
    /\ pc[c] = "expired"
    /\ RemovePending(req[c], TRUE)
    /\ Return(c, Err("timeout"))
    /\ UNCHANGED <<seen, flagVars, req, result, readerVars, childVars,
                   writeMu, closePc>>

-----------------------------------------------------------------------------
(* The reader goroutine: readLoop, dispatchLine, failFatal. *)

\* A line that cannot be decoded, is too long, or carries an id that is
\* neither abandoned nor pending ends the reader.
Dispatchable(l) == l.kind # "garbled" /\ l.id \in abandoned \cup PendingIds

Scan ==
    /\ reader = "scan" /\ outbox # <<>> /\ MuFree
    /\ outbox' = Tail(outbox)

ReadAbandoned ==
    /\ Scan
    /\ LET l == Head(outbox) IN
       /\ Dispatchable(l)
       /\ l.id \in abandoned
       /\ abandoned' = abandoned \ {l.id}
    /\ UNCHANGED <<pending, seen, flagVars, callVars, readerVars, alive, inbox,
                   work, writeMu, closePc>>

ReadPending ==
    /\ Scan
    /\ LET l == Head(outbox) IN
       /\ Dispatchable(l)
       /\ l.id \notin abandoned
       /\ entry' = pending[l.id]
       /\ line' = l
       /\ pending' = PendingWithout(l.id)
    /\ reader' = "deliver"
    /\ UNCHANGED <<seen, abandoned, flagVars, callVars, batch, alive, inbox,
                   work, writeMu, closePc>>

ReadFault ==
    /\ Scan
    /\ ~Dispatchable(Head(outbox))
    /\ reader' = "fail"
    /\ UNCHANGED <<tableVars, flagVars, callVars, entry, line, batch, alive,
                   inbox, work, writeMu, closePc>>

ReadEOF ==
    /\ reader = "scan" /\ outbox = <<>> /\ ~alive
    /\ reader' = "fail"
    /\ UNCHANGED <<tableVars, flagVars, callVars, entry, line, batch,
                   childVars, writeMu, closePc>>

\* A mistake: the request id alone decides whose answer a line is.
OutcomeById(l, c) ==
    IF l.kind = "error" THEN Err("stationError")
    ELSE [kind |-> "decision", about |-> l.about]

\* validateBinding: the decision must name the request it was routed to.
Outcome(l, c) ==
    IF l.kind = "error" THEN Err("stationError")
    ELSE IF l.about # c THEN Err("misbound")
    ELSE [kind |-> "decision", about |-> l.about]

\* The send on the entry's channel blocks while the channel is full.
Deliver ==
    /\ reader = "deliver"
    /\ result[entry] = NoResult
    /\ result' = [result EXCEPT ![entry] = Outcome(line, entry)]
    /\ entry' = Nobody
    /\ line' = NoLine
    /\ reader' = "scan"
    /\ UNCHANGED <<tableVars, flagVars, pc, req, answer, batch, childVars,
                   writeMu, closePc>>

\* failFatal: nothing is done when the station is already closed.
FailClosed ==
    /\ reader = "fail" /\ MuFree
    /\ closed
    /\ reader' = "done"
    /\ UNCHANGED <<tableVars, flagVars, callVars, entry, line, batch,
                   childVars, writeMu, closePc>>

\* A mistake: the table is replaced before its entries are collected.
NoPendingCallers == {}

PendingCallers == {pending[i] : i \in PendingIds}

FailFatal ==
    /\ reader = "fail" /\ MuFree
    /\ ~closed
    /\ closed' = TRUE
    /\ readerErr' = TRUE
    /\ batch' = PendingCallers
    /\ pending' = [i \in ReqIds |-> Nobody]
    /\ reader' = "drain"
    /\ UNCHANGED <<seen, abandoned, started, waited, stdinOpen, callVars,
                   entry, line, childVars, writeMu, closePc>>

DrainOne(c) ==
    /\ reader = "drain"
    /\ c \in batch
    /\ result[c] = NoResult
    /\ result' = [result EXCEPT ![c] = Err("fault")]
    /\ batch' = batch \ {c}
    /\ UNCHANGED <<tableVars, flagVars, pc, req, answer, reader, entry, line,
                   childVars, writeMu, closePc>>

KillChild ==
    /\ reader = "drain" /\ batch = {}
    /\ alive' = FALSE
    /\ reader' = "done"
    /\ UNCHANGED <<tableVars, flagVars, callVars, entry, line, batch, inbox,
                   work, outbox, writeMu, closePc>>

-----------------------------------------------------------------------------
(* Close. *)

CloseLock(k) ==
    /\ closePc[k] = "idle"
    /\ writeMu = Nobody
    /\ writeMu' = k
    /\ closePc' = [closePc EXCEPT ![k] = "locked"]
    /\ UNCHANGED <<tableVars, flagVars, callVars, readerVars, childVars>>

CloseUnstarted(k) ==
    /\ closePc[k] = "locked" /\ MuFree
    /\ ~started
    /\ writeMu' = Nobody
    /\ closePc' = [closePc EXCEPT ![k] = "returned"]
    /\ UNCHANGED <<tableVars, flagVars, callVars, readerVars, childVars>>

CloseMark(k) ==
    /\ closePc[k] = "locked" /\ MuFree
    /\ started
    /\ closed' = TRUE
    /\ closePc' = [closePc EXCEPT ![k] = "marked"]
    /\ UNCHANGED <<tableVars, started, readerErr, waited, stdinOpen, callVars,
                   readerVars, childVars, writeMu>>

\* Mistakes: the child is not told that its input has ended; writeMu is kept.
CloseKeepsStdin(k) ==
    /\ closePc[k] = "marked"
    /\ writeMu' = Nobody
    /\ closePc' = [closePc EXCEPT ![k] = "joining"]
    /\ UNCHANGED <<tableVars, flagVars, callVars, readerVars, childVars>>

CloseKeepsWriteMu(k) ==
    /\ closePc[k] = "marked"
    /\ stdinOpen' = FALSE
    /\ closePc' = [closePc EXCEPT ![k] = "joining"]
    /\ UNCHANGED <<tableVars, started, closed, readerErr, waited, callVars,
                   readerVars, childVars, writeMu>>

CloseStdin(k) ==
    /\ closePc[k] = "marked"
    /\ stdinOpen' = FALSE
    /\ writeMu' = Nobody
    /\ closePc' = [closePc EXCEPT ![k] = "joining"]
    /\ UNCHANGED <<tableVars, started, closed, readerErr, waited, callVars,
                   readerVars, childVars>>

\* <-readerDone, then mu; the first closer waits for the child under mu.
CloseJoin(k) ==
    /\ closePc[k] = "joining"
    /\ reader = "done" /\ MuFree
    /\ waited' = TRUE
    /\ closePc' = [closePc EXCEPT ![k] = IF waited THEN "returned" ELSE "reaping"]
    /\ UNCHANGED <<tableVars, started, closed, readerErr, stdinOpen, callVars,
                   readerVars, childVars, writeMu>>

CloseReap(k) ==
    /\ closePc[k] = "reaping"
    /\ ~alive
    /\ closePc' = [closePc EXCEPT ![k] = "returned"]
    /\ UNCHANGED <<tableVars, flagVars, callVars, readerVars, childVars,
                   writeMu>>

-----------------------------------------------------------------------------
(* The child process (external): it reads requests, answers them in any     *)
(* order, and ends when its input has ended and its work is done.           *)
(* StationFaults says what else it may do.                                  *)

StationRead ==
    /\ alive /\ inbox # <<>>
    /\ work' = work \cup {Head(inbox)}
    /\ inbox' = Tail(inbox)
    /\ UNCHANGED <<tableVars, flagVars, callVars, readerVars, alive, outbox,
                   writeMu, closePc>>

Emit(l) ==
    /\ alive /\ Len(outbox) < OutCap
    /\ outbox' = Append(outbox, l)
    /\ UNCHANGED <<tableVars, flagVars, callVars, readerVars, alive, inbox,
                   writeMu, closePc>>

StationAnswer(r) ==
    /\ r \in work
    /\ work' = work \ {r}
    /\ \/ Emit([kind |-> "decision", id |-> r.id, about |-> r.from])
       \/ /\ "error" \in StationFaults
          /\ Emit([kind |-> "error", id |-> r.id, about |-> Nobody])

\* A decision nobody asked for, one under another id, or one repeated; a line
\* without an id; a line that is no JSON.
StationMisbehave ==
    /\ UNCHANGED work
    /\ \/ /\ "forge" \in StationFaults
          /\ \E i \in ReqIds \cup {NoId}, c \in Callers :
                Emit([kind |-> "decision", id |-> i, about |-> c])
       \/ /\ "garble" \in StationFaults
          /\ Emit(NoLine)

StationEOF ==
    /\ alive /\ ~stdinOpen /\ inbox = <<>> /\ work = {}
    /\ alive' = FALSE
    /\ UNCHANGED <<tableVars, flagVars, callVars, readerVars, inbox, work,
                   outbox, writeMu, closePc>>

StationExit ==
    /\ alive /\ "exit" \in StationFaults
    /\ alive' = FALSE
    /\ UNCHANGED <<tableVars, flagVars, callVars, readerVars, inbox, work,
                   outbox, writeMu, closePc>>

-----------------------------------------------------------------------------
Evaluate(c) ==
    \/ \E i \in ReqIds \cup {NoId} : Reject(c, i) \/ Register(c, i)
    \/ EncodeFails(c) \/ LockWrite(c) \/ Write(c) \/ WriteFails(c)
    \/ Withdraw(c) \/ Receive(c) \/ Expire(c) \/ GiveUp(c)

ReadLoop ==
    \/ ReadAbandoned \/ ReadPending \/ ReadFault \/ ReadEOF
    \/ Deliver \/ FailClosed \/ FailFatal
    \/ \E c \in Callers : DrainOne(c)
    \/ KillChild

Close(k) ==
    \/ CloseLock(k) \/ CloseUnstarted(k) \/ CloseMark(k) \/ CloseStdin(k)
    \/ CloseJoin(k) \/ CloseReap(k)

Station ==
    \/ StationRead
    \/ \E r \in work : StationAnswer(r)
    \/ StationMisbehave \/ StationEOF \/ StationExit

Next ==
    \/ Start
    \/ \E c \in Callers : Evaluate(c)
    \/ ReadLoop
    \/ \E k \in Closers : Close(k)
    \/ Station

Spec == Init /\ [][Next]_vars

(***************************************************************************)
(* Fairness.  Goroutines that can run do run, and sync.Mutex hands the     *)
(* lock to a waiter that has waited long (starvation mode), so a caller    *)
(* does not wait for writeMu for ever.  A deadline passes.  Whether the    *)
(* child reads, answers and ends at end of input is its own affair: the    *)
(* runs that need it assume it (StationFairness).                          *)
(***************************************************************************)
ProgramFairness ==
    /\ \A c \in Callers :
          /\ WF_vars(Write(c) \/ WriteFails(c) \/ Withdraw(c) \/ Receive(c)
                     \/ Expire(c) \/ GiveUp(c))
          /\ SF_vars(LockWrite(c))
    /\ WF_vars(ReadLoop)
    /\ \A k \in Closers :
          /\ SF_vars(CloseJoin(k))
          /\ WF_vars(CloseUnstarted(k) \/ CloseMark(k) \/ CloseStdin(k)
                     \/ CloseReap(k))

StationFairness ==
    /\ WF_vars(StationRead)
    /\ \A i \in ReqIds, c \in Callers :
          WF_vars(/\ [id |-> i, from |-> c] \in work
                  /\ StationAnswer([id |-> i, from |-> c]))
    /\ WF_vars(StationEOF)

FairSpec == Spec /\ ProgramFairness /\ StationFairness

-----------------------------------------------------------------------------
(* Properties. *)

TypeOK ==
    /\ started \in BOOLEAN /\ closed \in BOOLEAN /\ readerErr \in BOOLEAN
    /\ waited \in BOOLEAN /\ stdinOpen \in BOOLEAN /\ alive \in BOOLEAN
    /\ pending \in [ReqIds -> Callers \cup {Nobody}]
    /\ seen \subseteq ReqIds /\ abandoned \subseteq ReqIds
    /\ writeMu \in Callers \cup Closers \cup {Nobody}
    /\ pc \in [Callers -> {"idle", "registered", "writing", "awaiting",
                           "withdrawing", "expired", "returned"}]
    /\ req \in [Callers -> ReqIds \cup {NoId}]
    /\ result \in [Callers -> Outcomes] /\ answer \in [Callers -> Outcomes]
    /\ reader \in {"off", "scan", "deliver", "fail", "drain", "done"}
    /\ entry \in Callers \cup {Nobody} /\ line \in Lines
    /\ batch \subseteq Callers
    /\ closePc \in [Closers -> {"idle", "locked", "marked", "joining",
                                "reaping", "returned"}]
    /\ inbox \in Seq(Requests) /\ work \subseteq Requests
    /\ outbox \in Seq(Lines)

\* The reader is about to answer c: c's entry was taken from pending.
Taken(c) == c \in batch \/ (reader = "deliver" /\ entry = c)

\* Every caller that waits for an answer and has none in its channel is still
\* owed one: its entry is in pending or the reader has taken it.  A caller
\* missing from both would wait for its deadline, or for ever.
EveryWaiterIsOwed ==
    \A c \in Callers :
        pc[c] \in {"registered", "writing", "awaiting"} /\ result[c] = NoResult
        => Taken(c) \/ pending[req[c]] = c

\* The reader's send on a result channel never blocks: whoever it is about to
\* answer has an empty channel and no second entry in pending.  A second send
\* would stop the reader, and every other caller with it.
AnswersNeverCollide ==
    \A c \in Callers : Taken(c) =>
        /\ result[c] = NoResult
        /\ \A i \in ReqIds : pending[i] # c
        /\ ~(c \in batch /\ reader = "deliver")

\* A station that answers each request under its own id, in any order, late or
\* with an error, is never punished for the program's own timeouts: the reader
\* gives up only at the end of the child's output, and no caller ever receives
\* somebody else's decision, not even to reject it.
HonestStationIsTrusted ==
    StationFaults \cap {"forge", "garble"} = {} =>
        /\ reader = "fail" => ~alive /\ outbox = <<>>
        /\ \A c \in Callers : "misbound" \notin {result[c].kind, answer[c].kind}

\* A fatal fault answers everyone: once the reader has failed the station (and
\* not found it closed by Close), nobody is left waiting with an empty channel.
FatalStrandsNobody ==
    readerErr /\ reader = "done" =>
        \A c \in Callers : pc[c] = "awaiting" => result[c] # NoResult

\* The station keeps the promise of RequestReply.
CallState(c) ==
    CASE pc[c] = "idle" -> "idle"
      [] pc[c] \in {"registered", "writing", "withdrawing"} -> "open"
      [] pc[c] \in {"awaiting", "expired"} -> "sent"
      [] pc[c] = "returned" ->
            IF answer[c].kind = "decision" THEN "decided" ELSE "failed"

Promise == INSTANCE RequestReply WITH
    call  <- [c \in Callers |-> CallState(c)],
    id    <- req,
    used  <- seen,
    about <- [c \in Callers |-> {answer[c].about} \ {Nobody}]

KeepsPromise == Promise!Spec

\* Close has marked the station closed, and the child is gone without having
\* answered c: failFatal finds the station closed and answers nobody.
DroppedAfterClose(c) ==
    /\ closed /\ ~readerErr /\ ~alive
    /\ \E i \in ReqIds : LET r == [id |-> i, from |-> c] IN
           r \in work \/ \E n \in 1..Len(inbox) : inbox[n] = r

\* Every registered call of Evaluate returns, without any deadline, whatever
\* the pipes hold and whether the child answers or dies: the one exception is
\* a request the child drops after Close.
EvaluateReturns ==
    \A c \in Callers :
        pc[c] = "registered" ~> pc[c] = "returned" \/ DroppedAfterClose(c)

\* Every call of Close that got writeMu returns: it waits for the reader and
\* for the child, and neither waits for a caller.
CloseReturns ==
    \A k \in Closers : closePc[k] = "locked" ~> closePc[k] = "returned"
=============================================================================
