---------------------------- MODULE AdaptivePool ----------------------------
(***************************************************************************)
(* AdaptivePool (internal/lifetrastation/adaptive.go): admission control   *)
(* and routing over several MultiplexProcess stations.  A call reserves a  *)
(* slot on one station, evaluates there, and gives the slot back with the  *)
(* latency it saw; a call that finds every station at its cap is told to   *)
(* come again later with the same request id.                              *)
(*                                                                         *)
(* Calls of the pool are interleaved with one another and with Close.      *)
(* Multiplex models what happens inside a station; here a call is with its *)
(* station until the child answers, the child is gone, or the deadline     *)
(* passes, and outstanding counts what the child really still works on.    *)
(***************************************************************************)
EXTENDS Integers, FiniteSets

CONSTANTS
    Callers,        \* goroutines, each with one request that it may retry
    ReqIds,         \* request ids
    Picks,          \* which ids the callers may bring; two may bring the same
    N,              \* stations in the pool
    MaxInFlight,    \* Config.MaxInFlightPerStation
    Latencies,      \* the latencies a call may observe
    InitialLatency, \* the service time assumed before the first sample
    AlphaNum, AlphaDen  \* EWMAAlpha as a fraction

ASSUME AdaptivePoolAssumption ==
    /\ IsFiniteSet(Callers)
    /\ Picks \subseteq [Callers -> ReqIds]
    /\ N \in Nat \ {0} /\ MaxInFlight \in Nat \ {0}
    /\ Latencies \subseteq Nat
    /\ InitialLatency \in Nat \ {0}
    /\ AlphaDen \in Nat \ {0} /\ AlphaNum \in 1..AlphaDen

VARIABLES
    open,       \* pool.stations is not nil
    inFlight, completed, errors, ewma,  \* per station, as the pool sees it
    seen,       \* request ids the pool has admitted
    cursor,     \* where the next scan starts
    up,         \* per station: it takes requests
    outstanding,\* per station: ids the child has received and not answered
    pc,         \* per caller: where its call is
    req, at,    \* per caller: its request id, and the station it reserved
    reply       \* per caller: how its last call of Evaluate ended

poolVars == <<open, inFlight, completed, errors, ewma, seen, cursor>>
stationVars == <<up, outstanding>>
callVars == <<pc, req, at, reply>>
vars == <<poolVars, stationVars, callVars>>

Stations == 0..(N - 1)
NoStation == -1
Replies == {"none", "empty", "duplicate", "backpressure", "ok", "error"}

Init ==
    /\ open = TRUE
    /\ inFlight = [s \in Stations |-> 0]
    /\ completed = [s \in Stations |-> 0]
    /\ errors = [s \in Stations |-> 0]
    /\ ewma = [s \in Stations |-> 0]
    /\ seen = {}
    /\ cursor = 0
    /\ up = [s \in Stations |-> TRUE]
    /\ outstanding = [s \in Stations |-> {}]
    /\ pc = [c \in Callers |-> "idle"]
    /\ req \in Picks
    /\ at = [c \in Callers |-> NoStation]
    /\ reply = [c \in Callers |-> "none"]

-----------------------------------------------------------------------------
(* chooseStationLocked. *)

Service(s) == IF ewma[s] <= 0 THEN InitialLatency ELSE ewma[s]

EstimatedDelay(s) == (inFlight[s] + 1) * Service(s)

\* Mistakes: a station stays cold until its first sample is back; no station is
\* explored before latency counts.
ColdUntilSampled == {s \in Stations : completed[s] = 0}
NeverCold == {}
Cold == {s \in Stations : completed[s] = 0 /\ inFlight[s] = 0}

Free == {s \in Stations : inFlight[s] < MaxInFlight}

Soonest == {s \in Free : \A t \in Free : EstimatedDelay(s) <= EstimatedDelay(t)}

\* The first station of S at or after the cursor.
Scanned(s) == (s - cursor) % N
FirstFromCursor(S) == {s \in S : \A t \in S : Scanned(s) <= Scanned(t)}

\* The station the next admitted call gets: none, or one.
Chosen == FirstFromCursor(IF Cold # {} THEN Cold ELSE Soonest)

-----------------------------------------------------------------------------
(* Evaluate. *)

Return(c, r) ==
    /\ pc' = [pc EXCEPT ![c] = "returned"]
    /\ reply' = [reply EXCEPT ![c] = r]

\* reserve refuses: the pool is closed, the id was admitted before, or no
\* station is below its cap.  Nothing of the pool changes.
ReserveFails(c) ==
    /\ pc[c] = "idle"
    /\ \/ ~open /\ Return(c, "empty")
       \/ open /\ req[c] \in seen /\ Return(c, "duplicate")
       \/ open /\ req[c] \notin seen /\ Chosen = {} /\ Return(c, "backpressure")
    /\ UNCHANGED <<poolVars, stationVars, req, at>>

\* Mistakes: the id is not recorded on admission; the cursor does not wrap.
SeenForgotten(i) == seen
CursorUnwrapped(s) == s + 1

SeenWith(i) == seen \cup {i}
CursorAfter(s) == (s + 1) % N

Reserve(c) ==
    /\ pc[c] = "idle"
    /\ open /\ req[c] \notin seen
    /\ \E s \in Chosen :
        /\ inFlight' = [inFlight EXCEPT ![s] = @ + 1]
        /\ cursor' = CursorAfter(s)
        /\ at' = [at EXCEPT ![c] = s]
    /\ seen' = SeenWith(req[c])
    /\ pc' = [pc EXCEPT ![c] = "reserved"]
    /\ UNCHANGED <<open, completed, errors, ewma, stationVars, req, reply>>

Evaluated(c, r) ==
    /\ pc' = [pc EXCEPT ![c] = "evaluated"]
    /\ reply' = [reply EXCEPT ![c] = r]
    /\ UNCHANGED <<poolVars, req, at>>

\* station.Evaluate: the request reaches the child, or the station refuses it.
Send(c) ==
    /\ pc[c] = "reserved"
    /\ up[at[c]]
    /\ outstanding' = [outstanding EXCEPT ![at[c]] = @ \cup {req[c]}]
    /\ pc' = [pc EXCEPT ![c] = "sent"]
    /\ UNCHANGED <<poolVars, up, req, at, reply>>

SendFails(c) ==
    /\ pc[c] = "reserved"
    /\ ~up[at[c]]
    /\ Evaluated(c, "error")
    /\ UNCHANGED stationVars

\* The answer for c arrives: a decision, or the child's error.
Answered(c) ==
    /\ pc[c] = "sent"
    /\ req[c] \in outstanding[at[c]]
    /\ outstanding' = [outstanding EXCEPT ![at[c]] = @ \ {req[c]}]
    /\ \E r \in {"ok", "error"} : Evaluated(c, r)
    /\ UNCHANGED up

\* The station has failed, and failFatal has answered c.
Faulted(c) ==
    /\ pc[c] = "sent"
    /\ req[c] \notin outstanding[at[c]]
    /\ Evaluated(c, "error")
    /\ UNCHANGED stationVars

\* The deadline passes; the child is not told.
Expired(c) ==
    /\ pc[c] = "sent"
    /\ Evaluated(c, "error")
    /\ UNCHANGED stationVars

Mixed(old, elapsed) ==
    IF old <= 0 THEN elapsed
    ELSE (AlphaNum * elapsed + (AlphaDen - AlphaNum) * old) \div AlphaDen

\* Mistake: only a success gives the slot back.
ReleaseOnSuccess(s, r) == IF r = "ok" THEN inFlight[s] - 1 ELSE inFlight[s]

Release(s, r) == IF inFlight[s] > 0 THEN inFlight[s] - 1 ELSE inFlight[s]
ErrorsWith(s, r) == IF r = "error" THEN errors[s] + 1 ELSE errors[s]

\* finish, after station.Evaluate has returned, whatever it returned.
Finish(c) ==
    /\ pc[c] = "evaluated"
    /\ LET s == at[c] IN
       /\ inFlight' = [inFlight EXCEPT ![s] = Release(s, reply[c])]
       /\ completed' = [completed EXCEPT ![s] = @ + 1]
       /\ errors' = [errors EXCEPT ![s] = ErrorsWith(s, reply[c])]
       /\ \E elapsed \in Latencies :
             ewma' = [ewma EXCEPT ![s] = Mixed(@, elapsed)]
    /\ pc' = [pc EXCEPT ![c] = "returned"]
    /\ UNCHANGED <<open, seen, cursor, stationVars, req, at, reply>>

\* The caller comes again after backpressure, with the same request id.
Retry(c) ==
    /\ pc[c] = "returned" /\ reply[c] = "backpressure"
    /\ pc' = [pc EXCEPT ![c] = "idle"]
    /\ UNCHANGED <<poolVars, stationVars, req, at, reply>>

-----------------------------------------------------------------------------
(* Close: the pool forgets its stations, then closes them in order.  Calls   *)
(* that have reserved keep their station and still finish on it.             *)

Close ==
    /\ open
    /\ open' = FALSE
    /\ UNCHANGED <<inFlight, completed, errors, ewma, seen, cursor,
                   stationVars, callVars>>

CloseStation(s) ==
    /\ ~open /\ up[s]
    /\ \A t \in Stations : t < s => ~up[t]
    /\ up' = [up EXCEPT ![s] = FALSE]
    /\ UNCHANGED <<poolVars, outstanding, callVars>>

-----------------------------------------------------------------------------
(* The children (external). *)

\* The child answers a request whose caller has stopped waiting.
LateAnswer(s, i) ==
    /\ i \in outstanding[s]
    /\ \A c \in Callers : pc[c] = "sent" => ~(at[c] = s /\ req[c] = i)
    /\ outstanding' = [outstanding EXCEPT ![s] = @ \ {i}]
    /\ UNCHANGED <<poolVars, up, callVars>>

ChildDies(s) ==
    /\ up[s]
    /\ up' = [up EXCEPT ![s] = FALSE]
    /\ outstanding' = [outstanding EXCEPT ![s] = {}]
    /\ UNCHANGED <<poolVars, callVars>>

-----------------------------------------------------------------------------
Evaluate(c) ==
    \/ ReserveFails(c) \/ Reserve(c) \/ Send(c) \/ SendFails(c)
    \/ Answered(c) \/ Faulted(c) \/ Expired(c) \/ Finish(c)

Next ==
    \/ \E c \in Callers : Evaluate(c) \/ Retry(c)
    \/ Close
    \/ \E s \in Stations :
          \/ CloseStation(s) \/ ChildDies(s)
          \/ \E i \in ReqIds : LateAnswer(s, i)

Spec == Init /\ [][Next]_vars

(* Fairness: a goroutine that can run does, a call has a deadline           *)
(* (ProcessConfig.Timeout) and so ends at the latest with Expired, and a    *)
(* caller that was refused comes again.                                     *)
FairSpec == Spec /\ \A c \in Callers : WF_vars(Evaluate(c) \/ Retry(c))

-----------------------------------------------------------------------------
(* Properties. *)

TypeOK ==
    /\ open \in BOOLEAN
    /\ inFlight \in [Stations -> Nat] /\ completed \in [Stations -> Nat]
    /\ errors \in [Stations -> Nat] /\ ewma \in [Stations -> Nat]
    /\ seen \subseteq ReqIds
    /\ cursor \in Stations
    /\ up \in [Stations -> BOOLEAN]
    /\ outstanding \in [Stations -> SUBSET ReqIds]
    /\ pc \in [Callers -> {"idle", "reserved", "sent", "evaluated", "returned"}]
    /\ req \in [Callers -> ReqIds]
    /\ at \in [Callers -> Stations \cup {NoStation}]
    /\ reply \in [Callers -> Replies]

Running(c) == pc[c] \in {"reserved", "sent", "evaluated"}
Finished(c, replies) == pc[c] = "returned" /\ reply[c] \in replies
Admitted(c) == Running(c) \/ Finished(c, {"ok", "error"})

RunningAt(s) == {c \in Callers : Running(c) /\ at[c] = s}
FinishedAt(s, replies) == {c \in Callers : Finished(c, replies) /\ at[c] = s}

\* The slots of a station are exactly the calls running on it, never more than
\* its cap: errors, deadlines, a dead child and Close neither leak a slot nor
\* give one back twice.
SlotsMatchCalls ==
    \A s \in Stations :
        /\ inFlight[s] = Cardinality(RunningAt(s))
        /\ inFlight[s] <= MaxInFlight

\* The counters of a station account once for each call that ended there.
CountersMatchCalls ==
    \A s \in Stations :
        /\ completed[s] = Cardinality(FinishedAt(s, {"ok", "error"}))
        /\ errors[s] = Cardinality(FinishedAt(s, {"error"}))

\* What the pool keeps of a station is what its calls add up to, however they end:
\* no slot leaks or is given back twice, no cap is exceeded, no call is counted
\* twice or not at all.
CallsAccountedFor == SlotsMatchCalls /\ CountersMatchCalls

\* An id is used up by an admission and by nothing else (backpressure leaves it
\* free for a retry), and no two admitted calls share one.
OneAdmissionPerId ==
    /\ seen = {req[c] : c \in {d \in Callers : Admitted(d)}}
    /\ \A c, d \in Callers :
          Admitted(c) /\ Admitted(d) /\ req[c] = req[d] => c = d

\* "every station receives a cold sample before measured latency affects
\* routing" (TECHNICAL.md): no station gets a second call before each has had
\* one.
ColdSampleFirst ==
    (\E s \in Stations : completed[s] + inFlight[s] >= 2) =>
        \A s \in Stations : completed[s] + inFlight[s] >= 1

\* A caller that is refused for backpressure and comes again is admitted in the
\* end, or learns that the pool is closed or its id taken: slots come back.
RetriesEnd ==
    \A c \in Callers :
        reply[c] = "backpressure" ~> Finished(c, Replies \ {"backpressure"})

\* "Backpressure bounds internal queue exposure" (TECHNICAL.md): what a child
\* still has to answer is within the cap of its station.
QueueExposureBounded ==
    \A s \in Stations : Cardinality(outstanding[s]) <= MaxInFlight
=============================================================================
