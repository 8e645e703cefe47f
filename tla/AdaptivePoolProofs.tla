-------------------------- MODULE AdaptivePoolProofs --------------------------
(* Theorems about AdaptivePool for any number of callers, ids and stations,   *)
(* any cap, any latencies and any smoothing factor.                           *)
EXTENDS AdaptivePool, FiniteSetTheorems, TLAPS

\* Where the calls are: a running call holds a station, and an evaluated one
\* has its answer.
CallsPlaced ==
    \A c \in Callers :
        /\ Running(c) => at[c] \in Stations
        /\ pc[c] = "evaluated" => reply[c] \in {"ok", "error"}
        /\ Finished(c, {"ok", "error"}) => at[c] \in Stations

TypedPool == TypeOK /\ CallsPlaced

LEMMA CursorTyped ==
    ASSUME NEW s \in Stations
    PROVE  CursorAfter(s) \in Stations
BY AdaptivePoolAssumption DEF Stations, CursorAfter

LEMMA MixedTyped ==
    ASSUME NEW old \in Nat, NEW elapsed \in Nat
    PROVE  Mixed(old, elapsed) \in Nat
<1>1. /\ AlphaNum \in Nat /\ AlphaDen - AlphaNum \in Nat
      /\ AlphaDen \in Nat /\ AlphaDen > 0
  BY AdaptivePoolAssumption
<1>2. AlphaNum * elapsed \in Nat /\ (AlphaDen - AlphaNum) * old \in Nat
  BY <1>1
<1>3. \A x, d \in Nat : d > 0 => x \div d \in Nat
  OBVIOUS
<1>4. QED
  BY <1>1, <1>2, <1>3 DEF Mixed

LEMMA ChosenFreeOrCold == Chosen \subseteq Cold \cup Free /\ Chosen \subseteq Stations
BY DEF Chosen, FirstFromCursor, Soonest, Cold, Free

\* Types are kept, and every running call has a station.
LEMMA TypedPoolInvariant == Spec => []TypedPool
<1>1. Init => TypedPool
  BY AdaptivePoolAssumption
     DEF Init, TypedPool, TypeOK, CallsPlaced, Running, Finished, Stations,
         Replies
<1>2. TypedPool /\ [Next]_vars => TypedPool'
  <2> SUFFICES ASSUME TypedPool, [Next]_vars PROVE TypedPool'
    OBVIOUS
  <2> USE DEF TypedPool, TypeOK, CallsPlaced, Running, Finished
  <2>1. ASSUME NEW c \in Callers, ReserveFails(c) PROVE TypedPool'
    BY <2>1 DEF ReserveFails, Return, poolVars, stationVars, Replies
  <2>2. ASSUME NEW c \in Callers, Reserve(c) PROVE TypedPool'
    <3>1. PICK s \in Stations :
              /\ inFlight' = [inFlight EXCEPT ![s] = @ + 1]
              /\ cursor' = CursorAfter(s)
              /\ at' = [at EXCEPT ![c] = s]
      BY <2>2, ChosenFreeOrCold DEF Reserve
    <3>2. CursorAfter(s) \in Stations
      BY CursorTyped
    <3>3. QED
      BY <2>2, <3>1, <3>2 DEF Reserve, SeenWith, stationVars
  <2>3. ASSUME NEW c \in Callers, Send(c) PROVE TypedPool'
    BY <2>3 DEF Send, poolVars
  <2>4. ASSUME NEW c \in Callers, SendFails(c) \/ Faulted(c) \/ Expired(c)
        PROVE  TypedPool'
    BY <2>4 DEF SendFails, Faulted, Expired, Evaluated, poolVars, stationVars,
       Replies
  <2>5. ASSUME NEW c \in Callers, Answered(c) PROVE TypedPool'
    BY <2>5 DEF Answered, Evaluated, poolVars, Replies
  <2>6. ASSUME NEW c \in Callers, Finish(c) PROVE TypedPool'
    <3>1. PICK elapsed \in Latencies :
              ewma' = [ewma EXCEPT ![at[c]] = Mixed(@, elapsed)]
      BY <2>6 DEF Finish
    <3>2. Mixed(ewma[at[c]], elapsed) \in Nat
      BY <2>6, <3>1, MixedTyped, AdaptivePoolAssumption DEF Finish
    <3>3. /\ Release(at[c], reply[c]) \in Nat
          /\ ErrorsWith(at[c], reply[c]) \in Nat
          /\ completed[at[c]] + 1 \in Nat
      BY <2>6 DEF Finish, Release, ErrorsWith
    <3>4. QED
      BY <2>6, <3>1, <3>2, <3>3 DEF Finish, stationVars
  <2>7. ASSUME NEW c \in Callers, Retry(c) PROVE TypedPool'
    BY <2>7 DEF Retry, poolVars, stationVars
  <2>8. CASE Close
    BY <2>8 DEF Close, stationVars, callVars
  <2>9. ASSUME NEW s \in Stations,
               \/ CloseStation(s) \/ ChildDies(s)
               \/ \E i \in ReqIds : LateAnswer(s, i)
        PROVE  TypedPool'
    <3>1. /\ up' \in [Stations -> BOOLEAN]
          /\ outstanding' \in [Stations -> SUBSET ReqIds]
      <4>1. CASE CloseStation(s)
        BY <4>1 DEF CloseStation
      <4>2. CASE ChildDies(s)
        BY <4>2 DEF ChildDies
      <4>3. ASSUME NEW i \in ReqIds, LateAnswer(s, i)
            PROVE  /\ up' \in [Stations -> BOOLEAN]
                   /\ outstanding' \in [Stations -> SUBSET ReqIds]
        BY <4>3 DEF LateAnswer
      <4>4. QED
        BY <2>9, <4>1, <4>2, <4>3
    <3>2. UNCHANGED <<poolVars, callVars>>
      BY <2>9 DEF CloseStation, ChildDies, LateAnswer
    <3>3. QED
      BY <3>1, <3>2 DEF poolVars, callVars
  <2>10. CASE UNCHANGED vars
    BY <2>10 DEF vars, poolVars, stationVars, callVars
  <2>11. QED
    BY <2>1, <2>2, <2>3, <2>4, <2>5, <2>6, <2>7, <2>8, <2>9, <2>10
       DEF Next, Evaluate
<1>3. QED
  BY <1>1, <1>2, PTL DEF Spec

\* The pool's variables keep their types in every reachable state.
THEOREM PoolTypeCorrect == Spec => []TypeOK
<1>1. TypedPool => TypeOK
  BY DEF TypedPool
<1>2. QED
  BY <1>1, TypedPoolInvariant, PTL

-----------------------------------------------------------------------------
(* Slots and counters.  Both are the number of calls in a set, and a step    *)
(* moves at most one call into it or out of it.                              *)

LEMMA CallsFinite ==
    ASSUME NEW S \in SUBSET Callers
    PROVE  IsFiniteSet(S) /\ Cardinality(S) \in Nat
BY FS_Subset, FS_CardinalityType, AdaptivePoolAssumption

LEMMA CallsAreCalls ==
    /\ \A s : RunningAt(s) \in SUBSET Callers
    /\ \A s, R : FinishedAt(s, R) \in SUBSET Callers
BY DEF RunningAt, FinishedAt

\* A call that enters a set of calls makes it one larger, and back.
LEMMA OneMore ==
    ASSUME NEW S \in SUBSET Callers, NEW c \in Callers, c \notin S
    PROVE  Cardinality(S \cup {c}) = Cardinality(S) + 1
BY CallsFinite, FS_AddElement

LEMMA OneLess ==
    ASSUME NEW S \in SUBSET Callers, NEW c \in S
    PROVE  /\ Cardinality(S \ {c}) = Cardinality(S) - 1
           /\ Cardinality(S) > 0
<1>1. Cardinality(S \ {c}) = Cardinality(S) - 1
  BY CallsFinite, FS_RemoveElement
<1>2. Cardinality(S \ {c}) \in Nat /\ Cardinality(S) \in Nat
  BY CallsFinite
<1>3. QED
  BY <1>1, <1>2

Counted == SlotsMatchCalls /\ CountersMatchCalls

\* A step that leaves the counters alone, and every call in the sets it was in.
LEMMA CountedFrame ==
    ASSUME TypedPool, Counted,
           UNCHANGED <<inFlight, completed, errors, at>>,
           \A c \in Callers :
               /\ Running(c)' <=> Running(c)
               /\ Finished(c, {"ok", "error"})' <=> Finished(c, {"ok", "error"})
               /\ Finished(c, {"error"})' <=> Finished(c, {"error"})
    PROVE  Counted'
<1>1. \A s \in Stations :
         /\ RunningAt(s)' = RunningAt(s)
         /\ FinishedAt(s, {"ok", "error"})' = FinishedAt(s, {"ok", "error"})
         /\ FinishedAt(s, {"error"})' = FinishedAt(s, {"error"})
  BY DEF RunningAt, FinishedAt
<1>2. QED
  BY <1>1 DEF Counted, SlotsMatchCalls, CountersMatchCalls

LEMMA CountedReserve ==
    ASSUME TypedPool, Counted, NEW c \in Callers, Reserve(c)
    PROVE  Counted'
<1> USE DEF TypedPool, TypeOK
<1>1. PICK s \in Stations :
          /\ s \in Cold \cup Free
          /\ inFlight' = [inFlight EXCEPT ![s] = @ + 1]
          /\ at' = [at EXCEPT ![c] = s]
  BY ChosenFreeOrCold DEF Reserve
<1>2. pc[c] = "idle" /\ pc' = [pc EXCEPT ![c] = "reserved"] /\ reply' = reply
  BY DEF Reserve
<1>3. c \notin RunningAt(s)
  BY <1>2 DEF RunningAt, Running
<1>4. \A t \in Stations :
         RunningAt(t)' = IF t = s THEN RunningAt(t) \cup {c} ELSE RunningAt(t)
  BY <1>1, <1>2 DEF RunningAt, Running
<1>5. \A t \in Stations, R \in {{"ok", "error"}, {"error"}} :
         FinishedAt(t, R)' = FinishedAt(t, R)
  BY <1>1, <1>2 DEF FinishedAt, Finished
<1>6. Cardinality(RunningAt(s)') = Cardinality(RunningAt(s)) + 1
  BY <1>3, <1>4, OneMore, CallsAreCalls
<1>7. inFlight[s] < MaxInFlight
  BY <1>1, AdaptivePoolAssumption DEF Cold, Free
<1>8. SlotsMatchCalls'
  BY <1>1, <1>4, <1>6, <1>7, AdaptivePoolAssumption DEF Counted, SlotsMatchCalls
<1>9. CountersMatchCalls'
  BY <1>5 DEF Counted, CountersMatchCalls, Reserve
<1>10. QED
  BY <1>8, <1>9 DEF Counted

LEMMA CountedFinish ==
    ASSUME TypedPool, Counted, NEW c \in Callers, Finish(c)
    PROVE  Counted'
<1> USE DEF TypedPool, TypeOK
<1>0. PICK s \in Stations : s = at[c]
  BY DEF Finish, CallsPlaced, Running
<1>1. /\ pc[c] = "evaluated" /\ pc' = [pc EXCEPT ![c] = "returned"]
      /\ at' = at /\ reply' = reply
      /\ s \in Stations /\ reply[c] \in {"ok", "error"}
  BY <1>0 DEF Finish, CallsPlaced, Running
<1>2. /\ inFlight' = [inFlight EXCEPT ![s] = Release(s, reply[c])]
      /\ completed' = [completed EXCEPT ![s] = @ + 1]
      /\ errors' = [errors EXCEPT ![s] = ErrorsWith(s, reply[c])]
  BY <1>0 DEF Finish
<1>3. /\ c \in RunningAt(s)
      /\ c \notin FinishedAt(s, {"ok", "error"})
      /\ c \notin FinishedAt(s, {"error"})
  BY <1>0, <1>1 DEF RunningAt, Running, FinishedAt, Finished
<1>4. \A t \in Stations :
         /\ RunningAt(t)' = IF t = s THEN RunningAt(t) \ {c} ELSE RunningAt(t)
         /\ FinishedAt(t, {"ok", "error"})' =
               IF t = s THEN FinishedAt(t, {"ok", "error"}) \cup {c}
                        ELSE FinishedAt(t, {"ok", "error"})
         /\ FinishedAt(t, {"error"})' =
               IF t = s /\ reply[c] = "error"
               THEN FinishedAt(t, {"error"}) \cup {c}
               ELSE FinishedAt(t, {"error"})
  BY <1>0, <1>1 DEF RunningAt, Running, FinishedAt, Finished
<1>5. /\ Cardinality(RunningAt(s)') = Cardinality(RunningAt(s)) - 1
      /\ Cardinality(RunningAt(s)) > 0
  <2>1. RunningAt(s)' = RunningAt(s) \ {c}
    BY <1>1, <1>4
  <2>2. QED
    BY <1>3, <2>1, OneLess, CallsAreCalls
<1>6. Cardinality(FinishedAt(s, {"ok", "error"})') =
          Cardinality(FinishedAt(s, {"ok", "error"})) + 1
  <2>1. FinishedAt(s, {"ok", "error"})' = FinishedAt(s, {"ok", "error"}) \cup {c}
    BY <1>1, <1>4
  <2>2. QED
    BY <1>3, <2>1, OneMore, CallsAreCalls
<1>7. Cardinality(FinishedAt(s, {"error"})') =
          Cardinality(FinishedAt(s, {"error"}))
          + (IF reply[c] = "error" THEN 1 ELSE 0)
  <2>1. Cardinality(FinishedAt(s, {"error"})) \in Nat
    BY CallsFinite, CallsAreCalls
  <2>2. CASE reply[c] = "error"
    <3>1. FinishedAt(s, {"error"})' = FinishedAt(s, {"error"}) \cup {c}
      BY <1>1, <1>4, <2>2
    <3>2. Cardinality(FinishedAt(s, {"error"}) \cup {c}) =
              Cardinality(FinishedAt(s, {"error"})) + 1
      BY <1>1, <1>3, OneMore, CallsAreCalls
    <3>3. QED
      BY <2>2, <3>1, <3>2
  <2>3. CASE reply[c] # "error"
    <3>1. FinishedAt(s, {"error"})' = FinishedAt(s, {"error"})
      BY <1>1, <1>4, <2>3
    <3>2. QED
      BY <2>1, <2>3, <3>1
  <2>4. QED
    BY <2>2, <2>3
<1>8. Release(s, reply[c]) = inFlight[s] - 1
  BY <1>1, <1>5 DEF Release, Counted, SlotsMatchCalls
<1>9. SlotsMatchCalls'
  <2> SUFFICES ASSUME NEW t \in Stations
               PROVE  /\ inFlight'[t] = Cardinality(RunningAt(t)')
                      /\ inFlight'[t] <= MaxInFlight
    BY DEF SlotsMatchCalls
  <2>1. inFlight[t] = Cardinality(RunningAt(t)) /\ inFlight[t] <= MaxInFlight
    BY DEF Counted, SlotsMatchCalls
  <2>2. CASE t # s
    <3>1. inFlight'[t] = inFlight[t] /\ RunningAt(t)' = RunningAt(t)
      BY <1>1, <1>2, <1>4, <2>2
    <3>2. QED
      BY <2>1, <3>1
  <2>3. CASE t = s
    <3>1. inFlight'[s] = inFlight[s] - 1
      BY <1>1, <1>2, <1>8
    <3>2. QED
      BY <1>1, <1>5, <2>1, <2>3, <3>1, AdaptivePoolAssumption
  <2>4. QED
    BY <2>2, <2>3
<1>10. CountersMatchCalls'
  <2> SUFFICES ASSUME NEW t \in Stations
               PROVE  /\ completed'[t] = Cardinality(FinishedAt(t, {"ok", "error"})')
                      /\ errors'[t] = Cardinality(FinishedAt(t, {"error"})')
    BY DEF CountersMatchCalls
  <2>1. /\ completed[t] = Cardinality(FinishedAt(t, {"ok", "error"}))
        /\ errors[t] = Cardinality(FinishedAt(t, {"error"}))
    BY DEF Counted, CountersMatchCalls
  <2>2. CASE t # s
    BY <1>1, <1>2, <1>4, <2>1, <2>2
  <2>3. CASE t = s
    <3>1. /\ completed'[s] = completed[s] + 1
          /\ errors'[s] = errors[s] + (IF reply[c] = "error" THEN 1 ELSE 0)
      BY <1>1, <1>2 DEF ErrorsWith
    <3>2. QED
      BY <1>6, <1>7, <2>1, <2>3, <3>1
  <2>4. QED
    BY <2>2, <2>3
<1>11. QED
  BY <1>9, <1>10 DEF Counted

LEMMA CountedInvariant == Spec => []Counted
<1>1. Init => Counted
  <2> SUFFICES ASSUME Init PROVE Counted
    OBVIOUS
  <2>1. \A s \in Stations : /\ RunningAt(s) = {}
                            /\ FinishedAt(s, {"ok", "error"}) = {}
                            /\ FinishedAt(s, {"error"}) = {}
    BY DEF Init, RunningAt, Running, FinishedAt, Finished
  <2>2. Cardinality({}) = 0 /\ 0 <= MaxInFlight
    BY FS_EmptySet, AdaptivePoolAssumption
  <2>3. QED
    BY <2>1, <2>2
       DEF Init, Counted, SlotsMatchCalls, CountersMatchCalls
<1>2. TypedPool /\ Counted /\ [Next]_vars => Counted'
  <2> SUFFICES ASSUME TypedPool, Counted, [Next]_vars PROVE Counted'
    OBVIOUS
  <2> USE DEF TypedPool, TypeOK
  <2>1. ASSUME NEW c \in Callers, ReserveFails(c) \/ Retry(c) PROVE Counted'
    <3>1. UNCHANGED <<inFlight, completed, errors, at>>
      BY <2>1 DEF ReserveFails, Retry, poolVars
    <3>2. \A d \in Callers :
             /\ Running(d)' <=> Running(d)
             /\ Finished(d, {"ok", "error"})' <=> Finished(d, {"ok", "error"})
             /\ Finished(d, {"error"})' <=> Finished(d, {"error"})
      BY <2>1 DEF ReserveFails, Retry, Return, Running, Finished
    <3>3. QED
      BY <3>1, <3>2, CountedFrame
  <2>2. ASSUME NEW c \in Callers,
               \/ Send(c) \/ SendFails(c) \/ Answered(c) \/ Faulted(c)
               \/ Expired(c)
        PROVE  Counted'
    <3>1. UNCHANGED <<inFlight, completed, errors, at>>
      BY <2>2 DEF Send, SendFails, Answered, Faulted, Expired, Evaluated,
         poolVars
    <3>2. \A d \in Callers :
             /\ Running(d)' <=> Running(d)
             /\ Finished(d, {"ok", "error"})' <=> Finished(d, {"ok", "error"})
             /\ Finished(d, {"error"})' <=> Finished(d, {"error"})
      BY <2>2 DEF Send, SendFails, Answered, Faulted, Expired, Evaluated,
         Running, Finished
    <3>3. QED
      BY <3>1, <3>2, CountedFrame
  <2>3. ASSUME NEW c \in Callers, Reserve(c) PROVE Counted'
    BY <2>3, CountedReserve
  <2>4. ASSUME NEW c \in Callers, Finish(c) PROVE Counted'
    BY <2>4, CountedFinish
  <2>5. CASE \/ Close \/ UNCHANGED vars
             \/ \E s \in Stations :
                   \/ CloseStation(s) \/ ChildDies(s)
                   \/ \E i \in ReqIds : LateAnswer(s, i)
    <3>1. UNCHANGED <<inFlight, completed, errors, at, pc, reply>>
      BY <2>5 DEF Close, CloseStation, ChildDies, LateAnswer, vars, poolVars,
         callVars
    <3>2. QED
      BY <3>1, CountedFrame DEF Running, Finished
  <2>6. QED
    BY <2>1, <2>2, <2>3, <2>4, <2>5 DEF Next, Evaluate
<1>3. QED
  BY <1>1, <1>2, TypedPoolInvariant, PTL DEF Spec

\* The in-flight counter of a station is the number of calls running on it and
\* never exceeds the cap, and its completion and error counters count each ended
\* call once, for any pool and any callers.
THEOREM AccountsAreRight == Spec => []CallsAccountedFor
<1>1. Counted => CallsAccountedFor
  BY DEF Counted, CallsAccountedFor
<1>2. QED
  BY <1>1, CountedInvariant, PTL

-----------------------------------------------------------------------------
(* Ids, and the order of admissions. *)

\* A call stays admitted from Reserve on, and a refusal admits nothing.
LEMMA AdmissionFrame ==
    ASSUME TypedPool, OneAdmissionPerId, UNCHANGED <<seen, req>>,
           \A c \in Callers : Admitted(c)' <=> Admitted(c)
    PROVE  OneAdmissionPerId'
BY DEF OneAdmissionPerId

LEMMA AdmissionReserve ==
    ASSUME TypedPool, OneAdmissionPerId, NEW c \in Callers, Reserve(c)
    PROVE  OneAdmissionPerId'
<1>1. /\ pc[c] = "idle" /\ pc' = [pc EXCEPT ![c] = "reserved"]
      /\ reply' = reply /\ req' = req
      /\ req[c] \notin seen /\ seen' = seen \cup {req[c]}
  BY DEF Reserve, SeenWith
<1>2. ~Admitted(c) /\ \A d \in Callers : Admitted(d)' <=> Admitted(d) \/ d = c
  BY <1>1 DEF TypedPool, TypeOK, Admitted, Running, Finished
<1>3. \A d \in Callers : Admitted(d) => req[d] # req[c]
  BY <1>1 DEF OneAdmissionPerId
<1>4. seen' = {req'[d] : d \in {e \in Callers : Admitted(e)'}}
  BY <1>1, <1>2 DEF OneAdmissionPerId
<1>5. \A d, e \in Callers :
         Admitted(d)' /\ Admitted(e)' /\ req'[d] = req'[e] => d = e
  BY <1>1, <1>2, <1>3 DEF OneAdmissionPerId
<1>6. QED
  BY <1>4, <1>5 DEF OneAdmissionPerId

\* An id is spent by an admission and by nothing else, and never twice.
THEOREM IdsAdmittedOnce == Spec => []OneAdmissionPerId
<1>1. Init => OneAdmissionPerId
  BY DEF Init, OneAdmissionPerId, Admitted, Running, Finished
<1>2. TypedPool /\ OneAdmissionPerId /\ [Next]_vars => OneAdmissionPerId'
  <2> SUFFICES ASSUME TypedPool, OneAdmissionPerId, [Next]_vars
               PROVE  OneAdmissionPerId'
    OBVIOUS
  <2> USE DEF TypedPool, TypeOK
  <2>1. ASSUME NEW c \in Callers, ReserveFails(c) \/ Retry(c)
        PROVE  OneAdmissionPerId'
    <3>1. UNCHANGED <<seen, req>>
      BY <2>1 DEF ReserveFails, Retry, poolVars
    <3>2. \A d \in Callers : Admitted(d)' <=> Admitted(d)
      BY <2>1 DEF ReserveFails, Retry, Return, Admitted, Running, Finished
    <3>3. QED
      BY <3>1, <3>2, AdmissionFrame
  <2>2. ASSUME NEW c \in Callers,
               \/ Send(c) \/ SendFails(c) \/ Answered(c) \/ Faulted(c)
               \/ Expired(c) \/ Finish(c)
        PROVE  OneAdmissionPerId'
    <3>1. UNCHANGED <<seen, req>>
      BY <2>2 DEF Send, SendFails, Answered, Faulted, Expired, Finish,
         Evaluated, poolVars
    <3>2. \A d \in Callers : Admitted(d)' <=> Admitted(d)
      BY <2>2 DEF Send, SendFails, Answered, Faulted, Expired, Finish,
         Evaluated, CallsPlaced, Admitted, Running, Finished
    <3>3. QED
      BY <3>1, <3>2, AdmissionFrame
  <2>3. ASSUME NEW c \in Callers, Reserve(c) PROVE OneAdmissionPerId'
    BY <2>3, AdmissionReserve
  <2>4. CASE \/ Close \/ UNCHANGED vars
             \/ \E s \in Stations :
                   \/ CloseStation(s) \/ ChildDies(s)
                   \/ \E i \in ReqIds : LateAnswer(s, i)
    <3>1. UNCHANGED <<seen, req, pc, reply>>
      BY <2>4 DEF Close, CloseStation, ChildDies, LateAnswer, vars, poolVars,
         callVars
    <3>2. QED
      BY <3>1, AdmissionFrame DEF Admitted, Running, Finished
  <2>5. QED
    BY <2>1, <2>2, <2>3, <2>4 DEF Next, Evaluate
<1>3. QED
  BY <1>1, <1>2, TypedPoolInvariant, PTL DEF Spec

\* While a station is cold only cold stations are chosen.
LEMMA ColdIsChosen == Cold # {} => Chosen \subseteq Cold
BY DEF Chosen, FirstFromCursor

\* No station gets a second call before every station has had one: whatever
\* the interleaving of admissions and completions.
THEOREM EveryStationSampled == Spec => []ColdSampleFirst
<1>1. Init => ColdSampleFirst
  BY DEF Init, ColdSampleFirst
<1>2. TypedPool /\ Counted /\ ColdSampleFirst /\ [Next]_vars => ColdSampleFirst'
  <2> SUFFICES ASSUME TypedPool, Counted, ColdSampleFirst, [Next]_vars
               PROVE  ColdSampleFirst'
    OBVIOUS
  <2> USE DEF TypedPool, TypeOK
  <2>1. ASSUME NEW c \in Callers, Reserve(c) PROVE ColdSampleFirst'
    <3>1. PICK s \in Chosen : inFlight' = [inFlight EXCEPT ![s] = @ + 1]
      BY <2>1 DEF Reserve
    <3>2. s \in Stations /\ completed' = completed
      BY <2>1, ChosenFreeOrCold DEF Reserve
    <3>3. \A t \in Stations :
             inFlight'[t] = IF t = s THEN inFlight[t] + 1 ELSE inFlight[t]
      BY <3>1, <3>2
    <3>4. CASE Cold # {}
      <4>1. completed[s] = 0 /\ inFlight[s] = 0
        BY <3>4, ColdIsChosen DEF Cold
      <4>2. QED
        BY <3>2, <3>3, <4>1 DEF ColdSampleFirst
    <3>5. CASE Cold = {}
      <4>1. \A t \in Stations : completed[t] + inFlight[t] >= 1
        BY <3>5 DEF Cold
      <4>2. QED
        BY <3>2, <3>3, <4>1 DEF ColdSampleFirst
    <3>6. QED
      BY <3>4, <3>5
  <2>2. ASSUME NEW c \in Callers, Finish(c) PROVE ColdSampleFirst'
    <3>1. PICK s \in Stations : s = at[c]
      BY <2>2 DEF Finish, CallsPlaced, Running
    <3>2. c \in RunningAt(s)
      BY <2>2, <3>1 DEF Finish, RunningAt, Running
    <3>3. inFlight[s] > 0
      BY <3>2, OneLess, CallsAreCalls DEF Counted, SlotsMatchCalls
    <3>4. /\ inFlight' = [inFlight EXCEPT ![s] = inFlight[s] - 1]
          /\ completed' = [completed EXCEPT ![s] = completed[s] + 1]
      BY <2>2, <3>1, <3>3 DEF Finish, Release
    <3>5. \A t \in Stations :
             completed'[t] + inFlight'[t] = completed[t] + inFlight[t]
      BY <3>4
    <3>6. QED
      BY <3>5 DEF ColdSampleFirst
  <2>3. CASE UNCHANGED <<completed, inFlight>>
    BY <2>3 DEF ColdSampleFirst
  <2>4. ASSUME NEW c \in Callers,
               \/ ReserveFails(c) \/ Send(c) \/ SendFails(c) \/ Answered(c)
               \/ Faulted(c) \/ Expired(c) \/ Retry(c)
        PROVE  UNCHANGED <<completed, inFlight>>
    BY <2>4 DEF ReserveFails, Send, SendFails, Answered, Faulted, Expired,
       Retry, Evaluated, poolVars
  <2>5. ASSUME \/ Close \/ UNCHANGED vars
               \/ \E s \in Stations :
                     \/ CloseStation(s) \/ ChildDies(s)
                     \/ \E i \in ReqIds : LateAnswer(s, i)
        PROVE  UNCHANGED <<completed, inFlight>>
    BY <2>5 DEF Close, CloseStation, ChildDies, LateAnswer, vars, poolVars
  <2>6. QED
    BY <2>1, <2>2, <2>3, <2>4, <2>5 DEF Next, Evaluate
<1>3. QED
  BY <1>1, <1>2, TypedPoolInvariant, CountedInvariant, PTL DEF Spec
=============================================================================
