---------------------------- MODULE RequestReply ----------------------------
(***************************************************************************)
(* What a station promises to the callers of Evaluate, without the pipe,   *)
(* the reader and the locks: an id is used by one call, a call is answered *)
(* at most once, a decision reaches a call only after its request was sent,*)
(* and it is the decision about that request.                              *)
(***************************************************************************)
CONSTANTS Callers, ReqIds, NoId

VARIABLES
    call,   \* where each call stands
    id,     \* the id each call uses
    used,   \* ids that some call has used
    about   \* the call that each delivered decision is about

vars == <<call, id, used, about>>

Init ==
    /\ call = [c \in Callers |-> "idle"]
    /\ id = [c \in Callers |-> NoId]
    /\ used = {}
    /\ about = [c \in Callers |-> {}]

Open(c, i) ==
    /\ call[c] = "idle"
    /\ i \notin used
    /\ call' = [call EXCEPT ![c] = "open"]
    /\ id' = [id EXCEPT ![c] = i]
    /\ used' = used \cup {i}
    /\ UNCHANGED about

Send(c) ==
    /\ call[c] = "open"
    /\ call' = [call EXCEPT ![c] = "sent"]
    /\ UNCHANGED <<id, used, about>>

Answer(c) ==
    /\ call[c] = "sent"
    /\ call' = [call EXCEPT ![c] = "decided"]
    /\ about' = [about EXCEPT ![c] = {c}]
    /\ UNCHANGED <<id, used>>

\* A refusal, an error or a timeout: no decision, and the id stays used.
Fail(c) ==
    /\ call[c] \in {"idle", "open", "sent"}
    /\ call' = [call EXCEPT ![c] = "failed"]
    /\ UNCHANGED <<id, used, about>>

Next == \E c \in Callers :
    \/ \E i \in ReqIds : Open(c, i)
    \/ Send(c) \/ Answer(c) \/ Fail(c)

Spec == Init /\ [][Next]_vars
=============================================================================
