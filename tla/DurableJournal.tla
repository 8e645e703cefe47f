--------------------------- MODULE DurableJournal ---------------------------
(***************************************************************************)
(* DurableLearner (internal/adaptive/durable.go): a policy that learns     *)
(* from measured rewards and keeps every accepted one in an append-only,   *)
(* hash-chained journal, from which a restart rebuilds it.                 *)
(*                                                                         *)
(* A piece of evidence is a receipt, an experience and an action with      *)
(* their identities, and the policy statistics its author saw before.  Its *)
(* author may submit it late, again, or never; a reward counts as one for  *)
(* the arm it is about, and one context stands for all of them.  A hash    *)
(* chain is the sequence it commits to, so an entry's predecessor hash is  *)
(* the evidence before it, and its sequence number their number plus one.  *)
(***************************************************************************)
EXTENDS Integers, Sequences, FiniteSets

CONSTANTS
    Items,      \* measurements: records of receipt, exp, action and arm
    Arms,       \* the bounded actions the policy chooses from
    Hazards,    \* the faults that may happen
    MaxLines    \* the bound on appends: lines of the journal

Faults == {"kill", "power", "tear", "name", "syncError", "shortWrite"}

ASSUME DurableJournalAssumption ==
    /\ \A e \in Items : {"receipt", "exp", "action", "arm"} \subseteq DOMAIN e
    /\ \A e \in Items : e.arm \in Arms
    /\ Hazards \subseteq Faults
    /\ MaxLines \in Nat

VARIABLES
    measured,   \* measured[e]: the statistics e's author saw, if it was measured
    up,         \* "on", "off", or "refused": the journal did not replay
    applied,    \* the evidence in the policy and the identity maps, in order
    writing,    \* the evidence whose entry is written and not yet synced
    file,       \* the journal as the process sees it
    synced,     \* how many of its lines a power loss cannot take
    named,      \* neither can it take the name from the directory
    acked,      \* what Apply reported: evidence with "applied" or "duplicate"
    lost,       \* what was reported of journals that are gone with their names
    damaged     \* an append to this journal failed, or a power loss tore a line

memVars == <<up, applied, writing>>
diskVars == <<file, synced, named>>
history == <<acked, lost, damaged>>
vars == <<measured, memVars, diskVars, history>>

\* Statistics: how often each arm was rewarded.
StatsOf(s) == [a \in Arms |-> Cardinality({i \in DOMAIN s : s[i].item.arm = a})]

Evidence(e) == {[item |-> e, before |-> b] : b \in measured[e]}

Init ==
    /\ measured = [e \in Items |-> {}]
    /\ up = "on"
    /\ applied = <<>> /\ writing = <<>>
    /\ file = <<>> /\ synced = 0 /\ named = FALSE
    /\ acked = {} /\ lost = {} /\ damaged = FALSE

-----------------------------------------------------------------------------
\* An author chooses an arm, acts, and measures (external to the learner).
Measure(e) ==
    /\ up = "on"
    /\ measured[e] = {}
    /\ measured' = [measured EXCEPT ![e] = {StatsOf(applied)}]
    /\ UNCHANGED <<memVars, diskVars, history>>

-----------------------------------------------------------------------------
(* Apply. *)

SameIdentity(d, e) ==
    d.receipt = e.receipt \/ d.exp = e.exp \/ d.action = e.action

Known(m) == \E i \in DOMAIN applied : applied[i] = m
Conflicts(m) == \E i \in DOMAIN applied : SameIdentity(applied[i].item, m.item)

\* A mistake: Apply does not take the learner's mutex.
NoMutex == TRUE

\* Apply holds the learner's mutex from its checks to its answer.
Unlocked == writing = <<>>

\* The same evidence again: reported as learned, nothing written.
ApplyDuplicate(m) ==
    /\ up = "on" /\ Unlocked
    /\ Known(m)
    /\ acked' = acked \cup {<<m, "duplicate">>}
    /\ UNCHANGED <<measured, memVars, diskVars, lost, damaged>>

\* Mistakes: only the receipt's identity is compared; the statistics the author
\* saw are not.
AcceptsByReceipt(m) ==
    /\ \A i \in DOMAIN applied : applied[i].item.receipt # m.item.receipt
    /\ m.before = StatsOf(applied)
AcceptsStale(m) == ~Conflicts(m)

\* No identity of m was used before, and its author saw the current statistics.
Accepts(m) == ~Conflicts(m) /\ m.before = StatsOf(applied)

Line(m, form) == [prev |-> applied, ev |-> m, form |-> form]

\* appendEntry, up to the write, which creates a journal that is not there.
ApplyWrite(m) ==
    /\ up = "on" /\ Unlocked
    /\ Accepts(m) /\ Len(file) < MaxLines
    /\ file' = Append(file, Line(m, "whole"))
    /\ writing' = Append(writing, m)
    /\ UNCHANGED <<measured, up, applied, synced, named, history>>

\* A mistake: the entry is not synced before it is reported.
NotSynced == synced

\* fsync makes the lines of the file permanent, and not its name: the directory of
\* a journal that was created is never synced.
AllSynced == Len(file)

\* appendEntry's fsync, then the policy and the identity maps.
Commit ==
    /\ up = "on" /\ writing # <<>>
    /\ synced' = AllSynced
    /\ applied' = applied \o writing
    /\ acked' = acked \cup {<<writing[1], "applied">>}
    /\ lost' = lost \ {writing[1]}
    /\ writing' = <<>>
    /\ UNCHANGED <<measured, up, file, named, damaged>>

\* fsync fails: Apply returns the error, the line stays, nothing is learned.
SyncFails ==
    /\ "syncError" \in Hazards
    /\ up = "on" /\ writing # <<>>
    /\ writing' = <<>>
    /\ damaged' = TRUE
    /\ UNCHANGED <<measured, up, applied, diskVars, acked, lost>>

\* A short write leaves part of the line, or all but its newline.
WriteFails(m) ==
    /\ "shortWrite" \in Hazards
    /\ up = "on" /\ Unlocked
    /\ Accepts(m) /\ Len(file) < MaxLines
    /\ \E form \in {"torn", "open"} : file' = Append(file, Line(m, form))
    /\ damaged' = TRUE
    /\ UNCHANGED <<measured, memVars, synced, named, acked, lost>>

-----------------------------------------------------------------------------
(* Crashes (external) and OpenDurableLearner. *)

Down == up' = "off" /\ applied' = <<>> /\ writing' = <<>>

\* The file system writes back the file or its directory when it likes.
Writeback ==
    /\ \/ synced < Len(file) /\ synced' = Len(file) /\ UNCHANGED named
       \/ file # <<>> /\ ~named /\ named' = TRUE /\ UNCHANGED synced
    /\ UNCHANGED <<measured, memVars, file, history>>

Kill ==
    /\ "kill" \in Hazards
    /\ up = "on"
    /\ Down
    /\ UNCHANGED <<measured, diskVars, history>>

\* Any number of the lines that were not synced is lost; the first lost one may
\* leave a part of itself, or all but its newline.
LinesLost ==
    \E k \in synced..Len(file) :
       /\ \/ /\ file' = SubSeq(file, 1, k)
             /\ synced' = k
             /\ UNCHANGED damaged
          \/ /\ "tear" \in Hazards /\ k < Len(file)
             /\ \E form \in {"torn"} \cup
                      (IF file[k + 1].form = "whole" THEN {"open"} ELSE {}) :
                   file' = [SubSeq(file, 1, k + 1) EXCEPT ![k + 1].form = form]
             /\ synced' = k + 1
             /\ damaged' = TRUE
       /\ named' = (named \/ file' # <<>>)
       /\ UNCHANGED lost

\* What Apply reported as newly learned.
Acknowledged == {r[1] : r \in {q \in acked : q[2] = "applied"}}

\* The whole journal is gone, synced or not: its name never reached the disk.
NameLost ==
    /\ "name" \in Hazards /\ ~named
    /\ file' = <<>> /\ synced' = 0 /\ named' = FALSE
    /\ lost' = Acknowledged /\ damaged' = FALSE

PowerLoss ==
    /\ "power" \in Hazards
    /\ up = "on"
    /\ Down
    /\ LinesLost \/ NameLost
    /\ UNCHANGED <<measured, acked>>

EvidenceOf(f) == [i \in DOMAIN f |-> f[i].ev]

FreshIn(f, i) == \A j \in 1..(i - 1) : ~SameIdentity(f[j].ev.item, f[i].ev.item)

\* replay accepts the file f: each line decodes, follows the one before, brings
\* new identities and saw the statistics of the lines before it.  A line that lost
\* only its newline decodes, unless something was appended to it.
Replayable(f) ==
    \A i \in DOMAIN f :
        LET before == SubSeq(EvidenceOf(f), 1, i - 1) IN
        /\ f[i].form = "whole" \/ (f[i].form = "open" /\ i = Len(f))
        /\ f[i].prev = before
        /\ FreshIn(f, i)
        /\ f[i].ev.before = StatsOf(before)

\* A mistake: the last entry of the journal is not replayed.
ReplayedShort == SubSeq(EvidenceOf(file), 1, Len(file) - 1)

Replayed == EvidenceOf(file)

Restart ==
    /\ up = "off"
    /\ IF Replayable(file)
       THEN up' = "on" /\ applied' = Replayed
       ELSE up' = "refused" /\ UNCHANGED applied
    /\ UNCHANGED <<measured, writing, diskVars, history>>

-----------------------------------------------------------------------------
Apply(m) == ApplyDuplicate(m) \/ ApplyWrite(m) \/ WriteFails(m)

Next ==
    \/ \E e \in Items :
          \/ Measure(e)
          \/ \E m \in Evidence(e) : Apply(m)
    \/ Commit \/ SyncFails
    \/ Writeback \/ Kill \/ PowerLoss
    \/ Restart

Spec == Init /\ [][Next]_vars

-----------------------------------------------------------------------------
(* Properties. *)

Stats == [Arms -> Nat]
Measurements == [item : Items, before : Stats]
Lines == [prev : Seq(Measurements), ev : Measurements,
          form : {"whole", "open", "torn"}]

TypeOK ==
    /\ measured \in [Items -> SUBSET Stats]
    /\ \A e \in Items : Cardinality(measured[e]) <= 1
    /\ up \in {"on", "off", "refused"}
    /\ applied \in Seq(Measurements)
    /\ writing \in Seq(Measurements) /\ Len(writing) <= 1
    /\ file \in Seq(Lines)
    /\ synced \in 0..Len(file) /\ named \in BOOLEAN /\ damaged \in BOOLEAN
    /\ acked \subseteq Measurements \X {"applied", "duplicate"}
    /\ lost \subseteq Measurements

\* "On restart, the policy is rebuilt by replaying the journal in sequence"
\* (docs/hardware-adaptive-runtime-v0.3.md): a journal that only the learner
\* wrote always replays.
JournalReplays == Replayable(file)

\* The same while every append has succeeded or was lost whole: kills and power
\* losses at any step never leave a journal that does not replay.
CrashesReplay == ~damaged => JournalReplays

\* While no append has failed, the policy between calls is what the journal
\* holds, in order.
PolicyMatchesJournal ==
    up = "on" /\ ~damaged => applied \o writing = EvidenceOf(file)

\* Whatever has failed - appends, fsyncs, power losses that tear lines - a journal
\* that replays holds everything that Apply reported as newly learned, exactly
\* once: a restart loses nothing silently, it has it all or refuses the journal
\* (durable.go's fsync comes before the answer).  Excepted is what was reported of
\* a journal that went as a whole with its name, until it is reported again.
AckedSurvives ==
    Replayable(file) =>
        \A m \in Acknowledged \ lost :
            Cardinality({i \in DOMAIN file : file[i].ev = m}) = 1

\* The same of all that Apply reported, "duplicate" included, and of all journals.
\* The code does not keep this: replay reads lines that were never synced, which
\* are then reported as duplicates, and the directory is never synced.
ReportedSurvives ==
    Replayable(file) =>
        \A r \in acked : \E i \in DOMAIN file : file[i].ev = r[1]

\* Whatever has failed: no receipt, experience or action is ever learned twice,
\* and no reward on top of statistics other than those its author saw.
LearnedOnce ==
    \A i \in DOMAIN applied :
        /\ \A j \in 1..(i - 1) : ~SameIdentity(applied[j].item, applied[i].item)
        /\ applied[i].before = StatsOf(SubSeq(applied, 1, i - 1))
=============================================================================
