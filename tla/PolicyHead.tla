----------------------------- MODULE PolicyHead -----------------------------
(***************************************************************************)
(* The durable anti-rollback head of the policy authority                  *)
(* (internal/policyauthority/head.go).  OpenDurableResolver presents a     *)
(* verified chain of signed manifests; it is accepted only if it contains  *)
(* the head that was accepted last, and its own head is then written with  *)
(* a temporary file, fsync, rename and an fsync of the directory.          *)
(*                                                                         *)
(* A head names a generation, the manifest there and the rotation to it,   *)
(* and nothing before: chains that part and then meet again share heads.   *)
(* Openers are processes that share the state file, each making one call   *)
(* after another.  A process may be killed and the machine may lose power  *)
(* between any two steps.                                                  *)
(***************************************************************************)
EXTENDS Integers, Sequences

CONSTANTS
    Openers,    \* processes that open the resolver
    Links,      \* signed manifests, each with the rotation that led to it
    Candidates, \* the verified chains they may present: sequences of links
    NoHead,     \* no state file
    Torn,       \* a state file whose bytes were not all written
    Hazards     \* the faults that may happen

Faults == {"kill", "power", "syncError"}

\* chainHeadFor the first n manifests of c, and for all of them.
HeadUpTo(c, n) == [generation |-> n, link |-> c[n]]
HeadOf(c) == HeadUpTo(c, Len(c))

Heads == {HeadOf(c) : c \in Candidates}

\* chainContainsHead
HasHead(c, h) == \E n \in 1..Len(c) : HeadUpTo(c, n) = h

ASSUME PolicyHeadAssumption ==
    /\ Candidates \subseteq Seq(Links) \ {<<>>}
    /\ NoHead \notin Heads /\ Torn \notin Heads /\ NoHead # Torn
    /\ Hazards \subseteq Faults

VARIABLES
    file,     \* the state file as processes see it
    fileSynced, \* its bytes have been fsynced
    disk,     \* the state file as a power loss would leave it
    pc,       \* per opener: where it is in OpenDurableResolver
    candidate, \* per opener: the chain it presents
    acceptedHeads, \* the heads for which OpenDurableResolver returned a resolver
    written,  \* those of them that it wrote, and did not find in the file
    presented \* the heads of the chains that were ever presented

fileVars == <<file, fileSynced, disk>>
historyVars == <<acceptedHeads, written, presented>>
headVars == <<fileVars, pc, candidate, historyVars>>

HeadInit ==
    /\ file = NoHead /\ fileSynced = TRUE /\ disk = NoHead
    /\ pc = [o \in Openers |-> "idle"]
    /\ candidate \in [Openers -> Candidates]
    /\ acceptedHeads = {} /\ written = {} /\ presented = {}

Goto(o, where) == pc' = [pc EXCEPT ![o] = where]

-----------------------------------------------------------------------------
(* openVerifiedResolver has checked the chain c against the trust root. *)
Present(o, c) ==
    /\ pc[o] = "idle"
    /\ candidate' = [candidate EXCEPT ![o] = c]
    /\ presented' = presented \cup {HeadOf(c)}
    /\ Goto(o, "reading")
    /\ UNCHANGED <<fileVars, acceptedHeads, written>>

\* Mistake: only the next generation may follow.
NextOnly(c) == file \in Heads /\ Len(c) = file.generation + 1 /\ HasHead(c, file)

\* acceptChainHead, when there is a state file.
FollowsFile(c) ==
    /\ file \in Heads
    /\ Len(c) >= file.generation
    /\ HasHead(c, file)

\* The same head again: accepted without a write.
ReadSame(o) ==
    /\ pc[o] = "reading"
    /\ file = HeadOf(candidate[o])
    /\ acceptedHeads' = acceptedHeads \cup {HeadOf(candidate[o])}
    /\ Goto(o, "idle")
    /\ UNCHANGED <<fileVars, candidate, written, presented>>

ReadOlder(o) ==
    /\ pc[o] = "reading"
    /\ file # HeadOf(candidate[o])
    /\ file = NoHead \/ FollowsFile(candidate[o])
    /\ Goto(o, "writing")
    /\ UNCHANGED <<fileVars, candidate, historyVars>>

\* ErrChainRollback, ErrChainFork, or a malformed state file.
Refuse(o) ==
    /\ pc[o] = "reading"
    /\ file \notin {NoHead, HeadOf(candidate[o])} /\ ~FollowsFile(candidate[o])
    /\ Goto(o, "refused")
    /\ UNCHANGED <<fileVars, candidate, historyVars>>

-----------------------------------------------------------------------------
(* writeChainHeadAtomic. *)

Encode(o) ==
    /\ pc[o] = "writing"
    /\ Goto(o, "encoded")
    /\ UNCHANGED <<fileVars, candidate, historyVars>>

SyncTemp(o) ==
    /\ pc[o] = "encoded"
    /\ Goto(o, "synced")
    /\ UNCHANGED <<fileVars, candidate, historyVars>>

\* A mistake: the file is renamed before its bytes are on the disk.
MayRenameEarly(o) == pc[o] \in {"encoded", "synced"}

MayRename(o) == pc[o] = "synced"

Rename(o) ==
    /\ MayRename(o)
    /\ file' = HeadOf(candidate[o])
    /\ fileSynced' = (pc[o] = "synced")
    /\ Goto(o, "renamed")
    /\ UNCHANGED <<disk, candidate, historyVars>>

\* What the disk holds once the directory entry of the file is on it.
OnDisk == IF fileSynced THEN file ELSE Torn

\* A mistake: the directory is not synced.
DirUnsynced == disk

DirSynced == OnDisk

SyncDir(o) ==
    /\ pc[o] = "renamed"
    /\ disk' = DirSynced
    /\ acceptedHeads' = acceptedHeads \cup {HeadOf(candidate[o])}
    /\ written' = written \cup {HeadOf(candidate[o])}
    /\ Goto(o, "idle")
    /\ UNCHANGED <<file, fileSynced, candidate, presented>>

\* A write, sync or rename fails: OpenDurableResolver returns the error, and
\* the rename stays if it was done.
WriteError(o) ==
    /\ "syncError" \in Hazards
    /\ pc[o] \in {"writing", "encoded", "synced", "renamed"}
    /\ Goto(o, "idle")
    /\ UNCHANGED <<fileVars, candidate, historyVars>>

Again(o) ==
    /\ pc[o] = "refused"
    /\ Goto(o, "idle")
    /\ UNCHANGED <<fileVars, candidate, historyVars>>

-----------------------------------------------------------------------------
(* The machine (external). *)

\* The system may write the directory back at any time.
Writeback ==
    /\ disk # OnDisk
    /\ disk' = OnDisk
    /\ UNCHANGED <<file, fileSynced, pc, candidate, historyVars>>

Kill(o) ==
    /\ "kill" \in Hazards
    /\ pc[o] # "idle"
    /\ Goto(o, "idle")
    /\ UNCHANGED <<fileVars, candidate, historyVars>>

PowerLoss ==
    /\ "power" \in Hazards
    /\ file' = disk /\ fileSynced' = (disk # Torn)
    /\ pc' = [o \in Openers |-> "idle"]
    /\ UNCHANGED <<disk, candidate, historyVars>>

-----------------------------------------------------------------------------
OpenDurableResolver(o) ==
    \/ \E c \in Candidates : Present(o, c)
    \/ ReadSame(o) \/ ReadOlder(o) \/ Refuse(o)
    \/ Encode(o) \/ SyncTemp(o) \/ Rename(o) \/ SyncDir(o) \/ WriteError(o)
    \/ Again(o)

HeadNext ==
    \/ \E o \in Openers : OpenDurableResolver(o) \/ Kill(o)
    \/ Writeback \/ PowerLoss

HeadSpec == HeadInit /\ [][HeadNext]_headVars

-----------------------------------------------------------------------------
(* Properties. *)

\* Among the types: neither the visible nor the durable state file is ever torn.
TypeOK ==
    /\ file \in Heads \cup {NoHead} /\ disk \in Heads \cup {NoHead}
    /\ fileSynced \in BOOLEAN
    /\ pc \in [Openers -> {"idle", "reading", "writing", "encoded", "synced",
                           "renamed", "refused"}]
    /\ candidate \in [Openers -> Candidates]
    /\ acceptedHeads \subseteq Heads /\ presented \subseteq Heads
    /\ written \subseteq acceptedHeads

\* A head descends from another if chains, of which each contains the head of the
\* one before, lead from there to it: it is in every set of heads that the other is
\* in and that no such chain leads out of.
ClosedSets ==
    {S \in SUBSET Heads :
        \A c \in Candidates : (\E h \in S : HasHead(c, h)) => HeadOf(c) \in S}

Descendants == [h \in Heads |-> {g \in Heads : \A S \in ClosedSets : h \in S => g \in S}]

Keeps(S) == \A h \in S : file \in Descendants[h]

\* "A previously accepted stronger policy-authority head must not silently roll
\* back" (docs/policy-authority-v1.1.md).
AcceptedHeadKept == Keeps(acceptedHeads)

\* With one opener at a time, and whatever crashes and errors come between: the
\* state file holds a head that descends from every head accepted by writing it.
WrittenHeadKept == Keeps(written)

\* Of any two heads accepted by writing them one descends from the other: an
\* error, a kill or a power loss never opens the way to a fork.
WrittenAgree ==
    \A g, h \in written : g \in Descendants[h] \/ h \in Descendants[g]

\* Neither rollback nor fork, with one opener at a time.
WrittenHeadsHold == WrittenHeadKept /\ WrittenAgree

\* The state file never locks its owners out: a chain that contains every head
\* ever presented is not refused, whatever failed before.
LongestIsWelcome ==
    \A o \in Openers : pc[o] = "refused" =>
        \E h \in presented : ~HasHead(candidate[o], h)
=============================================================================
