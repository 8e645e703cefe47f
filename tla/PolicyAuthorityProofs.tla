------------------------ MODULE PolicyAuthorityProofs ------------------------
(* Theorems about PolicyHead and PolicyGate, for any chains.                  *)
(*                                                                            *)
(* Of the head: for any faults.  Those that say that heads are kept hold for  *)
(* one opener: of two, a slower one may replace what a faster one has written *)
(* since it read.                                                             *)
(*                                                                            *)
(* Of the gates: what a manifest asked of an operation is followed over the   *)
(* rotations of one chain, and from the last manifest of an accepted chain to *)
(* the next one that has its head.                                            *)
EXTENDS PolicyHead, PolicyGate, FiniteSetTheorems, SequenceTheorems,
        WellFoundedInduction, TLAPS

LEMMA HeadsOfCandidates ==
    ASSUME NEW c \in Candidates
    PROVE  /\ HeadOf(c) \in Heads /\ HeadOf(c).generation = Len(c)
           /\ Len(c) \in Nat \ {0} /\ HasHead(c, HeadOf(c))
<1>1. c \in Seq(Links) /\ c # <<>>
  BY PolicyHeadAssumption
<1>2. Len(c) \in Nat \ {0}
  BY <1>1, EmptySeq
<1>3. QED
  BY <1>2 DEF Heads, HeadOf, HeadUpTo, HasHead

LEMMA DescendsSelf == ASSUME NEW h \in Heads PROVE h \in Descendants[h]
BY DEF Descendants

\* The head of a chain descends from every head the chain has.
LEMMA DescendsDirectly ==
    ASSUME NEW c \in Candidates, NEW h \in Heads, HasHead(c, h)
    PROVE  HeadOf(c) \in Descendants[h]
BY HeadsOfCandidates DEF Descendants, ClosedSets

LEMMA DescendsThrough ==
    ASSUME NEW a \in Heads, NEW b \in Descendants[a], NEW c \in Descendants[b]
    PROVE  c \in Descendants[a]
BY DEF Descendants

\* The generation tells descendants from their ancestors.
LEMMA DescendantIsLater ==
    ASSUME NEW h \in Heads, NEW g \in Descendants[h]
    PROVE  g = h \/ g.generation > h.generation
<1> DEFINE S == {x \in Heads : x = h \/ x.generation > h.generation}
<1>1. ASSUME NEW c \in Candidates, NEW x \in S, HasHead(c, x)
      PROVE  HeadOf(c) \in S
  <2>1. PICK n \in 1..Len(c) : HeadUpTo(c, n) = x
    BY <1>1 DEF HasHead
  <2>2. PICK d \in Candidates : h = HeadOf(d)
    BY DEF Heads
  <2>3. x.generation = n /\ n <= Len(c) /\ Len(d) \in Nat /\ h.generation = Len(d)
    BY <2>1, <2>2, HeadsOfCandidates DEF HeadUpTo
  <2>4. n = Len(c) => HeadOf(c) = x
    BY <2>1 DEF HeadOf
  <2>5. n < Len(c) => HeadOf(c).generation > h.generation
    BY <2>3, HeadsOfCandidates
  <2> QED
    BY <2>3, <2>4, <2>5, HeadsOfCandidates
<1>2. S \in ClosedSets
  BY <1>1 DEF ClosedSets
<1>3. QED
  BY <1>2 DEF Descendants

-----------------------------------------------------------------------------
(* Types, and that the state file only ever holds a head that was presented  *)
(* and whose bytes are on the disk.                                          *)

TypedHead ==
    /\ TypeOK
    /\ fileSynced = TRUE
    /\ file \in presented \cup {NoHead} /\ disk \in presented \cup {NoHead}
    /\ \A o \in Openers : pc[o] # "idle" => HeadOf(candidate[o]) \in presented
    /\ LongestIsWelcome

LEMMA ActsOnHead == ASSUME TypedHead PROVE OnDisk = file /\ file # Torn
BY PolicyHeadAssumption DEF TypedHead, TypeOK, OnDisk

\* A chain that may not follow the state file lacks the head in the file.
LEMMA RefusedLacks ==
    ASSUME NEW c \in Candidates, file \in Heads, ~FollowsFile(c)
    PROVE  ~HasHead(c, file)
BY HeadsOfCandidates DEF FollowsFile, HasHead, HeadUpTo

LEMMA TypedHeadInvariant == HeadSpec => []TypedHead
<1>1. HeadInit => TypedHead
  BY PolicyHeadAssumption DEF HeadInit, TypedHead, TypeOK, LongestIsWelcome
<1>2. TypedHead /\ [HeadNext]_headVars => TypedHead'
  <2> SUFFICES ASSUME TypedHead, [HeadNext]_headVars PROVE TypedHead'
    OBVIOUS
  <2> USE DEF TypedHead, TypeOK, LongestIsWelcome, Goto
  <2>1. ASSUME NEW o \in Openers, NEW c \in Candidates, Present(o, c) PROVE TypedHead'
    BY <2>1, HeadsOfCandidates DEF Present, fileVars
  <2>2. ASSUME NEW o \in Openers, ReadSame(o) PROVE TypedHead'
    BY <2>2 DEF ReadSame, fileVars
  <2>3. ASSUME NEW o \in Openers,
               ReadOlder(o) \/ Encode(o) \/ SyncTemp(o) \/ Again(o)
        PROVE  TypedHead'
    BY <2>3 DEF ReadOlder, Encode, SyncTemp, Again, fileVars, historyVars
  <2>4. ASSUME NEW o \in Openers, Refuse(o) PROVE TypedHead'
    <3>1. file \in Heads /\ file \in presented /\ ~HasHead(candidate[o], file)
      BY <2>4, RefusedLacks DEF Refuse
    <3>2. /\ UNCHANGED <<file, fileSynced, disk, candidate, acceptedHeads, written, presented>>
          /\ pc' = [pc EXCEPT ![o] = "refused"]
          /\ pc[o] = "reading"
      BY <2>4 DEF Refuse, fileVars, historyVars
    <3>3. LongestIsWelcome'
      BY <3>1, <3>2
    <3>4. QED
      BY <3>2, <3>3
  <2>5. ASSUME NEW o \in Openers, Rename(o) PROVE TypedHead'
    BY <2>5 DEF Rename, MayRename, historyVars
  <2>6. ASSUME NEW o \in Openers, SyncDir(o) PROVE TypedHead'
    BY <2>6, ActsOnHead DEF SyncDir, DirSynced
  <2>7. ASSUME NEW o \in Openers, WriteError(o) \/ Kill(o) PROVE TypedHead'
    BY <2>7 DEF WriteError, Kill, fileVars, historyVars
  <2>8. CASE Writeback
    BY <2>8, ActsOnHead DEF Writeback, historyVars
  <2>9. CASE PowerLoss
    BY <2>9, PolicyHeadAssumption DEF PowerLoss, historyVars
  <2>10. CASE UNCHANGED headVars
    BY <2>10 DEF headVars, fileVars, historyVars
  <2>11. QED
    BY <2>1, <2>2, <2>3, <2>4, <2>5, <2>6, <2>7, <2>8, <2>9, <2>10
       DEF HeadNext, OpenDurableResolver
<1>3. QED
  BY <1>1, <1>2, PTL DEF HeadSpec

\* The state file is never torn, neither as processes see it nor on the disk,
\* for any number of openers.
THEOREM HeadTypeCorrect == HeadSpec => []TypeOK
<1>1. TypedHead => TypeOK
  BY DEF TypedHead
<1>2. QED
  BY <1>1, TypedHeadInvariant, PTL

\* Only a chain that lacks some presented head is ever refused, for any number
\* of openers.
THEOREM NobodyLockedOut == HeadSpec => []LongestIsWelcome
<1>1. TypedHead => LongestIsWelcome
  BY DEF TypedHead
<1>2. QED
  BY <1>1, TypedHeadInvariant, PTL

-----------------------------------------------------------------------------
(* One opener.  What it writes extends what it read; what it wrote extends   *)
(* what is on the disk; and what is on the disk extends what was accepted by *)
(* writing.                                                                  *)

OneOpener == \A o, p \in Openers : o = p

Extends(g, h) == h # NoHead => g \in Heads /\ g \in Descendants[h]

WriterExtends ==
    \A o \in Openers :
        /\ pc[o] \in {"writing", "encoded", "synced"} => Extends(HeadOf(candidate[o]), file)
        /\ pc[o] = "renamed" => file = HeadOf(candidate[o])

FileExtendsDisk == Extends(file, disk)

DiskKeepsWritten == \A h \in written : disk \in Descendants[h]

Ordered == WriterExtends /\ FileExtendsDisk /\ DiskKeepsWritten /\ WrittenAgree

\* What extends the file extends what is on the disk.
LEMMA ExtendsThrough ==
    ASSUME TypedHead, FileExtendsDisk, NEW g \in Heads, Extends(g, file)
    PROVE  Extends(g, disk)
BY DescendsThrough, PolicyHeadAssumption
   DEF TypedHead, TypeOK, FileExtendsDisk, Extends

\* The file extends all that was written.
LEMMA FileKeepsWritten ==
    ASSUME TypedHead, FileExtendsDisk, DiskKeepsWritten
    PROVE  \A h \in written : file \in Descendants[h]
<1> SUFFICES ASSUME NEW h \in written PROVE file \in Descendants[h]
  OBVIOUS
<1>1. h \in Heads /\ disk \in Descendants[h] /\ Descendants[h] \subseteq Heads
  BY DEF TypedHead, TypeOK, DiskKeepsWritten, Descendants
<1>2. disk # NoHead
  BY <1>1, PolicyHeadAssumption
<1>3. QED
  BY <1>1, <1>2, DescendsThrough DEF FileExtendsDisk, Extends

LEMMA OrderedInvariant == ASSUME OneOpener PROVE HeadSpec => []Ordered
<1>1. HeadInit => Ordered
  BY DEF HeadInit, Ordered, WriterExtends, FileExtendsDisk, DiskKeepsWritten,
     WrittenAgree, Extends
<1>2. TypedHead /\ Ordered /\ [HeadNext]_headVars => Ordered'
  <2> SUFFICES ASSUME TypedHead, Ordered, [HeadNext]_headVars PROVE Ordered'
    OBVIOUS
  <2> USE DEF Ordered, Goto
  <2>typed. TypeOK
    BY DEF TypedHead
  <2>1. ASSUME NEW o \in Openers, pc[o] \in {"idle", "reading"},
               UNCHANGED <<file, disk, written>>,
               candidate' \in [Openers -> Candidates],
               pc'[o] = "writing" => Extends(HeadOf(candidate'[o]), file),
               pc'[o] \notin {"encoded", "synced", "renamed"}
        PROVE  Ordered'
    <3>1. WriterExtends'
      BY <2>1 DEF OneOpener, WriterExtends, Extends
    <3>2. QED
      BY <2>1, <3>1 DEF FileExtendsDisk, DiskKeepsWritten, WrittenAgree, Extends
  <2>2. ASSUME NEW o \in Openers, \/ \E c \in Candidates : Present(o, c)
                                  \/ ReadSame(o) \/ Refuse(o) \/ ReadOlder(o)
        PROVE  Ordered'
    <3>1. pc[o] \in {"idle", "reading"} /\ UNCHANGED <<file, disk, written>>
      BY <2>2 DEF Present, ReadSame, Refuse, ReadOlder, fileVars, historyVars
    <3>2. candidate' \in [Openers -> Candidates]
      BY <2>2, <2>typed DEF TypeOK, Present, ReadSame, Refuse, ReadOlder
    <3>3. pc'[o] = "writing" => Extends(HeadOf(candidate'[o]), file)
      <4>1. CASE ReadOlder(o)
        <5>1. candidate[o] \in Candidates /\ candidate' = candidate
          BY <4>1, <2>typed DEF TypeOK, ReadOlder
        <5>2. file # NoHead => file \in Heads /\ HasHead(candidate[o], file)
          BY <4>1 DEF ReadOlder, FollowsFile
        <5>3. QED
          BY <5>1, <5>2, HeadsOfCandidates, DescendsDirectly DEF Extends
      <4>2. CASE ~ReadOlder(o)
        BY <4>2, <2>2, <2>typed DEF TypeOK, Present, ReadSame, Refuse
      <4>3. QED
        BY <4>1, <4>2
    <3>4. pc'[o] \notin {"encoded", "synced", "renamed"}
      BY <2>2, <2>typed DEF TypeOK, Present, ReadSame, Refuse, ReadOlder
    <3>5. QED
      BY <2>1, <3>1, <3>2, <3>3, <3>4
  <2>3. ASSUME NEW o \in Openers, Encode(o) \/ SyncTemp(o) PROVE Ordered'
    <3>1. /\ UNCHANGED <<file, disk, candidate, written>>
          /\ pc[o] \in {"writing", "encoded"} /\ pc'[o] \in {"encoded", "synced"}
      BY <2>3, <2>typed DEF TypeOK, Encode, SyncTemp, fileVars, historyVars
    <3>2. WriterExtends'
      BY <3>1 DEF OneOpener, WriterExtends, Extends
    <3>3. QED
      BY <3>1, <3>2 DEF FileExtendsDisk, DiskKeepsWritten, WrittenAgree, Extends
  <2>4. ASSUME NEW o \in Openers, Rename(o) PROVE Ordered'
    <3>1. /\ pc[o] = "synced" /\ pc'[o] = "renamed"
          /\ file' = HeadOf(candidate[o]) /\ UNCHANGED <<disk, candidate, written>>
      BY <2>4, <2>typed DEF TypeOK, Rename, MayRename, historyVars
    <3>2. HeadOf(candidate[o]) \in Heads /\ Extends(HeadOf(candidate[o]), disk)
      BY <3>1, <2>typed, ExtendsThrough, HeadsOfCandidates DEF TypeOK, WriterExtends
    <3>3. WriterExtends'
      BY <3>1 DEF OneOpener, WriterExtends
    <3>4. QED
      BY <3>1, <3>2, <3>3 DEF FileExtendsDisk, DiskKeepsWritten, WrittenAgree,
         Extends
  <2>5. ASSUME NEW o \in Openers, SyncDir(o) PROVE Ordered'
    <3>1. /\ pc[o] = "renamed" /\ pc'[o] = "idle" /\ UNCHANGED <<file, candidate>>
          /\ disk' = file /\ written' = written \cup {HeadOf(candidate[o])}
      BY <2>5, <2>typed, ActsOnHead DEF TypeOK, SyncDir, DirSynced
    <3>2. file = HeadOf(candidate[o]) /\ file \in Heads /\ file \in Descendants[file]
      BY <3>1, <2>typed, DescendsSelf, HeadsOfCandidates DEF TypeOK, WriterExtends
    <3>3. \A h \in written' : file \in Descendants[h]
      BY <3>1, <3>2, FileKeepsWritten
    <3>4. WriterExtends' /\ FileExtendsDisk'
      BY <3>1, <3>2 DEF OneOpener, WriterExtends, FileExtendsDisk, Extends
    <3>5. DiskKeepsWritten'
      BY <3>1, <3>2, <3>3 DEF DiskKeepsWritten
    <3>6. WrittenAgree'
      BY <3>1, <3>2, <3>3 DEF WrittenAgree
    <3>7. QED
      BY <3>4, <3>5, <3>6
  <2>6. ASSUME NEW o \in Openers, WriteError(o) \/ Again(o) \/ Kill(o)
        PROVE  Ordered'
    <3>1. pc'[o] = "idle" /\ UNCHANGED <<file, disk, candidate, written>>
      BY <2>6, <2>typed DEF TypeOK, WriteError, Again, Kill, fileVars, historyVars
    <3>2. QED
      BY <3>1 DEF OneOpener, WriterExtends, FileExtendsDisk, DiskKeepsWritten,
         WrittenAgree, Extends
  <2>7. CASE Writeback
    <3>1. disk' = file /\ UNCHANGED <<file, pc, candidate, written>>
      BY <2>7, ActsOnHead DEF Writeback, historyVars
    <3>2. FileExtendsDisk' /\ DiskKeepsWritten'
      BY <3>1, <2>typed, DescendsSelf, FileKeepsWritten
         DEF TypeOK, FileExtendsDisk, DiskKeepsWritten, Extends
    <3>3. QED
      BY <3>1, <3>2 DEF WriterExtends, WrittenAgree, Extends
  <2>8. CASE PowerLoss
    <3>1. /\ file' = disk /\ UNCHANGED <<disk, candidate, written>>
          /\ \A o \in Openers : pc'[o] = "idle"
      BY <2>8 DEF PowerLoss, historyVars
    <3>2. FileExtendsDisk'
      BY <3>1, <2>typed, DescendsSelf DEF TypeOK, FileExtendsDisk, Extends
    <3>3. QED
      BY <3>1, <3>2 DEF WriterExtends, DiskKeepsWritten, WrittenAgree
  <2>9. CASE UNCHANGED headVars
    BY <2>9 DEF headVars, fileVars, historyVars, WriterExtends, FileExtendsDisk,
       DiskKeepsWritten, WrittenAgree, Extends
  <2>10. QED
    BY <2>2, <2>3, <2>4, <2>5, <2>6, <2>7, <2>8, <2>9
       DEF HeadNext, OpenDurableResolver
<1>3. QED
  BY <1>1, <1>2, TypedHeadInvariant, PTL DEF HeadSpec

\* With one opener, whatever crashes and errors come between: the state file
\* holds a head that extends every chain accepted by writing it, and those chains
\* never fork.
THEOREM NoRollbackNoFork == ASSUME OneOpener PROVE HeadSpec => []WrittenHeadsHold
<1>1. TypedHead /\ Ordered => WrittenHeadKept
  BY FileKeepsWritten DEF Ordered, WrittenHeadKept, Keeps
<1>2. Ordered => WrittenAgree
  BY DEF Ordered
<1>3. TypedHead /\ Ordered => WrittenHeadsHold
  BY <1>1, <1>2 DEF WrittenHeadsHold
<1>4. QED
  BY <1>3, TypedHeadInvariant, OrderedInvariant, PTL

\* With one opener, the head on the disk is only ever replaced by one that descends
\* from it, and so is the one in the file, unless a power loss brings the disk's back
\* (writeChainHeadAtomic after acceptChainHead).
THEOREM HeadsOnlyAdvance ==
    ASSUME OneOpener
    PROVE  HeadSpec => [][Extends(disk', disk) /\ (Extends(file', file) \/ file' = disk)]_<<file, disk>>
<1>1. ASSUME TypedHead, Ordered, [HeadNext]_headVars
      PROVE  [Extends(disk', disk) /\ (Extends(file', file) \/ file' = disk)]_<<file, disk>>
  <2>typed. TypeOK
    BY <1>1 DEF TypedHead
  <2>1. Extends(file, disk) /\ Extends(file, file) /\ Extends(disk, disk)
    BY <2>typed, <1>1, DescendsSelf DEF TypeOK, Ordered, FileExtendsDisk, Extends
  <2>2. ASSUME NEW o \in Openers, Rename(o)
        PROVE  Extends(file', file) /\ disk' = disk
    BY <1>1, <2>2, <2>typed DEF Rename, MayRename, Ordered, WriterExtends
  <2>3. ASSUME NEW o \in Openers, SyncDir(o)
        PROVE  disk' = file /\ file' = file
    BY <1>1, <2>3, ActsOnHead DEF SyncDir, DirSynced
  <2>4. ASSUME NEW o \in Openers, ~Rename(o), ~SyncDir(o), OpenDurableResolver(o) \/ Kill(o)
        PROVE  UNCHANGED <<file, disk>>
    BY <2>4 DEF OpenDurableResolver, Present, ReadSame, ReadOlder, Refuse, Encode, SyncTemp,
       WriteError, Again, Kill, fileVars
  <2>5. CASE Writeback
    BY <1>1, <2>1, <2>5, ActsOnHead DEF Writeback
  <2>6. CASE PowerLoss
    BY <2>1, <2>6 DEF PowerLoss
  <2>7. CASE UNCHANGED headVars
    BY <2>7 DEF headVars, fileVars
  <2>8. QED
    BY <1>1, <2>1, <2>2, <2>3, <2>4, <2>5, <2>6, <2>7 DEF HeadNext
<1>2. QED
  BY <1>1, TypedHeadInvariant, OrderedInvariant, PTL DEF HeadSpec

-----------------------------------------------------------------------------
(* Numbers. *)

\* The least element of a set of numbers, from the well-founded order of the
\* intervals that start at one.
LEMMA LeastNumber ==
    ASSUME NEW T \in SUBSET Nat, T # {}
    PROVE  \E m \in T : \A n \in T : m <= n
<1> DEFINE Below(n) == 1 .. n
           Intervals == {Below(n) : n \in T}
<1>1. Intervals \subseteq FiniteSubsetsOf(Nat) /\ Intervals # {}
  <2>1. \A n \in T : IsFiniteSet(Below(n)) /\ Below(n) \in SUBSET Nat
    BY FS_Interval
  <2>2. QED
    BY <2>1 DEF FiniteSubsetsOf
<1>2. IsWellFoundedOn(StrictSubsetOrdering(Nat), FiniteSubsetsOf(Nat))
  BY FS_StrictSubsetOrderingWellFounded
<1>3. PICK I \in Intervals :
          \A J \in Intervals : <<J, I>> \notin StrictSubsetOrdering(Nat)
  <2> HIDE DEF Intervals
  <2>1. QED
    BY <1>1, <1>2, WFMin
<1>4. PICK m \in T : I = Below(m)
  OBVIOUS
<1>5. ASSUME NEW n \in T, n < m PROVE FALSE
  <2>1. Below(n) \subseteq Below(m) /\ m \in Below(m) /\ m \notin Below(n)
    BY <1>5
  <2>2. <<Below(n), I>> \in StrictSubsetOrdering(Nat)
    BY <2>1, <1>4, <1>1 DEF StrictSubsetOrdering
  <2>3. QED
    BY <1>3, <2>2
<1>6. QED
  BY <1>5


-----------------------------------------------------------------------------
(* Verified chains of manifests. *)

\* Bindings of the n-th manifest of the chain k.
AskedAt(k, n) == ToSet(Chains[k].manifests[n].manifest.bindings)

LEMMA ChainShape ==
    ASSUME NEW k \in Verified
    PROVE  /\ k \in DOMAIN Chains
           /\ Len(Chains[k].manifests) \in Nat \ {0}
           /\ DOMAIN Chains[k].manifests = 1..Len(Chains[k].manifests)
           /\ Len(Chains[k].rotations) = Len(Chains[k].manifests) - 1
           /\ DOMAIN Chains[k].rotations = 1..(Len(Chains[k].manifests) - 1)
           /\ Chains[k].manifests[1] = Root
<1>1. k \in DOMAIN Chains /\ OpenVerified(Chains[k])
  BY DEF Verified
<1>2. PICK m, r : m = Chains[k].manifests /\ r = Chains[k].rotations
  OBVIOUS
<1>3. m \in Seq(ToSet(m)) /\ r \in Seq(ToSet(r))
  BY <1>1, <1>2, PolicyGateAssumption DEF Sequence
<1>4. Len(m) > 0 /\ Len(r) = Len(m) - 1 /\ m[1] = Root
  BY <1>1, <1>2 DEF OpenVerified
<1>5. QED
  BY <1>1, <1>2, <1>3, <1>4, LenProperties

\* What a verified rotation says of its two manifests.
LEMMA RotationSays ==
    ASSUME NEW k \in Verified, NEW i \in 1..(Len(Chains[k].manifests) - 1)
    PROVE  /\ i \in Nat /\ i \in DOMAIN Chains[k].manifests /\ i + 1 \in DOMAIN Chains[k].manifests
           /\ VerifyRotation(Chains[k].rotations[i], Chains[k].manifests[i], Chains[k].manifests[i + 1])
           /\ Chains[k].manifests[i + 1].manifest.generation = Chains[k].manifests[i].manifest.generation + 1
<1>1. i \in DOMAIN Chains[k].rotations /\ OpenVerified(Chains[k])
  BY ChainShape DEF Verified
<1>2. VerifyRotation(Chains[k].rotations[i], Chains[k].manifests[i], Chains[k].manifests[i + 1])
  BY <1>1 DEF OpenVerified
<1>3. QED
  BY <1>2, ChainShape DEF VerifyRotation

\* Generations count up from the root's.
LEMMA GenerationsCount ==
    ASSUME NEW k \in Verified, NEW n \in DOMAIN Chains[k].manifests
    PROVE  Chains[k].manifests[n].manifest.generation = Root.manifest.generation + n - 1
<1> DEFINE gen(m) == Chains[k].manifests[m].manifest.generation
           Off == {m \in DOMAIN Chains[k].manifests : gen(m) # Root.manifest.generation + m - 1}
<1>1. DOMAIN Chains[k].manifests = 1..Len(Chains[k].manifests) /\ Len(Chains[k].manifests) \in Nat
  BY ChainShape
<1>2. gen(1) = Root.manifest.generation /\ Root.manifest.generation \in Nat
  BY ChainShape, PolicyGateAssumption
<1>3. ASSUME Off # {} PROVE FALSE
  <2>1. Off \in SUBSET Nat
    BY <1>1
  <2>2. PICK m \in Off : \A x \in Off : m <= x
    BY <2>1, <1>3, LeastNumber
  <2>3. m \in 1..Len(Chains[k].manifests) /\ m # 1
    BY <1>1, <1>2
  <2>4. m - 1 \in 1..(Len(Chains[k].manifests) - 1) /\ m - 1 \notin Off
    BY <1>1, <2>2, <2>3
  <2>5. gen(m - 1) = Root.manifest.generation + (m - 1) - 1
    BY <1>1, <2>4
  <2>6. Chains[k].manifests[(m - 1) + 1].manifest.generation = gen(m - 1) + 1
    BY <2>4, RotationSays
  <2>7. (m - 1) + 1 = m
    BY <2>3, <1>1
  <2>8. gen(m) = Root.manifest.generation + m - 1
    <3>1. gen(m) = gen(m - 1) + 1
      BY <2>6, <2>7
    <3>2. m \in Nat /\ Root.manifest.generation \in Nat
      BY <2>3, <1>1, <1>2
    <3> HIDE DEF gen
    <3> QED
      BY <2>5, <3>1, <3>2
  <2> QED
    BY <2>2, <2>8
<1>4. QED
  BY <1>3

LEMMA GenerationIsLength ==
    ASSUME NEW k \in Verified
    PROVE  /\ Generation(k) = Root.manifest.generation + Len(Chains[k].manifests) - 1
           /\ Generation(k) \in Nat
<1>1. Len(Chains[k].manifests) \in DOMAIN Chains[k].manifests
  BY ChainShape
<1>2. Generation(k) = Chains[k].manifests[Len(Chains[k].manifests)].manifest.generation
  BY DEF Generation, ChainHead, HeadAt
<1>3. QED
  BY <1>1, <1>2, GenerationsCount, ChainShape, PolicyGateAssumption

\* Every manifest of a verified chain is valid and signed.
LEMMA ManifestsVerified ==
    ASSUME NEW k \in Verified, NEW n \in DOMAIN Chains[k].manifests
    PROVE  SelfVerify(Chains[k].manifests[n])
<1>1. CASE n = 1
  BY <1>1 DEF Verified, OpenVerified
<1>2. CASE n # 1
  <2>1. n \in 1..Len(Chains[k].manifests) /\ Len(Chains[k].manifests) \in Nat
    BY ChainShape
  <2>2. n - 1 \in 1..(Len(Chains[k].manifests) - 1) /\ (n - 1) + 1 = n
    BY <2>1, <1>2
  <2>3. QED
    BY <2>2, RotationSays DEF VerifyRotation
<1>3. QED
  BY <1>1, <1>2

\* The next manifest asks as much of a binding's operation, under its class, or the
\* rotation to it is signed to weaken the class.
KeptBy(b, x) ==
    /\ x.class = b.class /\ Contract(x) = Contract(b)
    /\ b.policy.requirements \subseteq x.policy.requirements

WeakenedAt(k, i, class) ==
    LET r == Chains[k].rotations[i] IN
    /\ class \in r.material.weakened /\ r.material.allow
    /\ r.signature = Sign(Chains[k].manifests[i].key, r.material)

LEMMA KeptOverRotation ==
    ASSUME NEW k \in Verified, NEW i \in 1..(Len(Chains[k].manifests) - 1),
           NEW b \in AskedAt(k, i)
    PROVE  (\E x \in AskedAt(k, i + 1) : KeptBy(b, x)) \/ WeakenedAt(k, i, b.class)
<1>1. PICK r, m, n : /\ r = Chains[k].rotations[i] /\ m = Chains[k].manifests[i]
                     /\ n = Chains[k].manifests[i + 1]
  OBVIOUS
<1>2. VerifyRotation(r, m, n)
  BY <1>1, RotationSays
<1>3. CASE b.class \in Weakened(m.manifest, n.manifest)
  <2>1. b.class \in r.material.weakened /\ r.signature = Sign(m.key, r.material)
    BY <1>2, <1>3 DEF VerifyRotation
  <2>2. r.material.allow
    BY <1>2, <1>3 DEF VerifyRotation
  <2>3. QED
    BY <2>1, <2>2, <1>1 DEF WeakenedAt
<1>4. CASE b.class \notin Weakened(m.manifest, n.manifest)
  <2>1. b \in ToSet(m.manifest.bindings)
    BY <1>1 DEF AskedAt
  <2>2. PICK x \in BindingsOf(n.manifest, b.class) :
           b.policy.requirements \subseteq x.policy.requirements /\ Contract(x) = Contract(b)
    BY <1>4, <2>1 DEF Weakened
  <2>3. x \in AskedAt(k, i + 1) /\ x.class = b.class
    BY <2>2, <1>1 DEF BindingsOf, AskedAt
  <2>4. QED
    BY <2>2, <2>3 DEF KeptBy
<1>5. QED
  BY <1>3, <1>4

\* The same over any number of rotations.
LEMMA KeptAlongChain ==
    ASSUME NEW k \in Verified, NEW n \in DOMAIN Chains[k].manifests, NEW b \in AskedAt(k, n),
           NEW m \in n..Len(Chains[k].manifests)
    PROVE  \/ \E x \in AskedAt(k, m) : KeptBy(b, x)
           \/ SaidToWeaken(Chains[k], n, b.class)
<1> DEFINE Keeps1(j) == \E x \in AskedAt(k, j) : KeptBy(b, x)
           Lost == {j \in n..Len(Chains[k].manifests) : ~Keeps1(j)}
<1>1. n \in 1..Len(Chains[k].manifests) /\ Len(Chains[k].manifests) \in Nat
  BY ChainShape
<1>2. Keeps1(n)
  BY DEF KeptBy
<1>3. ASSUME Lost # {} PROVE SaidToWeaken(Chains[k], n, b.class)
  <2>1. Lost \in SUBSET Nat
    BY <1>1
  <2>2. PICK j \in Lost : \A x \in Lost : j <= x
    BY <2>1, <1>3, LeastNumber
  <2>3. j \in n..Len(Chains[k].manifests) /\ j # n /\ ~Keeps1(j)
    BY <1>2
  <2>4. /\ j - 1 \in n..(Len(Chains[k].manifests) - 1) /\ j - 1 \notin Lost
        /\ (j - 1) + 1 = j
    BY <1>1, <2>2, <2>3
  <2>5. Keeps1(j - 1)
    <3>1. j - 1 \in n..Len(Chains[k].manifests)
      BY <2>4, <1>1
    <3> QED
      BY <3>1, <2>4
  <2>6. PICK x \in AskedAt(k, j - 1) : KeptBy(b, x)
    BY <2>5
  <2>7. j - 1 \in 1..(Len(Chains[k].manifests) - 1)
    BY <2>4, <1>1
  <2>8. ~\E y \in AskedAt(k, (j - 1) + 1) : KeptBy(x, y)
    <3> SUFFICES ASSUME NEW y \in AskedAt(k, j), KeptBy(x, y) PROVE FALSE
      BY <2>4
    <3>1. KeptBy(b, y)
      BY <2>6 DEF KeptBy
    <3> QED
      BY <3>1, <2>3
  <2>9. WeakenedAt(k, j - 1, x.class)
    BY <2>7, <2>8, KeptOverRotation
  <2>10. WeakenedAt(k, j - 1, b.class)
    BY <2>9, <2>6 DEF KeptBy
  <2>11. j - 1 \in n..Len(Chains[k].rotations)
    BY <2>4, ChainShape
  <2> QED
    BY <2>10, <2>11 DEF WeakenedAt, SaidToWeaken
<1>4. QED
  BY <1>3

-----------------------------------------------------------------------------
(* Accepted chains: each has the head of the one accepted before it, so what   *)
(* the manifests of either asked is kept, or was signed away, up to the last.  *)

UpTo(S, t) == {k \in S : Generation(k) <= Generation(t)}

\* What the manifests of the chain k asked still holds under the last one of t,
\* except for what rotations of chains in S are signed to weaken.
Carried(k, t, S) ==
    \A n \in DOMAIN Chains[k].manifests : \A b \in AskedAt(k, n) :
        \/ \E x \in ToSet(Current(Chains[t]).manifest.bindings) : KeptBy(b, x)
        \/ \E j \in S : SaidToWeaken(Chains[j], n, b.class)

\* Two chains of S with one generation have one head, and the earlier is carried.
Agree(S) ==
    \A k, t \in S :
        /\ Generation(k) = Generation(t) => ChainHead(Chains[k]) = ChainHead(Chains[t])
        /\ Generation(k) <= Generation(t) => Carried(k, t, UpTo(S, t))

\* The last of the accepted chains S is h.
LastOf(S, h) ==
    /\ h = NoChain => S = {}
    /\ h # NoChain => h \in S /\ \A t \in S : Generation(t) <= Generation(h)

LEMMA CurrentAsked ==
    ASSUME NEW k \in Verified
    PROVE  /\ ToSet(Current(Chains[k]).manifest.bindings) = AskedAt(k, Len(Chains[k].manifests))
           /\ Len(Chains[k].manifests) \in DOMAIN Chains[k].manifests
BY ChainShape DEF Current, AskedAt

LEMMA SameHeadSameCurrent ==
    ASSUME NEW k \in Verified, NEW t \in Verified, ChainHead(Chains[k]) = ChainHead(Chains[t])
    PROVE  Current(Chains[k]) = Current(Chains[t])
BY DEF ChainHead, HeadAt, Current, HashJSON

LEMMA CarriedAlone ==
    ASSUME NEW k \in Verified, NEW S, k \in S
    PROVE  Carried(k, k, S)
<1> SUFFICES ASSUME NEW n \in DOMAIN Chains[k].manifests, NEW b \in AskedAt(k, n)
             PROVE  \/ \E x \in ToSet(Current(Chains[k]).manifest.bindings) : KeptBy(b, x)
                    \/ \E j \in S : SaidToWeaken(Chains[j], n, b.class)
  BY DEF Carried
<1>1. Len(Chains[k].manifests) \in n..Len(Chains[k].manifests)
  BY ChainShape
<1>2. QED
  BY <1>1, KeptAlongChain, CurrentAsked

\* A chain that may follow the head of h has the last manifest of h at its place.
LEMMA FollowerHas ==
    ASSUME NEW h \in Verified, NEW m \in Verified, MayFollow(Chains[m], ChainHead(Chains[h]))
    PROVE  /\ Generation(h) <= Generation(m)
           /\ Len(Chains[h].manifests) \in DOMAIN Chains[m].manifests
           /\ AskedAt(m, Len(Chains[h].manifests)) = ToSet(Current(Chains[h]).manifest.bindings)
           /\ Generation(h) = Generation(m) => ChainHead(Chains[h]) = ChainHead(Chains[m])
<1>1. Generation(m) >= Generation(h)
  BY DEF MayFollow, Generation
<1>2. PICK n \in DOMAIN Chains[m].manifests : HeadAt(Chains[m], n) = ChainHead(Chains[h])
  BY DEF MayFollow
<1>3. Chains[m].manifests[n].manifest.generation = Generation(h)
  BY <1>2 DEF HeadAt, ChainHead, Generation
<1>4. Root.manifest.generation + n - 1 = Root.manifest.generation + Len(Chains[h].manifests) - 1
  BY <1>3, GenerationsCount, GenerationIsLength
<1>5. n = Len(Chains[h].manifests)
  BY <1>4, ChainShape, PolicyGateAssumption
<1>6. Chains[m].manifests[n] = Current(Chains[h])
  BY <1>2 DEF HeadAt, ChainHead, Current, HashJSON
<1>7. Generation(h) = Generation(m) => Len(Chains[h].manifests) = Len(Chains[m].manifests)
  BY GenerationIsLength, ChainShape, PolicyGateAssumption
<1>8. Generation(h) = Generation(m) => ChainHead(Chains[h]) = ChainHead(Chains[m])
  BY <1>2, <1>5, <1>7 DEF ChainHead
<1>9. QED
  BY <1>1, <1>2, <1>5, <1>6, <1>8 DEF AskedAt

\* A chain that may follow carries what the one before it carried.
LEMMA CarriedOver ==
    ASSUME NEW k \in Verified, NEW h \in Verified, NEW m \in Verified, NEW S, NEW T,
           Carried(k, h, S), S \subseteq T, m \in T, Generation(k) <= Generation(h),
           MayFollow(Chains[m], ChainHead(Chains[h]))
    PROVE  Carried(k, m, T)
<1> SUFFICES ASSUME NEW n \in DOMAIN Chains[k].manifests, NEW b \in AskedAt(k, n),
                    ~\E j \in T : SaidToWeaken(Chains[j], n, b.class)
             PROVE  \E x \in ToSet(Current(Chains[m]).manifest.bindings) : KeptBy(b, x)
  BY DEF Carried
<1>1. PICK x \in ToSet(Current(Chains[h]).manifest.bindings) : KeptBy(b, x)
  BY DEF Carried
<1>2. PICK l : l = Len(Chains[h].manifests)
  OBVIOUS
<1>3. l \in DOMAIN Chains[m].manifests /\ x \in AskedAt(m, l)
  BY <1>1, <1>2, FollowerHas
<1>4. Len(Chains[m].manifests) \in l..Len(Chains[m].manifests)
  BY <1>3, ChainShape
<1>5. ~SaidToWeaken(Chains[m], l, x.class)
  <2> SUFFICES ASSUME SaidToWeaken(Chains[m], l, x.class) PROVE FALSE
    OBVIOUS
  <2>1. n \in Nat /\ l \in Nat /\ n <= l
    <3>1. Root.manifest.generation + Len(Chains[k].manifests) - 1
            <= Root.manifest.generation + l - 1
      BY <1>2, GenerationIsLength
    <3>2. Len(Chains[k].manifests) <= l
      BY <3>1, <1>2, ChainShape, PolicyGateAssumption
    <3> QED
      BY <3>2, <1>2, ChainShape
  <2>2. l..Len(Chains[m].rotations) \subseteq n..Len(Chains[m].rotations)
    BY <2>1, ChainShape
  <2>3. SaidToWeaken(Chains[m], n, x.class)
    BY <2>2 DEF SaidToWeaken
  <2>4. x.class = b.class
    BY <1>1 DEF KeptBy
  <2> QED
    BY <2>3, <2>4
<1>6. PICK y \in AskedAt(m, Len(Chains[m].manifests)) : KeptBy(x, y)
  BY <1>3, <1>4, <1>5, KeptAlongChain
<1>7. KeptBy(b, y)
  BY <1>1, <1>6 DEF KeptBy
<1>8. QED
  BY <1>6, <1>7, CurrentAsked

LEMMA CarriedInMore ==
    ASSUME NEW k, NEW t, NEW S, NEW T, S \subseteq T, Carried(k, t, S)
    PROVE  Carried(k, t, T)
BY DEF Carried

\* Acceptance of one more chain keeps the accepted ones in agreement.
LEMMA AgreeWithNext ==
    ASSUME NEW S \in SUBSET Verified, NEW h, NEW m \in Verified, Agree(S), LastOf(S, h),
           h # NoChain => MayFollow(Chains[m], ChainHead(Chains[h]))
    PROVE  Agree(S \cup {m}) /\ LastOf(S \cup {m}, m)
<1>1. m # NoChain
  BY ChainShape, PolicyGateAssumption
<1>2. \A t \in S : Generation(t) <= Generation(m)
  <2> SUFFICES ASSUME NEW t \in S PROVE Generation(t) <= Generation(m)
    OBVIOUS
  <2>1. h \in S /\ h # NoChain /\ Generation(t) <= Generation(h)
    BY DEF LastOf
  <2>2. Generation(h) <= Generation(m)
    BY <2>1, FollowerHas
  <2>3. Generation(t) \in Nat /\ Generation(h) \in Nat /\ Generation(m) \in Nat
    BY <2>1, GenerationIsLength
  <2> QED
    BY <2>1, <2>2, <2>3
<1>3. LastOf(S \cup {m}, m)
  BY <1>1, <1>2, GenerationIsLength DEF LastOf
<1>4. \A t \in S \cup {m} : UpTo(S, t) \subseteq UpTo(S \cup {m}, t)
  BY DEF UpTo
<1>5. ASSUME NEW k \in S
      PROVE  /\ Carried(k, m, UpTo(S \cup {m}, m))
             /\ Generation(k) = Generation(m) => ChainHead(Chains[k]) = ChainHead(Chains[m])
  <2>1. h \in S /\ h # NoChain /\ Generation(k) <= Generation(h) /\ h \in Verified /\ k \in Verified
    BY DEF LastOf
  <2>2. MayFollow(Chains[m], ChainHead(Chains[h]))
    BY <2>1
  <2>3. Carried(k, h, UpTo(S, h))
    BY <2>1 DEF Agree
  <2>4. UpTo(S, h) \subseteq UpTo(S \cup {m}, m) /\ m \in UpTo(S \cup {m}, m)
    BY <1>2, GenerationIsLength DEF UpTo
  <2>5. Carried(k, m, UpTo(S \cup {m}, m))
    BY <2>1, <2>2, <2>3, <2>4, CarriedOver
  <2>6. Generation(k) = Generation(m) => Generation(k) = Generation(h) /\ Generation(h) = Generation(m)
    BY <2>1, <2>2, FollowerHas, GenerationIsLength
  <2>7. Generation(k) = Generation(h) => ChainHead(Chains[k]) = ChainHead(Chains[h])
    BY <2>1 DEF Agree
  <2>8. Generation(h) = Generation(m) => ChainHead(Chains[h]) = ChainHead(Chains[m])
    BY <2>1, <2>2, FollowerHas
  <2> QED
    BY <2>5, <2>6, <2>7, <2>8
<1>6. Carried(m, m, UpTo(S \cup {m}, m))
  <2>1. m \in UpTo(S \cup {m}, m)
    BY GenerationIsLength DEF UpTo
  <2> QED
    BY <2>1, CarriedAlone
<1>7. ASSUME NEW t \in S, Generation(m) <= Generation(t)
      PROVE  Carried(m, t, UpTo(S \cup {m}, t))
  <2>1. Generation(t) = Generation(m)
    BY <1>2, <1>7, GenerationIsLength
  <2>2. Current(Chains[t]) = Current(Chains[m])
    BY <2>1, <1>5, SameHeadSameCurrent
  <2>3. UpTo(S \cup {m}, t) = UpTo(S \cup {m}, m)
    BY <2>1 DEF UpTo
  <2> QED
    BY <1>6, <2>2, <2>3 DEF Carried
<1>8. ASSUME NEW k \in S, NEW t \in S, Generation(k) <= Generation(t)
      PROVE  Carried(k, t, UpTo(S \cup {m}, t))
  BY <1>4, <1>8, CarriedInMore DEF Agree
<1>9. Agree(S \cup {m})
  BY <1>5, <1>6, <1>7, <1>8 DEF Agree
<1>10. QED
  BY <1>3, <1>9

-----------------------------------------------------------------------------
(* Gates: each is of an accepted chain, and of that chain's last manifest's    *)
(* only binding with the contract of its operation.                            *)

GateOK(g, S) ==
    /\ g.chain \in S
    /\ g.binding \in ToSet(Current(ChainOf(g)).manifest.bindings)
    /\ Contract(g.binding) = Contract(g.operation)

SlotOK(s, S) ==
    /\ GateOK(s.gate, S)
    /\ s.acted => s.gate.binding.policy.requirements \subseteq s.gate.evidence.proven
    /\ s.bound # None => /\ s.bound.gate = s.gate
                         /\ s.bound.decision.policyHash = HashJSON(s.gate.binding.policy)

GateInv ==
    /\ accepted \in SUBSET Verified /\ chain \in {head, NoChain}
    /\ Agree(accepted) /\ LastOf(accepted, head)
    /\ DOMAIN slot = Callers
    /\ \A c \in Callers : slot[c] # None => SlotOK(slot[c], accepted)

LEMMA AllowedMeets ==
    ASSUME NEW g, Decision(g) # None, Decision(g).allowed
    PROVE  g.binding.policy.requirements \subseteq g.evidence.proven
<1>1. PICK q \in BOOLEAN : q = (g.binding.policy.requirements \subseteq g.evidence.proven)
  OBVIOUS
<1>2. Decision(g) = [policyHash |-> HashJSON(g.binding.policy), evidenceHash |-> HashJSON(g.evidence),
                     unmet |-> g.binding.policy.requirements \ g.evidence.proven, allowed |-> q]
  BY <1>1, Zenon DEF Decision, Evaluate
<1>3. Decision(g).allowed = q
  BY <1>2
<1>4. QED
  BY <1>1, <1>3, Zenon

LEMMA SlotsLast ==
    ASSUME NEW s, NEW S, NEW T, S \subseteq T, SlotOK(s, S)
    PROVE  SlotOK(s, T)
BY DEF SlotOK, GateOK

LEMMA GateInvariant == GateSpec => []GateInv
<1>1. GateInit => GateInv
  BY DEF GateInit, GateInv, Agree, LastOf
<1>2. GateInv /\ [GateNext]_gateVars => GateInv'
  <2> SUFFICES ASSUME GateInv, [GateNext]_gateVars PROVE GateInv'
    OBVIOUS
  <2>1. CASE Open
    <3>1. PICK k \in Verified : /\ head # NoChain => MayFollow(Chains[k], ChainHead(Chains[head]))
                                /\ chain' \in {k, NoChain} /\ head' = k /\ accepted' = accepted \cup {k} /\ slot' = slot
      BY <2>1 DEF Open
    <3>2. accepted \in SUBSET Verified /\ Agree(accepted) /\ LastOf(accepted, head)
      BY DEF GateInv
    <3>3. Agree(accepted \cup {k}) /\ LastOf(accepted \cup {k}, k)
      BY <3>1, <3>2, AgreeWithNext
    <3>4. Agree(accepted') /\ LastOf(accepted', head')
      BY <3>1, <3>3
    <3>5. \A c \in Callers : slot[c] # None => SlotOK(slot[c], accepted \cup {k})
      BY SlotsLast DEF GateInv
    <3>6. \A c \in Callers : slot'[c] # None => SlotOK(slot'[c], accepted')
      BY <3>1, <3>5
    <3>7. QED
      BY <3>1, <3>2, <3>4, <3>6 DEF GateInv
  <2>2. ASSUME NEW c \in Callers, NEW s, slot' = [slot EXCEPT ![c] = s],
               UNCHANGED <<head, chain, accepted>>, SlotOK(s, accepted)
        PROVE  GateInv'
    <3>1. DOMAIN slot' = Callers
      BY <2>2 DEF GateInv
    <3>2. \A x \in Callers : slot'[x] # None => SlotOK(slot'[x], accepted)
      BY <2>2 DEF GateInv
    <3>3. \A x \in Callers : slot'[x] # None => SlotOK(slot'[x], accepted')
      BY <2>2, <3>2
    <3>4. Agree(accepted') /\ LastOf(accepted', head') /\ accepted' \in SUBSET Verified /\ chain' \in {head', NoChain}
      BY <2>2 DEF GateInv
    <3>5. QED
      BY <3>1, <3>3, <3>4 DEF GateInv
  <2>3. ASSUME NEW c \in Callers, NewGate(c) PROVE GateInv'
    <3>1. PICK r \in Requests, p \in Policies \cup {None}, e \in Evidences :
            \E g \in NewGates(chain, r, p, e) :
               slot' = [slot EXCEPT ![c] = [gate |-> g, acted |-> FALSE, bound |-> None]]
      BY <2>3 DEF NewGate
    <3>2. PICK g \in NewGates(chain, r, p, e) :
               slot' = [slot EXCEPT ![c] = [gate |-> g, acted |-> FALSE, bound |-> None]]
      BY <3>1
    <3>3. chain \in accepted /\ UNCHANGED <<head, chain, accepted>>
      BY <2>3 DEF NewGate, GateInv, LastOf
    <3>4. GateOK(g, accepted)
      <4>1. PICK b \in ToSet(Current(Chains[chain]).manifest.bindings) :
               /\ g = [chain |-> chain, binding |-> b, operation |-> r, evidence |-> e]
               /\ Contract(b) = Contract(r)
        BY DEF NewGates
      <4> QED
        BY <4>1, <3>3 DEF GateOK, ChainOf
    <3>5. SlotOK([gate |-> g, acted |-> FALSE, bound |-> None], accepted)
      BY <3>4 DEF SlotOK
    <3>6. QED
      BY <3>2, <3>3, <3>5, <2>2
  <2>4. ASSUME NEW c \in Callers, Act(c) PROVE GateInv'
    <3>1. PICK s : s = slot[c]
      OBVIOUS
    <3>2. /\ slot' = [slot EXCEPT ![c] = [s EXCEPT !.acted = TRUE]]
          /\ s # None /\ Decision(s.gate) # None /\ Decision(s.gate).allowed
          /\ UNCHANGED <<head, chain, accepted>>
      BY <2>4, <3>1 DEF Act
    <3>3. SlotOK(s, accepted)
      BY <3>1, <3>2 DEF GateInv
    <3>4. s.gate.binding.policy.requirements \subseteq s.gate.evidence.proven
      BY <3>2, AllowedMeets
    <3>5. SlotOK([s EXCEPT !.acted = TRUE], accepted)
      BY <3>3, <3>4 DEF SlotOK
    <3>6. QED
      BY <3>2, <3>5, <2>2
  <2>5. ASSUME NEW c \in Callers, BindResult(c) PROVE GateInv'
    <3>1. PICK s : s = slot[c]
      OBVIOUS
    <3>2. PICK x \in Callers : slot[x] # None /\ Bind(c, Decision(slot[x].gate))
      BY <2>5 DEF BindResult
    <3>3. PICK d : d = Decision(slot[x].gate)
      OBVIOUS
    <3>4. /\ slot' = [slot EXCEPT ![c] = [s EXCEPT !.bound = [gate |-> s.gate, decision |-> d]]]
          /\ Authorized(s.gate).policyHash = d.policyHash
      BY <3>1, <3>2, <3>3 DEF Bind
    <3>5. s # None /\ UNCHANGED <<head, chain, accepted>>
      BY <2>5, <3>1 DEF BindResult
    <3>6. SlotOK(s, accepted)
      BY <3>1, <3>5 DEF GateInv
    <3>7. d.policyHash = HashJSON(s.gate.binding.policy)
      BY <3>4 DEF Authorized, Authorization
    <3>8. SlotOK([s EXCEPT !.bound = [gate |-> s.gate, decision |-> d]], accepted)
      BY <3>6, <3>7 DEF SlotOK
    <3>9. QED
      BY <3>4, <3>5, <3>8, <2>2
  <2>6. CASE UNCHANGED gateVars
    BY <2>6 DEF gateVars, GateInv
  <2>7. QED
    BY <2>1, <2>3, <2>4, <2>5, <2>6 DEF GateNext
<1>3. QED
  BY <1>1, <1>2, PTL DEF GateSpec

\* A valid manifest has one binding for a contract.
LEMMA OneBinding ==
    ASSUME NEW k \in Verified, NEW a \in ToSet(Current(Chains[k]).manifest.bindings),
           NEW b \in ToSet(Current(Chains[k]).manifest.bindings), Contract(a) = Contract(b)
    PROVE  a = b
<1>1. PICK m : m = Current(Chains[k])
  OBVIOUS
<1>2. ValidManifest(m.manifest)
  BY <1>1, CurrentAsked, ManifestsVerified DEF SelfVerify, Current
<1>3. m \in ToSet(Chains[k].manifests)
  BY <1>1, CurrentAsked DEF ToSet, Current
<1>4. m.manifest.bindings \in Seq(ToSet(m.manifest.bindings))
  BY <1>3, ChainShape, PolicyGateAssumption DEF Sequence
<1>5. PICK i \in DOMAIN m.manifest.bindings, j \in DOMAIN m.manifest.bindings :
         a = m.manifest.bindings[i] /\ b = m.manifest.bindings[j]
  BY <1>1 DEF ToSet
<1>6. i \in Nat \ {0} /\ j \in Nat \ {0}
  BY <1>4, <1>5, LenProperties
<1>7. ~(j < i) /\ ~(i < j)
  <2>1. j < i => j \in 1..(i - 1)
    BY <1>6
  <2>2. i < j => i \in 1..(j - 1)
    BY <1>6
  <2> QED
    BY <2>1, <2>2, <1>2, <1>5 DEF ValidManifest
<1>8. QED
  BY <1>5, <1>6, <1>7

\* No effect needs less than an accepted manifest asked, unless the issuer signed that it
\* may (Rotation.Verify, acceptChainHead, PolicyAuthorityGate.Execute and Learn).
THEOREM NothingWeakens == GateSpec => []NoSilentWeakening
<1>1. GateInv => NoSilentWeakening
  <2> SUFFICES ASSUME GateInv, NEW c \in Callers, slot[c] # None, slot[c].acted,
                      NEW g, g = slot[c].gate,
                      NEW k \in UpTo(accepted, g.chain),
                      NEW n \in DOMAIN Chains[k].manifests, NEW b \in AskedAt(k, n),
                      Contract(b) = Contract(g.operation)
               PROVE  \/ b.policy.requirements \subseteq g.evidence.proven /\ b.class = g.binding.class
                      \/ \E j \in UpTo(accepted, g.chain) : SaidToWeaken(Chains[j], n, b.class)
    BY DEF NoSilentWeakening, UpTo, AskedAt
  <2>1. /\ GateOK(g, accepted) /\ g.chain \in accepted /\ g.chain \in Verified
        /\ g.binding.policy.requirements \subseteq g.evidence.proven
    BY DEF GateInv, SlotOK, GateOK
  <2>2. Carried(k, g.chain, UpTo(accepted, g.chain))
    BY <2>1 DEF GateInv, Agree, UpTo
  <2>3. ASSUME NEW x \in ToSet(Current(Chains[g.chain]).manifest.bindings), KeptBy(b, x)
        PROVE  b.policy.requirements \subseteq g.evidence.proven /\ b.class = g.binding.class
    <3>1. Contract(x) = Contract(g.binding)
      BY <2>1, <2>3 DEF KeptBy, GateOK
    <3>2. x = g.binding
      BY <2>1, <3>1, OneBinding DEF GateOK, ChainOf
    <3> QED
      BY <2>1, <2>3, <3>2 DEF KeptBy
  <2>4. QED
    BY <2>2, <2>3 DEF Carried
<1>2. QED
  BY <1>1, GateInvariant, PTL

\* A bound result is about the policy of the signed binding for its operation, and valid
\* for that operation, its inputs and its head alone (BindDecisionResult).
THEOREM ResultsOfOnePolicy == GateSpec => []ResultOfOnePolicy
<1>1. GateInv => ResultOfOnePolicy
  <2> SUFFICES ASSUME GateInv, NEW c \in Callers, slot[c] # None, slot[c].bound # None,
                      NEW g, g = slot[c].gate, NEW r, r = slot[c].bound
               PROVE  /\ \E b \in ToSet(Current(ChainOf(g)).manifest.bindings) :
                             Contract(b) = Contract(g.operation) /\ HashJSON(b.policy) = r.decision.policyHash
                      /\ \A x \in Callers : slot[x] # None /\ ValidBinding(slot[x].gate, r, r.decision) =>
                             /\ slot[x].gate.operation.inputs = g.operation.inputs
                             /\ Contract(slot[x].gate.operation) = Contract(g.operation)
                             /\ ChainHead(ChainOf(slot[x].gate)) = ChainHead(ChainOf(g))
    BY DEF ResultOfOnePolicy
  <2>1. GateOK(g, accepted) /\ r.gate = g /\ r.decision.policyHash = HashJSON(g.binding.policy)
    BY DEF GateInv, SlotOK
  <2>2. ASSUME NEW x \in Callers, slot[x] # None, ValidBinding(slot[x].gate, r, r.decision)
        PROVE  /\ slot[x].gate.operation.inputs = g.operation.inputs
               /\ Contract(slot[x].gate.operation) = Contract(g.operation)
               /\ ChainHead(ChainOf(slot[x].gate)) = ChainHead(ChainOf(g))
    <3>1. PICK h : h = slot[x].gate
      OBVIOUS
    <3>2. Authorized(g) = Authorized(h)
      BY <2>1, <2>2, <3>1 DEF ValidBinding
    <3>3. GateOK(h, accepted)
      BY <2>2, <3>1 DEF GateInv, SlotOK
    <3>4. Authorized(g).head = Authorized(h).head /\ Authorized(g).descriptor = Authorized(h).descriptor
      BY <3>2
    <3>5. ChainHead(ChainOf(h)) = ChainHead(ChainOf(g))
      BY <3>4 DEF Authorized, Authorization
    <3>6. Descriptor(g.binding, g.operation) = Descriptor(h.binding, h.operation)
      BY <3>4 DEF Authorized, Authorization
    <3>7. HashJSON(g.operation.inputs) = HashJSON(h.operation.inputs) /\ Contract(g.binding) = Contract(h.binding)
      BY <3>6 DEF Descriptor, Contract
    <3>8. g.operation.inputs = h.operation.inputs
      BY <3>7 DEF HashJSON
    <3> QED
      BY <2>1, <3>1, <3>3, <3>5, <3>7, <3>8 DEF GateOK
  <2>3. QED
    BY <2>1, <2>2 DEF GateOK
<1>2. QED
  BY <1>1, GateInvariant, PTL
=============================================================================
