------------------------ MODULE DurableJournalProofs ------------------------
(* Theorems about DurableJournal for any measurements, arms, faults and length *)
(* of the journal.                                                             *)
EXTENDS DurableJournal, FiniteSetTheorems, SequenceTheorems, TLAPS

\* Evidence in an order in which it can be learned: each brings new identities
\* and saw the statistics of what is before it.
InOrder(s) ==
    \A i \in DOMAIN s :
        /\ \A j \in 1..(i - 1) : ~SameIdentity(s[j].item, s[i].item)
        /\ s[i].before = StatsOf(SubSeq(s, 1, i - 1))

\* What the policy holds, once the append that is under way has succeeded.
Pending == applied \o writing

\* A process that is down or was refused holds nothing.
DownIsEmpty == up # "on" => applied = <<>> /\ writing = <<>>

Whole(f) == \A i \in DOMAIN f : f[i].form = "whole"

\* While no append failed, the file is what the process knows, line by line.
Intact ==
    ~damaged => /\ Replayable(file)
                /\ Whole(file)
                /\ up = "on" => Pending = EvidenceOf(file)

\* The append that is under way wrote the last line.
WrittenIsLast ==
    writing # <<>> => Len(file) \in DOMAIN file /\ file[Len(file)].ev = writing[1]

\* What was reported as learned is in the part that a power loss cannot take, but
\* for what went with the file's name.
AckedIsSafe ==
    \A m \in Measurements :
        <<m, "applied">> \in acked /\ m \notin lost =>
            \E i \in 1..synced : file[i].ev = m
-----------------------------------------------------------------------------
(* Sequences of evidence. *)

LEMMA StatsTyped ==
    ASSUME NEW s \in Seq(Measurements)
    PROVE  StatsOf(s) \in Stats
<1>1. ASSUME NEW a \in Arms
      PROVE  Cardinality({i \in DOMAIN s : s[i].item.arm = a}) \in Nat
  <2>1. /\ 1 .. Len(s) = DOMAIN s
        /\ IsFiniteSet(1 .. Len(s))
    BY FS_Interval, LenProperties
  <2>2. IsFiniteSet({i \in DOMAIN s : s[i].item.arm = a})
    BY <2>1, FS_Subset
  <2>3. QED
    BY <2>2, FS_CardinalityType
<1>2. QED
  BY <1>1 DEF StatsOf, Stats

LEMMA PrefixOf ==
    ASSUME NEW S, NEW s \in Seq(S), NEW n \in 0 .. Len(s)
    PROVE  /\ SubSeq(s, 1, n) \in Seq(S)
           /\ Len(SubSeq(s, 1, n)) = n
           /\ \A i \in 1 .. n : SubSeq(s, 1, n)[i] = s[i]
<1>1. \A i \in 1 .. n : s[i] \in S
  BY LenProperties
<1>2. QED
  BY <1>1, SubSeqProperties, LenProperties

\* A prefix of a prefix.
LEMMA PrefixOfPrefix ==
    ASSUME NEW S, NEW s \in Seq(S), NEW t \in Seq(S), NEW n \in Nat,
           n <= Len(s), n <= Len(t), \A i \in 1 .. n : s[i] = t[i]
    PROVE  SubSeq(s, 1, n) = SubSeq(t, 1, n)
<1>1. /\ SubSeq(s, 1, n) \in Seq(S) /\ SubSeq(t, 1, n) \in Seq(S)
      /\ Len(SubSeq(s, 1, n)) = n /\ Len(SubSeq(t, 1, n)) = n
      /\ \A i \in 1 .. n : SubSeq(s, 1, n)[i] = SubSeq(t, 1, n)[i]
  BY PrefixOf
<1>2. QED
  BY <1>1, SeqEqual

LEMMA PrefixInOrder ==
    ASSUME NEW s \in Seq(Measurements), NEW n \in 0 .. Len(s), InOrder(s)
    PROVE  InOrder(SubSeq(s, 1, n))
<1> DEFINE t == SubSeq(s, 1, n)
<1>1. /\ t \in Seq(Measurements) /\ Len(t) = n
      /\ \A i \in 1 .. n : t[i] = s[i]
  BY PrefixOf
<1>2. n \in Nat /\ n <= Len(s) /\ DOMAIN t = 1 .. n /\ DOMAIN s = 1 .. Len(s)
  BY <1>1, LenProperties
<1> HIDE DEF t
<1>3. ASSUME NEW i \in 1 .. n
      PROVE  /\ \A j \in 1..(i - 1) : ~SameIdentity(t[j].item, t[i].item)
             /\ t[i].before = StatsOf(SubSeq(t, 1, i - 1))
  <2>1. SubSeq(t, 1, i - 1) = SubSeq(s, 1, i - 1)
    BY <1>1, <1>2, PrefixOfPrefix
  <2>2. i \in DOMAIN s /\ t[i] = s[i] /\ \A j \in 1..(i - 1) : t[j] = s[j]
    BY <1>1, <1>2
  <2>3. QED
    BY <2>1, <2>2 DEF InOrder
<1>4. QED
  BY <1>2, <1>3 DEF InOrder, t

LEMMA AppendInOrder ==
    ASSUME NEW s \in Seq(Measurements), NEW m \in Measurements, InOrder(s),
           \A j \in DOMAIN s : ~SameIdentity(s[j].item, m.item),
           m.before = StatsOf(s)
    PROVE  InOrder(Append(s, m))
<1> DEFINE t == Append(s, m)
<1>1. /\ t \in Seq(Measurements) /\ Len(t) = Len(s) + 1
      /\ \A i \in 1 .. Len(s) : t[i] = s[i]
      /\ t[Len(s) + 1] = m
  BY AppendProperties
<1>2. Len(s) \in Nat /\ DOMAIN t = 1 .. Len(s) + 1 /\ DOMAIN s = 1 .. Len(s)
  BY <1>1, LenProperties
<1> HIDE DEF t
<1>3. ASSUME NEW i \in 1 .. Len(s) + 1
      PROVE  /\ \A j \in 1..(i - 1) : ~SameIdentity(t[j].item, t[i].item)
             /\ t[i].before = StatsOf(SubSeq(t, 1, i - 1))
  <2>1. SubSeq(t, 1, i - 1) = SubSeq(s, 1, i - 1)
    BY <1>1, <1>2, PrefixOfPrefix
  <2>2. CASE i = Len(s) + 1
    <3>1. SubSeq(s, 1, i - 1) = s
      BY <2>2, <1>2, SubSeqFull
    <3>2. \A j \in 1..(i - 1) : t[j] = s[j] /\ j \in DOMAIN s
      BY <2>2, <1>1, <1>2
    <3>3. QED
      BY <2>1, <2>2, <3>1, <3>2, <1>1
  <2>3. CASE i \in 1 .. Len(s)
    <3>1. \A j \in 1..(i - 1) : t[j] = s[j]
      BY <2>3, <1>1, <1>2
    <3>2. i \in DOMAIN s /\ t[i] = s[i]
      BY <2>3, <1>1, <1>2
    <3>3. QED
      BY <2>1, <3>1, <3>2 DEF InOrder
  <2>4. QED
    BY <2>2, <2>3, <1>2
<1>4. QED
  BY <1>2, <1>3 DEF InOrder, t

LEMMA NothingInOrder == InOrder(<<>>)
BY DEF InOrder

\* What replay reads from a file.
LEMMA EvidenceTyped ==
    ASSUME NEW f \in Seq(Lines)
    PROVE  /\ EvidenceOf(f) \in Seq(Measurements)
           /\ Len(EvidenceOf(f)) = Len(f)
           /\ \A i \in 1 .. Len(f) : EvidenceOf(f)[i] = f[i].ev
<1>1. \A i \in 1 .. Len(f) : f[i].ev \in Measurements
  <2>1. \A i \in 1 .. Len(f) : f[i] \in Lines
    BY ElementOfSeq
  <2>2. \A l \in Lines : l.ev \in Measurements
    BY DEF Lines
  <2>3. QED
    BY <2>1, <2>2
<1>2. EvidenceOf(f) = [i \in 1 .. Len(f) |-> f[i].ev]
  BY LenProperties DEF EvidenceOf
<1>3. EvidenceOf(f) \in [1 .. Len(f) -> Measurements]
  BY <1>1, <1>2
<1>4. Len(f) \in Nat
  BY LenProperties
<1>5. QED
  BY <1>2, <1>3, <1>4

\* A file that replays holds evidence in order.
LEMMA ReplayInOrder ==
    ASSUME NEW f \in Seq(Lines), Replayable(f)
    PROVE  InOrder(EvidenceOf(f))
<1>1. DOMAIN f = 1 .. Len(f) /\ DOMAIN EvidenceOf(f) = 1 .. Len(f) /\ Len(f) \in Nat
  BY EvidenceTyped, LenProperties
<1>2. ASSUME NEW i \in 1 .. Len(f)
      PROVE  /\ \A j \in 1..(i - 1) :
                   ~SameIdentity(EvidenceOf(f)[j].item, EvidenceOf(f)[i].item)
             /\ EvidenceOf(f)[i].before = StatsOf(SubSeq(EvidenceOf(f), 1, i - 1))
  <2>1. FreshIn(f, i) /\ f[i].ev.before = StatsOf(SubSeq(EvidenceOf(f), 1, i - 1))
    BY <1>1 DEF Replayable
  <2>2. /\ EvidenceOf(f)[i] = f[i].ev
        /\ \A j \in 1..(i - 1) : EvidenceOf(f)[j] = f[j].ev
    BY <1>1, EvidenceTyped
  <2>3. QED
    BY <2>1, <2>2 DEF FreshIn
<1>3. QED
  BY <1>1, <1>2 DEF InOrder
-----------------------------------------------------------------------------
(* Types. *)

Base == TypeOK /\ DownIsEmpty

LEMMA Steps ==
    ASSUME TypeOK, [Next]_vars
    PROVE  \/ \E e \in Items : Measure(e)
           \/ \E m \in Measurements : ApplyDuplicate(m)
           \/ \E m \in Measurements : ApplyWrite(m)
           \/ \E m \in Measurements : WriteFails(m)
           \/ Commit \/ SyncFails
           \/ Writeback \/ Kill \/ PowerLoss \/ Restart
           \/ UNCHANGED vars
<1>1. \A e \in Items : Evidence(e) \subseteq Measurements
  BY DEF TypeOK, Evidence, Measurements
<1>2. QED
  BY <1>1 DEF Next, Apply

\* An append, whole or in part, leaves one line more.
LEMMA LineWritten ==
    ASSUME TypeOK, NEW m \in Measurements, NEW form \in {"whole", "open", "torn"}
    PROVE  /\ Append(file, Line(m, form)) \in Seq(Lines)
           /\ Len(Append(file, Line(m, form))) = Len(file) + 1
           /\ \A i \in 1 .. Len(file) : Append(file, Line(m, form))[i] = file[i]
           /\ Append(file, Line(m, form))[Len(file) + 1].ev = m
<1>1. Line(m, form) \in Lines /\ Line(m, form).ev = m
  BY DEF Line, Lines, TypeOK
<1>2. file \in Seq(Lines)
  BY DEF TypeOK
<1>3. QED
  BY <1>1, <1>2, AppendProperties

\* What a power loss leaves: the first k lines, or a part of one more, or nothing
\* at all of a journal whose name was not on the disk.
PrefixLeft(k) == /\ file' = SubSeq(file, 1, k) /\ synced' = k
                 /\ UNCHANGED <<damaged, lost>>
PartLeft(k) == /\ file' \in Seq(Lines) /\ Len(file') = k + 1 /\ synced' = k + 1
               /\ \A i \in 1 .. k : file'[i] = file[i]
               /\ damaged' = TRUE /\ UNCHANGED lost
NothingLeft == /\ file' = <<>> /\ synced' = 0
               /\ damaged' = FALSE /\ lost' = Acknowledged

LEMMA LossLeavesPrefix ==
    ASSUME TypeOK, PowerLoss
    PROVE  /\ \/ \E k \in synced .. Len(file) : PrefixLeft(k) \/ PartLeft(k)
              \/ NothingLeft
           /\ named' \in BOOLEAN
<1>1. CASE NameLost
  BY <1>1 DEF NameLost, NothingLeft
<1>2. CASE LinesLost
  <2>1. PICK k \in synced .. Len(file) :
          \/ /\ file' = SubSeq(file, 1, k)
             /\ synced' = k
             /\ UNCHANGED damaged
          \/ /\ "tear" \in Hazards /\ k < Len(file)
             /\ \E form \in {"torn"} \cup
                      (IF file[k + 1].form = "whole" THEN {"open"} ELSE {}) :
                   file' = [SubSeq(file, 1, k + 1) EXCEPT ![k + 1].form = form]
             /\ synced' = k + 1
             /\ damaged' = TRUE
    BY <1>2 DEF LinesLost
  <2>2. lost' = lost /\ named' \in BOOLEAN
    BY <1>2 DEF LinesLost, TypeOK
  <2>3. /\ file \in Seq(Lines) /\ Len(file) \in Nat /\ k \in Nat
    BY LenProperties DEF TypeOK
  <2>4. ASSUME k < Len(file), NEW form \in {"torn", "open"},
               file' = [SubSeq(file, 1, k + 1) EXCEPT ![k + 1].form = form]
        PROVE  /\ file' \in Seq(Lines) /\ Len(file') = k + 1
               /\ \A i \in 1 .. k : file'[i] = file[i]
    <3> DEFINE s == SubSeq(file, 1, k + 1)
    <3>1. k + 1 \in 0 .. Len(file)
      BY <2>3, <2>4
    <3>2. s \in Seq(Lines) /\ Len(s) = k + 1 /\ \A i \in 1 .. k + 1 : s[i] = file[i]
      BY <2>3, <3>1, PrefixOf
    <3>3. s[k + 1] \in Lines
      BY <2>3, <3>2, ElementOfSeq
    <3>4. file' = [s EXCEPT ![k + 1] = [s[k + 1] EXCEPT !.form = form]]
      BY <2>4
    <3> HIDE DEF s
    <3>5. [s[k + 1] EXCEPT !.form = form] \in Lines
      BY <3>3 DEF Lines
    <3>6. /\ file' \in Seq(Lines) /\ Len(file') = k + 1
          /\ \A i \in 1 .. k : file'[i] = s[i]
      BY <2>3, <3>2, <3>4, <3>5, ExceptSeq
    <3>7. QED
      BY <2>3, <3>2, <3>6
  <2>5. QED
    BY <2>1, <2>2, <2>4 DEF PrefixLeft, PartLeft
<1>3. QED
  BY <1>1, <1>2 DEF PowerLoss

LEMMA TypeStep ==
    ASSUME Base, [Next]_vars
    PROVE  Base'
<1> USE DEF Base
<1>1. /\ file \in Seq(Lines) /\ applied \in Seq(Measurements)
      /\ writing \in Seq(Measurements) /\ Len(file) \in Nat
      /\ Len(writing) \in Nat
      /\ synced \in 0 .. Len(file)
  BY LenProperties DEF TypeOK
<1>2. ASSUME NEW e \in Items, Measure(e)
      PROVE  Base'
  <2>1. StatsOf(applied) \in Stats
    BY <1>1, StatsTyped
  <2>2. measured' \in [Items -> SUBSET Stats]
    BY <1>2, <2>1 DEF Measure, TypeOK
  <2>3. Cardinality({StatsOf(applied)}) = 1
    BY FS_Singleton
  <2>4. \A d \in Items : Cardinality(measured'[d]) <= 1
    <3>1. \A d \in Items :
             measured'[d] = IF d = e THEN {StatsOf(applied)} ELSE measured[d]
      BY <1>2 DEF Measure, TypeOK
    <3>2. Cardinality(measured'[e]) <= 1
      BY <2>3, <3>1
    <3>3. ASSUME NEW d \in Items, d # e
          PROVE  Cardinality(measured'[d]) <= 1
      BY <3>1, <3>3 DEF TypeOK
    <3>4. QED
      BY <3>2, <3>3
  <2>5. QED
    BY <1>2, <2>2, <2>4 DEF Measure, TypeOK, DownIsEmpty, memVars, diskVars, history
<1>3. ASSUME NEW m \in Measurements, ApplyDuplicate(m)
      PROVE  Base'
  BY <1>3 DEF ApplyDuplicate, TypeOK, DownIsEmpty, memVars, diskVars
<1>4. ASSUME NEW m \in Measurements, ApplyWrite(m)
      PROVE  Base'
  <2>1. /\ writing' = Append(<<>>, m) /\ writing = <<>>
        /\ file' = Append(file, Line(m, "whole"))
        /\ UNCHANGED <<measured, up, applied, synced, named, acked, lost, damaged>>
        /\ up = "on"
    BY <1>4 DEF ApplyWrite, Unlocked, history
  <2>2. writing' \in Seq(Measurements) /\ Len(writing') = 1
    BY <2>1
  <2>3. file' \in Seq(Lines) /\ Len(file') = Len(file) + 1
    BY <2>1, LineWritten
  <2>4. synced' \in 0 .. Len(file')
    BY <1>1, <2>1, <2>3
  <2>5. QED
    BY <2>1, <2>2, <2>3, <2>4 DEF TypeOK, DownIsEmpty
<1>5. ASSUME NEW m \in Measurements, WriteFails(m)
      PROVE  Base'
  <2>1. /\ \E form \in {"torn", "open"} : file' = Append(file, Line(m, form))
        /\ damaged' = TRUE
        /\ UNCHANGED <<measured, up, applied, writing, synced, named, acked, lost>>
    BY <1>5 DEF WriteFails, memVars
  <2>2. file' \in Seq(Lines) /\ Len(file') = Len(file) + 1
    BY <2>1, LineWritten
  <2>3. synced' \in 0 .. Len(file')
    BY <1>1, <2>1, <2>2
  <2>4. QED
    BY <2>1, <2>2, <2>3 DEF TypeOK, DownIsEmpty
<1>6. CASE Commit
  <2>1. writing[1] \in Measurements
    BY <1>1, <1>6, EmptySeq, ElementOfSeq DEF Commit
  <2>2. applied' \in Seq(Measurements)
    BY <1>1, <1>6, ConcatProperties DEF Commit
  <2>3. acked' \subseteq Measurements \X {"applied", "duplicate"}
    BY <1>6, <2>1 DEF Commit, TypeOK
  <2>4. writing' \in Seq(Measurements) /\ Len(writing') = 0
    BY <1>6 DEF Commit
  <2>5. synced' \in 0 .. Len(file')
    BY <1>1, <1>6 DEF Commit, AllSynced
  <2>6. lost' \subseteq Measurements
    BY <1>6 DEF Commit, TypeOK
  <2>7. QED
    BY <1>6, <2>2, <2>3, <2>4, <2>5, <2>6 DEF Commit, TypeOK, DownIsEmpty
<1>7. CASE SyncFails
  <2>1. writing' \in Seq(Measurements) /\ Len(writing') = 0
    BY <1>7 DEF SyncFails
  <2>2. QED
    BY <1>7, <2>1 DEF SyncFails, TypeOK, DownIsEmpty, diskVars
<1>8. CASE Writeback
  <2>1. synced' \in 0 .. Len(file') /\ named' \in BOOLEAN
    <3>1. file' = file /\ synced' \in {synced, Len(file)}
      BY <1>8 DEF Writeback
    <3>2. named' \in BOOLEAN
      BY <1>8, Zenon DEF Writeback, TypeOK
    <3>3. QED
      BY <1>1, <3>1, <3>2
  <2>2. UNCHANGED <<measured, memVars, file, history>>
    BY <1>8 DEF Writeback
  <2>3. QED
    BY <2>1, <2>2 DEF TypeOK, DownIsEmpty, memVars, history
<1>9. ASSUME Down PROVE DownIsEmpty' /\ up' = "off"
                        /\ applied' \in Seq(Measurements)
                        /\ writing' \in Seq(Measurements) /\ Len(writing') = 0
  BY <1>9 DEF Down, DownIsEmpty
<1>10. CASE Kill
  BY <1>9, <1>10 DEF Kill, TypeOK, diskVars, history
<1>11. CASE PowerLoss
  <2>1. /\ \/ \E k \in synced .. Len(file) : PrefixLeft(k) \/ PartLeft(k)
           \/ NothingLeft
        /\ named' \in BOOLEAN
    BY <1>11, LossLeavesPrefix
  <2>2. ASSUME NEW k \in synced .. Len(file), PrefixLeft(k)
        PROVE  file' \in Seq(Lines) /\ synced' = Len(file')
    <3>1. k \in 0 .. Len(file)
      BY <1>1
    <3>2. QED
      <4>1. SubSeq(file, 1, k) \in Seq(Lines) /\ Len(SubSeq(file, 1, k)) = k
        BY <1>1, <3>1, PrefixOf
      <4>2. QED
        BY <2>2, <4>1 DEF PrefixLeft
  <2>3. file' \in Seq(Lines) /\ synced' = Len(file')
    <3>1. ASSUME NEW k \in synced .. Len(file), PartLeft(k)
          PROVE  file' \in Seq(Lines) /\ synced' = Len(file')
      BY <3>1 DEF PartLeft
    <3>2. CASE NothingLeft
      BY <3>2 DEF NothingLeft
    <3>3. QED
      BY <2>1, <2>2, <3>1, <3>2
  <2>4. synced' \in 0 .. Len(file')
    BY <2>3, LenProperties
  <2>5. damaged' \in BOOLEAN /\ lost' \subseteq Measurements
    <3>1. Acknowledged \subseteq Measurements
      BY DEF Acknowledged, TypeOK
    <3>2. QED
      BY <2>1, <3>1 DEF PrefixLeft, PartLeft, NothingLeft, TypeOK
  <2>6. Down /\ UNCHANGED <<measured, acked>>
    BY <1>11 DEF PowerLoss
  <2>7. QED
    BY <1>9, <2>1, <2>3, <2>4, <2>5, <2>6 DEF TypeOK
<1>12. CASE Restart
  <2>1. EvidenceOf(file) \in Seq(Measurements)
    BY <1>1, EvidenceTyped
  <2>2. QED
    BY <1>12, <2>1 DEF Restart, Replayed, TypeOK, DownIsEmpty, diskVars, history
<1>13. CASE UNCHANGED vars
  BY <1>13 DEF vars, memVars, diskVars, history, TypeOK, DownIsEmpty
<1>14. QED
  BY <1>2, <1>3, <1>4, <1>5, <1>6, <1>7, <1>8, <1>10, <1>11, <1>12, <1>13, Steps

LEMMA BaseInvariant == Spec => []Base
<1>1. Init => Base
  <2> SUFFICES ASSUME Init PROVE Base
    OBVIOUS
  <2>1. /\ applied \in Seq(Measurements) /\ writing \in Seq(Measurements)
        /\ file \in Seq(Lines) /\ Len(writing) = 0 /\ Len(file) = 0
    BY DEF Init
  <2>2. /\ measured \in [Items -> SUBSET Stats]
        /\ \A e \in Items : measured[e] = {}
    BY DEF Init
  <2>3. Cardinality({}) = 0
    BY FS_EmptySet
  <2>4. \A e \in Items : Cardinality(measured[e]) <= 1
    BY <2>2, <2>3
  <2>5. /\ up = "on" /\ synced \in 0 .. Len(file) /\ damaged = FALSE
        /\ acked = {} /\ named = FALSE /\ lost = {}
    BY <2>1 DEF Init
  <2>6. TypeOK
    <3>1. acked \subseteq Measurements \X {"applied", "duplicate"}
      BY <2>5
    <3>2. Len(writing) <= 1 /\ up \in {"on", "off", "refused"}
      BY <2>1, <2>5
    <3>3. damaged \in BOOLEAN /\ named \in BOOLEAN /\ lost \subseteq Measurements
      BY <2>5
    <3>4. QED
      BY <2>1, <2>2, <2>4, <2>5, <3>1, <3>2, <3>3 DEF TypeOK
  <2>7. QED
    BY <2>5, <2>6 DEF Base, DownIsEmpty
<1>2. Base /\ [Next]_vars => Base'
  BY TypeStep
<1>3. QED
  BY <1>1, <1>2, PTL DEF Spec

\* Every variable has its type, and at most one append is under way (Apply and
\* its mutex).
THEOREM JournalTypeCorrect == Spec => []TypeOK
<1>1. Base => TypeOK
  BY DEF Base
<1>2. QED
  BY <1>1, BaseInvariant, PTL
-----------------------------------------------------------------------------
(* What is learned. *)

\* Pending and the policy are sequences of evidence, one a prefix of the other.
LEMMA PendingTyped ==
    ASSUME TypeOK
    PROVE  /\ Pending \in Seq(Measurements)
           /\ Len(applied) \in 0 .. Len(Pending)
           /\ applied = SubSeq(Pending, 1, Len(applied))
           /\ writing = <<>> => Pending = applied
<1>1. applied \in Seq(Measurements) /\ writing \in Seq(Measurements)
  BY DEF TypeOK
<1>2. /\ Pending \in Seq(Measurements)
      /\ Len(Pending) = Len(applied) + Len(writing)
      /\ \A i \in 1 .. Len(applied) : Pending[i] = applied[i]
  <2>1. /\ Pending \in Seq(Measurements)
        /\ Len(Pending) = Len(applied) + Len(writing)
        /\ \A i \in 1 .. Len(applied) + Len(writing) : Pending[i] =
               IF i <= Len(applied) THEN applied[i] ELSE writing[i - Len(applied)]
    BY <1>1, ConcatProperties DEF Pending
  <2>2. Len(applied) \in Nat /\ Len(writing) \in Nat
    BY <1>1, LenProperties
  <2>3. QED
    BY <2>1, <2>2
<1>3. Len(applied) \in 0 .. Len(Pending) /\ Len(applied) \in Nat
  BY <1>1, <1>2, LenProperties
<1>4. SubSeq(Pending, 1, Len(applied)) = SubSeq(applied, 1, Len(applied))
  BY <1>1, <1>2, <1>3, PrefixOfPrefix
<1>5. SubSeq(applied, 1, Len(applied)) = applied
  BY <1>1, SubSeqFull
<1>6. writing = <<>> => Pending = applied
  BY <1>1, ConcatEmptySeq DEF Pending
<1>7. QED
  BY <1>2, <1>3, <1>4, <1>5, <1>6

\* The write of an accepted measurement puts it behind what the policy holds.
LEMMA WriteAppends ==
    ASSUME TypeOK, NEW m \in Measurements, ApplyWrite(m)
    PROVE  /\ writing = <<>> /\ Pending = applied
           /\ Pending' = Append(applied, m)
<1>1. writing = <<>> /\ writing' = Append(<<>>, m) /\ applied' = applied
  BY DEF ApplyWrite, Unlocked
<1>2. Append(<<>>, m) = <<m>>
  OBVIOUS
<1>3. Append(applied, m) = applied \o <<m>>
  BY AppendIsConcat DEF TypeOK
<1>4. QED
  BY <1>1, <1>2, <1>3, PendingTyped DEF Pending

\* Commit moves what was written into the policy.
LEMMA CommitKeeps ==
    ASSUME TypeOK, Commit
    PROVE  Pending' = Pending /\ applied' = Pending
<1>1. applied' = Pending /\ writing' = <<>>
  BY DEF Commit, Pending
<1>2. Pending \in Seq(Measurements)
  BY PendingTyped
<1>3. QED
  BY <1>1, <1>2, ConcatEmptySeq DEF Pending

LEMMA InOrderInvariant == Spec => []InOrder(Pending)
<1>1. Init => InOrder(Pending)
  <2>1. Init => Pending = <<>>
    BY DEF Init, Pending
  <2>2. QED
    BY <2>1, NothingInOrder
<1>2. Base /\ Base' /\ InOrder(Pending) /\ [Next]_vars => InOrder(Pending)'
  <2> SUFFICES ASSUME Base, Base', InOrder(Pending), [Next]_vars
               PROVE  InOrder(Pending')
    BY DEF InOrder, StatsOf, SameIdentity
  <2>1. /\ TypeOK /\ TypeOK' /\ Pending \in Seq(Measurements)
        /\ applied \in Seq(Measurements)
    BY PendingTyped DEF Base, TypeOK
  <2>2. InOrder(applied)
    BY <2>1, PendingTyped, PrefixInOrder
  <2>3. ASSUME applied' = applied, writing' = writing
        PROVE  InOrder(Pending')
    BY <2>3 DEF Pending
  <2>4. ASSUME applied' = <<>>, writing' = <<>>
        PROVE  InOrder(Pending')
    BY <2>4, NothingInOrder DEF Pending
  <2>5. ASSUME NEW e \in Items, Measure(e)
        PROVE  InOrder(Pending')
    BY <2>3, <2>5 DEF Measure, memVars
  <2>6. ASSUME NEW m \in Measurements, ApplyDuplicate(m) \/ WriteFails(m)
        PROVE  InOrder(Pending')
    BY <2>3, <2>6 DEF ApplyDuplicate, WriteFails, memVars
  <2>7. ASSUME NEW m \in Measurements, ApplyWrite(m)
        PROVE  InOrder(Pending')
    <3>1. /\ \A j \in DOMAIN applied : ~SameIdentity(applied[j].item, m.item)
          /\ m.before = StatsOf(applied)
      BY <2>7 DEF ApplyWrite, Accepts, Conflicts
    <3>2. InOrder(Append(applied, m))
      BY <2>1, <2>2, <3>1, AppendInOrder
    <3>3. QED
      BY <2>1, <2>7, <3>2, WriteAppends
  <2>8. CASE Commit
    BY <2>1, <2>8, CommitKeeps
  <2>9. CASE SyncFails
    <3>1. writing' = <<>> /\ applied' = applied
      BY <2>9 DEF SyncFails
    <3>2. Pending' = applied
      BY <2>1, <3>1, ConcatEmptySeq DEF Pending
    <3>3. QED
      BY <2>2, <3>2
  <2>10. CASE Writeback
    BY <2>3, <2>10 DEF Writeback, memVars
  <2>11. CASE Kill \/ PowerLoss
    BY <2>4, <2>11 DEF Kill, PowerLoss, Down
  <2>12. CASE Restart
    <3>1. writing' = <<>>
      BY <2>12 DEF Restart, Base, DownIsEmpty
    <3>2. CASE ~Replayable(file)
      BY <2>3, <2>12, <3>2 DEF Restart
    <3>3. CASE Replayable(file)
      <4>1. EvidenceOf(file) \in Seq(Measurements) /\ InOrder(EvidenceOf(file))
        BY <2>1, <3>3, EvidenceTyped, ReplayInOrder DEF TypeOK
      <4>2. Pending' = EvidenceOf(file)
        BY <2>12, <3>1, <3>3, <4>1, ConcatEmptySeq DEF Restart, Replayed, Pending
      <4>3. QED
        BY <4>1, <4>2
    <3>4. QED
      BY <3>2, <3>3
  <2>13. CASE UNCHANGED vars
    BY <2>3, <2>13 DEF vars, memVars
  <2>14. QED
    BY <2>1, <2>5, <2>6, <2>7, <2>8, <2>9, <2>10, <2>11, <2>12, <2>13, Steps
<1>3. QED
  BY <1>1, <1>2, BaseInvariant, PTL DEF Spec

\* No receipt, experience or action is learned twice, and no reward on top of
\* statistics other than those its author saw, whatever fails (Apply, replay).
THEOREM NothingLearnedTwice == Spec => []LearnedOnce
<1>1. TypeOK /\ InOrder(Pending) => LearnedOnce
  <2> SUFFICES ASSUME TypeOK, InOrder(Pending) PROVE LearnedOnce
    OBVIOUS
  <2>1. InOrder(applied)
    BY PendingTyped, PrefixInOrder
  <2>2. QED
    BY <2>1 DEF InOrder, LearnedOnce
<1>2. QED
  BY <1>1, JournalTypeCorrect, InOrderInvariant, PTL
-----------------------------------------------------------------------------
(* What is in the file. *)

ReplaysAt(f, i) ==
    /\ f[i].prev = SubSeq(EvidenceOf(f), 1, i - 1)
    /\ FreshIn(f, i)
    /\ f[i].ev.before = StatsOf(SubSeq(EvidenceOf(f), 1, i - 1))

\* Whether a line replays depends on it and the lines before it.
LEMMA SameLinesReplay ==
    ASSUME NEW f \in Seq(Lines), NEW g \in Seq(Lines), NEW n \in Nat,
           n <= Len(f), n <= Len(g), \A i \in 1 .. n : f[i] = g[i],
           NEW i \in 1 .. n, ReplaysAt(f, i)
    PROVE  ReplaysAt(g, i)
<1>1. /\ EvidenceOf(f) \in Seq(Measurements) /\ Len(EvidenceOf(f)) = Len(f)
      /\ EvidenceOf(g) \in Seq(Measurements) /\ Len(EvidenceOf(g)) = Len(g)
      /\ Len(f) \in Nat /\ Len(g) \in Nat
  BY EvidenceTyped, LenProperties
<1>2. \A j \in 1 .. n : EvidenceOf(f)[j] = EvidenceOf(g)[j]
  BY <1>1, EvidenceTyped
<1>3. SubSeq(EvidenceOf(f), 1, i - 1) = SubSeq(EvidenceOf(g), 1, i - 1)
  BY <1>1, <1>2, PrefixOfPrefix
<1>4. f[i] = g[i] /\ \A j \in 1 .. (i - 1) : f[j] = g[j]
  OBVIOUS
<1>5. QED
  BY <1>3, <1>4 DEF ReplaysAt, FreshIn

LEMMA ReplayableLines ==
    ASSUME NEW f \in Seq(Lines), Whole(f)
    PROVE  Replayable(f) <=> \A i \in 1 .. Len(f) : ReplaysAt(f, i)
BY LenProperties DEF Replayable, ReplaysAt, Whole

LEMMA PrefixReplays ==
    ASSUME NEW f \in Seq(Lines), NEW k \in 0 .. Len(f), Replayable(f), Whole(f)
    PROVE  Replayable(SubSeq(f, 1, k)) /\ Whole(SubSeq(f, 1, k))
<1>1. /\ SubSeq(f, 1, k) \in Seq(Lines) /\ Len(SubSeq(f, 1, k)) = k
      /\ \A i \in 1 .. k : SubSeq(f, 1, k)[i] = f[i]
  BY PrefixOf
<1>2. k \in Nat /\ k <= Len(f) /\ k <= k
  BY LenProperties
<1>3. \A i \in 1 .. k : ReplaysAt(f, i)
  BY <1>2, ReplayableLines
<1>4. \A i \in 1 .. k : ReplaysAt(SubSeq(f, 1, k), i)
  BY <1>1, <1>2, <1>3, SameLinesReplay
<1>5. Whole(SubSeq(f, 1, k))
  BY <1>1, <1>2, LenProperties DEF Whole
<1>6. QED
  BY <1>1, <1>4, <1>5, ReplayableLines

LEMMA AppendReplays ==
    ASSUME NEW f \in Seq(Lines), NEW l \in Lines, Replayable(f),
           Whole(f), l.form = "whole", l.prev = EvidenceOf(f),
           l.ev.before = StatsOf(EvidenceOf(f)),
           \A j \in 1 .. Len(f) : ~SameIdentity(f[j].ev.item, l.ev.item)
    PROVE  /\ Replayable(Append(f, l)) /\ Whole(Append(f, l))
           /\ EvidenceOf(Append(f, l)) = Append(EvidenceOf(f), l.ev)
<1> DEFINE g == Append(f, l)
<1>1. /\ g \in Seq(Lines) /\ Len(g) = Len(f) + 1
      /\ \A i \in 1 .. Len(f) : g[i] = f[i]
      /\ g[Len(f) + 1] = l
  BY AppendProperties
<1>2. Len(f) \in Nat /\ l.ev \in Measurements
  BY LenProperties DEF Lines
<1> HIDE DEF g
<1>3. /\ EvidenceOf(f) \in Seq(Measurements) /\ Len(EvidenceOf(f)) = Len(f)
      /\ \A i \in 1 .. Len(f) : EvidenceOf(f)[i] = f[i].ev
  BY EvidenceTyped
<1>4. /\ EvidenceOf(g) \in Seq(Measurements) /\ Len(EvidenceOf(g)) = Len(f) + 1
      /\ \A i \in 1 .. Len(f) + 1 : EvidenceOf(g)[i] = g[i].ev
  BY <1>1, EvidenceTyped
<1>5. EvidenceOf(g) = Append(EvidenceOf(f), l.ev)
  <2>1. /\ Append(EvidenceOf(f), l.ev) \in Seq(Measurements)
        /\ Len(Append(EvidenceOf(f), l.ev)) = Len(f) + 1
        /\ \A i \in 1 .. Len(f) : Append(EvidenceOf(f), l.ev)[i] = f[i].ev
        /\ Append(EvidenceOf(f), l.ev)[Len(f) + 1] = l.ev
    BY <1>2, <1>3, AppendProperties
  <2>2. \A i \in 1 .. Len(f) + 1 : EvidenceOf(g)[i] = Append(EvidenceOf(f), l.ev)[i]
    BY <1>1, <1>2, <1>4, <2>1
  <2>3. QED
    BY <1>4, <2>1, <2>2, SeqEqual
<1>6. ASSUME NEW i \in 1 .. Len(f)
      PROVE  ReplaysAt(g, i)
  <2>1. Len(f) <= Len(f) /\ Len(f) <= Len(g)
    BY <1>1, <1>2
  <2>2. ReplaysAt(f, i)
    BY ReplayableLines
  <2>3. QED
    BY <1>1, <1>2, <2>1, <2>2, SameLinesReplay
<1>7. ReplaysAt(g, Len(f) + 1)
  <2>1. SubSeq(EvidenceOf(g), 1, Len(f)) = EvidenceOf(f)
    <3>1. \A i \in 1 .. Len(f) : EvidenceOf(g)[i] = EvidenceOf(f)[i]
      BY <1>1, <1>2, <1>3, <1>4
    <3>2. SubSeq(EvidenceOf(g), 1, Len(f)) = SubSeq(EvidenceOf(f), 1, Len(f))
      BY <1>2, <1>3, <1>4, <3>1, PrefixOfPrefix
    <3>3. QED
      BY <1>3, <3>2, SubSeqFull
  <2>2. (Len(f) + 1) - 1 = Len(f)
    BY <1>2
  <2>3. FreshIn(g, Len(f) + 1)
    BY <1>1, <2>2 DEF FreshIn
  <2>4. QED
    BY <1>1, <2>1, <2>2, <2>3 DEF ReplaysAt
<1>8. \A i \in 1 .. Len(g) : ReplaysAt(g, i)
  BY <1>1, <1>2, <1>6, <1>7
<1>9. Whole(g)
  BY <1>1, <1>2, LenProperties DEF Whole
<1>10. QED
  BY <1>1, <1>5, <1>8, <1>9, ReplayableLines DEF g

\* A write while the file is intact.
LEMMA IntactWrite ==
    ASSUME Base, Intact, ~damaged, NEW m \in Measurements, ApplyWrite(m)
    PROVE  /\ file' = Append(file, Line(m, "whole"))
           /\ Replayable(file') /\ Pending' = EvidenceOf(file')
           /\ Whole(file')
<1> DEFINE l == Line(m, "whole")
<1>1. /\ TypeOK /\ file \in Seq(Lines) /\ Len(file) \in Nat
      /\ DOMAIN file = 1 .. Len(file)
  BY LenProperties DEF Base, TypeOK
<1>2. /\ l \in Lines /\ l.form = "whole" /\ l.ev = m /\ l.prev = applied
  BY <1>1 DEF Line, Lines, TypeOK
<1>3. Replayable(file) /\ applied = EvidenceOf(file) /\ Whole(file)
  BY <1>1, WriteAppends DEF Intact, ApplyWrite
<1>4. file' = Append(file, l)
  BY DEF ApplyWrite
<1>5. \A j \in 1 .. Len(file) : ~SameIdentity(file[j].ev.item, m.item)
  <2>1. \A j \in DOMAIN applied : ~SameIdentity(applied[j].item, m.item)
    BY DEF ApplyWrite, Accepts, Conflicts
  <2>2. DOMAIN applied = 1 .. Len(file) /\ \A j \in 1 .. Len(file) : applied[j] = file[j].ev
    BY <1>1, <1>3, EvidenceTyped, LenProperties
  <2>3. QED
    BY <2>1, <2>2
<1>6. m.before = StatsOf(EvidenceOf(file))
  BY <1>3 DEF ApplyWrite, Accepts
<1> HIDE DEF l
<1>7. /\ Replayable(Append(file, l)) /\ Whole(Append(file, l))
      /\ EvidenceOf(Append(file, l)) = Append(EvidenceOf(file), m)
  BY <1>1, <1>2, <1>3, <1>5, <1>6, AppendReplays
<1>8. Pending' = Append(applied, m)
  BY <1>1, WriteAppends
<1>9. QED
  BY <1>3, <1>4, <1>7, <1>8 DEF l

LEMMA IntactInvariant == Spec => []Intact
<1>1. Init => Intact
  <2>1. Init => file = <<>> /\ Pending = <<>> /\ EvidenceOf(file) = <<>>
    BY DEF Init, Pending, EvidenceOf
  <2>2. Init => Replayable(file)
    BY <2>1 DEF Replayable
  <2>3. Init => Whole(file)
    BY <2>1 DEF Whole
  <2>4. QED
    BY <2>1, <2>2, <2>3 DEF Intact
<1>2. Base /\ Intact /\ [Next]_vars => Intact'
  <2> SUFFICES ASSUME Base, Intact, [Next]_vars
               PROVE  Intact'
    OBVIOUS
  <2>1. TypeOK /\ file \in Seq(Lines) /\ Len(file) \in Nat
    BY LenProperties DEF Base, TypeOK
  <2> DEFINE After == ~damaged' =>
                        /\ Replayable(file') /\ Whole(file')
                        /\ up' = "on" => Pending' = EvidenceOf(file')
  <2>a. After => Intact'
    BY DEF Intact, Whole, Replayable, EvidenceOf, FreshIn, SameIdentity, StatsOf
  <2> HIDE DEF After
  <2>2. ASSUME file' = file, damaged' = damaged, up' # "on"
        PROVE  Intact'
    BY <2>a, <2>2 DEF Intact, After
  <2>3. ASSUME file' = file, damaged' = damaged, Pending' = Pending, up' = up
        PROVE  Intact'
    BY <2>a, <2>3 DEF Intact, After
  <2>4. ASSUME NEW e \in Items, Measure(e)
        PROVE  Intact'
    BY <2>3, <2>4 DEF Measure, memVars, diskVars, history, Pending
  <2>5. ASSUME NEW m \in Measurements, ApplyDuplicate(m)
        PROVE  Intact'
    BY <2>3, <2>5 DEF ApplyDuplicate, memVars, diskVars, Pending
  <2>6. ASSUME NEW m \in Measurements, ApplyWrite(m)
        PROVE  Intact'
    <3>1. CASE damaged
      BY <2>6, <3>1 DEF ApplyWrite, Intact, history
    <3>2. CASE ~damaged
      <4>1. /\ Replayable(file') /\ Pending' = EvidenceOf(file')
            /\ Whole(file')
        BY <2>6, <3>2, IntactWrite
      <4>2. QED
        BY <2>a, <4>1 DEF After
    <3>3. QED
      BY <3>1, <3>2
  <2>7. ASSUME NEW m \in Measurements, WriteFails(m)
        PROVE  Intact'
    BY <2>7 DEF WriteFails, Intact
  <2>8. CASE Commit
    BY <2>1, <2>3, <2>8, CommitKeeps DEF Commit
  <2>9. CASE SyncFails
    BY <2>9 DEF SyncFails, Intact
  <2>10. CASE Writeback
    BY <2>3, <2>10 DEF Writeback, memVars, history, Pending
  <2>11. CASE Kill
    BY <2>2, <2>11 DEF Kill, Down, diskVars, history
  <2>12. CASE PowerLoss
    <3>1. up' # "on"
      BY <2>12 DEF PowerLoss, Down
    <3>2. CASE damaged'
      BY <3>2 DEF Intact
    <3>3. CASE NothingLeft
      <4>1. file' = <<>> /\ Replayable(<<>>) /\ Whole(<<>>)
        BY <3>3 DEF NothingLeft, Replayable, Whole
      <4>2. QED
        BY <2>a, <3>1, <4>1 DEF After
    <3>4. ASSUME NEW k \in synced .. Len(file), PrefixLeft(k), ~damaged'
          PROVE  Intact'
      <4>1. file' = SubSeq(file, 1, k) /\ ~damaged
        BY <3>4 DEF PrefixLeft
      <4>2. k \in 0 .. Len(file)
        BY <2>1 DEF TypeOK
      <4>3. Replayable(SubSeq(file, 1, k)) /\ Whole(SubSeq(file, 1, k))
        BY <2>1, <4>1, <4>2, PrefixReplays DEF Intact
      <4>4. QED
        BY <2>a, <3>1, <4>1, <4>3 DEF After
    <3>5. \/ \E k \in synced .. Len(file) : PrefixLeft(k) \/ damaged' = TRUE
          \/ NothingLeft
      BY <2>1, <2>12, LossLeavesPrefix DEF PartLeft
    <3>6. QED
      BY <3>2, <3>3, <3>4, <3>5
  <2>13. CASE Restart
    <3>1. CASE damaged
      BY <2>13, <3>1 DEF Restart, Intact, history
    <3>2. CASE ~damaged
      <4>1. Replayable(file) /\ Whole(file)
        BY <3>2 DEF Intact
      <4>2. /\ applied' = EvidenceOf(file) /\ writing' = <<>>
            /\ file' = file
        BY <2>13, <4>1 DEF Restart, Replayed, Base, DownIsEmpty, diskVars
      <4>3. Pending' = EvidenceOf(file)
        BY <2>1, <4>2, EvidenceTyped, ConcatEmptySeq DEF Pending
      <4>4. QED
        BY <2>a, <4>1, <4>2, <4>3 DEF After
    <3>3. QED
      BY <3>1, <3>2
  <2>14. CASE UNCHANGED vars
    BY <2>3, <2>14 DEF vars, memVars, diskVars, history, Pending
  <2>15. QED
    BY <2>1, <2>4, <2>5, <2>6, <2>7, <2>8, <2>9, <2>10, <2>11, <2>12, <2>13, <2>14,
       Steps
<1>3. QED
  BY <1>1, <1>2, BaseInvariant, PTL DEF Spec

\* A journal on which no append failed and no line was torn replays after kills
\* and power losses at any step (appendEntry, replay).
THEOREM CrashesNeverRefuse == Spec => []CrashesReplay
<1>1. Intact => CrashesReplay
  BY DEF Intact, CrashesReplay, JournalReplays
<1>2. QED
  BY <1>1, IntactInvariant, PTL

\* On such a journal, policy and file hold the same evidence in the same order.
THEOREM PolicyIsJournal == Spec => []PolicyMatchesJournal
<1>1. Intact => PolicyMatchesJournal
  BY DEF Intact, PolicyMatchesJournal, Pending
<1>2. QED
  BY <1>1, IntactInvariant, PTL
-----------------------------------------------------------------------------
(* What was acknowledged. *)

LEMMA WrittenInvariant == Spec => []WrittenIsLast
<1>1. Init => WrittenIsLast
  BY DEF Init, WrittenIsLast
<1>2. Base /\ WrittenIsLast /\ [Next]_vars => WrittenIsLast'
  <2> SUFFICES ASSUME Base, WrittenIsLast, [Next]_vars
               PROVE  WrittenIsLast'
    OBVIOUS
  <2>1. ASSUME writing' = writing, file' = file
        PROVE  WrittenIsLast'
    BY <2>1 DEF WrittenIsLast
  <2>2. ASSUME writing' = <<>>
        PROVE  WrittenIsLast'
    BY <2>2 DEF WrittenIsLast
  <2>3. ASSUME NEW m \in Measurements, ApplyWrite(m)
        PROVE  WrittenIsLast'
    <3>1. file' = Append(file, Line(m, "whole")) /\ writing' = <<m>>
      BY <2>3 DEF ApplyWrite, Unlocked
    <3>2. /\ file' \in Seq(Lines) /\ Len(file') = Len(file) + 1
          /\ file'[Len(file) + 1].ev = m
      BY <3>1, LineWritten DEF Base
    <3>3. Len(file) \in Nat /\ DOMAIN file' = 1 .. Len(file')
      BY <3>2, LenProperties DEF Base, TypeOK
    <3>4. QED
      BY <3>1, <3>2, <3>3 DEF WrittenIsLast
  <2>4. CASE \E e \in Items : Measure(e)
    BY <2>1, <2>4 DEF Measure, memVars, diskVars
  <2>5. CASE \E m \in Measurements : ApplyDuplicate(m) \/ WriteFails(m)
    BY <2>1, <2>2, <2>5 DEF ApplyDuplicate, WriteFails, Unlocked, memVars, diskVars
  <2>6. CASE Commit \/ SyncFails \/ Kill \/ PowerLoss
    BY <2>2, <2>6 DEF Commit, SyncFails, Kill, PowerLoss, Down
  <2>7. CASE Writeback \/ Restart \/ UNCHANGED vars
    BY <2>1, <2>7 DEF Writeback, Restart, vars, memVars, diskVars
  <2>8. QED
    BY <2>3, <2>4, <2>5, <2>6, <2>7, Steps DEF Base
<1>3. QED
  BY <1>1, <1>2, BaseInvariant, PTL DEF Spec

LEMMA AckedInvariant == Spec => []AckedIsSafe
<1>1. Init => AckedIsSafe
  BY DEF Init, AckedIsSafe
<1>2. Base /\ WrittenIsLast /\ AckedIsSafe /\ [Next]_vars => AckedIsSafe'
  <2> SUFFICES ASSUME Base, WrittenIsLast, AckedIsSafe, [Next]_vars,
                      NEW m \in Measurements, <<m, "applied">> \in acked', m \notin lost'
               PROVE  \E i \in 1..synced' : file'[i].ev = m
    BY DEF AckedIsSafe
  <2>1. /\ TypeOK /\ file \in Seq(Lines) /\ Len(file) \in Nat
        /\ synced \in 0 .. Len(file)
    BY LenProperties DEF Base, TypeOK
  \* Nothing is taken from the safe lines, and nothing reported as learned anew.
  <2>2. ASSUME <<m, "applied">> \in acked, m \notin lost, synced' \in synced .. Len(file'),
               \A i \in 1 .. synced : file'[i] = file[i]
        PROVE  \E i \in 1..synced' : file'[i].ev = m
    <3>1. PICK i \in 1 .. synced : file[i].ev = m
      BY <2>2 DEF AckedIsSafe
    <3>2. i \in 1 .. synced' /\ file'[i] = file[i]
      BY <2>1, <2>2
    <3>3. QED
      BY <3>1, <3>2
  <2>3. ASSUME UNCHANGED diskVars, lost' = lost, <<m, "applied">> \in acked
        PROVE  \E i \in 1..synced' : file'[i].ev = m
    BY <2>1, <2>2, <2>3 DEF diskVars
  <2>4. ASSUME NEW e \in Items, Measure(e)
        PROVE  \E i \in 1..synced' : file'[i].ev = m
    BY <2>3, <2>4 DEF Measure, history
  <2>5. ASSUME NEW n \in Measurements, ApplyDuplicate(n)
        PROVE  \E i \in 1..synced' : file'[i].ev = m
    <3>1. <<m, "applied">> # <<n, "duplicate">>
      OBVIOUS
    <3>2. QED
      BY <2>3, <2>5, <3>1 DEF ApplyDuplicate
  <2>6. ASSUME NEW n \in Measurements, ApplyWrite(n) \/ WriteFails(n)
        PROVE  \E i \in 1..synced' : file'[i].ev = m
    <3>1. PICK form \in {"whole", "open", "torn"} : file' = Append(file, Line(n, form))
      BY <2>6 DEF ApplyWrite, WriteFails
    <3>2. <<m, "applied">> \in acked /\ synced' = synced /\ m \notin lost
      BY <2>6 DEF ApplyWrite, WriteFails, history
    <3>3. Len(file') = Len(file) + 1 /\ \A i \in 1 .. Len(file) : file'[i] = file[i]
      BY <2>1, <3>1, LineWritten
    <3>4. synced' \in synced .. Len(file') /\ \A i \in 1 .. synced : file'[i] = file[i]
      BY <2>1, <3>2, <3>3
    <3>5. QED
      BY <2>2, <3>2, <3>4
  <2>7. CASE Commit
    <3>1. /\ writing # <<>> /\ file' = file /\ synced' = Len(file)
          /\ acked' = acked \cup {<<writing[1], "applied">>}
          /\ lost' = lost \ {writing[1]}
      BY <2>7 DEF Commit, AllSynced
    <3>2. CASE m = writing[1]
      <4>1. Len(file) \in DOMAIN file /\ file[Len(file)].ev = m
        BY <3>1, <3>2 DEF WrittenIsLast
      <4>2. Len(file) \in 1 .. synced'
        BY <2>1, <3>1, <4>1, LenProperties
      <4>3. QED
        BY <3>1, <4>1, <4>2
    <3>3. CASE m # writing[1]
      BY <2>1, <2>2, <3>1, <3>3
    <3>4. QED
      BY <3>2, <3>3
  <2>8. CASE SyncFails \/ Kill \/ Restart \/ UNCHANGED vars
    BY <2>3, <2>8 DEF SyncFails, Kill, Restart, vars, history
  <2>9. CASE Writeback
    <3>1. /\ file' = file /\ synced' \in {synced, Len(file)}
          /\ <<m, "applied">> \in acked /\ m \notin lost
      BY <2>9 DEF Writeback, history
    <3>2. QED
      BY <2>1, <2>2, <3>1
  <2>10. CASE PowerLoss
    <3>1. <<m, "applied">> \in acked
      BY <2>10 DEF PowerLoss
    <3>2. ASSUME NothingLeft
          PROVE  FALSE
      <4>1. m \in Acknowledged
        BY <3>1 DEF Acknowledged
      <4>2. QED
        BY <3>2, <4>1 DEF NothingLeft
    <3>3. ASSUME NEW k \in synced .. Len(file), PrefixLeft(k)
          PROVE  \E i \in 1..synced' : file'[i].ev = m
      <4>1. k \in 0 .. Len(file)
        BY <2>1
      <4>2. /\ file' = SubSeq(file, 1, k) /\ Len(file') = k /\ synced' = k
            /\ \A i \in 1 .. k : file'[i] = file[i]
        BY <2>1, <3>3, <4>1, PrefixOf DEF PrefixLeft
      <4>3. QED
        BY <2>1, <2>2, <3>1, <3>3, <4>2 DEF PrefixLeft
    <3>4. ASSUME NEW k \in synced .. Len(file), PartLeft(k)
          PROVE  \E i \in 1..synced' : file'[i].ev = m
      BY <2>1, <2>2, <3>1, <3>4 DEF PartLeft
    <3>5. QED
      BY <2>1, <2>10, <3>2, <3>3, <3>4, LossLeavesPrefix
  <2>11. QED
    BY <2>1, <2>4, <2>5, <2>6, <2>7, <2>8, <2>9, <2>10, Steps
<1>3. QED
  BY <1>1, <1>2, BaseInvariant, WrittenInvariant, PTL DEF Spec

\* Whatever failed before, a journal that replays holds everything reported as
\* newly learned, once, but for what went with the file's name (appendEntry's fsync
\* comes before the answer, and replay refuses a repeated identity).
THEOREM NothingAckedIsLost == Spec => []AckedSurvives
<1>1. TypeOK /\ AckedIsSafe => AckedSurvives
  <2> SUFFICES ASSUME TypeOK, AckedIsSafe, Replayable(file),
                      NEW m \in Acknowledged \ lost
               PROVE  Cardinality({i \in DOMAIN file : file[i].ev = m}) = 1
    BY DEF AckedSurvives
  <2>1. m \in Measurements /\ <<m, "applied">> \in acked
    <3>1. m \in {r[1] : r \in {q \in acked : q[2] = "applied"}}
      BY DEF Acknowledged
    <3>2. PICK r \in {q \in acked : q[2] = "applied"} : m = r[1]
      BY <3>1
    <3>3. acked \subseteq Measurements \X {"applied", "duplicate"}
      BY DEF TypeOK
    <3>4. PICK n \in Measurements, said \in {"applied", "duplicate"} : r = <<n, said>>
      BY <3>2, <3>3
    <3>5. r[1] = n /\ r[2] = said
      BY <3>4
    <3> QED
      BY <3>2, <3>4, <3>5
  <2>2. PICK i \in 1 .. synced : file[i].ev = m
    BY <2>1 DEF AckedIsSafe
  <2>3. /\ DOMAIN file = 1 .. Len(file) /\ Len(file) \in Nat
        /\ i \in DOMAIN file
    BY LenProperties DEF TypeOK
  <2>4. ASSUME NEW j \in DOMAIN file, file[j].ev = file[i].ev, j # i
        PROVE  FALSE
    <3>1. FreshIn(file, i) /\ FreshIn(file, j)
      BY <2>3 DEF Replayable
    <3>2. SameIdentity(file[j].ev.item, file[i].ev.item)
          /\ SameIdentity(file[i].ev.item, file[j].ev.item)
      BY <2>4 DEF SameIdentity
    <3>3. i \in 1 .. (j - 1) \/ j \in 1 .. (i - 1)
      BY <2>3, <2>4
    <3>4. QED
      BY <3>1, <3>2, <3>3 DEF FreshIn
  <2>5. {n \in DOMAIN file : file[n].ev = m} = {i}
    BY <2>2, <2>3, <2>4
  <2>6. QED
    BY <2>5, FS_Singleton
<1>2. QED
  BY <1>1, JournalTypeCorrect, AckedInvariant, PTL
=============================================================================
