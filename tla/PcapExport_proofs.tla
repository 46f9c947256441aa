-------------------------- MODULE PcapExport_proofs --------------------------
(***************************************************************************)
(* Proofs about PcapExport, for any files, limits, lengths and number of   *)
(* packets: what the counters and the files hold, and when a file grows.   *)
(***************************************************************************)
EXTENDS PcapExport, Series_proofs, SequenceTheorems

USE PcapAssumption

NoLimits == [packets |-> 0, bytes |-> 0]
File == [header : BOOLEAN, records : Seq(Packet), stored : Nat, torn : BOOLEAN,
         stages : Stages \cup {{}}, limits : Limits \cup {NoLimits}]

\* The types, but for the bounds of the counters.
FieldsOK ==
  /\ pcapActive \in BOOLEAN /\ pcapFile \in Paths \cup {"none"}
  /\ pcapFilePath \in Paths \cup {"none"} /\ pcapStage \in Stages
  /\ limits \in Limits \cup {NoLimits}
  /\ writer \in Packet \cup {NoPacket}
  /\ capturing \in BOOLEAN /\ starter \in {"idle", "open"}
  /\ disk \in [Paths -> File] /\ failures \in Nat

\* The limits and stages of the session are those of the open file.
OpenFile ==
  pcapFile # "none" =>
    disk[pcapFile].stages = pcapStage /\ disk[pcapFile].limits = limits

\* Every packet that was counted, and the one in hand, passed the gate, and no
\* packet is longer than the longest.
CountersBounded ==
  /\ pcapPackets \in Nat /\ pcapBytes \in Nat /\ sent \in 0..MaxPackets
  /\ pcapPackets + (IF writer = NoPacket THEN 0 ELSE 1) <= sent
  /\ \A longest \in Lengths :
       (\A l \in Lengths : l <= longest) => pcapBytes <= pcapPackets * longest

IInv ==
  FieldsOK /\ GateOpen /\ OpenFile /\ CountersBounded /\ Counted /\ FilesAsAsked /\ FilesComplete

------------------------------------------------------------------------------

\* A record more makes a file longer by its length, and leaves what was there in
\* front of it.
LEMMA RecordAppended ==
  ASSUME NEW s \in Seq(Packet), NEW r \in Packet
  PROVE  /\ Append(s, r) \in Seq(Packet) /\ Len(Append(s, r)) = Len(s) + 1
         /\ ToSet(Append(s, r)) = ToSet(s) \cup {r}
         /\ Append(s, r) # <<>> /\ Front(Append(s, r)) = s
         /\ Bytes(Append(s, r)) = Bytes(s) + r.len
  <1> DEFINE t == Append(s, r)
             n == Len(s)
  <1>1. /\ t \in Seq(Packet) /\ n \in Nat /\ Len(t) = n + 1
        /\ \A i \in 1..n : t[i] = s[i]
        /\ t[n + 1] = r /\ DOMAIN s = 1..n /\ DOMAIN t = 1..n+1
    BY AppendProperties, LenProperties
  <1> HIDE DEF t, n
  <1>2. ToSet(t) = ToSet(s) \cup {r}
    BY <1>1 DEF ToSet
  <1>3. t # <<>>
    BY <1>1
  <1>4. Front(t) = s
    <2>1. Front(t) = SubSeq(t, 1, n)
      BY <1>1 DEF Front
    <2>2. Len(SubSeq(t, 1, n)) = n /\ \A i \in 1..n : SubSeq(t, 1, n)[i] = t[i]
          /\ SubSeq(t, 1, n) \in Seq(Packet)
      BY <1>1
    <2> QED
      BY <1>1, <2>1, <2>2, SeqEqual DEF n
  <1>5. Bytes(t) = Bytes(s) + r.len
    <2> DEFINE e == [i \in DOMAIN s |-> s[i].len]
               f == [i \in DOMAIN t |-> t[i].len]
    <2>1. \A i \in 1..n : e[i] = f[i]
      BY <1>1
    <2>2. f[n + 1] = r.len
      BY <1>1
    <2>3. Bytes(t) = SumTo(f, n + 1) /\ Bytes(s) = SumTo(e, n)
      BY <1>1 DEF Bytes, n
    <2> HIDE DEF e, f
    <2>4. SumTo(e, n) = SumTo(f, n)
      BY <1>1, <2>1, SumAgree
    <2>5. SumTo(f, n + 1) = SumTo(f, n) + f[n + 1]
      BY <1>1, SumNext
    <2> QED
      BY <2>2, <2>3, <2>4, <2>5
  <1> QED
    BY <1>1, <1>2, <1>3, <1>4, <1>5 DEF t, n

\* Lengths are natural numbers, and so is what they add up to.
LEMMA BytesNat == \A s \in Seq(Packet) : Bytes(s) \in Nat
  <1> SUFFICES ASSUME NEW s \in Seq(Packet) PROVE Bytes(s) \in Nat
    OBVIOUS
  <1> DEFINE e == [i \in DOMAIN s |-> s[i].len]
             n == Len(s)
  <1>1. n \in Nat /\ DOMAIN s = 1..n /\ \A i \in 1..n : s[i] \in Packet
    BY LenProperties
  <1>2. \A i \in 1..n : e[i] \in Nat
    BY <1>1 DEF Packet
  <1>3. Bytes(s) = SumTo(e, n)
    BY DEF Bytes
  <1> HIDE DEF e, n
  <1> QED
    BY <1>1, <1>2, <1>3, SumNat

\* What an empty file holds.
LEMMA NothingStored == Bytes(<<>>) = 0
  <1>1. Len(<<>>) = 0
    OBVIOUS
  <1> QED
    BY <1>1, SumZero DEF Bytes

------------------------------------------------------------------------------

\* What a step that writes nothing leaves of the session.
Idles ==
  /\ UNCHANGED <<session, disk, failures>>
  /\ \/ UNCHANGED <<writer, sent>>
     \/ writer' = NoPacket /\ sent' = sent
     \/ \E p \in Packet :
          writer = NoPacket /\ writer' = p /\ sent < MaxPackets /\ sent' = sent + 1

Closes ==
  /\ ExportStop /\ sent' = sent
  /\ writer' = writer \/ writer' = NoPacket

Opens ==
  /\ \E path \in Paths, lim \in Limits, n \in Reach, header \in BOOLEAN :
       Opened(path, lim, n, header)
  /\ UNCHANGED <<writer, sent>>

OpenFails == \E path \in Paths, n \in Reach : NotOpened(path, n) /\ UNCHANGED <<writer, sent>>

\* There are six kinds of steps.
LEMMA Steps ==
  ASSUME Next
  PROVE  Idles \/ Closes \/ Opens \/ OpenFails \/ WriteRecord \/ WriteFails
  <1> USE DEF others, counts
  <1>1. ASSUME NEW path \in Paths, NEW lim \in Limits, ExportStart(path, lim),
               UNCHANGED <<writer, sent>>
        PROVE  Opens \/ OpenFails
    BY <1>1 DEF ExportStart, Opens, OpenFails
  <1>2. CASE \E path \in Paths, lim \in Limits : ApiStart(path, lim)
    BY <1>1, <1>2 DEF ApiStart
  <1>3. CASE CaptureOpens
    BY <1>1, <1>3 DEF CaptureOpens, Limits
  <1>4. CASE ApiStop \/ CaptureStop \/ WriteLimit
    BY <1>4 DEF ApiStop, CaptureStop, WriteLimit, Finished, Closes
  <1>5. CASE CaptureStart
    BY <1>5 DEF CaptureStart, Idles
  <1>6. CASE \E p \in Packet : WriteGate(p)
    BY <1>6 DEF WriteGate, Idles
  <1>7. CASE WriteNothing
    BY <1>7 DEF WriteNothing, Finished, Idles
  <1> QED
    BY <1>2, <1>3, <1>4, <1>5, <1>6, <1>7 DEF Next

\* Two files of which the same was asked and to which the same was written.
Alike(f, g) == f.records = g.records /\ f.stages = g.stages /\ f.limits = g.limits

LEMMA AlikeAsked ==
  ASSUME NEW f, NEW g, Alike(f, g), AsAsked(f)
  PROVE  AsAsked(g)
  BY DEF Alike, AsAsked

\* A file that was just truncated.
NewFile(h, st, lim) ==
  [header |-> h, records |-> <<>>, stored |-> 0, torn |-> FALSE, stages |-> st, limits |-> lim]

LEMMA NewFileAsAsked ==
  ASSUME NEW h \in BOOLEAN, NEW st \in Stages \cup {{}}, NEW lim \in Limits \cup {NoLimits}
  PROVE  NewFile(h, st, lim) \in File /\ AsAsked(NewFile(h, st, lim))
  <1> DEFINE f == NewFile(h, st, lim)
  <1>1. <<>> \in Seq(Packet)
    OBVIOUS
  <1>2. f \in File
    BY <1>1 DEF File, NewFile
  <1>3. ToSet(<<>>) = {} /\ Len(<<>>) = 0
    BY DEF ToSet
  <1>4. lim.packets \in Nat
    <2>1. CASE lim \in Limits
      BY <2>1 DEF Limits
    <2> QED
      BY <2>1 DEF NoLimits
  <1>5. f.records = <<>> /\ f.limits = lim
    BY DEF NewFile
  <1> HIDE DEF f
  <1>6. AsAsked(f)
    BY <1>3, <1>4, <1>5 DEF AsAsked
  <1> QED
    BY <1>2, <1>6 DEF f

\* What pcapExportStart leaves of a file it has truncated is one.
LEMMA OpenedTruncates ==
  ASSUME NEW path, NEW lim, NEW n, NEW header, Opened(path, lim, n, header)
  PROVE  disk' = [Flushed(n) EXCEPT ![path] = NewFile(header, pcapStage, lim)]
  <1> DEFINE f == Absent
             g == [f EXCEPT !.header = header, !.stages = pcapStage, !.limits = lim]
  <1>1. f = NewFile(FALSE, {}, NoLimits)
    BY DEF Absent, NewFile, NoLimits
  <1> HIDE DEF f
  <1>2. g = [f EXCEPT !.header = header, !.stages = pcapStage, !.limits = lim]
    OBVIOUS
  <1> HIDE DEF g
  <1>3. g = NewFile(header, pcapStage, lim)
    BY <1>1, <1>2 DEF NewFile
  <1> QED
    BY <1>3 DEF Opened, f, g

LEMMA AbsentFile ==
  Absent \in File /\ AsAsked(Absent) /\ Absent = NewFile(FALSE, {}, NoLimits)
  <1>1. Absent = NewFile(FALSE, {}, NoLimits)
    BY DEF Absent, NewFile, NoLimits
  <1> DEFINE st == {}
             lim == NoLimits
  <1>2. st \in Stages \cup {{}} /\ lim \in Limits \cup {NoLimits}
    OBVIOUS
  <1> HIDE DEF st, lim
  <1>3. NewFile(FALSE, st, lim) \in File /\ AsAsked(NewFile(FALSE, st, lim))
    BY <1>2, NewFileAsAsked
  <1> QED
    BY <1>1, <1>3 DEF st, lim

\* A packet to be written is one.
LEMMA SelectedPacket ==
  ASSUME FieldsOK, Selected
  PROVE  /\ writer \in Packet /\ pcapFile \in Paths /\ pcapFile # "none"
         /\ disk[pcapFile] \in File /\ Len(Written) \in Nat /\ disk[pcapFile].stored \in Nat
  <1>1. writer \in Packet /\ pcapFile \in Paths /\ pcapFile # "none" /\ disk[pcapFile] \in File
    BY DEF FieldsOK, Selected
  <1>2. Written \in Seq(Packet) /\ disk[pcapFile].stored \in Nat
    BY <1>1 DEF File, Written
  <1> QED
    BY <1>1, <1>2, LenProperties

\* What closeFileLocked leaves of the files: the open one has so many of its records
\* on the disk, and is torn if they are not all.
LEMMA FlushedFiles ==
  ASSUME FieldsOK, NEW n \in Reach
  PROVE  /\ Flushed(n) \in [Paths -> File]
         /\ \A p \in Paths :
              /\ Alike(disk[p], Flushed(n)[p]) /\ Flushed(n)[p].header = disk[p].header
              /\ p # pcapFile => Flushed(n)[p] = disk[p]
              /\ p = pcapFile =>
                   /\ Flushed(n)[p].stored = n /\ n \in disk[p].stored..Len(disk[p].records)
                   /\ Flushed(n)[p].torn <=> n < Len(disk[p].records)
         /\ pcapFile \in Paths => (Lost(n) = 0 <=> n = Len(Written))
         /\ Lost(n) \in {0, 1}
  <1>1. disk \in [Paths -> File] /\ "none" \notin Paths
    BY DEF FieldsOK
  <1>2. CASE pcapFile = "none"
    BY <1>1, <1>2 DEF Flushed, Lost, Alike
  <1>3. CASE pcapFile # "none"
    <2> DEFINE f == disk[pcapFile]
               g == [f EXCEPT !.stored = n, !.torn = n < Len(f.records)]
    <2>1. pcapFile \in Paths /\ f \in File
      BY <1>1, <1>3 DEF FieldsOK
    <2>2. f.records \in Seq(Packet) /\ f.stored \in Nat
      BY <2>1 DEF File
    <2>3. Len(f.records) \in Nat /\ n \in f.stored..Len(f.records)
      BY <1>3, <2>2, LenProperties DEF Reach, Written
    <2>4. n \in Nat /\ (n < Len(f.records)) \in BOOLEAN
      BY <2>2, <2>3
    <2>5. Flushed(n) = [disk EXCEPT ![pcapFile] = g]
      BY <1>3 DEF Flushed
    <2> HIDE DEF f
    <2>6. /\ g \in File /\ g.stored = n /\ (g.torn <=> n < Len(f.records))
          /\ g.records = f.records /\ g.stages = f.stages /\ g.limits = f.limits
          /\ g.header = f.header
      BY <2>1, <2>4 DEF File
    <2> HIDE DEF g
    <2>7. Flushed(n) \in [Paths -> File]
      BY <1>1, <2>1, <2>5, <2>6
    <2>8. Flushed(n)[pcapFile] = g /\ \A p \in Paths \ {pcapFile} : Flushed(n)[p] = disk[p]
      BY <1>1, <2>1, <2>5
    <2>9. Lost(n) \in {0, 1} /\ (Lost(n) = 0 <=> n = Len(Written))
      BY <1>3 DEF Lost
    <2> QED
      BY <2>1, <2>3, <2>6, <2>7, <2>8, <2>9 DEF Alike, f
  <1> QED
    BY <1>2, <1>3

\* The same of the files once another is opened.
LEMMA OpenedFiles ==
  ASSUME FieldsOK, NEW n \in Reach, NEW path \in Paths, NEW g \in File,
         disk' = [Flushed(n) EXCEPT ![path] = g]
  PROVE  /\ disk' \in [Paths -> File] /\ disk'[path] = g
         /\ \A p \in Paths \ {path} : disk'[p] = Flushed(n)[p]
  <1>1. Flushed(n) \in [Paths -> File]
    BY FlushedFiles
  <1> QED
    BY <1>1

\* What a record that is taken leaves of the open file.
LEMMA RecordWritten ==
  ASSUME FieldsOK, WriteRecord
  PROVE  LET f == disk[pcapFile]
             g == disk'[pcapFile]
         IN /\ disk' \in [Paths -> File]
            /\ g.header = f.header /\ g.torn = f.torn
            /\ g.stages = f.stages /\ g.limits = f.limits
            /\ g.records = Append(f.records, writer)
            /\ g.stored \in f.stored..Len(f.records)+1
            /\ \A p \in Paths \ {pcapFile} : disk'[p] = disk[p]
  <1>0. Selected /\ disk \in [Paths -> File]
    BY DEF WriteRecord, FieldsOK
  <1> DEFINE f == disk[pcapFile]
             t == Append(f.records, writer)
  <1>1. writer \in Packet /\ pcapFile \in Paths /\ f \in File
    BY <1>0, SelectedPacket
  <1>2. PICK n \in f.stored..Len(f.records)+1 :
          disk' = [disk EXCEPT ![pcapFile] = [f EXCEPT !.records = t, !.stored = n]]
    BY DEF WriteRecord, Recorded
  <1> DEFINE g == [f EXCEPT !.records = t, !.stored = n]
  <1>3. f.records \in Seq(Packet) /\ f.stored \in Nat /\ Len(f.records) \in Nat
    <2>1. f.records \in Seq(Packet) /\ f.stored \in Nat
      BY <1>1 DEF File
    <2> QED
      BY <2>1, LenProperties
  <1>4. t \in Seq(Packet)
    BY <1>1, <1>3, RecordAppended
  <1>5. n \in Nat
    BY <1>3
  <1> HIDE DEF t
  <1>6. /\ g \in File /\ g.header = f.header /\ g.torn = f.torn /\ g.stages = f.stages
        /\ g.limits = f.limits /\ g.records = t /\ g.stored = n
    BY <1>1, <1>4, <1>5 DEF File
  <1>7. disk' = [disk EXCEPT ![pcapFile] = g]
    BY <1>2
  <1> HIDE DEF g
  <1>8. disk' \in [Paths -> File] /\ disk'[pcapFile] = g
        /\ \A p \in Paths \ {pcapFile} : disk'[p] = disk[p]
    BY <1>0, <1>1, <1>6, <1>7
  <1> QED
    BY <1>6, <1>8 DEF t

\* What a record that is lost leaves of it.
LEMMA RecordTorn ==
  ASSUME FieldsOK, Selected, RecordLost
  PROVE  /\ disk' \in [Paths -> File]
         /\ \A p \in Paths : Alike(disk[p], disk'[p]) /\ disk'[p].header = disk[p].header
         /\ disk'[pcapFile].torn
         /\ disk'[pcapFile].stored \in 0..Len(Written)
         /\ \A p \in Paths \ {pcapFile} : disk'[p] = disk[p]
  <1>0. disk \in [Paths -> File]
    BY DEF FieldsOK
  <1> DEFINE f == disk[pcapFile]
  <1>1. /\ pcapFile \in Paths /\ pcapFile # "none" /\ f \in File
        /\ Len(Written) \in Nat /\ f.stored \in Nat
    BY SelectedPacket
  <1>2. PICK n \in Reach : disk' = [disk EXCEPT ![pcapFile] = [f EXCEPT !.stored = n, !.torn = TRUE]]
    BY DEF RecordLost
  <1>3. n \in Nat /\ n \in 0..Len(Written)
    BY <1>1 DEF Reach
  <1> DEFINE g == [f EXCEPT !.stored = n, !.torn = TRUE]
  <1>4. disk' = [disk EXCEPT ![pcapFile] = g]
    BY <1>2
  <1> HIDE DEF f
  <1>5. /\ g \in File /\ g.header = f.header /\ g.torn /\ g.stages = f.stages
        /\ g.limits = f.limits /\ g.records = f.records /\ g.stored = n
    BY <1>1, <1>3 DEF File
  <1> HIDE DEF g
  <1>6. disk' \in [Paths -> File] /\ disk'[pcapFile] = g
        /\ \A p \in Paths \ {pcapFile} : disk'[p] = disk[p]
    BY <1>0, <1>1, <1>4, <1>5
  <1> QED
    BY <1>3, <1>5, <1>6 DEF Alike, f

\* Calls that fail are counted.
LEMMA FailuresStep ==
  FieldsOK /\ Next => failures' \in Nat /\ failures' >= failures
  <1> SUFFICES ASSUME FieldsOK, Next PROVE failures' \in Nat /\ failures' >= failures
    OBVIOUS
  <1>0. failures \in Nat /\ \A n \in Reach : Lost(n) \in {0, 1}
    BY FlushedFiles DEF FieldsOK
  <1>1. CASE Idles
    BY <1>0, <1>1 DEF Idles
  <1>2. CASE Closes
    BY <1>0, <1>2 DEF Closes, ExportStop, Failing
  <1>3. CASE Opens
    <2>1. PICK path \in Paths, lim \in Limits, n \in Reach, header \in BOOLEAN :
            Opened(path, lim, n, header)
      BY <1>3 DEF Opens
    <2> QED
      BY <1>0, <2>1 DEF Opened, Failing
  <1>4. CASE OpenFails
    BY <1>0, <1>4 DEF OpenFails, NotOpened, Failing
  <1>5. CASE WriteRecord
    BY <1>0, <1>5 DEF WriteRecord
  <1>6. CASE WriteFails
    BY <1>0, <1>6 DEF WriteFails, RecordLost, Failing
  <1> QED
    BY <1>1, <1>2, <1>3, <1>4, <1>5, <1>6, Steps

\* Every step keeps the types of the fields and of the files.
LEMMA FieldsStep == FieldsOK /\ Next => FieldsOK'
  <1> SUFFICES ASSUME FieldsOK, Next PROVE FieldsOK'
    OBVIOUS
  <1>0. failures' \in Nat
    BY FailuresStep
  <1>1. capturing' \in BOOLEAN /\ starter' \in {"idle", "open"}
    BY DEF FieldsOK, Next, ApiStart, ApiStop, CaptureStart, CaptureOpens, CaptureStop, WriteGate,
         WriteNothing, WriteLimit, WriteRecord, WriteFails, Finished, others
  <1>2. CASE Idles
    BY <1>0, <1>1, <1>2 DEF Idles, FieldsOK, session
  <1>3. CASE Closes
    <2>1. disk' \in [Paths -> File]
      BY <1>3, FlushedFiles DEF Closes, ExportStop
    <2> QED
      BY <1>0, <1>1, <1>3, <2>1 DEF Closes, ExportStop, CloseFileLocked, FieldsOK
  <1>4. CASE Opens
    <2>1. PICK path \in Paths, lim \in Limits, n \in Reach, header \in BOOLEAN :
            Opened(path, lim, n, header) /\ UNCHANGED <<writer, sent>>
      BY <1>4 DEF Opens
    <2>2. pcapStage \in Stages
      BY DEF FieldsOK
    <2> DEFINE f == NewFile(header, pcapStage, lim)
    <2>3. f \in File
      BY <2>2, NewFileAsAsked
    <2> HIDE DEF f
    <2>4. disk' = [Flushed(n) EXCEPT ![path] = f]
      BY <2>1, OpenedTruncates DEF f
    <2>5. disk' \in [Paths -> File]
      BY <2>3, <2>4, OpenedFiles
    <2> QED
      BY <1>0, <1>1, <2>1, <2>5 DEF Opened, FieldsOK
  <1>5. CASE OpenFails
    <2>1. PICK path \in Paths, n \in Reach : NotOpened(path, n) /\ UNCHANGED <<writer, sent>>
      BY <1>5 DEF OpenFails
    <2>2. Absent \in File
      BY AbsentFile
    <2>3. disk' \in [Paths -> File]
      BY <2>1, <2>2, FlushedFiles, OpenedFiles DEF NotOpened
    <2> QED
      BY <1>0, <1>1, <2>1, <2>3 DEF NotOpened, CloseFileLocked, FieldsOK
  <1>6. CASE WriteRecord
    <2>1. disk' \in [Paths -> File]
      BY <1>6, RecordWritten
    <2> QED
      BY <1>0, <1>1, <1>6, <2>1 DEF WriteRecord, Finished, FieldsOK
  <1>7. CASE WriteFails
    <2>1. disk' \in [Paths -> File]
      BY <1>7, RecordTorn DEF WriteFails
    <2> QED
      BY <1>0, <1>1, <1>7, <2>1 DEF WriteFails, Finished, CloseFileLocked, FieldsOK
  <1> QED
    BY <1>2, <1>3, <1>4, <1>5, <1>6, <1>7, Steps

\* The gate goes with the file, which is of this session.
LEMMA OpenStep == FieldsOK /\ GateOpen /\ OpenFile /\ Next => GateOpen' /\ OpenFile'
  <1> SUFFICES ASSUME FieldsOK, GateOpen, OpenFile, Next PROVE GateOpen' /\ OpenFile'
    OBVIOUS
  <1>1. CASE Idles
    BY <1>1 DEF Idles, GateOpen, OpenFile, session
  <1>2. CASE Closes \/ OpenFails \/ WriteFails
    BY <1>2 DEF Closes, ExportStop, OpenFails, NotOpened, WriteFails, CloseFileLocked, GateOpen,
                OpenFile
  <1>3. CASE Opens
    <2>1. PICK path \in Paths, lim \in Limits, n \in Reach, header \in BOOLEAN :
            Opened(path, lim, n, header)
      BY <1>3 DEF Opens
    <2>2. pcapStage \in Stages
      BY DEF FieldsOK
    <2>3. disk' = [Flushed(n) EXCEPT ![path] = NewFile(header, pcapStage, lim)]
      BY <2>1, OpenedTruncates
    <2>4. disk'[path] = NewFile(header, pcapStage, lim)
      BY <2>2, <2>3, NewFileAsAsked, OpenedFiles
    <2>5. disk'[path].stages = pcapStage /\ disk'[path].limits = lim
      BY <2>4 DEF NewFile
    <2> QED
      BY <2>1, <2>5 DEF Opened, GateOpen, OpenFile
  <1>4. CASE WriteRecord
    BY <1>4, RecordWritten DEF WriteRecord, GateOpen, OpenFile
  <1> QED
    BY <1>1, <1>2, <1>3, <1>4, Steps

\* What the provers need to be told of products.
LEMMA Products ==
  ASSUME NEW m \in Nat, NEW n \in Nat
  PROVE  m * n \in Nat /\ 0 * n = 0 /\ (m + 1) * n = m * n + n
  OBVIOUS

LEMMA ProductsGrow ==
  ASSUME NEW m \in Nat, NEW n \in Nat, NEW k \in Nat, m <= n
  PROVE  m * k <= n * k
  <1>1. n * k = m * k + (n - m) * k
    OBVIOUS
  <1>2. (n - m) * k \in Nat
    BY Products
  <1> QED
    BY <1>1, <1>2

LEMMA LengthsNat == \A l \in Lengths : l \in Nat /\ 0 <= 0 * l
  <1> SUFFICES ASSUME NEW l \in Lengths PROVE l \in Nat /\ 0 <= 0 * l
    OBVIOUS
  <1>1. 0 \in Nat /\ l \in Nat
    OBVIOUS
  <1>2. 0 * l = 0
    BY <1>1, Products
  <1> QED
    BY <1>1, <1>2

\* Every record that is counted was sent through the gate.
LEMMA CountersStep ==
  FieldsOK /\ CountersBounded /\ Next => CountersBounded'
  <1> SUFFICES ASSUME FieldsOK, CountersBounded, Next PROVE CountersBounded'
    OBVIOUS
  <1>0. \A p \in Packet : p # NoPacket /\ p.len \in Lengths
    BY DEF Packet, NoPacket, Stage
  <1>1. CASE Idles
    <2>1. /\ pcapPackets' = pcapPackets /\ pcapBytes' = pcapBytes /\ sent' \in 0..MaxPackets
          /\ pcapPackets + (IF writer' = NoPacket THEN 0 ELSE 1) <= sent'
      BY <1>0, <1>1 DEF Idles, session, CountersBounded
    <2> QED
      BY <2>1 DEF CountersBounded
  <1>2. CASE Opens
    <2>1. pcapPackets' = 0 /\ pcapBytes' = 0 /\ UNCHANGED <<writer, sent>>
      BY <1>2 DEF Opens, Opened
    <2> QED
      BY <2>1, LengthsNat DEF CountersBounded
  <1>3. CASE OpenFails \/ WriteFails \/ Closes
    BY <1>3 DEF OpenFails, NotOpened, WriteFails, Finished, Closes, ExportStop, CountersBounded
  <1>4. CASE WriteRecord
    <2>1. writer \in Packet /\ writer # NoPacket /\ writer.len \in Lengths
      BY <1>0, <1>4, SelectedPacket DEF WriteRecord
    <2>2. /\ pcapPackets' = pcapPackets + 1 /\ pcapBytes' = pcapBytes + writer.len
          /\ writer' = NoPacket /\ sent' = sent
      BY <1>4 DEF WriteRecord, Finished
    <2>3. ASSUME NEW longest \in Lengths, \A l \in Lengths : l <= longest
          PROVE  pcapBytes' <= pcapPackets' * longest
      <3>1. pcapBytes <= pcapPackets * longest /\ writer.len <= longest
        BY <2>1, <2>3 DEF CountersBounded
      <3>2. /\ pcapPackets * longest \in Nat
            /\ (pcapPackets + 1) * longest = pcapPackets * longest + longest
        BY LengthsNat, Products DEF CountersBounded
      <3>3. writer.len \in Nat /\ longest \in Nat /\ pcapBytes \in Nat
        BY <2>1, LengthsNat DEF CountersBounded
      <3> DEFINE m == pcapPackets * longest
      <3>4. m \in Nat /\ pcapBytes <= m /\ (pcapPackets + 1) * longest = m + longest
        BY <3>1, <3>2
      <3> HIDE DEF m
      <3> QED
        BY <2>2, <3>1, <3>3, <3>4
    <2>4. /\ pcapPackets' \in Nat /\ sent' \in 0..MaxPackets
          /\ pcapPackets' + (IF writer' = NoPacket THEN 0 ELSE 1) <= sent'
      BY <2>1, <2>2 DEF CountersBounded
    <2>5. pcapBytes' \in Nat
      <3>1. pcapBytes \in Nat /\ writer.len \in Nat
        BY <2>1, LengthsNat DEF CountersBounded
      <3> QED
        BY <2>2, <3>1
    <2> QED
      BY <2>3, <2>4, <2>5 DEF CountersBounded
  <1> QED
    BY <1>1, <1>2, <1>3, <1>4, Steps

\* The counters are those of the open file, of which nothing was lost.
LEMMA CountedStep == FieldsOK /\ Counted /\ Next => Counted'
  <1> SUFFICES ASSUME FieldsOK, Counted, Next, pcapFile' # "none"
               PROVE  /\ pcapPackets' = Len(disk'[pcapFile'].records)
                      /\ pcapBytes' = Bytes(disk'[pcapFile'].records)
                      /\ ~disk'[pcapFile'].torn
    BY DEF Counted, Written
  <1>1. CASE Idles
    BY <1>1 DEF Idles, session, Counted, Written
  <1>2. CASE Opens
    <2>1. PICK path \in Paths, lim \in Limits, n \in Reach, header \in BOOLEAN :
            Opened(path, lim, n, header)
      BY <1>2 DEF Opens
    <2>2. pcapStage \in Stages
      BY DEF FieldsOK
    <2>3. disk' = [Flushed(n) EXCEPT ![path] = NewFile(header, pcapStage, lim)]
      BY <2>1, OpenedTruncates
    <2>4. disk'[path] = NewFile(header, pcapStage, lim)
      BY <2>2, <2>3, NewFileAsAsked, OpenedFiles
    <2>5. disk'[path].records = <<>> /\ ~disk'[path].torn
      BY <2>4 DEF NewFile
    <2>6. Len(<<>>) = 0
      OBVIOUS
    <2> QED
      BY <2>1, <2>5, <2>6, NothingStored DEF Opened
  <1>3. CASE Closes \/ OpenFails \/ WriteFails
    BY <1>3 DEF Closes, ExportStop, OpenFails, NotOpened, WriteFails, CloseFileLocked
  <1>4. CASE WriteRecord
    <2>1. Selected /\ writer \in Packet /\ disk[pcapFile] \in File /\ pcapFile' = pcapFile
          /\ pcapFile # "none"
      BY <1>4, SelectedPacket DEF WriteRecord
    <2>2. disk[pcapFile].records \in Seq(Packet)
      BY <2>1 DEF File
    <2>3. disk'[pcapFile].records = Append(disk[pcapFile].records, writer)
          /\ disk'[pcapFile].torn = disk[pcapFile].torn
      BY <1>4, RecordWritten
    <2>4. /\ Len(disk'[pcapFile].records) = Len(disk[pcapFile].records) + 1
          /\ Bytes(disk'[pcapFile].records) = Bytes(disk[pcapFile].records) + writer.len
      BY <2>1, <2>2, <2>3, RecordAppended
    <2> QED
      BY <1>4, <2>1, <2>3, <2>4 DEF WriteRecord, Counted, Written
  <1> QED
    BY <1>1, <1>2, <1>3, <1>4, Steps

\* Every file stays within what it was opened for.
LEMMA AsAskedStep ==
  FieldsOK /\ OpenFile /\ Counted /\ FilesAsAsked /\ Next => FilesAsAsked'
  <1> SUFFICES ASSUME FieldsOK, OpenFile, Counted, FilesAsAsked, Next, NEW p \in Paths
               PROVE  AsAsked(disk'[p])
    BY DEF FilesAsAsked
  <1>0. AsAsked(disk[p]) /\ disk[p] \in File
    BY DEF FilesAsAsked, FieldsOK
  <1>1. CASE Idles
    BY <1>0, <1>1 DEF Idles
  <1>2. ASSUME NEW n \in Reach PROVE AsAsked(Flushed(n)[p])
    BY <1>0, <1>2, FlushedFiles, AlikeAsked
  <1>3. CASE Closes
    BY <1>2, <1>3 DEF Closes, ExportStop
  <1>4. CASE Opens
    <2>1. PICK path \in Paths, lim \in Limits, n \in Reach, header \in BOOLEAN :
            Opened(path, lim, n, header)
      BY <1>4 DEF Opens
    <2>2. pcapStage \in Stages
      BY DEF FieldsOK
    <2> DEFINE f == NewFile(header, pcapStage, lim)
    <2>3. f \in File /\ AsAsked(f)
      BY <2>2, NewFileAsAsked
    <2> HIDE DEF f
    <2>4. disk' = [Flushed(n) EXCEPT ![path] = f]
      BY <2>1, OpenedTruncates DEF f
    <2>5. disk'[p] = f \/ disk'[p] = Flushed(n)[p]
      BY <2>3, <2>4, OpenedFiles
    <2> QED
      BY <1>2, <2>3, <2>5
  <1>5. CASE OpenFails
    <2>1. PICK path \in Paths, n \in Reach : NotOpened(path, n)
      BY <1>5 DEF OpenFails
    <2>2. Absent \in File /\ AsAsked(Absent)
      BY AbsentFile
    <2>3. disk'[p] = Absent \/ disk'[p] = Flushed(n)[p]
      BY <2>1, <2>2, OpenedFiles DEF NotOpened
    <2> QED
      BY <1>2, <2>2, <2>3
  <1>6. CASE WriteFails
    <2>1. Alike(disk[p], disk'[p])
      BY <1>6, RecordTorn DEF WriteFails
    <2> QED
      BY <1>0, <2>1, AlikeAsked
  <1>7. CASE WriteRecord
    <2>1. /\ Selected /\ ~AtLimit /\ writer \in Packet /\ pcapFile \in Paths
          /\ pcapFile # "none" /\ writer.stage \in pcapStage
      BY <1>7, SelectedPacket DEF WriteRecord, Selected
    <2>2. CASE p # pcapFile
      BY <1>0, <1>7, <2>1, <2>2, RecordWritten
    <2>3. CASE p = pcapFile
      <3> DEFINE s == disk[p].records
                 f == disk'[p]
      <3>1. /\ f.records = Append(s, writer)
            /\ f.stages = pcapStage /\ f.limits = limits
            /\ disk[p].stages = pcapStage /\ disk[p].limits = limits
        BY <1>7, <2>1, <2>3, RecordWritten DEF OpenFile
      <3>2. s \in Seq(Packet)
        BY <1>0 DEF File
      <3>3. pcapPackets = Len(s) /\ pcapBytes = Bytes(s) /\ Len(s) \in Nat
        BY <2>1, <2>3, <3>2, LenProperties DEF Counted, Written
      <3>4. limits.packets \in Nat
        <4>1. CASE limits \in Limits
          BY <4>1 DEF Limits
        <4> QED
          BY <4>1 DEF FieldsOK, NoLimits
      <3> HIDE DEF s, f
      <3>5. ToSet(f.records) = ToSet(s) \cup {writer} /\ Len(f.records) = Len(s) + 1
            /\ Front(f.records) = s
        BY <2>1, <3>1, <3>2, RecordAppended
      <3>6. \A r \in ToSet(f.records) : r.stage \in f.stages
        BY <1>0, <2>1, <3>1, <3>5 DEF AsAsked, s
      <3>7. f.limits.packets > 0 => Len(f.records) <= f.limits.packets
        BY <2>1, <3>1, <3>3, <3>4, <3>5 DEF AtLimit
      <3>8. f.limits.bytes > 0 => Bytes(Front(f.records)) < f.limits.bytes
        <4>1. limits.bytes \in Nat /\ Bytes(s) \in Nat
          <5>1. CASE limits \in Limits
            BY <5>1, <3>2, BytesNat DEF Limits
          <5> QED
            BY <3>2, <5>1, BytesNat DEF FieldsOK, NoLimits
        <4> QED
          BY <2>1, <3>1, <3>3, <3>5, <4>1 DEF AtLimit
      <3> QED
        BY <3>6, <3>7, <3>8 DEF AsAsked, f
    <2> QED
      BY <2>2, <2>3
  <1> QED
    BY <1>1, <1>3, <1>4, <1>5, <1>6, <1>7, Steps

\* What FilesComplete says of one file.
Complete(p) ==
  /\ disk[p].stored \in 0..Len(disk[p].records)
  /\ p # pcapFile /\ ~disk[p].torn => disk[p].stored = Len(disk[p].records)
  /\ failures = 0 => ~disk[p].torn /\ (disk[p].stages # {} => disk[p].header)

\* A file that is closed is complete, or torn.
LEMMA FlushedComplete ==
  ASSUME FieldsOK, FilesComplete, NEW n \in Reach, NEW p \in Paths
  PROVE  LET f == Flushed(n)[p]
         IN /\ f.stored \in 0..Len(f.records)
            /\ ~f.torn => f.stored = Len(f.records)
            /\ failures + Lost(n) = 0 => ~f.torn /\ (f.stages # {} => f.header)
  <1> DEFINE f == Flushed(n)[p]
             k == Len(disk[p].records)
  <1>0. Complete(p) /\ failures \in Nat /\ Lost(n) \in {0, 1} /\ k \in Nat /\ disk[p].stored \in Nat
    <2>1. disk[p].records \in Seq(Packet) /\ disk[p].stored \in Nat
      BY DEF FieldsOK, File
    <2> QED
      BY <2>1, FlushedFiles, LenProperties DEF FilesComplete, Complete, FieldsOK
  <1>1. Alike(disk[p], f) /\ f.header = disk[p].header
    BY FlushedFiles
  <1>2. Len(f.records) = k /\ f.stages = disk[p].stages
    BY <1>1 DEF Alike
  <1>3. failures + Lost(n) = 0 => failures = 0 /\ Lost(n) = 0
    BY <1>0
  <1>4. CASE p # pcapFile
    <2>1. f = disk[p]
      BY <1>4, FlushedFiles
    <2> HIDE DEF f
    <2> QED
      BY <1>0, <1>2, <1>3, <1>4, <2>1 DEF Complete, f
  <1>5. CASE p = pcapFile
    <2>1. f.stored = n /\ n \in disk[p].stored..k /\ (f.torn <=> n < k)
      BY <1>5, FlushedFiles
    <2>2. Lost(n) = 0 <=> n = k
      BY <1>5, FlushedFiles DEF Written
    <2>3. failures = 0 => (disk[p].stages # {} => disk[p].header)
      BY <1>0 DEF Complete
    <2> HIDE DEF f, k
    <2>4. f.stored \in 0..k /\ (~f.torn => f.stored = k)
      BY <1>0, <2>1
    <2>5. failures + Lost(n) = 0 => ~f.torn
      BY <1>0, <1>3, <2>1, <2>2
    <2>6. failures + Lost(n) = 0 => (f.stages # {} => f.header)
      BY <1>1, <1>2, <1>3, <2>3 DEF f
    <2> QED
      BY <1>2, <2>4, <2>5, <2>6 DEF f
  <1> QED
    BY <1>4, <1>5

\* Closing, replacing and failing keep the files complete.
LEMMA CompleteStep ==
  FieldsOK /\ Counted /\ FilesComplete /\ Next => FilesComplete'
  <1> SUFFICES ASSUME FieldsOK, Counted, FilesComplete, Next, NEW p \in Paths
               PROVE  Complete(p)'
    BY DEF FilesComplete, Complete
  <1>0. Complete(p) /\ failures \in Nat /\ disk[p] \in File /\ "none" \notin Paths
    BY DEF FilesComplete, Complete, FieldsOK
  <1>1. CASE Idles
    BY <1>0, <1>1 DEF Idles, session, Complete
  <1>2. CASE Closes
    <2>1. PICK n \in Reach : disk' = Flushed(n) /\ Failing(Lost(n))
      BY <1>2 DEF Closes, ExportStop
    <2> QED
      BY <2>1, FlushedComplete DEF Complete, Failing
  <1>3. CASE Opens
    <2>1. PICK path \in Paths, lim \in Limits, n \in Reach, header \in BOOLEAN :
            Opened(path, lim, n, header)
      BY <1>3 DEF Opens
    <2>2. pcapStage \in Stages /\ Lost(n) \in {0, 1}
      BY FlushedFiles DEF FieldsOK
    <2> DEFINE f == NewFile(header, pcapStage, lim)
    <2>3. f \in File
      BY <2>2, NewFileAsAsked
    <2>4. disk' = [Flushed(n) EXCEPT ![path] = f]
      BY <2>1, OpenedTruncates
    <2>5. /\ f.stored = 0 /\ ~f.torn /\ f.records = <<>> /\ f.header = header
      BY DEF NewFile
    <2> HIDE DEF f
    <2>6. pcapFile' = path /\ failures' = failures + (Lost(n) + (IF header THEN 0 ELSE 1))
      BY <2>1 DEF Opened, Failing
    <2>7. CASE p = path
      <3>1. disk'[p] = f /\ Len(<<>>) = 0
        BY <2>3, <2>4, <2>7, OpenedFiles
      <3>2. failures' = 0 => header
        BY <1>0, <2>2, <2>6
      <3> QED
        BY <2>5, <2>6, <2>7, <3>1, <3>2 DEF Complete
    <2>8. CASE p # path
      <3>1. disk'[p] = Flushed(n)[p]
        BY <2>3, <2>4, <2>8, OpenedFiles
      <3>2. failures' = 0 => failures + Lost(n) = 0
        BY <1>0, <2>2, <2>6
      <3> QED
        BY <3>1, <3>2, FlushedComplete DEF Complete
    <2> QED
      BY <2>7, <2>8
  <1>4. CASE OpenFails
    <2>1. PICK path \in Paths, n \in Reach : NotOpened(path, n)
      BY <1>4 DEF OpenFails
    <2>2. Lost(n) \in {0, 1} /\ failures' = failures + (Lost(n) + 1)
      BY <2>1, FlushedFiles DEF NotOpened, Failing
    <2>3. failures' # 0
      BY <1>0, <2>2
    <2>4. Absent \in File /\ Absent = NewFile(FALSE, {}, NoLimits)
      BY AbsentFile
    <2>5. disk'[p] = Absent \/ disk'[p] = Flushed(n)[p]
      BY <2>1, <2>4, OpenedFiles DEF NotOpened
    <2>6. Len(<<>>) = 0 /\ Absent.stored = 0 /\ Absent.records = <<>>
      BY <2>4 DEF NewFile
    <2> QED
      BY <2>3, <2>5, <2>6, FlushedComplete DEF Complete
  <1>5. CASE WriteRecord
    <2>1. /\ pcapFile \in Paths /\ pcapFile # "none" /\ writer \in Packet
          /\ disk[pcapFile] \in File /\ pcapFile' = pcapFile /\ failures' = failures
      BY <1>5, SelectedPacket DEF WriteRecord
    <2>2. CASE p # pcapFile
      <3>1. disk'[p] = disk[p]
        BY <1>5, <2>2, RecordWritten
      <3> QED
        BY <1>0, <2>1, <3>1 DEF Complete
    <2>3. CASE p = pcapFile
      <3> DEFINE g == disk'[p]
                 k == Len(disk[p].records)
      <3>1. /\ g.header = disk[p].header /\ g.torn = disk[p].torn /\ g.stages = disk[p].stages
            /\ g.records = Append(disk[p].records, writer)
            /\ g.stored \in disk[p].stored..k+1
        BY <1>5, <2>3, RecordWritten
      <3>2. disk[p].records \in Seq(Packet) /\ disk[p].stored \in Nat
        BY <1>0 DEF File
      <3>3. Len(g.records) = k + 1 /\ k \in Nat
        BY <2>1, <3>1, <3>2, RecordAppended, LenProperties
      <3> HIDE DEF g, k
      <3>4. g.stored \in 0..Len(g.records)
        BY <3>1, <3>2, <3>3
      <3>5. failures = 0 => ~g.torn /\ (g.stages # {} => g.header)
        BY <1>0, <3>1 DEF Complete
      <3> QED
        BY <2>1, <2>3, <3>4, <3>5 DEF Complete, g
    <2> QED
      BY <2>2, <2>3
  <1>6. CASE WriteFails
    <2>1. /\ failures' = failures + 1 /\ pcapFile' = "none" /\ pcapFile # "none"
          /\ pcapFile \in Paths
      BY <1>6, SelectedPacket DEF WriteFails, RecordLost, Failing, CloseFileLocked
    <2>2. failures' # 0
      BY <1>0, <2>1
    <2>3. CASE p # pcapFile
      <3>1. disk'[p] = disk[p]
        BY <1>6, <2>3, RecordTorn DEF WriteFails
      <3> QED
        BY <1>0, <2>2, <2>3, <3>1 DEF Complete
    <2>4. CASE p = pcapFile
      <3>1. /\ disk'[p].torn /\ disk'[p].stored \in 0..Len(disk[p].records)
            /\ Alike(disk[p], disk'[p])
        BY <1>6, <2>4, RecordTorn DEF WriteFails, Written
      <3> QED
        BY <2>2, <3>1 DEF Complete, Alike
    <2> QED
      BY <2>3, <2>4
  <1> QED
    BY <1>1, <1>2, <1>3, <1>4, <1>5, <1>6, Steps

------------------------------------------------------------------------------

\* The invariant is inductive.
THEOREM PcapInvariant == Spec => []IInv
  <1>1. Init => IInv
    <2> SUFFICES ASSUME Init PROVE IInv
      OBVIOUS
    <2>1. Absent \in File /\ AsAsked(Absent) /\ Absent = NewFile(FALSE, {}, NoLimits)
      BY AbsentFile
    <2>2. /\ Absent.stored = 0 /\ ~Absent.torn /\ Absent.records = <<>> /\ Absent.stages = {}
          /\ Len(<<>>) = 0
      BY <2>1 DEF NewFile
    <2>3. FieldsOK
      BY <2>1 DEF Init, FieldsOK, NoLimits
    <2>4. FilesAsAsked
      BY <2>1 DEF Init, FilesAsAsked
    <2>5. CountersBounded
      BY LengthsNat DEF Init, CountersBounded
    <2>6. GateOpen /\ OpenFile /\ Counted
      BY DEF Init, GateOpen, OpenFile, Counted
    <2>7. FilesComplete
      BY <2>2 DEF Init, FilesComplete
    <2> QED
      BY <2>3, <2>4, <2>5, <2>6, <2>7 DEF IInv
  <1>2. IInv /\ [Next]_vars => IInv'
    <2> SUFFICES ASSUME IInv, [Next]_vars PROVE IInv'
      OBVIOUS
    <2>1. CASE Next
      BY <2>1, FieldsStep, OpenStep, CountersStep, CountedStep, AsAskedStep, CompleteStep DEF IInv
    <2>2. CASE UNCHANGED vars
      <3> USE <2>2 DEF IInv, vars, session, others, counts
      <3>1. FieldsOK' /\ GateOpen' /\ OpenFile'
        BY DEF FieldsOK, GateOpen, OpenFile
      <3>2. CountersBounded'
        BY DEF CountersBounded
      <3>3. Counted' /\ FilesAsAsked' /\ FilesComplete'
        BY DEF Counted, Written, FilesAsAsked, FilesComplete
      <3> QED
        BY <3>1, <3>2, <3>3
    <2> QED
      BY <2>1, <2>2
  <1> QED
    BY <1>1, <1>2, PTL DEF Spec

\* At every release of pcapLock the gate, the file handle and the counters agree,
\* every file is given no more than it was opened for, and a closed one has all it
\* was given unless storing failed (pcapExportStart, pcapExportWriteStage,
\* closeFileLocked), for any limits, any packets and any failures.
THEOREM PcapConsistent == Spec => []Consistent
  <1>1. IInv => Consistent
    <2> SUFFICES ASSUME IInv PROVE TypeOK
      BY DEF IInv, Consistent
    <2>1. pcapPackets \in 0..MaxPackets
      BY DEF IInv, CountersBounded
    <2>2. PICK longest \in Lengths : \A l \in Lengths : l <= longest
      OBVIOUS
    <2>3. pcapBytes <= pcapPackets * longest /\ pcapBytes \in Nat
      BY <2>2 DEF IInv, CountersBounded
    <2>4. pcapPackets * longest <= MaxPackets * longest
      BY <2>1, <2>2, LengthsNat, ProductsGrow
    <2>5. pcapPackets * longest \in Nat /\ MaxPackets * longest \in Nat
      BY <2>1, LengthsNat, Products
    <2>6. pcapBytes \in 0..MaxPackets * longest
      <3> DEFINE m == pcapPackets * longest
                 n == MaxPackets * longest
      <3>1. m \in Nat /\ n \in Nat /\ pcapBytes <= m /\ m <= n
        BY <2>3, <2>4, <2>5
      <3> HIDE DEF m, n
      <3>2. pcapBytes \in 0..n
        BY <2>3, <3>1
      <3> QED
        BY <3>2 DEF n
    <2> QED
      BY <2>1, <2>2, <2>6 DEF IInv, FieldsOK, TypeOK, NoLimits
  <1> QED
    BY <1>1, PcapInvariant, PTL

\* A file grows, in stdio's buffer or on the disk, only while it is the open one,
\* and behind a record that was lost nothing is stored before it is truncated.
THEOREM PcapFilesGrow == Spec => OpenFilesGrow
  <1>1. IInv /\ [Next]_vars => [ClosedFinal /\ NothingAfterTorn]_vars
    <2> SUFFICES ASSUME IInv, Next, NEW p \in Paths
                 PROVE  /\ \/ Len(disk'[p].records) > Len(disk[p].records)
                           \/ disk'[p].stored > disk[p].stored
                           => pcapFile = p
                        /\ disk[p].torn /\ disk'[p].torn => disk'[p].stored <= disk[p].stored
      BY DEF ClosedFinal, NothingAfterTorn
    <2>0. FieldsOK /\ Counted
      BY DEF IInv
    <2>1. Len(disk[p].records) \in Nat /\ disk[p].stored \in Nat /\ Len(<<>>) = 0
      <3>1. disk[p].records \in Seq(Packet) /\ disk[p].stored \in Nat
        BY <2>0 DEF FieldsOK, File
      <3> QED
        BY <3>1, LenProperties
    <2>2. CASE p = pcapFile
      <3>1. ~disk[p].torn
        BY <2>0, <2>2 DEF Counted, FieldsOK
      <3> QED
        BY <2>2, <3>1
    <2>3. CASE p # pcapFile
      <3> SUFFICES \/ disk'[p] = disk[p]
                   \/ disk'[p].records = <<>> /\ disk'[p].stored = 0
        BY <2>1
      <3>1. \A n \in Reach : Flushed(n)[p] = disk[p]
        BY <2>0, <2>3, FlushedFiles
      <3>2. CASE WriteRecord
        BY <2>0, <2>3, <3>2, RecordWritten
      <3>3. CASE WriteFails
        BY <2>0, <2>3, <3>3, RecordTorn DEF WriteFails
      <3>4. CASE Closes
        BY <3>1, <3>4 DEF Closes, ExportStop
      <3>5. CASE Opens
        <4>1. PICK path \in Paths, lim \in Limits, n \in Reach, header \in BOOLEAN :
                Opened(path, lim, n, header)
          BY <3>5 DEF Opens
        <4>2. pcapStage \in Stages
          BY <2>0 DEF FieldsOK
        <4> DEFINE f == NewFile(header, pcapStage, lim)
        <4>3. f \in File
          BY <4>2, NewFileAsAsked
        <4>4. disk' = [Flushed(n) EXCEPT ![path] = f]
          BY <4>1, OpenedTruncates
        <4>5. f.stored = 0 /\ f.records = <<>>
          BY DEF NewFile
        <4> HIDE DEF f
        <4>6. disk'[p] = f \/ disk'[p] = Flushed(n)[p]
          BY <2>0, <4>3, <4>4, OpenedFiles
        <4> QED
          BY <3>1, <4>5, <4>6
      <3>6. CASE OpenFails
        <4>1. PICK path \in Paths, n \in Reach : NotOpened(path, n)
          BY <3>6 DEF OpenFails
        <4>2. Absent \in File /\ Absent = NewFile(FALSE, {}, NoLimits)
          BY AbsentFile
        <4>3. disk'[p] = Absent \/ disk'[p] = Flushed(n)[p]
          BY <2>0, <4>1, <4>2, OpenedFiles DEF NotOpened
        <4>4. Absent.stored = 0 /\ Absent.records = <<>>
          BY <4>2 DEF NewFile
        <4> QED
          BY <3>1, <4>3, <4>4
      <3>7. CASE Idles
        BY <3>7 DEF Idles
      <3> QED
        BY <3>2, <3>3, <3>4, <3>5, <3>6, <3>7, Steps
    <2> QED
      BY <2>2, <2>3
  <1> QED
    BY <1>1, PcapInvariant, PTL DEF Spec, OpenFilesGrow

==============================================================================
