------------------------------ MODULE PcapExport ------------------------------
(***************************************************************************)
(* The capture file (pcapexport.cpp) with those who use it: the capture    *)
(* threads, one at a time inside the capture's own mutex, any workers of   *)
(* the control API, and the start and the stop of a capture (main.cpp).    *)
(*                                                                         *)
(* What a function does inside pcapLock is one step: everything but        *)
(* pcapActive is read and written there only.  Abstractions: a packet is   *)
(* its stage and its stored length; a file is a header and records, those  *)
(* on the disk and, behind them, those still in stdio's buffer.            *)
(***************************************************************************)
EXTENDS Integers, Sequences, FiniteSets, SequencesExt, Series

CONSTANTS
  Paths,         \* files
  OutPath,       \* --pcap-out, one of them
  Lengths,       \* stored lengths of packets, PCAP_SNAPLEN at most
  PacketLimits, ByteLimits,  \* limits a start may ask for, 0 for none
  Stages,        \* values --pcap-stage may have, each a set of stages
  MaxPackets,    \* bound on the packets
  MaxFailures    \* bound on the failures of the file system

ASSUME PcapAssumption ==
  /\ OutPath \in Paths /\ "none" \notin Paths
  /\ Lengths \subseteq Nat \ {0} /\ \E longest \in Lengths : \A l \in Lengths : l <= longest
  /\ PacketLimits \subseteq Nat /\ ByteLimits \subseteq Nat
  /\ MaxPackets \in Nat /\ MaxFailures \in Nat

Stage == {"pre", "post"}
Packet == [stage : Stage, len : Lengths]

VARIABLES
  pcapActive,               \* the gate, read outside the lock
  pcapFile,                 \* the open file, "none"
  pcapPackets, pcapBytes,   \* its counters
  limits,                   \* pcapMaxPkts, pcapMaxBytes
  pcapStage,                \* the stages that are written
  pcapFilePath,             \* the last file opened, "none"
  disk,                     \* what was written to the files, and what of it was stored
  writer,                   \* the capture threads in pcapExportWriteStage()
  capturing, starter,       \* a capture runs, appStartCapture() looks at the gate
  sent, failures            \* counts

session == <<pcapActive, pcapFile, pcapPackets, pcapBytes, limits, pcapStage, pcapFilePath>>
others == <<writer, capturing, starter>>
counts == <<sent, failures>>
vars == <<session, disk, others, counts>>

\* header: it is on the disk; stored: so many records are; torn: the next was lost.
Absent == [header |-> FALSE, records |-> <<>>, stored |-> 0, torn |-> FALSE, stages |-> {},
           limits |-> [packets |-> 0, bytes |-> 0]]
NoPacket == [stage |-> "none", len |-> 0]

Init ==
  /\ pcapActive = FALSE /\ pcapFile = "none" /\ pcapFilePath = "none"
  /\ pcapPackets = 0 /\ pcapBytes = 0
  /\ limits = [packets |-> 0, bytes |-> 0]
  /\ pcapStage \in Stages
  /\ disk = [p \in Paths |-> Absent]
  /\ writer = NoPacket
  /\ capturing = FALSE /\ starter = "idle"
  /\ sent = 0 /\ failures = 0

------------------------------------------------------------------------------
(* Opening and closing, inside the lock.                                    *)

\* Some calls of the file system fail.
Failing(calls) == failures + calls <= MaxFailures /\ failures' = failures + calls

Written == disk[pcapFile].records

\* How many records may be on the disk before the next failure.
Reach == IF pcapFile = "none" THEN {0} ELSE disk[pcapFile].stored..Len(Written)
Lost(n) == IF pcapFile = "none" \/ n = Len(Written) THEN 0 ELSE 1

\* The files when fflush() and fclose() have stored the first n records: nobody
\* looks at their results.
Flushed(n) ==
  IF pcapFile = "none" THEN disk
  ELSE LET f == disk[pcapFile]
       IN [disk EXCEPT ![pcapFile] = [f EXCEPT !.stored = n, !.torn = n < Len(f.records)]]

CloseFileLocked == pcapActive' = FALSE /\ pcapFile' = "none"

\* The file before is closed, this one truncated, the fields set, the gate opened,
\* whether or not fflush() gets the header to the disk.
Opened(path, lim, n, header) ==
  /\ pcapFile' = path /\ pcapFilePath' = path /\ pcapActive' = TRUE
  /\ pcapPackets' = 0 /\ pcapBytes' = 0
  /\ limits' = lim
  /\ disk' = [Flushed(n) EXCEPT ![path] = [Absent EXCEPT !.header = header, !.stages = pcapStage,
                                                         !.limits = lim]]
  /\ Failing(Lost(n) + (IF header THEN 0 ELSE 1))
  /\ UNCHANGED pcapStage

\* fopen() fails, or, once the file is truncated, stdio does not take the header.
NotOpened(path, n) ==
  /\ CloseFileLocked
  /\ disk' = Flushed(n) \/ disk' = [Flushed(n) EXCEPT ![path] = Absent]
  /\ Failing(Lost(n) + 1)
  /\ UNCHANGED <<pcapPackets, pcapBytes, limits, pcapStage, pcapFilePath>>

\* pcapExportStart()
ExportStart(path, lim) ==
  \E n \in Reach : NotOpened(path, n) \/ \E header \in BOOLEAN : Opened(path, lim, n, header)

\* closeFileLocked(), which pcapExportStop() is.
ExportStop ==
  /\ CloseFileLocked
  /\ \E n \in Reach : disk' = Flushed(n) /\ Failing(Lost(n))
  /\ UNCHANGED <<pcapPackets, pcapBytes, limits, pcapStage, pcapFilePath>>

------------------------------------------------------------------------------
(* Those who use it.                                                        *)

\* apiPcapStart()
ApiStart(path, lim) ==
  /\ ExportStart(path, lim)
  /\ UNCHANGED <<others, sent>>

\* apiPcapStop(), after it has read the count for its answer.
ApiStop ==
  /\ pcapFile # "none"
  /\ ExportStop
  /\ UNCHANGED <<others, sent>>

\* appStartCapture() with --pcap-out opens no file if one is open already.
CaptureStart ==
  /\ ~capturing /\ starter = "idle"
  /\ capturing' = TRUE
  /\ starter' = IF pcapActive THEN "idle" ELSE "open"
  /\ UNCHANGED <<session, disk, writer, counts>>

CaptureOpens ==
  /\ starter = "open"
  /\ \E lim \in [packets : PacketLimits, bytes : ByteLimits] : ExportStart(OutPath, lim)
  /\ starter' = "idle"
  /\ UNCHANGED <<writer, capturing, sent>>

\* appStopCapture(), after divertStop() has joined the threads.
CaptureStop ==
  /\ capturing /\ starter = "idle" /\ writer = NoPacket
  /\ capturing' = FALSE
  /\ ExportStop
  /\ UNCHANGED <<writer, starter, sent>>

\* pcapExportWriteStage() passes the gate with a packet.
WriteGate(p) ==
  /\ capturing /\ writer = NoPacket /\ sent < MaxPackets
  /\ pcapActive
  /\ writer' = p
  /\ sent' = sent + 1
  /\ UNCHANGED <<session, disk, capturing, starter, failures>>

AtLimit ==
  \/ limits.packets > 0 /\ pcapPackets >= limits.packets
  \/ limits.bytes > 0 /\ pcapBytes >= limits.bytes

Finished == writer' = NoPacket /\ UNCHANGED <<capturing, starter, sent>>

\* Inside the lock the file is gone, or not for this stage.
WriteNothing ==
  /\ writer # NoPacket
  /\ pcapFile = "none" \/ writer.stage \notin pcapStage
  /\ Finished
  /\ UNCHANGED <<session, disk, failures>>

Selected == writer # NoPacket /\ pcapFile # "none" /\ writer.stage \in pcapStage

\* One whole record goes to stdio, which may store some of what it has.
Recorded ==
  LET f == disk[pcapFile]
  IN \E n \in f.stored..Len(f.records)+1 :
       disk' = [disk EXCEPT ![pcapFile] = [f EXCEPT !.records = Append(@, writer), !.stored = n]]

\* Seeded fault: at the limit the packet is written before the file is closed.
WriteLimitLate ==
  /\ Selected /\ AtLimit
  /\ Recorded
  /\ CloseFileLocked /\ Finished
  /\ UNCHANGED <<pcapPackets, pcapBytes, limits, pcapStage, pcapFilePath, failures>>

WriteLimit ==
  /\ Selected /\ AtLimit
  /\ ExportStop /\ Finished

WriteRecord ==
  /\ Selected /\ ~AtLimit
  /\ Recorded
  /\ pcapPackets' = pcapPackets + 1
  /\ pcapBytes' = pcapBytes + writer.len
  /\ Finished
  /\ UNCHANGED <<pcapActive, pcapFile, limits, pcapStage, pcapFilePath, failures>>

\* fwrite() loses the record and, of what stdio had kept, all but a beginning.
RecordLost ==
  /\ \E n \in Reach : disk' = [disk EXCEPT ![pcapFile] = [@ EXCEPT !.stored = n, !.torn = TRUE]]
  /\ Failing(1)

\* Seeded fault: the file stays open after a write that failed.
WriteFailsOpen ==
  /\ Selected /\ ~AtLimit
  /\ RecordLost /\ Finished
  /\ UNCHANGED session

\* The file is closed after a write that failed.
WriteFails ==
  /\ Selected /\ ~AtLimit
  /\ RecordLost /\ CloseFileLocked /\ Finished
  /\ UNCHANGED <<pcapPackets, pcapBytes, limits, pcapStage, pcapFilePath>>

Limits == [packets : PacketLimits, bytes : ByteLimits]

Next ==
  \/ \E path \in Paths, lim \in Limits : ApiStart(path, lim)
  \/ ApiStop
  \/ CaptureStart \/ CaptureOpens \/ CaptureStop
  \/ \E p \in Packet : WriteGate(p)
  \/ WriteNothing \/ WriteLimit \/ WriteRecord \/ WriteFails

Spec == Init /\ [][Next]_vars

------------------------------------------------------------------------------
(* Properties.                                                              *)

Bytes(records) == SumTo([i \in DOMAIN records |-> records[i].len], Len(records))

\* The variables have the values their declarations promise.
TypeOK ==
  /\ pcapActive \in BOOLEAN /\ pcapFile \in Paths \cup {"none"}
  /\ pcapFilePath \in Paths \cup {"none"} /\ pcapStage \in Stages
  /\ limits \in Limits \cup {[packets |-> 0, bytes |-> 0]}
  /\ pcapPackets \in 0..MaxPackets
  /\ \E longest \in Lengths :
       (\A l \in Lengths : l <= longest) /\ pcapBytes \in 0..MaxPackets * longest
  /\ writer \in Packet \cup {NoPacket}
  /\ capturing \in BOOLEAN /\ starter \in {"idle", "open"}

\* The gate is open exactly while there is a file to write to: no capture thread
\* is kept out of an open file, or sent to the lock for nothing for good.
GateOpen == pcapActive <=> pcapFile # "none"

\* The counters are those of the records given to the open file, of which those
\* stored are a beginning: a lost record closes the file.
Counted ==
  pcapFile # "none" =>
    /\ pcapPackets = Len(Written)
    /\ pcapBytes = Bytes(Written)
    /\ ~disk[pcapFile].torn

\* What is written to a file are packets of the stages asked for, no more of them
\* than asked for, and they pass the limit on bytes by less than one record.
AsAsked(f) ==
  /\ \A r \in ToSet(f.records) : r.stage \in f.stages
  /\ f.limits.packets > 0 => Len(f.records) <= f.limits.packets
  /\ f.limits.bytes > 0 /\ f.records # <<>> => Bytes(Front(f.records)) < f.limits.bytes

FilesAsAsked == \A p \in Paths : AsAsked(disk[p])

\* A file that was closed, replaced or stopped at its limit holds every record that
\* was counted, unless storing one failed.  Its header may be missing, because the
\* first fflush() is not looked at, but never as long as no call has failed.
FilesComplete ==
  \A p \in Paths :
    /\ disk[p].stored \in 0..Len(disk[p].records)
    /\ p # pcapFile /\ ~disk[p].torn => disk[p].stored = Len(disk[p].records)
    /\ failures = 0 => ~disk[p].torn /\ (disk[p].stages # {} => disk[p].header)

\* A record goes only to the file that is open, whoever closes or replaces it
\* between a packet's look at the gate and its turn in the lock.
ClosedFinal ==
  \A p \in Paths :
    \/ Len(disk'[p].records) > Len(disk[p].records)
    \/ disk'[p].stored > disk[p].stored
    => pcapFile = p

\* Nothing is stored behind a record that was lost: a file that could not be
\* written is not written again until it is opened anew.
NothingAfterTorn ==
  \A p \in Paths : disk[p].torn /\ disk'[p].torn => disk'[p].stored <= disk[p].stored

\* The gate, the file handle and the counters agree at every release of the lock,
\* and every file holds what it was opened for, to its end unless a call failed.
Consistent == TypeOK /\ GateOpen /\ Counted /\ FilesAsAsked /\ FilesComplete

\* A file grows only while it is open, and not behind a lost record.
OpenFilesGrow == [][ClosedFinal /\ NothingAfterTorn]_vars
==============================================================================
