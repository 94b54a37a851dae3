-------------------------- MODULE UploadFlowProofs --------------------------
(***************************************************************************)
(* TLAPS proofs that the browser's flow keeps its promises over the upload *)
(* store, for every file, every number of attempts and of interruptions    *)
(* and whatever older attempts still have on the wire.                     *)
(***************************************************************************)
EXTENDS UploadFlow, UploadSessionProofs
-----------------------------------------------------------------------------
(* What makes the promises of the flow inductive *)

USE DEF AssembleSteps

\* the lock's holder was called for the session it works on
CallFits ==
    /\ op.step \in {"directory", "record", "request"} => op.call \in Creates
    /\ op.step \in {"create part", "write part", "received"} =>
           op.call \in Receives /\ op.call.session = op.session
    /\ op.step \in {"drop parts", "present", "archive", "copy", "unlink", "check",
                    "complete", "remove chunks"} =>
           op.call = [kind |-> "complete", session |-> op.session]
    /\ op.step = "sweep" => op.call = [kind |-> "sweep"]
    /\ op.step \in {"removing", "forget"} =>
           /\ op.then \in {"create", "sweep", "ok", "upload_expired",
                           "upload_checksum_mismatch", "upload_not_archive"}
           /\ op.then = "sweep" => op.call = [kind |-> "sweep"]
           /\ op.then = "ok" => op.call.kind = "discard"
           /\ op.then \in {"upload_checksum_mismatch", "upload_not_archive"} =>
                  op.call = [kind |-> "complete", session |-> op.session]
           /\ op.step = "forget" => ~HasRecord(op.session)

\* when it is given, an answer tells how the files are
ReplyFits ==
    LET s == reply.call.session
        i == reply.call.index
        answers(kind, code) == reply.call.kind = kind /\ reply.code = code
    IN /\ answers("create", "ok") =>
              reply.session \in Sessions /\ fate[reply.session] # "unborn"
       /\ answers("read", "ok") =>
              /\ reply.session \in Sessions /\ fate[reply.session] # "unborn"
              /\ HasRecord(reply.session)
       /\ answers("receive", "ok") =>
              /\ HasRecord(s) /\ ~record[s].complete /\ i \in ChunksOf(s)
              /\ part[s][i] = reply.call.content
       /\ answers("complete", "ok") => HasRecord(s) /\ record[s].complete
       /\ reply.code = "request_identifier_conflict" => reply.call.kind = "create"
       /\ reply.code = "upload_already_complete" =>
              reply.call.kind = "receive" /\ record[s].complete
       /\ reply.code = "upload_chunk_mismatch" =>
              /\ reply.call.kind = "receive"
              /\ Intact(s, i) /\ part[s][i] # reply.call.content
       /\ reply.code \in {"upload_checksum_mismatch", "upload_not_archive"} =>
              reply.call.kind = "complete" /\ ~HasRecord(s)

Born(s) == s \in Sessions /\ fate[s] # "unborn"

\* the requests of the flow are about identifiers that were given out
Known(call) ==
    \/ call \in Creates
    \/ call \in Calls /\ call.kind # "sweep" /\ Born(call.session)

WireFits == \A m \in wire : Known(m.call)

FlowType == [step : {"idle", "reading", "creating", "sending", "completing",
                     "abandoning", "done"},
             session : Sessions \cup {NoSession}, received : SUBSET Chunks,
             call : Calls \cup {NoCall}, aborted : BOOLEAN]

MemoryFits == memory # NoSession => Born(memory)

\* the flow waits for the answer to a request about its session
FlowFits ==
    /\ flow \in FlowType
    /\ flow.session # NoSession => Born(flow.session)
    /\ flow.step \in {"reading", "creating"} => flow.session = NoSession /\ checked = {}
    /\ flow.step = "reading" => flow.call.kind = "read"
    /\ flow.step = "creating" => flow.call.kind = "create"
    /\ flow.step = "sending" =>
           flow.call \in Receives /\ flow.call.session = flow.session
    /\ flow.step = "completing" =>
           flow.call.kind = "complete" /\ flow.call.session = flow.session
    /\ flow.step \in {"sending", "completing", "done"} \/ flow.received # {}
           => flow.session # NoSession

ListedStored ==
    \A s \in Sessions :
        fate[s] = "live" /\ HasRecord(s) => \A i \in record[s].received : Stored(s, i)

ReceivedStored ==
    \A s \in Sessions :
        flow.session = s /\ fate[s] = "live" => \A i \in flow.received : Stored(s, i)

\* a part is what the file has there: in the archive once it was moved there
Holds(s, i) ==
    /\ HasRecord(s) /\ i \in ChunksOf(s)
    /\ IF record[s].complete \/ (Assembles(s) /\ i <= Len(archive[s]))
       THEN archive[s][i] = FileContent ELSE part[s][i] = FileContent

ChecksHold ==
    \A s \in Sessions :
        CanDigest /\ flow.session = s /\ fate[s] = "live"
            => \A i \in checked : Holds(s, i)

DoneComplete ==
    \A s \in Sessions :
        flow.step = "done" /\ flow.session = s /\ fate[s] = "live"
            => HasRecord(s) /\ record[s].complete

FlowInv ==
    /\ IndInv /\ CallFits /\ WireFits /\ MemoryFits /\ FlowFits
    /\ ListedStored /\ ReceivedStored /\ ChecksHold /\ DoneComplete

-----------------------------------------------------------------------------
(* Where a step leaves the lock's holder and the files of one session *)

(* Going on to the next file change keeps the rest of the operation. *)
LEMMA GotoEffects ==
    ASSUME TypeOK, NEW step, Goto(step)
    PROVE  /\ op'.step = step /\ op'.session = op.session
           /\ op'.call = op.call /\ op'.then = op.then
BY DEF Goto, TypeOK, Operation

(* While the lock is held, its holder steps, or is interrupted, or nothing *)
(* happens to the operation and the session files.                         *)
LEMMA LockHeld ==
    ASSUME [Next]_vars, ~Free
    PROVE  Step \/ Interrupt \/ (UNCHANGED <<op, fate>> /\ UNCHANGED disk)
<1>1. \A q : ~Create(q)
    BY DEF Create
<1>2. ASSUME NEW s, NEW i, NEW c PROVE ~Receive(s, i, c)
  <2>1. Receive(s, i, c) => Free
      BY Zenon DEF Receive
  <2> QED BY <2>1
<1>3. \A s : ~Read(s) /\ ~Complete(s) /\ ~Discard(s)
    BY DEF Read, Complete, Discard
<1>4. \A step, s, next : ~WorkerLoad(step, s, next)
    BY DEF WorkerLoad
<1>5. (\E s \in Sessions : Expire(s)) \/ WorkerOpen \/ WorkerEnd \/ UNCHANGED vars
        => UNCHANGED <<op, fate>> /\ UNCHANGED disk
    BY DEF Expire, WorkerOpen, WorkerEnd, vars, files, disk
<1> QED BY <1>1, <1>2, <1>3, <1>4, <1>5, NextCases
        DEF Sweep, Aside, Worker, WorkerRead, WorkerPath, Disturbance

-----------------------------------------------------------------------------
(* The parts of a session while it lives *)

(* The parts that a session lists are stored while it lives. *)
LEMMA ListedStep == ASSUME IndInv, ListedStored, [Next]_vars PROVE ListedStored'
<1>1. TypeOK /\ FilesFit /\ CreateFits /\ ReceiveFits
    BY DEF IndInv
<1> SUFFICES ASSUME NEW s \in Sessions, fate'[s] = "live", record'[s] # NoRecord,
                    NEW i \in record'[s].received
             PROVE  Stored(s, i)'
    BY DEF ListedStored, HasRecord
<1>2. CASE HasRecord(s)
    <2>1. fate[s] = "live"
        BY <1>1, <1>2, StillAlive DEF FilesFit
    <2>2. record[s] \in RecordType /\ record[s] # NoRecord
        BY <1>2, <2>1, RecordStays DEF HasRecord
    <2>3. CASE i \in record[s].received
        <3>1. Stored(s, i) /\ i \in Chunks
            BY <1>2, <2>1, <2>2, <2>3 DEF ListedStored, RecordType
        <3> QED BY <2>1, <3>1, StoredStep
    <2>4. CASE i \notin record[s].received
        <3>1. record'[s].received # record[s].received
            BY <2>4
        <3>2. SaveReceived /\ op.session = s /\ i = op.call.index
            <4>1. CASE \/ UNCHANGED disk \/ MakeDirectory \/ CreatePart \/ WritePart
                       \/ DropParts \/ StartArchive \/ CopyPart \/ UnlinkPart
                       \/ RemoveChunks \/ RemoveDirectory
                BY <3>1, <4>1
                   DEF disk, MakeDirectory, CreatePart, WritePart, DropParts,
                       StartArchive, CopyPart, UnlinkPart, RemoveChunks, RemoveDirectory
            <4>2. CASE SaveNewRecord
                <5>1. op.session # s
                    BY <1>1, <1>2, <4>2 DEF SaveNewRecord, CreateFits
                <5> QED BY <1>1, <3>1, <4>2, <5>1 DEF SaveNewRecord, TypeOK
            <4>3. CASE SaveReceived
                <5>1. op.session # s => record'[s] = record[s]
                    BY <1>1, <4>3 DEF SaveReceived, TypeOK
                <5>2. op.session = s
                        => record'[s].received = record[s].received \cup {op.call.index}
                    BY <1>1, <2>2, <4>3 DEF SaveReceived, TypeOK, RecordType
                <5> QED BY <2>4, <3>1, <4>3, <5>1, <5>2
            <4>4. CASE SavePresent
                <5>1. op.session # s => record'[s] = record[s]
                    BY <1>1, <4>4 DEF SavePresent, TypeOK
                <5>2. op.session = s => record'[s].received = VerifiedParts(s)
                    BY <1>1, <2>2, <4>4 DEF SavePresent, TypeOK, RecordType
                <5> QED BY <2>4, <3>1, <5>1, <5>2 DEF VerifiedParts
            <4>5. CASE SaveComplete
                <5>1. op.session # s => record'[s] = record[s]
                    BY <1>1, <4>5 DEF SaveComplete, TypeOK
                <5>2. op.session = s => record'[s].received = record[s].received
                    BY <1>1, <2>2, <4>5 DEF SaveComplete, TypeOK, RecordType
                <5> QED BY <3>1, <5>1, <5>2
            <4>6. CASE RemoveFile
                <5>1. op.session # s => record'[s] = record[s]
                    BY <1>1, <4>6 DEF RemoveFile, TypeOK
                <5>2. op.session # s
                    BY <2>1, <4>6 DEF IndInv, RemoveFits, RemoveFile
                <5> QED BY <3>1, <5>1, <5>2
            <4> QED BY <4>1, <4>2, <4>3, <4>4, <4>5, <4>6, DiskSteps DEF FileStep
        <3>3. /\ i \in ChunksOf(s) /\ part[s][i] = op.call.content
              /\ op.call.content \in Contents
            BY <1>1, <3>2 DEF SaveReceived, ReceiveFits, Receives
        <3>4. Stored(s, i) /\ i \in Chunks
            BY <1>2, <2>1, <3>3, RecordStays DEF Stored, Intact
        <3> QED BY <2>1, <3>4, StoredStep
    <2> QED BY <2>3, <2>4
<1>3. CASE ~HasRecord(s)
    <2>1. Created(s)
        <3>1. record'[s] # record[s]
            BY <1>3 DEF HasRecord
        <3> QED BY <1>3, <3>1, DiskSteps, FileEffects
                DEF disk, Kept, InProgress, Finished, Removed, HasRecord
    <2>2. SaveNewRecord /\ op.session = s
        BY <2>1, <1>3, DiskSteps
           DEF Created, HasRecord, disk, FileStep, MakeDirectory, CreatePart, WritePart,
               SaveReceived, DropParts, SavePresent, StartArchive, CopyPart, UnlinkPart,
               SaveComplete, RemoveChunks, RemoveFile, RemoveDirectory
    <2>3. record'[s] = New(op.call.request)
        BY <1>1, <2>2 DEF SaveNewRecord, TypeOK
    <2>4. record'[s].received = {}
        BY <2>3 DEF New
    <2> QED BY <2>4
<1> QED BY <1>2, <1>3

(* A session's parts start being moved into an empty archive; the move     *)
(* goes on until it is checked and recorded, or interrupted.               *)
LEMMA AssemblesStep ==
    ASSUME IndInv, [Next]_vars, NEW s \in Sessions, Assembles(s)'
    PROVE  op.session = s
           /\ \/ StartArchive
              \/ /\ Assembles(s)
                 /\ \/ CopyPart \/ UnlinkPart \/ CheckArchive
                    \/ UNCHANGED <<op, fate>> /\ UNCHANGED disk
<1>1. TypeOK /\ AssembleFits
    BY DEF IndInv
<1>2. op'.session = s /\ op'.step \in {"copy", "unlink", "check", "complete"}
    BY DEF Assembles
<1>3. AssembleStep \/ Aside
    BY <1>1, <1>2, NextCases, StepAfterRequest, StepAfterStep DEF Step
<1>4. CASE AssembleStep
    <2>1. ~DropParts /\ ~SavePresent /\ ~SaveComplete /\ ~RemoveChunks
        <3>1. DropParts => op'.step = "present"
            BY <1>1, GotoEffects DEF DropParts
        <3>2. SaveComplete => op'.step = "remove chunks"
            BY <1>1, GotoEffects DEF SaveComplete
        <3>3. SavePresent \/ RemoveChunks => op'.step = "idle"
            BY LockEffects DEF SavePresent, RemoveChunks
        <3> QED BY <1>2, <3>1, <3>2, <3>3
    <2>2. op.session = s
        BY <1>1, <1>2, <1>4, <2>1, GotoEffects, LockEffects
           DEF AssembleStep, StartArchive, CopyPart, UnlinkPart, CheckArchive
    <2>3. CopyPart \/ UnlinkPart \/ CheckArchive
              => op.step \in {"copy", "unlink", "check"}
        BY DEF CopyPart, UnlinkPart, CheckArchive
    <2> QED BY <1>4, <2>1, <2>2, <2>3 DEF AssembleStep, Assembles
<1>5. CASE Aside
    <2>1. UNCHANGED <<op, fate>> /\ UNCHANGED disk
        BY <1>2, <1>5, StepAside
    <2> QED BY <1>2, <2>1 DEF Assembles
<1> QED BY <1>3, <1>4, <1>5

(* A part that is what the file has there stays so while its session       *)
(* lives, until an assembly of the session is interrupted: the archive may *)
(* then be begun anew without it.                                          *)
LEMMA HoldsStep ==
    ASSUME IndInv, [Next]_vars, NEW s \in Sessions, NEW i \in Chunks,
           fate'[s] = "live", fate[s] = "live", Holds(s, i),
           FileContent \in Contents, ~(Assembles(s) /\ Interrupt)
    PROVE  Holds(s, i)'
<1>1. TypeOK /\ ReceiveFits /\ AssembleFits /\ RemoveFits /\ CompleteIsWhole
    BY DEF IndInv
<1>2. HasRecord(s) /\ i \in ChunksOf(s) /\ record[s] \in RecordType
    BY RecordStays DEF Holds
<1>3. record'[s] # NoRecord /\ record'[s].request = record[s].request
    BY <1>2, RecordStays
<1>4. archive[s] \in Archives /\ Len(archive[s]) \in Nat /\ i \in Nat \ {0}
    BY <1>1, ArchiveIsSequence, ChunkNumbers DEF TypeOK
<1>5. /\ record[s].request.chunks \in Nat \ {0}
      /\ i <= record[s].request.chunks
    BY <1>2, <1>4, RequestsAssumption DEF RecordType, ChunksOf
<1>6. SUFFICES IF record'[s].complete \/ (Assembles(s)' /\ i <= Len(archive'[s]))
               THEN archive'[s][i] = FileContent ELSE part'[s][i] = FileContent
    BY <1>2, <1>3 DEF Holds, HasRecord, ChunksOf
<1>7. CASE record[s].complete
    BY <1>2, <1>7, RecordStays DEF Holds
<1>8. CASE ~record[s].complete /\ Assembles(s)
    <2>1. ~Free /\ op.session = s
        BY <1>8 DEF Assembles, Free
    <2>2. CASE UNCHANGED <<op, fate>> /\ UNCHANGED disk
        BY <1>8, <2>2 DEF Holds, Assembles, disk
    <2>3. CASE CopyPart
        <3> DEFINE k == Len(archive[s]) + 1
        <3>1. k <= record[s].request.chunks /\ part[s][k] \in Contents
            BY <1>1, <1>4, <1>5, <2>1, <2>3
               DEF CopyPart, AssembleFits, IntactFrom, Intact, ChunksOf
        <3>2. k \in Chunks
            BY <1>2, <1>4, <1>5, <3>1, ChunkNumbers DEF RecordType
        <3>3. archive'[s] = Append(archive[s], part[s][k])
            BY <1>1, <2>1, <2>3 DEF CopyPart, TypeOK
        <3>4. Len(archive'[s]) = k
            BY <1>4, <3>1, <3>2, <3>3, LongerArchive
        <3>5. /\ archive'[s][k] = part[s][k]
              /\ \A j \in 1..Len(archive[s]) : archive'[s][j] = archive[s][j]
            <4>1. archive[s] \in Seq(Contents)
                BY <1>4, ArchiveIsSequence
            <4> QED BY <3>1, <3>3, <4>1
        <3>6. UNCHANGED <<record, part>> /\ Assembles(s)'
            BY <1>1, <2>1, <2>3, GotoEffects DEF CopyPart, Assembles
        <3>7. CASE i <= Len(archive[s])
            <4>1. i \in 1..Len(archive[s]) /\ i <= k /\ archive[s][i] = FileContent
                BY <1>4, <1>8, <3>7 DEF Holds
            <4> QED BY <3>4, <3>5, <3>6, <4>1
        <3>8. CASE i = k
            <4>1. part[s][i] = FileContent
                BY <1>4, <1>8, <3>8 DEF Holds
            <4> QED BY <1>4, <3>4, <3>5, <3>6, <3>8, <4>1
        <3>9. CASE i > k
            <4>1. part[s][i] = FileContent /\ ~(i <= k)
                BY <1>4, <1>8, <3>9 DEF Holds
            <4> QED BY <1>8, <3>4, <3>6, <4>1
        <3> QED BY <1>4, <3>7, <3>8, <3>9
    <2>4. CASE UnlinkPart
        <3>1. /\ UNCHANGED <<record, archive>> /\ Assembles(s)'
              /\ i # Len(archive[s]) => part'[s][i] = part[s][i]
            BY <1>1, <2>1, <2>4, GotoEffects DEF UnlinkPart, Assembles, TypeOK
        <3>2. i = Len(archive[s]) => i <= Len(archive[s])
            BY <1>4
        <3> QED BY <1>8, <3>1, <3>2 DEF Holds
    <2>5. CASE CheckArchive
        <3>1. Goto("complete") /\ UNCHANGED disk
            <4>1. UNCHANGED disk
                BY <2>5 DEF CheckArchive, files, disk
            <4>2. ASSUME NEW then, Remove(op.call, s, ClientOf(s), then, {})
                  PROVE  FALSE
                BY <1>1, <4>2 DEF Remove, TypeOK
            <4> QED BY <2>1, <2>5, <4>1, <4>2 DEF CheckArchive
        <3>2. Assembles(s)'
            BY <1>1, <2>1, <3>1, GotoEffects DEF Assembles
        <3> QED BY <1>8, <3>1, <3>2 DEF Holds, disk
    <2>6. CASE SaveComplete
        <3>1. Len(archive[s]) = record[s].request.chunks
            BY <1>1, <2>1, <2>6 DEF SaveComplete, AssembleFits
        <3>2. archive[s][i] = FileContent
            BY <1>5, <1>8, <3>1 DEF Holds
        <3>3. UNCHANGED archive /\ record'[s].complete
            BY <1>1, <1>2, <1>4, <2>1, <2>6 DEF SaveComplete, TypeOK, RecordType
        <3> QED BY <3>2, <3>3
    <2>7. Step \/ (UNCHANGED <<op, fate>> /\ UNCHANGED disk)
        BY <1>8, <2>1, LockHeld
    <2>8. Step => CopyPart \/ UnlinkPart \/ CheckArchive \/ SaveComplete
        BY <1>8 DEF Assembles, Step, CreateStep, ReceiveStep, AssembleStep, RemoveStep,
                    SweepStep, MakeDirectory, SaveNewRecord, WriteRequest, CreatePart,
                    WritePart, SaveReceived, DropParts, SavePresent, StartArchive,
                    RemoveChunks, RemoveFile, RemoveDirectory, RemoveRequest,
                    SweepSession, RemoveStaleRequest, EndSweep
    <2> QED BY <2>2, <2>3, <2>4, <2>5, <2>6, <2>7, <2>8
<1>9. CASE ~record[s].complete /\ ~Assembles(s)
    <2>1. part[s][i] = FileContent
        BY <1>9 DEF Holds
    <2>2. Assembles(s)' => ~(i <= Len(archive'[s]))
        <3>1. CASE op.session = s /\ StartArchive
            <4>1. archive'[s] = <<>>
                BY <1>1, <3>1 DEF StartArchive, TypeOK
            <4>2. Len(archive'[s]) = 0
                BY <4>1
            <4> QED BY <1>4, <4>2
        <3> QED BY <1>9, <3>1, AssemblesStep
    <2>3. ~record'[s].complete /\ part'[s][i] = FileContent
        <3>1. CASE UNCHANGED disk
            BY <1>9, <2>1, <3>1 DEF disk
        <3>2. CASE op.session # s /\ FileStep
            <4>1. part'[s] = part[s] /\ record'[s] = record[s]
                BY <1>1, <3>2
                   DEF FileStep, MakeDirectory, SaveNewRecord, CreatePart, WritePart,
                       SaveReceived, DropParts, SavePresent, StartArchive, CopyPart,
                       UnlinkPart, SaveComplete, RemoveChunks, RemoveFile,
                       RemoveDirectory, TypeOK
            <4> QED BY <1>9, <2>1, <4>1
        <3>3. CASE MakeDirectory \/ StartArchive \/ RemoveDirectory
            BY <1>9, <2>1, <3>3 DEF MakeDirectory, StartArchive, RemoveDirectory
        <3>4. CASE op.session = s /\ CreatePart
            <4>1. ~Intact(s, op.call.index)
                BY <1>1, <3>4 DEF CreatePart, ReceiveFits
            <4>2. op.call.index # i
                BY <2>1, <4>1 DEF Intact
            <4> QED BY <1>1, <1>9, <2>1, <3>4, <4>2 DEF CreatePart, TypeOK
        <3>5. CASE op.session = s /\ WritePart
            <4>1. part[s][op.call.index] = Torn
                BY <1>1, <3>5 DEF WritePart, ReceiveFits
            <4>2. op.call.index # i
                BY <2>1, <4>1, RequestsAssumption
            <4> QED BY <1>1, <1>9, <2>1, <3>5, <4>2 DEF WritePart, TypeOK
        <3>6. CASE op.session = s /\ DropParts
            BY <1>1, <1>9, <2>1, <3>6, RequestsAssumption DEF DropParts, TypeOK
        <3>7. CASE op.session = s /\ (SaveReceived \/ SavePresent)
            <4>1. PICK r : record'[s] = [record[s] EXCEPT !.received = r]
                BY <1>1, <3>7 DEF SaveReceived, SavePresent, TypeOK
            <4>2. record'[s].complete = record[s].complete
                BY <1>2, <4>1 DEF RecordType
            <4> QED BY <1>9, <2>1, <3>7, <4>2 DEF SaveReceived, SavePresent
        <3>8. op.session = s => ~CopyPart /\ ~UnlinkPart /\ ~SaveComplete
            BY <1>9 DEF Assembles, CopyPart, UnlinkPart, SaveComplete
        <3>9. op.session = s => ~RemoveChunks /\ ~SaveNewRecord /\ ~RemoveFile
            BY <1>1, <1>2, <1>9
               DEF IndInv, CreateFits, RemoveChunks, AssembleFits, SaveNewRecord,
                   RemoveFile, RemoveFits
        <3> QED BY <3>1, <3>2, <3>3, <3>4, <3>5, <3>6, <3>7, <3>8, <3>9, DiskSteps
                DEF FileStep
    <2> QED BY <2>2, <2>3
<1> QED BY <1>7, <1>8, <1>9

-----------------------------------------------------------------------------
(* What an operation was called for, and what its answer says *)

(* A removal knows why it removes. *)
LEMMA RemoveCall ==
    ASSUME NEW call, NEW s, NEW client, NEW todo,
           NEW then \in {"create", "sweep", "ok", "upload_expired",
                         "upload_checksum_mismatch", "upload_not_archive"},
           Remove(call, s, client, then, todo),
           then = "sweep" => call = [kind |-> "sweep"],
           then = "ok" => call.kind = "discard",
           then \in {"upload_checksum_mismatch", "upload_not_archive"} =>
               call = [kind |-> "complete", session |-> s]
    PROVE  CallFits'
<1>1. /\ op'.step = "removing" /\ op'.session = s /\ op'.call = call
      /\ op'.then = then
    BY LockEffects
<1> QED BY <1>1 DEF CallFits

\* a refusal removes a session that is past its lifetime, or removes nothing
LEMMA RefuseCall ==
    ASSUME NEW call, NEW s, Refuse(call, s)
    PROVE  CallFits'
<1>1. CASE Remove(call, s, ClientOf(s), "upload_expired", {})
    BY <1>1, RemoveCall
<1>2. CASE op'.step = "idle"
    BY <1>2 DEF CallFits
<1> QED BY <1>1, <1>2, LockEffects DEF Refuse

\* the choice of an identifier begins a create, or begins nothing
LEMMA OpenCall ==
    ASSUME NEW call \in Creates, Open(call)
    PROVE  CallFits'
<1>1. CASE \E s : Begin(call, "directory", s)
    <2>1. op'.step = "directory" /\ op'.call = call
        BY <1>1, LockEffects
    <2> QED BY <2>1 DEF CallFits
<1>2. CASE op'.step = "idle"
    BY <1>2 DEF CallFits
<1> QED BY <1>1, <1>2, LockEffects DEF Open

(* Every step keeps the operation with the session it was called for. *)
LEMMA CallFitsStep == ASSUME IndInv, CallFits, [Next]_vars PROVE CallFits'
<1>1. TypeOK /\ RemoveFits
    BY DEF IndInv
<1>2. op'.step = "idle" => CallFits'
    BY DEF CallFits
<1>3. ASSUME NEW q \in Requests, Create(q) PROVE CallFits'
    <2> DEFINE call == [kind |-> "create", request |-> q]
    <2>1. call \in Creates
        BY DEF Creates
    <2>2. ASSUME NEW s, Remove(call, s, ClientOf(s), "create", {}) PROVE CallFits'
        BY <2>2, RemoveCall
    <2>3. Open(call) => CallFits'
        BY <2>1, OpenCall
    <2> QED BY <1>2, <1>3, <2>2, <2>3, LockEffects DEF Create
<1>4. ASSUME NEW s \in Sessions, NEW i \in Chunks, NEW c \in Contents, Receive(s, i, c)
      PROVE  CallFits'
    <2> DEFINE call == [kind |-> "receive", session |-> s, index |-> i, content |-> c]
    <2>1. call \in Receives /\ call.session = s
        BY DEF Receives
    <2>2. ASSUME NEW step \in {"create part", "received"}, Begin(call, step, s)
          PROVE  CallFits'
        <3>1. op'.step = step /\ op'.call = call /\ op'.session = s
            BY <2>2, LockEffects
        <3> QED BY <2>1, <3>1 DEF CallFits
    <2>3. Refuse(call, s) => CallFits'
        BY RefuseCall
    <2> QED BY <1>2, <1>4, <2>2, <2>3, LockEffects DEF Receive
<1>5. ASSUME NEW s \in Sessions, Read(s) PROVE CallFits'
    <2>1. Refuse([kind |-> "read", session |-> s], s) => CallFits'
        BY RefuseCall
    <2> QED BY <1>2, <1>5, <2>1, LockEffects DEF Read
<1>6. ASSUME NEW s \in Sessions, Complete(s) PROVE CallFits'
    <2> DEFINE call == [kind |-> "complete", session |-> s]
    <2>1. ASSUME NEW step \in {"remove chunks", "drop parts", "archive"},
                 Begin(call, step, s)
          PROVE  CallFits'
        <3>1. op'.step = step /\ op'.call = call /\ op'.session = s
            BY <2>1, LockEffects
        <3> QED BY <3>1 DEF CallFits
    <2>2. Refuse(call, s) => CallFits'
        BY RefuseCall
    <2> QED BY <1>2, <1>6, <2>1, <2>2, LockEffects DEF Complete
<1>7. ASSUME NEW s \in Sessions, Discard(s) PROVE CallFits'
    <2> DEFINE call == [kind |-> "discard", session |-> s]
    <2>1. Remove(call, s, ClientOf(s), "ok", {}) => CallFits'
        <3>1. call.kind = "discard"
            OBVIOUS
        <3> QED BY <3>1, RemoveCall
    <2> QED BY <1>2, <1>7, <2>1, LockEffects DEF Discard
<1>8. CASE Sweep
    BY <1>8 DEF Sweep, NoOp, CallFits
<1>9. CASE CreateStep
    <2>1. ASSUME NEW step \in {"record", "request"}, Goto(step), op.call \in Creates
          PROVE  CallFits'
        BY <1>1, <2>1, GotoEffects DEF CallFits
    <2> QED BY <1>2, <1>9, <2>1, LockEffects
            DEF CreateStep, MakeDirectory, SaveNewRecord, WriteRequest, CallFits
<1>10. CASE ReceiveStep
    <2>1. ASSUME NEW step \in {"write part", "received"}, Goto(step),
                 op.call \in Receives, op.call.session = op.session
          PROVE  CallFits'
        BY <1>1, <2>1, GotoEffects DEF CallFits
    <2> QED BY <1>2, <1>10, <2>1, LockEffects
            DEF ReceiveStep, CreatePart, WritePart, SaveReceived, CallFits
<1>11. CASE AssembleStep
    <2>1. op.call = [kind |-> "complete", session |-> op.session]
        BY <1>11 DEF AssembleStep, DropParts, SavePresent, StartArchive, CopyPart,
                     UnlinkPart, CheckArchive, SaveComplete, RemoveChunks, CallFits
    <2>2. ASSUME NEW step \in {"present", "copy", "unlink", "check", "complete",
                               "remove chunks"}, Goto(step)
          PROVE  CallFits'
        BY <1>1, <2>1, <2>2, GotoEffects DEF CallFits
    <2>3. ASSUME NEW then \in {"upload_checksum_mismatch", "upload_not_archive"},
                 Remove(op.call, op.session, ClientOf(op.session), then, {})
          PROVE  CallFits'
        BY <2>1, <2>3, RemoveCall
    <2> QED BY <1>2, <1>11, <2>2, <2>3, LockEffects
            DEF AssembleStep, DropParts, SavePresent, StartArchive, CopyPart, UnlinkPart,
                CheckArchive, SaveComplete, RemoveChunks
<1>12. CASE RemoveStep
    <2>1. CASE RemoveFile
        BY <2>1 DEF RemoveFile, CallFits
    <2>2. CASE RemoveDirectory
        <3>1. /\ op'.step = "forget" /\ op'.session = op.session
              /\ op'.call = op.call /\ op'.then = op.then
            BY <1>1, <2>2, GotoEffects DEF RemoveDirectory
        <3>2. record'[op'.session] = NoRecord
            BY <2>2, <3>1 DEF RemoveDirectory, Empty, HasRecord
        <3> QED BY <2>2, <3>1, <3>2 DEF RemoveDirectory, CallFits, HasRecord
    <2>3. CASE RemoveRequest
        <3>1. CASE op.then = "create" /\ Open(op.call)
            <4>1. op.call \in Creates
                BY <1>1, <2>3, <3>1 DEF RemoveRequest, RemoveFits
            <4> QED BY <3>1, <4>1, OpenCall
        <3>2. CASE op.then = "sweep" /\ Goto("sweep")
            <4>1. op.call = [kind |-> "sweep"]
                BY <2>3, <3>2 DEF RemoveRequest, CallFits
            <4> QED BY <1>1, <3>2, <4>1, GotoEffects DEF CallFits
        <3> QED BY <1>2, <2>3, <3>1, <3>2, LockEffects DEF RemoveRequest
    <2> QED BY <1>12, <2>1, <2>2, <2>3 DEF RemoveStep
<1>13. CASE SweepStep
    <2>1. op.call = [kind |-> "sweep"] /\ op.step = "sweep"
        BY <1>13 DEF SweepStep, SweepSession, RemoveStaleRequest, EndSweep, CallFits
    <2>2. ASSUME NEW s, op' = [op EXCEPT !.todo = @ \ {s}] PROVE CallFits'
        <3>1. op'.step = "sweep" /\ op'.call = op.call
            BY <1>1, <2>1, <2>2 DEF TypeOK, Operation
        <3> QED BY <2>1, <3>1 DEF CallFits
    <2>3. ASSUME NEW s, NEW todo, Remove(op.call, s, ClientOf(s), "sweep", todo)
          PROVE  CallFits'
        BY <2>1, <2>3, RemoveCall
    <2>4. RemoveStaleRequest => CallFits'
        BY <2>1 DEF RemoveStaleRequest, CallFits
    <2> QED BY <1>2, <1>13, <2>2, <2>3, <2>4, LockEffects
            DEF SweepStep, SweepSession, EndSweep
<1>14. CASE Aside
    <2>1. UNCHANGED <<op, fate>> => CallFits'
        BY <1>14, StepAside DEF CallFits, HasRecord, disk
    <2>2. ASSUME NEW step, NEW s, NEW next, WorkerLoad(step, s, next) PROVE CallFits'
        <3>1. WorkerLoad(step, s, next) => UNCHANGED disk
            BY DEF WorkerLoad, files, disk
        <3>2. UNCHANGED <<op, fate>> => CallFits'
            BY <2>1
        <3> QED BY <1>2, <2>2, <3>2, RefuseCall, LockEffects DEF WorkerLoad
    <2> QED BY <1>2, <1>14, <2>1, <2>2, LockEffects
            DEF Aside, Worker, WorkerRead, WorkerPath, WorkerOpen, WorkerEnd,
                Disturbance, Interrupt, Expire, vars
<1> QED BY <1>3, <1>4, <1>5, <1>6, <1>7, <1>8, <1>9, <1>10, <1>11, <1>12, <1>13, <1>14,
           NextCases
        DEF Step

(* What an answer of the store says holds of the files when it is given. *)
LEMMA AnswerEffect ==
    ASSUME NEW call, NEW code, NEW s, Answer(call, code, s)
    PROVE  reply'.call = call /\ reply'.code = code /\ reply'.session = s
BY DEF Answer

\* answers that say nothing of the files
Silent == {"upload_storage_full", "upload_not_found", "upload_expired",
           "upload_incomplete", "upload_storage"}
LEMMA SilentAnswer ==
    ASSUME NEW call, NEW code, NEW s, Answer(call, code, s),
           \/ code \in Silent
           \/ code = "ok" /\ call.kind \notin {"create", "read", "receive", "complete"}
    PROVE  ReplyFits'
<1>1. reply'.call = call /\ reply'.code = code
    BY AnswerEffect
<1> QED BY <1>1 DEF ReplyFits, Silent

\* a call that was refused or that begins or removes something is silent too
LEMMA RefuseAnswer ==
    ASSUME NEW call, NEW s, Refuse(call, s), Free'
    PROVE  ReplyFits'
BY SilentAnswer, LockEffects DEF Refuse, Free, Silent

LEMMA OpenAnswer ==
    ASSUME NEW call, Open(call), Free'
    PROVE  ReplyFits'
BY SilentAnswer, LockEffects DEF Open, Free, Silent

(* The answer to a request at once. *)
LEMMA RequestAnswer ==
    ASSUME IndInv, NEW call \in Calls, Handle(call), Free' PROVE ReplyFits'
<1>1. TypeOK /\ FilesFit
    BY DEF IndInv
<1>2. ASSUME NEW q \in Requests, Create(q) PROVE ReplyFits'
    <2> DEFINE known == pointer[q.client]
               told == [kind |-> "create", request |-> q]
    <2>1. known # NoSession => known \in Sessions
        BY <1>1 DEF TypeOK, Clients
    <2>2. told.kind = "create"
        OBVIOUS
    <2>3. CASE /\ known # NoSession /\ HasRecord(known) /\ UNCHANGED fate
               /\ Answer(told, "ok", known)
        <3>1. /\ reply'.call = told /\ reply'.code = "ok" /\ reply'.session = known
            BY <2>3, AnswerEffect
        <3>2. known \in Sessions /\ fate'[known] # "unborn"
            BY <1>1, <2>1, <2>3 DEF FilesFit
        <3> HIDE DEF told
        <3> QED BY <2>2, <3>1, <3>2 DEF ReplyFits
    <2>4. CASE Answer(told, "request_identifier_conflict", NoSession)
        <3>1. reply'.call = told /\ reply'.code = "request_identifier_conflict"
            BY <2>4, AnswerEffect
        <3> HIDE DEF told
        <3> QED BY <2>2, <3>1 DEF ReplyFits
    <2>5. Open(told) => ReplyFits'
        BY OpenAnswer
    <2>6. \A s, then, todo : ~Remove(told, s, ClientOf(s), then, todo)
        BY LockEffects DEF Free
    <2> QED BY <1>2, <2>3, <2>4, <2>5, <2>6 DEF Create, Loads
<1>3. ASSUME NEW s \in Sessions, NEW i \in Chunks, NEW c \in Contents, Receive(s, i, c)
      PROVE  ReplyFits'
    <2> DEFINE told == [kind |-> "receive", session |-> s, index |-> i, content |-> c]
    <2>1. /\ told.kind = "receive" /\ told.session = s /\ told.index = i
          /\ told.content = c
        OBVIOUS
    <2>2. UNCHANGED <<record, part>>
        BY <1>3 DEF Receive, files
    <2>3. CASE Loads(s) /\ record[s].complete /\ Answer(told, "upload_already_complete", s)
        <3>1. reply'.call = told /\ reply'.code = "upload_already_complete"
            BY <2>3, AnswerEffect
        <3> HIDE DEF told
        <3> QED BY <2>1, <2>2, <2>3, <3>1 DEF ReplyFits
    <2>4. CASE Intact(s, i) /\ part[s][i] # c /\ Answer(told, "upload_chunk_mismatch", s)
        <3>1. reply'.call = told /\ reply'.code = "upload_chunk_mismatch"
            BY <2>4, AnswerEffect
        <3> HIDE DEF told
        <3> QED BY <2>1, <2>2, <2>4, <3>1 DEF ReplyFits, Intact
    <2>5. CASE /\ Loads(s) /\ ~record[s].complete /\ i \in ChunksOf(s)
               /\ part[s][i] = c /\ Answer(told, "ok", s)
        <3>1. reply'.call = told /\ reply'.code = "ok"
            BY <2>5, AnswerEffect
        <3> HIDE DEF told
        <3> QED BY <2>1, <2>2, <2>5, <3>1 DEF ReplyFits, Loads, HasRecord, ChunksOf
    <2>6. Refuse(told, s) => ReplyFits'
        BY RefuseAnswer
    <2>7. Answer(told, "upload_storage_full", s) => ReplyFits'
        BY SilentAnswer DEF Silent
    <2>8. \A step : ~Begin(told, step, s) \/ step = "idle"
        BY LockEffects DEF Free
    <2> QED BY <1>3, <2>3, <2>4, <2>5, <2>6, <2>7, <2>8 DEF Receive
<1>4. ASSUME NEW s \in Sessions, Read(s) PROVE ReplyFits'
    <2> DEFINE told == [kind |-> "read", session |-> s]
    <2>1. told.kind = "read"
        OBVIOUS
    <2>2. CASE Loads(s) /\ Answer(told, "ok", s) /\ UNCHANGED fate
        <3>1. reply'.call = told /\ reply'.code = "ok" /\ reply'.session = s
            BY <2>2, AnswerEffect
        <3>2. record'[s] # NoRecord /\ fate'[s] # "unborn"
            BY <1>1, <1>4, <2>2 DEF Read, files, Loads, HasRecord, FilesFit
        <3> HIDE DEF told
        <3> QED BY <2>1, <3>1, <3>2 DEF ReplyFits, HasRecord
    <2>3. Refuse(told, s) => ReplyFits'
        BY RefuseAnswer
    <2> QED BY <1>4, <2>2, <2>3 DEF Read
<1>5. ASSUME NEW s \in Sessions, Complete(s) PROVE ReplyFits'
    <2> DEFINE told == [kind |-> "complete", session |-> s]
    <2>1. Refuse(told, s) => ReplyFits'
        BY RefuseAnswer
    <2>2. Answer(told, "upload_storage_full", s) => ReplyFits'
        BY SilentAnswer DEF Silent
    <2>3. \A step : ~Begin(told, step, s) \/ step = "idle"
        BY LockEffects DEF Free
    <2> QED BY <1>5, <2>1, <2>2, <2>3 DEF Complete
<1>6. ASSUME NEW s \in Sessions, Discard(s) PROVE ReplyFits'
    <2> DEFINE told == [kind |-> "discard", session |-> s]
    <2>1. told.kind = "discard"
        OBVIOUS
    <2>2. Answer(told, "ok", s) => ReplyFits'
        <3> HIDE DEF told
        <3> QED BY <2>1, SilentAnswer
    <2>3. \A s1, then, todo : ~Remove(told, s1, ClientOf(s1), then, todo)
        BY LockEffects DEF Free
    <2> QED BY <1>6, <2>2, <2>3 DEF Discard
<1>7. /\ call.kind = "create" => call.request \in Requests
      /\ call.kind \in {"read", "receive", "complete", "discard"}
            => call.session \in Sessions
      /\ call.kind = "receive" => call.index \in Chunks /\ call.content \in Contents
    BY DEF Calls, Creates, Receives
<1> QED BY <1>2, <1>3, <1>4, <1>5, <1>6, <1>7 DEF Handle

(* The answer of an operation that goes on, or is interrupted. *)
LEMMA StepAnswer ==
    ASSUME IndInv, CallFits, Step \/ Interrupt, Free' PROVE ReplyFits'
<1>1. TypeOK /\ FilesFit /\ CreateFits /\ ReceiveFits /\ AssembleFits
    BY DEF IndInv
<1>2. \A step : Goto(step) => step = "idle"
    BY <1>1, GotoEffects DEF Free
<1>3. CASE Interrupt
    BY <1>3, SilentAnswer DEF Interrupt, Silent
<1>4. CASE WriteRequest
    <2>1. /\ op.call.kind = "create" /\ op.session \in Sessions
          /\ fate'[op.session] # "unborn"
        BY <1>1, <1>4 DEF WriteRequest, CreateFits, Creates
    <2>2. reply'.call = op.call /\ reply'.code = "ok" /\ reply'.session = op.session
        BY <1>4, AnswerEffect DEF WriteRequest
    <2> QED BY <2>1, <2>2 DEF ReplyFits
<1>5. CASE WritePart \/ SaveReceived
    <2> DEFINE s == op.session
               i == op.call.index
    <2>1. /\ op.call.kind = "receive" /\ op.call.session = s /\ s \in Sessions
          /\ HasRecord(s) /\ ~record[s].complete /\ i \in ChunksOf(s)
          /\ i \in Chunks /\ record[s] \in RecordType
        BY <1>1, <1>5 DEF WritePart, SaveReceived, ReceiveFits, CallFits, Receives,
                          TypeOK, HasRecord
    <2>2. reply'.call = op.call /\ reply'.code = "ok"
        BY <1>2, <1>5, AnswerEffect DEF WritePart, SaveReceived
    <2>3. part'[s][i] = op.call.content
        <3>1. CASE WritePart
            <4>1. part' = [part EXCEPT ![s][i] = op.call.content]
                BY <3>1 DEF WritePart
            <4>2. part \in [Sessions -> [Chunks -> Parts]] /\ s \in Sessions /\ i \in Chunks
                BY <1>1, <2>1 DEF TypeOK
            <4> HIDE DEF s, i
            <4> QED BY <4>1, <4>2
        <3>2. SaveReceived => part'[s][i] = op.call.content
            BY <1>1 DEF SaveReceived, ReceiveFits
        <3> QED BY <1>5, <3>1, <3>2
    <2>4. /\ record'[s] # NoRecord /\ record'[s].complete = record[s].complete
          /\ record'[s].request = record[s].request
        <3>1. CASE WritePart
            BY <2>1, <3>1 DEF WritePart, HasRecord
        <3>2. CASE SaveReceived
            <4>1. record'[s] = [record[s] EXCEPT !.received = @ \cup {i}]
                BY <1>1, <2>1, <3>2 DEF SaveReceived, TypeOK
            <4>2. record'[s] \in RecordType
                BY <2>1, <4>1 DEF RecordType
            <4> QED BY <2>1, <4>1, <4>2, RequestsAssumption DEF RecordType
        <3> QED BY <1>5, <3>1, <3>2
    <2> QED BY <2>1, <2>2, <2>3, <2>4 DEF ReplyFits, HasRecord, ChunksOf
<1>6. CASE SavePresent
    BY <1>6, SilentAnswer DEF SavePresent, Silent
<1>7. CASE RemoveChunks
    <2>1. op.call = [kind |-> "complete", session |-> op.session]
        BY <1>7 DEF RemoveChunks, CallFits
    <2>2. op.call.kind = "complete" /\ op.call.session = op.session
        BY <2>1
    <2>3. record'[op.session] # NoRecord /\ record'[op.session].complete
        BY <1>1, <1>7 DEF RemoveChunks, AssembleFits, HasRecord
    <2>4. reply'.call = op.call /\ reply'.code = "ok"
        BY <1>7, AnswerEffect DEF RemoveChunks
    <2> QED BY <2>2, <2>3, <2>4 DEF ReplyFits, HasRecord
<1>8. CASE RemoveRequest
    <2>1. Open(op.call) => ReplyFits'
        BY OpenAnswer
    <2>2. CASE Answer(op.call, op.then, op.session)
        <3>1. reply'.call = op.call /\ reply'.code = op.then
            BY <2>2, AnswerEffect
        <3>2. record'[op.session] = NoRecord
            BY <1>8 DEF RemoveRequest, CallFits, HasRecord
        <3>3. CASE op.then \in {"upload_checksum_mismatch", "upload_not_archive"}
            <4>1. op.call = [kind |-> "complete", session |-> op.session]
                BY <1>8, <3>3 DEF RemoveRequest, CallFits
            <4>2. op.call.kind = "complete" /\ op.call.session = op.session
                BY <4>1
            <4> QED BY <3>1, <3>2, <3>3, <4>2 DEF ReplyFits, HasRecord
        <3>4. CASE op.then = "ok"
            <4>1. op.call.kind = "discard"
                BY <1>8, <3>4 DEF RemoveRequest, CallFits
            <4> QED BY <2>2, <3>4, <4>1, SilentAnswer
        <3>5. CASE op.then = "upload_expired"
            BY <2>2, <3>5, SilentAnswer DEF Silent
        <3>6. op.then \in {"create", "sweep"} => ReplyFits'
            BY <3>1 DEF ReplyFits
        <3> QED BY <1>8, <3>3, <3>4, <3>5, <3>6 DEF RemoveRequest, CallFits
    <2> QED BY <1>2, <1>8, <2>1, <2>2 DEF RemoveRequest
<1>9. CASE EndSweep
    <2>1. op.call.kind = "sweep"
        BY <1>9 DEF EndSweep, CallFits
    <2> QED BY <1>9, <2>1, SilentAnswer DEF EndSweep
<1>10. \A then, todo, s : ~Remove(op.call, s, ClientOf(s), then, todo)
    BY LockEffects DEF Free
<1>11. ~SweepSession /\ ~RemoveStaleRequest /\ ~RemoveFile
    <2>1. \A s : op' = [op EXCEPT !.todo = @ \ {s}] => op'.step = op.step
        BY <1>1 DEF TypeOK, Operation
    <2> QED BY <1>10, <2>1 DEF Free, SweepSession, RemoveStaleRequest, RemoveFile
<1>12. /\ ~MakeDirectory /\ ~SaveNewRecord /\ ~CreatePart /\ ~DropParts /\ ~StartArchive
       /\ ~CopyPart /\ ~UnlinkPart /\ ~CheckArchive /\ ~SaveComplete /\ ~RemoveDirectory
    BY <1>2, <1>10
       DEF MakeDirectory, SaveNewRecord, CreatePart, DropParts, StartArchive, CopyPart,
           UnlinkPart, CheckArchive, SaveComplete, RemoveDirectory
<1> QED BY <1>3, <1>4, <1>5, <1>6, <1>7, <1>8, <1>9, <1>11, <1>12
        DEF Step, CreateStep, ReceiveStep, AssembleStep, RemoveStep, SweepStep

-----------------------------------------------------------------------------
(* What the flow sends, and what it keeps *)

(* Every step of the flow is a step of the store, or leaves it alone. *)
LEMMA FlowRefines ==
    ASSUME WireFits, [FlowNext]_flowVars PROVE [Next]_vars
<1>1. ASSUME NEW m \in wire, Handle(m.call) PROVE Next
    <2>1. CASE m.call \in Creates
        <3>1. m.call.kind = "create" /\ m.call.request \in Requests
            BY <2>1 DEF Creates
        <3> QED BY <1>1, <3>1 DEF Handle, Next, Request
    <2>2. CASE /\ m.call \in Calls /\ m.call.kind # "sweep" /\ m.call \notin Creates
               /\ Born(m.call.session)
        <3>1. m.call.kind # "create"
            BY <2>2 DEF Calls, Creates, Receives
        <3>2. m.call.kind = "receive" => m.call.index \in Chunks /\ m.call.content \in Contents
            BY <2>2 DEF Calls, Creates, Receives
        <3> QED BY <1>1, <2>2, <3>1, <3>2 DEF Handle, Next, Request, Born
    <2> QED BY <2>1, <2>2 DEF WireFits, Known
<1>2. CASE Serve
    BY <1>1, <1>2 DEF Serve
<1>3. CASE Choose \/ Cancel \/ LoseAnswer \/ LeavePage \/ UNCHANGED flowVars
    BY <1>3 DEF Choose, Cancel, LoseAnswer, LeavePage, flowVars
<1>4. CASE Continue \/ Maintain \/ Pass
    BY <1>4 DEF Continue, Maintain, Pass, Next, Disturbance
<1> QED BY <1>2, <1>3, <1>4 DEF FlowNext

(* An identifier that was given out stays so. *)
LEMMA KnownStays ==
    ASSUME TypeOK, [Next]_vars
    PROVE  /\ \A s : Born(s) => s \in Sessions /\ fate'[s] # "unborn"
           /\ \A call : Known(call) => Known(call)'
<1>1. \A s : Born(s) => s \in Sessions /\ fate'[s] # "unborn"
    BY StillAlive DEF Born
<1> QED BY <1>1 DEF Known, Born

\* the steps of the flow that wait for an answer
Asks == {"reading", "creating", "sending", "completing", "abandoning"}

(* A request that fits the flow keeps the flow and the wire in order. *)
LEMMA AskFits ==
    ASSUME NEW f \in FlowType, NEW base, NEW n, NEW step \in Asks, NEW call \in Calls,
           Ask(base, n, step, call, f),
           \A m \in base : Known(m.call)', Known(call)',
           f.session # NoSession => f.session \in Sessions /\ fate'[f.session] # "unborn",
           f.received # {} => f.session # NoSession,
           step \in {"reading", "creating"} => f.session = NoSession /\ checked' = {},
           step = "reading" => call.kind = "read",
           step = "creating" => call.kind = "create",
           step = "sending" => call \in Receives,
           step = "completing" => call.kind = "complete",
           step \in {"sending", "completing"}
               => f.session # NoSession /\ call.session = f.session
    PROVE  /\ FlowFits' /\ WireFits'
           /\ flow'.step = step /\ flow'.session = f.session /\ flow'.received = f.received
<1>1. flow' = [f EXCEPT !.step = step, !.call = call]
    BY DEF Ask
<1>2. /\ flow' \in FlowType /\ flow'.step = step /\ flow'.call = call
      /\ flow'.session = f.session /\ flow'.received = f.received
    BY <1>1 DEF FlowType, Asks
<1>3. WireFits'
    <2>1. \A m \in wire' : m \in base \/ m.call = call
        BY DEF Ask
    <2> QED BY <2>1 DEF WireFits
<1>4. FlowFits'
    BY <1>2 DEF FlowFits, Born, Asks
<1> QED BY <1>2, <1>3, <1>4

\* resting, the flow has no session
LEMMA RestFits ==
    ASSUME NEW base, Rest(base), \A m \in base : Known(m.call)'
    PROVE  /\ FlowFits' /\ WireFits'
           /\ flow'.step = "idle" /\ flow'.session = NoSession /\ flow'.received = {}
<1>1. /\ Resting \in FlowType /\ Resting.step = "idle" /\ Resting.session = NoSession
      /\ Resting.received = {}
    BY DEF Resting, FlowType
<1> QED BY <1>1 DEF Rest, FlowFits, WireFits

LEMMA NewSessionFits ==
    ASSUME NEW base, NEW n, NewSession(base, n), \A m \in base : Known(m.call)',
           checked' = {}
    PROVE  /\ FlowFits' /\ WireFits'
           /\ flow'.step = "creating" /\ flow'.session = NoSession /\ flow'.received = {}
<1>1. PICK q \in Requests :
          Ask(base, n, "creating", [kind |-> "create", request |-> q], Resting)
    BY DEF NewSession
<1> DEFINE call == [kind |-> "create", request |-> q]
<1>2. call \in Creates /\ call \in Calls /\ call.kind = "create"
    BY DEF Creates, Calls
<1>3. Known(call)'
    BY <1>2 DEF Known
<1>4. Resting \in FlowType /\ Resting.session = NoSession /\ Resting.received = {}
    BY DEF Resting, FlowType
<1>5. Ask(base, n, "creating", call, Resting)
    BY <1>1
<1> HIDE DEF call
<1> QED BY <1>2, <1>3, <1>4, <1>5, AskFits DEF Asks

LEMMA ReadFits ==
    ASSUME NEW base, NEW n, NEW s \in Sessions, fate'[s] # "unborn",
           Ask(base, n, "reading", [kind |-> "read", session |-> s], Resting),
           \A m \in base : Known(m.call)', checked' = {}
    PROVE  /\ FlowFits' /\ WireFits'
           /\ flow'.step = "reading" /\ flow'.session = NoSession /\ flow'.received = {}
<1> DEFINE call == [kind |-> "read", session |-> s]
<1>2. call \in Calls /\ call.kind = "read" /\ call.session = s
    BY DEF Calls
<1>3. Known(call)'
    BY <1>2 DEF Known, Born
<1>4. Resting \in FlowType /\ Resting.session = NoSession /\ Resting.received = {}
    BY DEF Resting, FlowType
<1>5. Ask(base, n, "reading", call, Resting)
    OBVIOUS
<1> HIDE DEF call
<1> QED BY <1>2, <1>3, <1>4, <1>5, AskFits DEF Asks

(* A session is abandoned with what is known of it. *)
LEMMA AbandonFits ==
    ASSUME IndInv, FlowFits, [Next]_vars, NEW base, NEW s \in Sessions,
           fate'[s] # "unborn", Abandon(base, s), \A m \in base : Known(m.call)'
    PROVE  /\ FlowFits' /\ WireFits' /\ flow'.step = "abandoning"
           /\ flow'.session = flow.session /\ flow'.received = flow.received
<1> DEFINE call == [kind |-> "discard", session |-> s]
<1>2. call \in Calls /\ call.kind = "discard" /\ call.session = s
    BY DEF Calls
<1>3. Known(call)'
    BY <1>2 DEF Known, Born
<1>4. /\ flow \in FlowType
      /\ flow.session # NoSession
             => flow.session \in Sessions /\ fate'[flow.session] # "unborn"
      /\ flow.received # {} => flow.session # NoSession
    BY KnownStays DEF IndInv, FlowFits
<1>5. Ask(base, attempt, "abandoning", call, flow)
    BY DEF Abandon
<1> HIDE DEF call
<1> QED BY <1>2, <1>3, <1>4, <1>5, AskFits DEF Asks

(* The next part, or the completion, is asked for of the flow's session. *)
LEMMA NextPartFits ==
    ASSUME NEW base, NEW f \in FlowType, NextPart(base, f),
           f.session \in Sessions, fate'[f.session] # "unborn",
           \A m \in base : Known(m.call)'
    PROVE  /\ FlowFits' /\ WireFits' /\ flow'.step \in {"sending", "completing"}
           /\ flow'.session = f.session /\ flow'.received = f.received
<1>1. NoSession \notin Sessions
    BY RequestsAssumption
<1>2. CASE Ask(base, attempt, "completing", [kind |-> "complete", session |-> f.session], f)
    <2> DEFINE call == [kind |-> "complete", session |-> f.session]
    <2>1. call \in Calls /\ call.kind = "complete" /\ call.session = f.session
        BY DEF Calls
    <2>2. Known(call)'
        BY <2>1 DEF Known, Born
    <2>3. Ask(base, attempt, "completing", call, f)
        BY <1>2
    <2> HIDE DEF call
    <2> QED BY <1>1, <2>1, <2>2, <2>3, AskFits DEF Asks
<1>3. ASSUME NEW i \in Chunks, NEW c \in Contents,
             Ask(base, attempt, "sending",
                 [kind |-> "receive", session |-> f.session, index |-> i, content |-> c], f)
      PROVE  /\ FlowFits' /\ WireFits' /\ flow'.step \in {"sending", "completing"}
             /\ flow'.session = f.session /\ flow'.received = f.received
    <2> DEFINE call == [kind |-> "receive", session |-> f.session, index |-> i,
                        content |-> c]
    <2>1. call \in Receives /\ call.kind = "receive" /\ call.session = f.session
        BY DEF Receives
    <2>2. call \in Calls
        BY <2>1 DEF Calls
    <2>3. Known(call)'
        BY <2>1, <2>2 DEF Known, Born
    <2>4. Ask(base, attempt, "sending", call, f)
        BY <1>3
    <2> HIDE DEF call
    <2> QED BY <1>1, <2>1, <2>2, <2>3, <2>4, AskFits DEF Asks
<1> QED BY <1>2, <1>3, FlowAssumption DEF NextPart, FileParts

-----------------------------------------------------------------------------
(* What the flow may rely on *)

Promises == ReceivedStored /\ ChecksHold /\ DoneComplete

\* compared parts that may still be relied on, whatever the store just did
HeldOf(held) ==
    held \subseteq checked /\ (held = {} \/ ~(Assembles(flow.session) /\ Interrupt))

(* What the flow knows of its session stays true while it learns nothing. *)
LEMMA KeptPromises ==
    ASSUME FlowInv, [Next]_vars, FlowFits', HeldOf(checked'),
           flow'.session \in {flow.session, NoSession},
           flow'.received \subseteq flow.received
    PROVE  /\ ReceivedStored' /\ ChecksHold'
           /\ (flow'.step = "done" => flow.step = "done") => Promises'
<1>1. IndInv /\ TypeOK /\ FlowFits /\ ReceivedStored /\ ChecksHold /\ DoneComplete
    BY DEF FlowInv, IndInv
<1>2. NoSession \notin Sessions /\ FileContent \in Contents
    BY RequestsAssumption, FlowAssumption
<1>3. ASSUME NEW s \in Sessions, flow'.session = s, fate'[s] = "live"
      PROVE  flow.session = s /\ fate[s] = "live"
    <2>1. flow.session = s
        BY <1>2, <1>3
    <2>2. fate[s] # "unborn"
        BY <1>1, <1>2, <2>1 DEF FlowFits, Born
    <2> QED BY <1>1, <1>3, <2>1, <2>2, StillAlive
<1>4. ReceivedStored'
    <2> SUFFICES ASSUME NEW s \in Sessions, flow'.session = s, fate'[s] = "live",
                        NEW i \in flow'.received
                 PROVE  Stored(s, i)'
        BY DEF ReceivedStored
    <2>1. flow.session = s /\ fate[s] = "live" /\ Stored(s, i)
        BY <1>1, <1>3 DEF ReceivedStored
    <2>2. i \in Chunks
        BY <1>1, <2>1, RecordStays DEF Stored
    <2> QED BY <1>1, <2>1, <2>2, StoredStep
<1>5. ChecksHold'
    <2> SUFFICES ASSUME NEW s \in Sessions, CanDigest, flow'.session = s,
                        fate'[s] = "live", NEW i \in checked'
                 PROVE  Holds(s, i)'
        BY DEF ChecksHold
    <2>1. flow.session = s /\ fate[s] = "live"
        BY <1>3
    <2>2. Holds(s, i) /\ ~(Assembles(s) /\ Interrupt)
        BY <1>1, <2>1 DEF ChecksHold, HeldOf
    <2>3. i \in Chunks
        BY <1>1, <2>1, <2>2, RecordStays DEF Holds
    <2> QED BY <1>1, <1>2, <2>1, <2>2, <2>3, HoldsStep
<1>6. ASSUME flow'.step = "done" => flow.step = "done" PROVE DoneComplete'
    <2> SUFFICES ASSUME NEW s \in Sessions, flow'.step = "done", flow'.session = s,
                        fate'[s] = "live"
                 PROVE  record'[s] # NoRecord /\ record'[s].complete
        BY DEF DoneComplete, HasRecord
    <2>1. flow.session = s /\ fate[s] = "live" /\ HasRecord(s) /\ record[s].complete
        BY <1>1, <1>3, <1>6 DEF DoneComplete
    <2> QED BY <1>1, <2>1, RecordStays
<1> QED BY <1>4, <1>5, <1>6 DEF Promises

(* What the flow learns when it takes up a session: what the session lists. *)
LEMMA EnterPromises ==
    ASSUME FlowInv, [Next]_vars, ListedStored', NEW base, NEW s \in Sessions, NEW received,
           \A m \in base : Known(m.call)', fate'[s] # "unborn",
           flow.step \in {"reading", "creating"}, HeldOf(checked'),
           Enter(base, s, received), received \in SUBSET Chunks,
           received # {} => record'[s] # NoRecord /\ received \subseteq record'[s].received
    PROVE  FlowFits' /\ WireFits' /\ Promises'
<1>1. IndInv /\ FlowFits
    BY DEF FlowInv
<1>2. checked' = {} /\ flow.session = NoSession /\ flow \in FlowType
    BY <1>1 DEF FlowFits, HeldOf
<1>3. CASE flow.aborted
    <2>1. Abandon(base, s)
        BY <1>3 DEF Enter
    <2>2. /\ FlowFits' /\ WireFits' /\ flow'.step = "abandoning"
          /\ flow'.session = flow.session /\ flow'.received = flow.received
        BY <1>1, <2>1, AbandonFits
    <2>3. Promises'
        BY <2>2, KeptPromises
    <2> QED BY <2>2, <2>3
<1>4. CASE ~flow.aborted
    <2> DEFINE f == [flow EXCEPT !.session = s, !.received = received]
    <2>1. f \in FlowType /\ f.session = s /\ f.received = received
        BY <1>2 DEF FlowType
    <2>2. NextPart(base, f)
        BY <1>4 DEF Enter
    <2> HIDE DEF f
    <2>3. /\ FlowFits' /\ WireFits' /\ flow'.step \in {"sending", "completing"}
          /\ flow'.session = s /\ flow'.received = received
        BY <2>1, <2>2, NextPartFits
    <2>4. ReceivedStored'
        BY <2>3 DEF ListedStored, ReceivedStored, HasRecord
    <2>5. ChecksHold' /\ DoneComplete'
        BY <1>2, <2>3 DEF ChecksHold, DoneComplete
    <2> QED BY <2>3, <2>4, <2>5 DEF Promises
<1> QED BY <1>3, <1>4

\* a session that is over, or out of reach, is put aside
LEMMA RestPromises ==
    ASSUME FlowInv, [Next]_vars, NEW base, \A m \in base : Known(m.call)',
           Rest(base), HeldOf(checked')
    PROVE  FlowFits' /\ WireFits' /\ Promises'
<1>1. /\ FlowFits' /\ WireFits'
      /\ flow'.step = "idle" /\ flow'.session = NoSession /\ flow'.received = {}
    BY RestFits
<1> QED BY <1>1, KeptPromises

LEMMA AbandonPromises ==
    ASSUME FlowInv, [Next]_vars, NEW base, \A m \in base : Known(m.call)',
           flow.step \in {"sending", "completing"}, Abandon(base, flow.session),
           HeldOf(checked')
    PROVE  FlowFits' /\ WireFits' /\ Promises'
<1>1. IndInv /\ TypeOK /\ FlowFits
    BY DEF FlowInv, IndInv
<1>2. flow.session \in Sessions /\ fate'[flow.session] # "unborn"
    BY <1>1, KnownStays DEF FlowFits
<1>3. /\ FlowFits' /\ WireFits' /\ flow'.step = "abandoning"
      /\ flow'.session = flow.session /\ flow'.received = flow.received
    BY <1>1, <1>2, AbandonFits
<1> QED BY <1>3, KeptPromises

LEMMA NewSessionPromises ==
    ASSUME FlowInv, [Next]_vars, NEW base, NEW n, \A m \in base : Known(m.call)',
           NewSession(base, n), checked' = {}
    PROVE  FlowFits' /\ WireFits' /\ Promises'
<1>1. /\ FlowFits' /\ WireFits'
      /\ flow'.step = "creating" /\ flow'.session = NoSession /\ flow'.received = {}
    BY NewSessionFits
<1>2. HeldOf(checked')
    BY DEF HeldOf
<1> QED BY <1>1, <1>2, KeptPromises

-----------------------------------------------------------------------------
(* What the flow does with an answer *)

MemoryStays == memory' \in {memory, NoSession}

LEMMA MemoryKept ==
    ASSUME FlowInv, [Next]_vars, MemoryStays PROVE MemoryFits'
<1>1. TypeOK /\ MemoryFits
    BY DEF FlowInv, IndInv
<1> QED BY <1>1, KnownStays DEF MemoryStays, MemoryFits, Born

LEMMA RefusedPromises ==
    ASSUME FlowInv, [Next]_vars, NEW base, \A m \in base : Known(m.call)', NEW code,
           flow.step \in {"sending", "completing"}, Refused(base, code),
           HeldOf(checked')
    PROVE  FlowFits' /\ WireFits' /\ Promises' /\ MemoryStays
BY RestPromises, AbandonPromises DEF Refused, Forget, MemoryStays

LEMMA ReadingPromises ==
    ASSUME FlowInv, [Next]_vars, ListedStored', TypeOK', ReplyFits', NEW base,
           \A m \in base : Known(m.call)',
           flow.step = "reading", reply'.call = flow.call, HeldOf(checked'),
           Reading(base, reply'.code, reply'.session)
    PROVE  FlowFits' /\ WireFits' /\ Promises' /\ MemoryStays
<1>1. FlowFits /\ flow.call.kind = "read" /\ checked' = {}
    BY DEF FlowInv, FlowFits, HeldOf
<1> DEFINE s == reply'.session
           open == reply'.code = "ok" /\ ~record'[s].complete
           over == reply'.code \in Gone \/ (reply'.code = "ok" /\ record'[s].complete)
<1>2. CASE open /\ Enter(base, s, record'[s].received) /\ UNCHANGED memory
    <2>1. s \in Sessions /\ fate'[s] # "unborn" /\ record'[s] # NoRecord
        BY <1>1, <1>2 DEF ReplyFits, HasRecord
    <2>2. record'[s].received \in SUBSET Chunks
        BY <2>1 DEF TypeOK, RecordType
    <2>3. FlowFits' /\ WireFits' /\ Promises'
        BY <1>2, <2>1, <2>2, EnterPromises
    <2> QED BY <1>2, <2>3 DEF MemoryStays
<1>3. CASE over /\ Forget /\ (Rest(base) \/ NewSession(base, attempt))
    BY <1>1, <1>3, RestPromises, NewSessionPromises DEF Forget, MemoryStays
<1>4. CASE ~open /\ ~over /\ Rest(base) /\ UNCHANGED memory
    BY <1>4, RestPromises DEF MemoryStays
<1> QED BY <1>2, <1>3, <1>4 DEF Reading

LEMMA CreatingPromises ==
    ASSUME FlowInv, [Next]_vars, ListedStored', ReplyFits', NEW base,
           \A m \in base : Known(m.call)',
           flow.step = "creating", reply'.call = flow.call, HeldOf(checked'),
           Creating(base, reply'.code, reply'.session)
    PROVE  FlowFits' /\ WireFits' /\ Promises' /\ MemoryFits'
<1>1. flow.call.kind = "create"
    BY DEF FlowInv, FlowFits
<1> DEFINE s == reply'.session
<1>2. CASE reply'.code = "ok" /\ memory' = s /\ Enter(base, s, {})
    <2>1. s \in Sessions /\ fate'[s] # "unborn"
        BY <1>1, <1>2 DEF ReplyFits
    <2>2. FlowFits' /\ WireFits' /\ Promises'
        BY <1>2, <2>1, EnterPromises
    <2>3. MemoryFits'
        BY <1>2, <2>1 DEF MemoryFits, Born
    <2> QED BY <2>2, <2>3
<1>3. CASE Rest(base) /\ UNCHANGED memory
    <2>1. MemoryFits'
        BY <1>3, MemoryKept DEF MemoryStays
    <2> QED BY <1>3, <2>1, RestPromises
<1> QED BY <1>2, <1>3 DEF Creating

(* A part was stored, and compared if the browser can: it is the file's. *)
LEMMA SentPromises ==
    ASSUME FlowInv, [Next]_vars, TypeOK', ReplyFits', Free', NEW base, NEW held,
           \A m \in base : Known(m.call)', HeldOf(held),
           checked' = held \cup {flow.call.index},
           flow.step = "sending", reply'.call = flow.call, reply'.code = "ok",
           CanDigest => flow.call.content = FileContent,
           NextPart(base, [flow EXCEPT !.received = @ \cup {flow.call.index}])
    PROVE  FlowFits' /\ WireFits' /\ Promises'
<1>1. /\ IndInv /\ TypeOK /\ FlowFits /\ ReceivedStored /\ ChecksHold
      /\ flow \in FlowType
    BY DEF FlowInv, IndInv, FlowFits
<1>2. /\ flow.call \in Receives /\ flow.call.session = flow.session
      /\ flow.session \in Sessions /\ flow.call.index \in Chunks
      /\ flow.call.content \in Contents /\ flow.call.kind = "receive"
      /\ fate[flow.session] # "unborn" /\ fate'[flow.session] # "unborn"
    BY <1>1, KnownStays DEF FlowFits, Receives, Born
<1> DEFINE s == flow.session
           k == flow.call.index
           f == [flow EXCEPT !.received = @ \cup {k}]
<1>3. f \in FlowType /\ f.session = s /\ f.received = flow.received \cup {k}
    BY <1>1, <1>2 DEF FlowType
<1>4. NextPart(base, f)
    OBVIOUS
<1> HIDE DEF f
<1>5. /\ FlowFits' /\ WireFits' /\ flow'.step \in {"sending", "completing"}
      /\ flow'.session = s /\ flow'.received = flow.received \cup {k}
    BY <1>2, <1>3, <1>4, NextPartFits
<1>6. /\ record'[s] # NoRecord /\ ~record'[s].complete
      /\ k \in 1..record'[s].request.chunks
      /\ part'[s][k] = flow.call.content
    BY <1>2 DEF ReplyFits, HasRecord, ChunksOf
<1>7. ReceivedStored'
    <2> SUFFICES ASSUME NEW s1 \in Sessions, s1 = s, fate'[s1] = "live",
                        NEW i \in flow.received \cup {k}
                 PROVE  Stored(s1, i)'
        BY <1>5 DEF ReceivedStored
    <2>1. fate[s1] = "live"
        BY <1>1, <1>2, StillAlive
    <2>2. CASE i \in flow.received
        <3>1. Stored(s1, i) /\ i \in Chunks
            BY <1>1, <2>1, <2>2, RecordStays DEF ReceivedStored, Stored
        <3> QED BY <1>1, <2>1, <3>1, StoredStep
    <2>3. CASE i = k
        BY <1>2, <1>6, <2>3 DEF Stored, HasRecord, ChunksOf, Intact
    <2> QED BY <2>2, <2>3
<1>8. ChecksHold'
    <2> SUFFICES ASSUME NEW s1 \in Sessions, CanDigest, s1 = s, fate'[s1] = "live",
                        NEW i \in held \cup {k}
                 PROVE  Holds(s1, i)'
        BY <1>5 DEF ChecksHold
    <2>1. fate[s1] = "live"
        BY <1>1, <1>2, StillAlive
    <2>2. CASE i \in held
        <3>1. Holds(s1, i) /\ ~(Assembles(s1) /\ Interrupt)
            BY <1>1, <2>1, <2>2 DEF ChecksHold, HeldOf
        <3>2. i \in Chunks
            BY <1>1, <2>1, <3>1, RecordStays DEF Holds
        <3>3. FileContent \in Contents
            BY FlowAssumption
        <3> QED BY <1>1, <2>1, <3>1, <3>2, <3>3, HoldsStep
    <2>3. CASE i = k
        <3>1. part'[s1][i] = FileContent
            BY <1>6, <2>3
        <3>2. ~Assembles(s1)'
            BY DEF Free, Assembles
        <3> QED BY <1>6, <2>3, <3>1, <3>2 DEF Holds, HasRecord, ChunksOf
    <2> QED BY <2>2, <2>3
<1>9. DoneComplete'
    BY <1>5 DEF DoneComplete
<1> QED BY <1>5, <1>7, <1>8, <1>9 DEF Promises

LEMMA SendingPromises ==
    ASSUME FlowInv, [Next]_vars, TypeOK', ReplyFits', Free', NEW base, NEW held,
           \A m \in base : Known(m.call)', HeldOf(held), checked' = Compared(held),
           flow.step = "sending", reply'.call = flow.call,
           Sending(base, reply'.code)
    PROVE  FlowFits' /\ WireFits' /\ Promises' /\ MemoryStays
<1> DEFINE f == [flow EXCEPT !.received = @ \cup {flow.call.index}]
<1>1. /\ FlowFits /\ flow \in FlowType /\ flow.call.index \in Chunks
      /\ flow.session \in Sessions /\ fate'[flow.session] # "unborn"
    BY KnownStays DEF FlowInv, IndInv, FlowFits, Receives, Born
<1>2. CASE /\ reply'.code = "ok" /\ (CanDigest => flow.call.content = FileContent)
           /\ NextPart(base, f) /\ UNCHANGED memory
    <2>1. f \in FlowType /\ f.session = flow.session
        BY <1>1 DEF FlowType
    <2>2. flow'.step \in {"sending", "completing"}
        <3> HIDE DEF f
        <3> QED BY <1>1, <1>2, <2>1, NextPartFits
    <2>3. checked' = held \cup {flow.call.index}
        BY <2>2 DEF Compared
    <2>4. FlowFits' /\ WireFits' /\ Promises'
        BY <1>2, <2>3, SentPromises
    <2> QED BY <1>2, <2>4 DEF MemoryStays
<1>3. CASE Rest(base) /\ (Forget \/ UNCHANGED memory)
    <2>1. flow'.step = "idle"
        BY <1>3, RestFits
    <2>2. HeldOf(checked')
        BY <2>1 DEF Compared
    <2> QED BY <1>3, <2>2, RestPromises DEF Forget, MemoryStays
<1>4. CASE Abandon(base, flow.session) /\ UNCHANGED memory
    <2>1. flow'.step = "abandoning"
        BY <1>1, <1>4, AbandonFits DEF FlowInv
    <2>2. HeldOf(checked')
        BY <2>1 DEF Compared
    <2> QED BY <1>4, <2>2, AbandonPromises DEF MemoryStays
<1> QED BY <1>2, <1>3, <1>4 DEF Sending, Refused

LEMMA CompletingPromises ==
    ASSUME FlowInv, [Next]_vars, ReplyFits', NEW base, \A m \in base : Known(m.call)',
           HeldOf(checked'), flow.step = "completing", reply'.call = flow.call,
           Completing(base, reply'.code)
    PROVE  FlowFits' /\ WireFits' /\ Promises' /\ MemoryStays
<1>1. /\ IndInv /\ TypeOK /\ FlowFits /\ ReceivedStored /\ ChecksHold
      /\ flow \in FlowType
    BY DEF FlowInv, IndInv, FlowFits
<1>2. /\ flow.call.kind = "complete" /\ flow.call.session = flow.session
      /\ flow.session \in Sessions
      /\ fate[flow.session] # "unborn" /\ fate'[flow.session] # "unborn"
    BY <1>1, KnownStays DEF FlowFits, Born
<1>3. CASE /\ reply'.code = "ok" /\ wire' = base /\ Forget
           /\ flow' = [flow EXCEPT !.step = "done", !.call = NoCall]
    <2>1. /\ flow' \in FlowType /\ flow'.step = "done"
          /\ flow'.session = flow.session /\ flow'.received = flow.received
        BY <1>1, <1>3 DEF FlowType
    <2>2. FlowFits' /\ WireFits'
        BY <1>2, <1>3, <2>1, RequestsAssumption DEF FlowFits, WireFits, Born
    <2>3. record'[flow.session] # NoRecord /\ record'[flow.session].complete
        BY <1>2, <1>3 DEF ReplyFits, HasRecord
    <2>4. DoneComplete'
        BY <2>1, <2>3 DEF DoneComplete, HasRecord
    <2>5. ReceivedStored' /\ ChecksHold'
        BY <2>1, <2>2, KeptPromises
    <2> QED BY <1>3, <2>2, <2>4, <2>5 DEF Promises, Forget, MemoryStays
<1>4. CASE Abandon(base, flow.session) /\ UNCHANGED memory
    BY <1>4, AbandonPromises DEF MemoryStays
<1>5. CASE Refused(base, reply'.code)
    BY <1>5, RefusedPromises
<1> QED BY <1>3, <1>4, <1>5 DEF Completing

(* The store's side of the invariant. *)
LEMMA StoreSide ==
    ASSUME FlowInv, [Next]_vars
    PROVE  /\ IndInv' /\ TypeOK' /\ CallFits' /\ ListedStored'
           /\ \A m \in wire : Known(m.call)'
<1>1. IndInv' /\ TypeOK'
    BY IndInvStep DEF FlowInv, IndInv
<1>2. CallFits' /\ ListedStored'
    BY CallFitsStep, ListedStep DEF FlowInv
<1>3. \A m \in wire : Known(m.call)'
    BY KnownStays DEF FlowInv, IndInv, WireFits
<1> QED BY <1>1, <1>2, <1>3

\* while the flow takes no notice, it keeps what it has
LEMMA FlowUnmoved ==
    ASSUME FlowInv, [Next]_vars, UNCHANGED flow, HeldOf(checked')
    PROVE  FlowFits' /\ Promises'
<1>1. TypeOK /\ FlowFits
    BY DEF FlowInv, IndInv
<1>2. FlowFits'
    BY <1>1, KnownStays DEF FlowFits, Born, HeldOf
<1> QED BY <1>2, KeptPromises

(* A step of the store, with its answer if it makes one. *)
LEMMA RelayStep ==
    ASSUME FlowInv, [Next]_vars, NEW base, NEW n, NEW held, Relay(base, n, held),
           HeldOf(held), base \subseteq wire, Free' => ReplyFits'
    PROVE  FlowInv'
<1>1. /\ IndInv' /\ TypeOK' /\ CallFits' /\ ListedStored'
      /\ \A m \in base : Known(m.call)'
    BY StoreSide
<1>2. CASE /\ Free' /\ reply'.call = flow.call
           /\ React(base, reply'.code, reply'.session) /\ checked' = Compared(held)
    <2>1. ReplyFits'
        BY <1>2
    <2>2. flow.step # "sending" => HeldOf(checked')
        BY <1>2 DEF Compared
    <2>3. MemoryStays => MemoryFits'
        BY MemoryKept
    <2>4. FlowFits' /\ WireFits' /\ Promises' /\ MemoryFits'
        <3>1. CASE flow.step = "reading" /\ Reading(base, reply'.code, reply'.session)
            BY <1>1, <1>2, <2>1, <2>2, <2>3, <3>1, ReadingPromises
        <3>2. CASE flow.step = "creating" /\ Creating(base, reply'.code, reply'.session)
            BY <1>1, <1>2, <2>1, <2>2, <3>2, CreatingPromises
        <3>3. CASE flow.step = "sending" /\ Sending(base, reply'.code)
            BY <1>1, <1>2, <2>1, <2>3, <3>3, SendingPromises
        <3>4. CASE flow.step = "completing" /\ Completing(base, reply'.code)
            BY <1>1, <1>2, <2>1, <2>2, <2>3, <3>4, CompletingPromises
        <3>5. CASE flow.step = "abandoning" /\ Rest(base) /\ Forget
            <4>1. HeldOf(checked') /\ MemoryStays
                BY <2>2, <3>5 DEF Forget, MemoryStays
            <4> QED BY <1>1, <2>3, <3>5, <4>1, RestPromises
        <3> QED BY <1>2, <3>1, <3>2, <3>3, <3>4, <3>5 DEF React
    <2> QED BY <1>1, <2>4 DEF FlowInv, Promises
<1>3. CASE wire' = base /\ checked' = held /\ UNCHANGED <<memory, flow>>
    <2>1. FlowFits' /\ Promises'
        BY <1>3, FlowUnmoved
    <2>2. WireFits' /\ MemoryFits'
        BY <1>1, <1>3, MemoryKept DEF WireFits, MemoryStays
    <2> QED BY <1>1, <2>1, <2>2 DEF FlowInv, Promises
<1> QED BY <1>2, <1>3 DEF Relay

\* only an interruption interrupts
LEMMA NoInterruption ==
    ASSUME TypeOK,
           \/ Step \/ UNCHANGED vars \/ Sweep \/ (\E s \in Sessions : Expire(s))
           \/ \E call : Handle(call)
    PROVE  HeldOf(checked)
<1>1. Interrupt => interruptions' # interruptions
    BY RequestsAssumption DEF Interrupt, TypeOK
<1>2. UNCHANGED outside => ~Interrupt
    BY <1>1 DEF outside
<1>3. Step => UNCHANGED outside
    BY DEF Step, CreateStep, ReceiveStep, AssembleStep, RemoveStep, SweepStep,
           MakeDirectory, SaveNewRecord, WriteRequest, CreatePart, WritePart,
           SaveReceived, DropParts, SavePresent, StartArchive, CopyPart, UnlinkPart,
           CheckArchive, SaveComplete, RemoveChunks, RemoveFile, RemoveDirectory,
           RemoveRequest, SweepSession, RemoveStaleRequest, EndSweep
<1>4. \A call : Handle(call) => UNCHANGED outside
    BY RequestEffects DEF Handle
<1>5. (\E s \in Sessions : Expire(s)) \/ UNCHANGED vars => ~Interrupt
    BY <1>1 DEF Expire, vars
<1> QED BY <1>2, <1>3, <1>4, <1>5, RequestEffects DEF HeldOf

LEMMA FlowInvInit == FlowInit => FlowInv
<1> SUFFICES ASSUME FlowInit PROVE FlowInv
    OBVIOUS
<1>1. IndInv
    BY IndInvInit DEF FlowInit
<1>2. CallFits
    BY DEF FlowInit, Init, NoOp, CallFits
<1>3. flow \in FlowType /\ flow.step = "idle" /\ flow.session = NoSession
      /\ flow.received = {}
    BY DEF FlowInit, Resting, FlowType
<1>4. WireFits /\ MemoryFits /\ FlowFits
    BY <1>3 DEF FlowInit, WireFits, MemoryFits, FlowFits
<1>5. ListedStored
    BY DEF FlowInit, Init, ListedStored, HasRecord
<1>6. ReceivedStored /\ ChecksHold /\ DoneComplete
    BY <1>3, RequestsAssumption DEF ReceivedStored, ChecksHold, DoneComplete
<1> QED BY <1>1, <1>2, <1>4, <1>5, <1>6 DEF FlowInv

(* The flow's invariant is kept by every step: of the browser, of the      *)
(* store, and of time.                                                     *)
LEMMA FlowInvStep == ASSUME FlowInv, [FlowNext]_flowVars PROVE FlowInv'
<1>1. /\ IndInv /\ TypeOK /\ CallFits /\ WireFits /\ MemoryFits /\ FlowFits
      /\ flow \in FlowType
    BY DEF FlowInv, IndInv, FlowFits
<1>2. [Next]_vars
    BY FlowRefines DEF FlowInv
<1>3. /\ IndInv' /\ TypeOK' /\ CallFits' /\ ListedStored'
      /\ \A m \in wire : Known(m.call)'
    BY <1>2, StoreSide
<1>4. ASSUME FlowFits', WireFits', Promises', MemoryStays PROVE FlowInv'
    BY <1>2, <1>3, <1>4, MemoryKept DEF FlowInv, Promises
<1>5. CASE Choose
    <2>1. checked' = {} /\ MemoryStays /\ HeldOf(checked')
        BY <1>5 DEF Choose, MemoryStays, HeldOf
    <2>2. CASE /\ memory # NoSession
               /\ Ask(wire, attempt + 1, "reading",
                      [kind |-> "read", session |-> memory], Resting)
        <3>1. memory \in Sessions /\ fate'[memory] # "unborn"
            BY <1>1, <1>2, <2>2, KnownStays DEF MemoryFits
        <3>2. /\ FlowFits' /\ WireFits' /\ flow'.step = "reading"
              /\ flow'.session = NoSession /\ flow'.received = {}
            BY <1>3, <2>1, <2>2, <3>1, ReadFits
        <3> QED BY <1>2, <1>4, <2>1, <3>2, KeptPromises
    <2>3. CASE NewSession(wire, attempt + 1)
        <3>1. FlowFits' /\ WireFits' /\ Promises'
            BY <1>2, <1>3, <2>1, <2>3, NewSessionPromises
        <3> QED BY <1>4, <2>1, <3>1
    <2> QED BY <1>5, <2>2, <2>3 DEF Choose
<1>6. CASE Cancel
    <2>1. checked' = checked /\ MemoryStays /\ HeldOf(checked')
        BY <1>1, <1>6, NoInterruption DEF Cancel, MemoryStays
    <2>2. CASE flow.step = "sending" /\ Abandon(wire, flow.session)
        <3>1. FlowFits' /\ WireFits' /\ Promises'
            BY <1>2, <1>3, <2>1, <2>2, AbandonPromises
        <3> QED BY <1>4, <2>1, <3>1
    <2>3. CASE wire' = wire /\ flow' = [flow EXCEPT !.aborted = TRUE]
        <3>1. /\ flow' \in FlowType /\ flow'.step = flow.step /\ flow'.call = flow.call
              /\ flow'.session = flow.session /\ flow'.received = flow.received
            BY <1>1, <2>3 DEF FlowType
        <3>2. FlowFits'
            BY <1>1, <1>2, <2>1, <3>1, KnownStays DEF FlowFits, Born
        <3>3. WireFits'
            BY <1>3, <2>3 DEF WireFits
        <3>4. Promises'
            BY <1>2, <2>1, <3>1, <3>2, KeptPromises
        <3> QED BY <1>4, <2>1, <3>2, <3>3, <3>4
    <2> QED BY <1>6, <2>2, <2>3 DEF Cancel
<1>7. CASE LoseAnswer
    <2>1. checked' = checked /\ MemoryStays /\ HeldOf(checked')
        BY <1>1, <1>7, NoInterruption DEF LoseAnswer, Forget, MemoryStays
    <2>2. \/ Rest(wire)
          \/ flow.step = "completing" /\ Abandon(wire, flow.session)
        BY <1>7 DEF LoseAnswer
    <2>3. FlowFits' /\ WireFits' /\ Promises'
        BY <1>2, <1>3, <2>1, <2>2, RestPromises, AbandonPromises
    <2> QED BY <1>4, <2>1, <2>3
<1>8. CASE LeavePage
    <2>1. checked' = checked /\ MemoryStays /\ HeldOf(checked') /\ Rest(wire)
        BY <1>1, <1>8, NoInterruption DEF LeavePage, MemoryStays
    <2>2. FlowFits' /\ WireFits' /\ Promises'
        BY <1>2, <1>3, <2>1, RestPromises
    <2> QED BY <1>4, <2>1, <2>2
<1>9. CASE Serve
    <2>1. PICK m \in wire : Handle(m.call) /\ Relay(wire \ {m}, m.attempt, checked)
        BY <1>9 DEF Serve
    <2>2. m.call \in Calls
        BY <1>1, <2>1 DEF WireFits, Known, Calls
    <2>3. Free' => ReplyFits'
        BY <1>1, <2>1, <2>2, RequestAnswer
    <2>4. HeldOf(checked)
        BY <1>1, <2>1, NoInterruption
    <2> QED BY <1>2, <2>1, <2>3, <2>4, RelayStep
<1>10. CASE Continue
    <2>1. Free' => ReplyFits'
        BY <1>1, <1>10, StepAnswer DEF Continue
    <2>2. CASE Step /\ Relay(wire, caller, checked)
        <3>1. HeldOf(checked)
            BY <1>1, <2>2, NoInterruption
        <3> QED BY <1>2, <2>1, <2>2, <3>1, RelayStep
    <2>3. CASE Relay(wire, caller, IF Assembles(flow.session) THEN {} ELSE checked)
        <3>1. HeldOf(IF Assembles(flow.session) THEN {} ELSE checked)
            BY DEF HeldOf
        <3> QED BY <1>2, <2>1, <2>3, <3>1, RelayStep
    <2> QED BY <1>10, <2>2, <2>3 DEF Continue
<1>11. CASE Maintain \/ Pass \/ UNCHANGED flowVars
    <2>1. UNCHANGED browser /\ UNCHANGED wire
        BY <1>11 DEF Maintain, Pass, flowVars, browser
    <2>2. Sweep \/ (\E s \in Sessions : Expire(s)) \/ UNCHANGED vars
        BY <1>11 DEF Maintain, Pass, flowVars
    <2>3. checked' = checked /\ MemoryStays /\ flow' = flow /\ HeldOf(checked')
        BY <1>1, <2>1, <2>2, NoInterruption DEF browser, MemoryStays
    <2>4. FlowFits' /\ Promises'
        BY <1>2, <2>3, FlowUnmoved
    <2>5. WireFits'
        BY <1>3, <2>1 DEF WireFits
    <2> QED BY <1>4, <2>3, <2>4, <2>5
<1> QED BY <1>5, <1>6, <1>7, <1>8, <1>9, <1>10, <1>11 DEF FlowNext

-----------------------------------------------------------------------------
(* Theorems *)

(* In every reachable state the flow and the store keep their invariant.   *)
THEOREM FlowInductive == FlowSpec => []FlowInv
<1>1. FlowInv /\ [FlowNext]_flowVars => FlowInv'
    BY FlowInvStep
<1> QED BY <1>1, FlowInvInit, PTL DEF FlowSpec

(* Whatever the flow does not send again is in the backend's files, over   *)
(* lost answers, reloads, late messages and interruptions                  *)
(* (dataset_upload_flow.ts, the loop over the parts).                      *)
THEOREM SkippedStored == FlowSpec => []SkippedPartsStored
<1>1. FlowInv => SkippedPartsStored
    <2> SUFFICES ASSUME FlowInv, NEW i \in flow.received, fate[flow.session] = "live"
                 PROVE  Intact(flow.session, i) \/ i \in DOMAIN archive[flow.session]
        BY DEF SkippedPartsStored
    <2>1. flow.session \in Sessions
        BY DEF FlowInv, FlowFits, Born
    <2> QED BY <2>1 DEF FlowInv, ReceivedStored, Stored
<1> QED BY <1>1, FlowInductive, PTL

(* An upload reported as done holds the file at every part that this       *)
(* attempt compared (send_part), if no interrupted assembly consumed the   *)
(* part meanwhile.                                                         *)
THEOREM CheckedAreTheFile == FlowSpec => []CheckedPartsAreTheFile
<1>1. FlowInv => CheckedPartsAreTheFile
    <2> SUFFICES ASSUME FlowInv, flow.step = "done", CanDigest,
                        fate[flow.session] = "live", NEW i \in checked
                 PROVE  archive[flow.session][i] = FileContent
        BY DEF CheckedPartsAreTheFile
    <2>1. flow.session \in Sessions
        BY DEF FlowInv, FlowFits, Born
    <2>2. Holds(flow.session, i) /\ record[flow.session].complete
        BY <2>1 DEF FlowInv, ChecksHold, DoneComplete
    <2> QED BY <2>2 DEF Holds
<1> QED BY <1>1, FlowInductive, PTL

(* The flow abandons a session because of a refusal only if that session   *)
(* cannot be finished, or the refused part was damaged on its way          *)
(* (ends_session).                                                         *)
THEOREM GivenUpForGood == FlowSpec => GivenUpCannotFinish
<1> DEFINE GivesUp ==
               /\ flow.step \in {"sending", "completing"} /\ ~flow.aborted
               /\ flow'.step = "abandoning" /\ flow' # flow /\ Free'
               /\ reply'.call = flow.call /\ reply' # reply
               /\ reply'.code \notin {"ok", "upload_incomplete"}
           Justified == \/ ~Finishable(flow.session)'
                        \/ flow.call.kind = "receive" /\ flow.call.content # FileContent
<1>1. ASSUME FlowInv, FlowNext, GivesUp PROVE Justified
    <2>1. IndInv /\ CallFits /\ WireFits /\ FlowFits
        BY <1>1 DEF FlowInv
    <2>2. reply' # reply
        BY <1>1
    <2>3. Serve \/ Continue
        BY <1>1, <2>2 DEF FlowNext, Choose, Cancel, LoseAnswer, LeavePage, Maintain, Pass,
                          browser, vars
    <2>4. ReplyFits'
        <3>1. CASE Serve
            <4>1. PICK m \in wire : Handle(m.call)
                BY <3>1 DEF Serve
            <4>2. m.call \in Calls
                BY <2>1, <4>1 DEF WireFits, Known, Calls
            <4> QED BY <1>1, <2>1, <4>1, <4>2, RequestAnswer
        <3>2. CASE Continue
            BY <1>1, <2>1, <3>2, StepAnswer DEF Continue
        <3> QED BY <2>3, <3>1, <3>2
    <2>5. /\ EndsSession(reply'.code)
          /\ \E base : Abandon(base, flow.session)
        <3>1. PICK base, n, held : Relay(base, n, held)
            BY <2>3 DEF Serve, Continue
        <3>2. React(base, reply'.code, reply'.session)
            BY <1>1, <3>1 DEF Relay
        <3>3. Refused(base, reply'.code)
            BY <1>1, <3>2 DEF React, Sending, Completing
        <3>4. ~Rest(base)
            BY <1>1 DEF Rest, Resting
        <3> QED BY <3>3, <3>4 DEF Refused
    <2>6. flow'.session = flow.session
        <3>1. flow \in FlowType
            BY <2>1 DEF FlowFits
        <3> QED BY <2>5, <3>1 DEF Abandon, Ask, FlowType
    <2>7. /\ flow.call.session = flow.session
          /\ \/ flow.call.kind = "complete"
             \/ /\ flow.call.kind = "receive" /\ flow.call.index \in FileParts
                /\ flow.call.content \in Contents
        BY <1>1, <2>1 DEF FlowFits, Receives, FileParts
    <2>8. reply'.code \in {"request_identifier_conflict", "upload_already_complete",
                          "upload_chunk_mismatch", "upload_checksum_mismatch",
                          "upload_not_archive"}
        <3>1. [Next]_vars
            BY <1>1, FlowRefines DEF FlowInv
        <3>2. reply'.code \in Codes
            BY <1>1, <3>1, StoreSide DEF TypeOK, Reply
        <3> QED BY <1>1, <2>5, <3>2 DEF EndsSession, Gone, Transient, Codes
    <2>9. reply'.code # "request_identifier_conflict"
        BY <1>1, <2>4, <2>7 DEF ReplyFits
    <2>10. CASE reply'.code = "upload_already_complete"
        <3>1. record'[flow'.session].complete
            BY <1>1, <2>4, <2>6, <2>7, <2>10 DEF ReplyFits
        <3> QED BY <3>1 DEF Finishable
    <2>11. CASE reply'.code = "upload_chunk_mismatch"
        <3>1. /\ flow.call.kind = "receive"
              /\ part'[flow'.session][flow.call.index] \in Contents
              /\ part'[flow'.session][flow.call.index] # flow.call.content
            BY <1>1, <2>4, <2>6, <2>7, <2>11 DEF ReplyFits, Intact
        <3>2. CASE flow.call.content = FileContent
            <4>1. flow.call.index \in FileParts
                BY <2>7, <3>1
            <4> QED BY <3>1, <3>2, <4>1 DEF Finishable, Intact
        <3> QED BY <3>1, <3>2
    <2>12. CASE reply'.code \in {"upload_checksum_mismatch", "upload_not_archive"}
        <3>1. record'[flow'.session] = NoRecord
            BY <1>1, <2>4, <2>6, <2>7, <2>12 DEF ReplyFits, HasRecord
        <3> QED BY <3>1 DEF Finishable, Loads, HasRecord
    <2> QED BY <2>8, <2>9, <2>10, <2>11, <2>12
<1>2. ASSUME FlowInv, [FlowNext]_flowVars, GivesUp PROVE Justified
    BY <1>1, <1>2 DEF flowVars, browser, vars
<1>3. FlowInv /\ [FlowNext]_flowVars =>
          [flow.step \in {"sending", "completing"} /\ ~flow.aborted
               /\ flow'.step = "abandoning" /\ flow' # flow /\ Free'
               /\ reply'.call = flow.call /\ reply' # reply
               /\ reply'.code \notin {"ok", "upload_incomplete"}
               => \/ ~Finishable(flow.session)'
                  \/ flow.call.kind = "receive" /\ flow.call.content # FileContent
          ]_flowVars
    BY <1>2
<1> QED BY <1>3, FlowInductive, PTL DEF FlowSpec, GivenUpCannotFinish
=============================================================================
