------------------------ MODULE UploadSessionProofs ------------------------
(***************************************************************************)
(* TLAPS proofs of the safety of the upload store, for every set of        *)
(* sessions, requests and contents and for every capacity, and that it     *)
(* implements AbstractUploads.                                             *)
(***************************************************************************)
EXTENDS UploadSessionProperties, SequenceTheorems, FiniteSetTheorems, TLAPS

\* the list of an assembly's steps is read through everywhere
USE DEF AssembleSteps

(* The parts of a request are parts, and chunk numbers are positive numbers. *)
LEMMA ChunkNumbers ==
    /\ Chunks \subseteq Nat \ {0}
    /\ \A q \in Requests : 1..q.chunks \subseteq Chunks
    /\ \A n \in Chunks : 1..n \subseteq Chunks
BY RequestsAssumption DEF Chunks

(* An archive is a sequence of contents that is no longer than a request's. *)
LEMMA ArchiveIsSequence ==
    ASSUME NEW a \in Archives
    PROVE  /\ a \in Seq(Contents)
           /\ Len(a) \in {0} \cup Chunks
           /\ DOMAIN a = 1..Len(a)
<1>1. PICK n \in {0} \cup Chunks : a \in [1..n -> Contents]
    BY DEF Archives
<1>2. n \in Nat
    BY ChunkNumbers
<1>3. Len(a) = n
    BY <1>1, <1>2
<1> QED BY <1>1, <1>2, <1>3

(* A missing or new archive holds no parts and is still an archive. *)
LEMMA EmptyArchive == <<>> \in Archives
BY DEF Archives

(* Appending a part to an archive makes one that is a part longer. *)
LEMMA LongerArchive ==
    ASSUME NEW a \in Archives, NEW c \in Contents, Len(a) + 1 \in Chunks
    PROVE  /\ Append(a, c) \in Archives
           /\ Len(Append(a, c)) = Len(a) + 1
<1>1. a \in Seq(Contents) /\ Len(a) \in Nat
    BY ArchiveIsSequence, ChunkNumbers
<1>2. Append(a, c) \in Seq(Contents) /\ Len(Append(a, c)) = Len(a) + 1
    BY <1>1
<1>3. Append(a, c) \in [1..(Len(a) + 1) -> Contents]
    BY <1>1, <1>2, LenProperties
<1> QED BY <1>2, <1>3 DEF Archives

-----------------------------------------------------------------------------
(* Taking, keeping and giving back the lock *)

(* An answer frees the lock and is well typed. *)
LEMMA AnswerType ==
    ASSUME NEW call \in Calls \cup {NoCall}, NEW code \in Codes,
           NEW s \in Sessions \cup {NoSession}, Answer(call, code, s)
    PROVE  op' \in Operation /\ reply' \in Reply
BY DEF Answer, NoOp, Operation, Reply, Codes, StepNames

(* An operation that takes the lock at a step is well typed. *)
LEMMA BeginType ==
    ASSUME NEW call \in Calls, NEW step \in StepNames,
           NEW s \in Sessions \cup {NoSession}, Begin(call, step, s)
    PROVE  op' \in Operation /\ reply' \in Reply
BY DEF Begin, NoOp, NoReply, Operation, Reply, Codes

(* The holder of the lock stays well typed on its way from step to step. *)
LEMMA GotoType ==
    ASSUME op \in Operation, NEW step \in StepNames, Goto(step)
    PROVE  op' \in Operation
BY DEF Goto, Operation

(* The start of a removal is well typed, and only changes the fate. *)
LEMMA RemoveType ==
    ASSUME TypeOK, NEW call \in Calls \cup {NoCall}, NEW s \in Sessions,
           NEW then \in Codes \cup {"create", "sweep"}, NEW todo \in SUBSET Sessions,
           Remove(call, s, ClientOf(s), then, todo)
    PROVE  /\ op' \in Operation /\ reply' \in Reply
           /\ fate' \in [Sessions -> {"unborn", "live", "doomed"}]
<1>1. ClientOf(s) \in Clients \cup {NoSession}
    BY DEF ClientOf, TypeOK, HasRecord, RecordType, Clients
<1> QED BY <1>1 DEF Remove, TypeOK, Operation, Reply, NoReply, Codes, StepNames

(* So is the refusal of a session that is absent or past its lifetime. *)
LEMMA RefuseType ==
    ASSUME TypeOK, NEW call \in Calls, NEW s \in Sessions, Refuse(call, s)
    PROVE  /\ op' \in Operation /\ reply' \in Reply
           /\ fate' \in [Sessions -> {"unborn", "live", "doomed"}]
<1>1. CASE Remove(call, s, ClientOf(s), "upload_expired", {})
    BY <1>1, RemoveType DEF Codes
<1>2. CASE Answer(call, "upload_not_found", s) /\ UNCHANGED fate
    BY <1>2, AnswerType DEF Codes, TypeOK
<1> QED BY <1>1, <1>2 DEF Refuse

(* So is the choice of an identifier for a new session. *)
LEMMA OpenType ==
    ASSUME TypeOK, NEW call \in Creates, Open(call)
    PROVE  /\ op' \in Operation /\ reply' \in Reply
           /\ fate' \in [Sessions -> {"unborn", "live", "doomed"}]
<1> call \in Calls
    BY DEF Calls
<1>1. CASE Answer(call, "upload_storage_full", NoSession) /\ UNCHANGED fate
    BY <1>1, AnswerType DEF Codes, TypeOK
<1>2. CASE \E s \in Unborn : /\ Begin(call, "directory", s)
                             /\ fate' = [fate EXCEPT ![s] = "live"]
    <2>1. PICK s \in Sessions : /\ Begin(call, "directory", s)
                                /\ fate' = [fate EXCEPT ![s] = "live"]
        BY <1>2 DEF Unborn
    <2>2. op' \in Operation /\ reply' \in Reply
        BY <2>1, BeginType DEF StepNames
    <2> QED BY <2>1, <2>2 DEF TypeOK
<1> QED BY <1>1, <1>2 DEF Open

-----------------------------------------------------------------------------
(* Types: what an update of a file, of the record and of the history needs *)

(* The initial state has every type. *)
LEMMA TypeInit == Init => TypeOK
<1> SUFFICES ASSUME Init PROVE TypeOK
    OBVIOUS
<1>1. archive \in [Sessions -> Archives]
    BY EmptyArchive DEF Init
<1>2. reader \in Reader
    BY EmptyArchive DEF Init, NoReader, Reader
<1>3. op \in Operation /\ reply \in Reply
    BY DEF Init, NoOp, NoReply, Operation, Reply, StepNames, Codes
<1>4. 0 \in 0..MaxInterruptions
    BY RequestsAssumption
<1> QED BY <1>1, <1>2, <1>3, <1>4 DEF Init, TypeOK, Parts

FilesType ==
    /\ dirs \subseteq Sessions
    /\ record \in [Sessions -> RecordType \cup {NoRecord}]
    /\ part \in [Sessions -> [Chunks -> Parts]]
    /\ archive \in [Sessions -> Archives]
    /\ pointer \in [Clients -> Sessions \cup {NoSession}]

LockType ==
    /\ op \in Operation /\ reply \in Reply
    /\ fate \in [Sessions -> {"unborn", "live", "doomed"}]

OutsideType ==
    /\ expired \subseteq Sessions
    /\ reader \in Reader
    /\ interruptions \in 0..MaxInterruptions

HistoryType ==
    /\ answered \in [Clients -> Sessions \cup {NoSession}]
    /\ acked \in [Sessions -> [Chunks -> Contents \cup {Absent}]]

(* The type invariant from its four groups of variables. *)
LEMMA TypeParts ==
    ASSUME FilesType', LockType', OutsideType', HistoryType' PROVE TypeOK'
BY DEF TypeOK, FilesType, LockType, OutsideType, HistoryType

(* A group of variables that a step leaves alone keeps its types. *)
LEMMA UnchangedTypes ==
    ASSUME TypeOK
    PROVE  /\ UNCHANGED files => FilesType'
           /\ UNCHANGED <<op, reply, fate>> => LockType'
           /\ UNCHANGED outside => OutsideType'
           /\ UNCHANGED history => HistoryType'
BY DEF TypeOK, FilesType, LockType, OutsideType, HistoryType, files, outside, history

(* An acknowledgement keeps the history well typed. *)
LEMMA AcknowledgedType ==
    ASSUME TypeOK, NEW s \in Sessions, NEW i \in Chunks, NEW c \in Contents,
           AcknowledgePart(s, i, c)
    PROVE  acked' \in [Sessions -> [Chunks -> Contents \cup {Absent}]]
BY DEF TypeOK, AcknowledgePart

(* The updates of session.json that the operations make keep it well       *)
(* typed.                                                                  *)
LEMMA RecordChanges ==
    ASSUME TypeOK, NEW s \in Sessions, HasRecord(s)
    PROVE  /\ record[s] \in RecordType /\ ChunksOf(s) \subseteq Chunks
           /\ \A i \in Chunks :
                  [record EXCEPT ![s].received = @ \cup {i}]
                      \in [Sessions -> RecordType \cup {NoRecord}]
           /\ \A r \in SUBSET Chunks :
                  [record EXCEPT ![s].received = r]
                      \in [Sessions -> RecordType \cup {NoRecord}]
           /\ \A a \in Archives :
                  [record EXCEPT ![s].complete = TRUE, ![s].digest = a]
                      \in [Sessions -> RecordType \cup {NoRecord}]
<1>1. record[s] \in RecordType
    BY DEF TypeOK, HasRecord
<1>2. ChunksOf(s) \subseteq Chunks
    BY <1>1, ChunkNumbers DEF ChunksOf, RecordType
<1>3. ASSUME NEW n \in RecordType
      PROVE  [record EXCEPT ![s] = n] \in [Sessions -> RecordType \cup {NoRecord}]
    BY DEF TypeOK
<1>4. ASSUME NEW r \in SUBSET Chunks
      PROVE  [record[s] EXCEPT !.received = r] \in RecordType
    BY <1>1 DEF RecordType
<1>5. ASSUME NEW a \in Archives
      PROVE  [record[s] EXCEPT !.complete = TRUE, !.digest = a] \in RecordType
    BY <1>1 DEF RecordType
<1>6. ASSUME NEW i \in Chunks
      PROVE  record[s].received \cup {i} \in SUBSET Chunks
    BY <1>1 DEF RecordType
<1> QED BY <1>1, <1>2, <1>3, <1>4, <1>5, <1>6

\* the operations that a request begins
LEMMA CreateType ==
    ASSUME TypeOK, NEW q \in Requests, Create(q) PROVE TypeOK'
<1> DEFINE call == [kind |-> "create", request |-> q]
           known == pointer[q.client]
<1>1. call \in Creates /\ call \in Calls /\ q.client \in Clients
    BY DEF Creates, Calls, Clients
<1>2. known # NoSession => known \in Sessions
    BY <1>1 DEF TypeOK
<1>3. FilesType' /\ OutsideType'
    BY UnchangedTypes DEF Create
<1>4. LockType' /\ HistoryType'
    <2>1. CASE /\ known # NoSession
               /\ Answer(call, "ok", known) /\ Acknowledge(q, known)
               /\ UNCHANGED <<fate, acked>>
        BY <2>1, <1>1, <1>2, AnswerType
           DEF LockType, HistoryType, TypeOK, Acknowledge, Codes
    <2>2. CASE /\ Answer(call, "request_identifier_conflict", NoSession)
               /\ UNCHANGED <<fate, answered, acked>>
        BY <2>2, <1>1, AnswerType DEF LockType, HistoryType, TypeOK, Codes
    <2>3. CASE /\ known # NoSession
               /\ Remove(call, known, ClientOf(known), "create", {})
               /\ UNCHANGED <<answered, acked>>
        <3>1. LockType'
            BY <2>3, <1>1, <1>2, RemoveType DEF LockType
        <3> QED BY <3>1, <2>3 DEF HistoryType, TypeOK
    <2>4. CASE Open(call) /\ UNCHANGED <<answered, acked>>
        BY <2>4, <1>1, OpenType DEF LockType, HistoryType, TypeOK
    <2> QED BY <2>1, <2>2, <2>3, <2>4 DEF Create
<1> QED BY <1>3, <1>4, TypeParts

(* A part that arrives keeps the types. *)
LEMMA ReceiveType ==
    ASSUME TypeOK, NEW s \in Sessions, NEW i \in Chunks, NEW c \in Contents,
           Receive(s, i, c)
    PROVE  TypeOK'
<1> DEFINE call == [kind |-> "receive", session |-> s, index |-> i, content |-> c]
<1>1. call \in Calls
    BY DEF Calls, Receives
<1>2. FilesType' /\ OutsideType'
    BY UnchangedTypes DEF Receive
<1>3. LockType' /\ HistoryType'
    <2>1. CASE Refuse(call, s) /\ UNCHANGED history
        BY <2>1, <1>1, RefuseType, UnchangedTypes DEF LockType
    <2>2. CASE /\ \E code \in Codes : Answer(call, code, s)
               /\ UNCHANGED fate /\ UNCHANGED answered
               /\ acked' = acked \/ AcknowledgePart(s, i, c)
        <3>1. LockType'
            BY <2>2, <1>1, AnswerType DEF LockType, TypeOK
        <3> QED BY <3>1, <2>2, AcknowledgedType DEF HistoryType, TypeOK
    <2>3. CASE /\ \E step \in StepNames : Begin(call, step, s)
               /\ UNCHANGED <<fate, answered, acked>>
        BY <2>3, <1>1, BeginType DEF LockType, HistoryType, TypeOK
    <2> QED BY <2>1, <2>2, <2>3 DEF Receive, Codes, StepNames, history
<1> QED BY <1>2, <1>3, TypeParts

(* A read, a completion or a discard keeps the types. *)
LEMMA SessionCallType ==
    ASSUME TypeOK, NEW s \in Sessions, Read(s) \/ Complete(s) \/ Discard(s)
    PROVE  TypeOK'
<1> DEFINE call(kind) == [kind |-> kind, session |-> s]
<1>1. \A kind \in {"read", "complete", "discard"} : call(kind) \in Calls
    BY DEF Calls
<1>2. FilesType' /\ OutsideType' /\ HistoryType'
    BY UnchangedTypes DEF Read, Complete, Discard
<1>3. LockType'
    <2>1. ASSUME NEW kind \in {"read", "complete", "discard"},
                 Refuse(call(kind), s) \/ Remove(call(kind), s, ClientOf(s), "ok", {})
          PROVE  LockType'
        BY <2>1, <1>1, RefuseType, RemoveType DEF LockType, Codes
    <2>2. ASSUME NEW kind \in {"read", "complete", "discard"},
                 \/ \E code \in Codes : Answer(call(kind), code, s)
                 \/ \E step \in StepNames : Begin(call(kind), step, s),
                 UNCHANGED fate
          PROVE  LockType'
        BY <2>2, <1>1, AnswerType, BeginType DEF LockType, TypeOK
    <2>3. CASE Read(s)
        BY <2>3, <2>1, <2>2 DEF Read, Codes
    <2>4. CASE Complete(s)
        BY <2>4, <2>1, <2>2 DEF Complete, Codes, StepNames
    <2>5. CASE Discard(s)
        BY <2>5, <2>1, <2>2 DEF Discard, Codes
    <2> QED BY <2>3, <2>4, <2>5
<1> QED BY <1>2, <1>3, TypeParts

(* The file changes of create keep the types. *)
LEMMA CreateStepType == ASSUME IndInv, CreateStep PROVE TypeOK'
<1>1. TypeOK /\ CreateFits
    BY DEF IndInv
<1>2. CASE MakeDirectory
    <2>1. FilesType'
        BY <1>1, <1>2 DEF MakeDirectory, CreateFits, TypeOK, FilesType
    <2>2. LockType'
        BY <1>1, <1>2, GotoType DEF MakeDirectory, LockType, TypeOK, StepNames
    <2> QED BY <1>1, <1>2, <2>1, <2>2, UnchangedTypes, TypeParts DEF MakeDirectory
<1>3. CASE SaveNewRecord
    <2>1. New(op.call.request) \in RecordType
        BY <1>1, <1>3 DEF SaveNewRecord, CreateFits, Creates, New, RecordType
    <2>2. FilesType'
        BY <1>1, <1>3, <2>1 DEF SaveNewRecord, TypeOK, FilesType
    <2>3. LockType'
        BY <1>1, <1>3, GotoType DEF SaveNewRecord, LockType, TypeOK, StepNames
    <2> QED BY <1>1, <1>3, <2>2, <2>3, UnchangedTypes, TypeParts DEF SaveNewRecord
<1>4. CASE WriteRequest
    <2>1. /\ op.session \in Sessions /\ op.call \in Calls
          /\ op.call.request.client \in Clients
        BY <1>1, <1>4 DEF WriteRequest, CreateFits, Creates, Calls, Clients
    <2>2. FilesType' /\ HistoryType'
        BY <1>1, <1>4, <2>1
           DEF WriteRequest, Acknowledge, TypeOK, FilesType, HistoryType
    <2>3. LockType'
        BY <1>1, <1>4, <2>1, AnswerType DEF WriteRequest, LockType, TypeOK, Codes
    <2> QED BY <1>1, <1>4, <2>2, <2>3, UnchangedTypes, TypeParts DEF WriteRequest
<1> QED BY <1>2, <1>3, <1>4 DEF CreateStep

(* The file changes of receive_chunk keep the types. *)
LEMMA ReceiveStepType == ASSUME IndInv, ReceiveStep PROVE TypeOK'
<1> DEFINE s == op.session
           i == op.call.index
<1>1. TypeOK /\ ReceiveFits
    BY DEF IndInv
<1>2. /\ s \in Sessions /\ op.call \in Receives /\ op.call \in Calls
      /\ HasRecord(s) /\ i \in Chunks /\ op.call.content \in Contents
    BY <1>1 DEF ReceiveStep, CreatePart, WritePart, SaveReceived, ReceiveFits,
                Receives, Calls
<1>3. CASE CreatePart
    <2>1. FilesType'
        BY <1>1, <1>2, <1>3 DEF CreatePart, TypeOK, FilesType, Parts
    <2>2. LockType'
        BY <1>1, <1>3, GotoType DEF CreatePart, LockType, TypeOK, StepNames
    <2> QED BY <1>1, <1>3, <2>1, <2>2, UnchangedTypes, TypeParts DEF CreatePart
<1>4. CASE WritePart
    <2>1. FilesType'
        BY <1>1, <1>2, <1>4 DEF WritePart, TypeOK, FilesType, Parts
    <2>2. LockType'
        BY <1>1, <1>2, <1>4, AnswerType, GotoType
           DEF WritePart, LockType, TypeOK, StepNames, Codes
    <2>3. HistoryType'
        BY <1>1, <1>2, <1>4, AcknowledgedType DEF WritePart, HistoryType, TypeOK
    <2> QED BY <1>1, <1>4, <2>1, <2>2, <2>3, UnchangedTypes, TypeParts DEF WritePart
<1>5. CASE SaveReceived
    <2>1. FilesType'
        BY <1>1, <1>2, <1>5, RecordChanges DEF SaveReceived, TypeOK, FilesType
    <2>2. LockType'
        BY <1>1, <1>2, <1>5, AnswerType DEF SaveReceived, LockType, TypeOK, Codes
    <2>3. HistoryType'
        BY <1>1, <1>2, <1>5, AcknowledgedType DEF SaveReceived, HistoryType, TypeOK
    <2> QED BY <1>1, <1>5, <2>1, <2>2, <2>3, UnchangedTypes, TypeParts DEF SaveReceived
<1> QED BY <1>3, <1>4, <1>5 DEF ReceiveStep

\* an assembly: the lock and the files apart
LEMMA AssembleLock == ASSUME IndInv, AssembleStep PROVE LockType'
<1> DEFINE s == op.session
<1>1. TypeOK /\ AssembleFits
    BY DEF IndInv
<1>2. s \in Sessions
    BY <1>1 DEF AssembleStep, DropParts, SavePresent, StartArchive, CopyPart,
                UnlinkPart, CheckArchive, SaveComplete, RemoveChunks, AssembleFits
<1>3. ASSUME NEW step \in StepNames, Goto(step), UNCHANGED <<reply, fate>>
      PROVE  LockType'
    BY <1>1, <1>3, GotoType DEF LockType, TypeOK
<1>4. CASE DropParts \/ StartArchive \/ CopyPart \/ UnlinkPart \/ SaveComplete
    BY <1>3, <1>4 DEF DropParts, StartArchive, CopyPart, UnlinkPart, SaveComplete,
                      StepNames
<1>5. op.call \in Calls \cup {NoCall}
    BY <1>1 DEF TypeOK, Operation
<1>6. CASE SavePresent \/ RemoveChunks
    BY <1>1, <1>2, <1>5, <1>6, AnswerType
       DEF SavePresent, RemoveChunks, LockType, TypeOK, Codes
<1>7. CASE CheckArchive
    <2>1. ASSUME NEW code \in Codes, Remove(op.call, s, ClientOf(s), code, {})
          PROVE  LockType'
        BY <1>1, <1>2, <1>5, <2>1, RemoveType DEF LockType
    <2> QED BY <1>3, <1>7, <2>1 DEF CheckArchive, Codes, StepNames
<1> QED BY <1>4, <1>6, <1>7 DEF AssembleStep

(* An assembly keeps the files well typed. *)
LEMMA AssembleFiles == ASSUME IndInv, AssembleStep PROVE FilesType'
<1> DEFINE s == op.session
<1>1. TypeOK /\ AssembleFits
    BY DEF IndInv
<1>2. s \in Sessions /\ HasRecord(s)
    BY <1>1 DEF AssembleStep, DropParts, SavePresent, StartArchive, CopyPart,
                UnlinkPart, CheckArchive, SaveComplete, RemoveChunks, AssembleFits
<1>3. CASE DropParts
    <2>1. part'[s] \in [Chunks -> Parts]
        BY <1>1, <1>2, <1>3 DEF DropParts, TypeOK, Parts
    <2> QED BY <1>1, <1>2, <1>3, <2>1 DEF DropParts, TypeOK, FilesType
<1>10. CASE RemoveChunks
    BY <1>1, <1>2, <1>10 DEF RemoveChunks, TypeOK, FilesType, Parts
<1>4. CASE SavePresent
    <2>1. VerifiedParts(s) \in SUBSET Chunks
        BY <1>1, <1>2, RecordChanges DEF VerifiedParts, RecordType
    <2> QED BY <1>1, <1>2, <1>4, <2>1, RecordChanges DEF SavePresent, TypeOK, FilesType
<1>5. CASE StartArchive
    BY <1>1, <1>2, <1>5, EmptyArchive DEF StartArchive, TypeOK, FilesType
<1>6. CASE CopyPart
    <2> DEFINE i == Len(archive[s]) + 1
    <2>1. archive[s] \in Archives
        BY <1>1, <1>2 DEF TypeOK
    <2>2. i \in ChunksOf(s)
        <3>1. Len(archive[s]) \in Nat
            BY <2>1, ArchiveIsSequence, ChunkNumbers
        <3>2. record[s].request.chunks \in Nat
            BY <1>1, <1>2, RecordChanges, RequestsAssumption DEF RecordType
        <3>3. Len(archive[s]) < record[s].request.chunks
            BY <1>1, <1>6 DEF CopyPart, AssembleFits
        <3> QED BY <3>1, <3>2, <3>3 DEF ChunksOf
    <2>3. part[s][i] \in Contents
        BY <1>1, <1>6, <2>2 DEF CopyPart, AssembleFits, IntactFrom, Intact, ChunksOf
    <2>4. Append(archive[s], part[s][i]) \in Archives
        BY <1>1, <1>2, <2>1, <2>2, <2>3, LongerArchive, RecordChanges
    <2> QED BY <1>1, <1>6, <2>4 DEF CopyPart, TypeOK, FilesType
<1>7. CASE UnlinkPart
    BY <1>1, <1>2, <1>7 DEF UnlinkPart, TypeOK, FilesType, Parts
<1>8. CASE CheckArchive
    BY <1>1, <1>8, UnchangedTypes DEF CheckArchive
<1>9. CASE SaveComplete
    BY <1>1, <1>2, <1>9, RecordChanges DEF SaveComplete, TypeOK, FilesType
<1> QED BY <1>3, <1>4, <1>5, <1>6, <1>7, <1>8, <1>9, <1>10
       DEF AssembleStep

(* The file changes of complete keep the types. *)
LEMMA AssembleStepType == ASSUME IndInv, AssembleStep PROVE TypeOK'
<1>1. TypeOK
    BY DEF IndInv
<1>2. UNCHANGED outside /\ UNCHANGED history
    BY DEF AssembleStep, DropParts, SavePresent, StartArchive, CopyPart,
           UnlinkPart, CheckArchive, SaveComplete, RemoveChunks
<1> QED BY <1>1, <1>2, AssembleLock, AssembleFiles, UnchangedTypes, TypeParts

(* The file changes of a removal keep the types. *)
LEMMA RemoveStepType == ASSUME IndInv, RemoveStep PROVE TypeOK'
<1> DEFINE s == op.session
<1>1. TypeOK /\ RemoveFits
    BY DEF IndInv
<1>2. s \in Sessions
    BY <1>1 DEF RemoveStep, RemoveFile, RemoveDirectory, RemoveRequest, RemoveFits
<1>3. CASE RemoveFile
    <2>1. FilesType'
        <3>1. record' \in [Sessions -> RecordType \cup {NoRecord}]
            BY <1>1, <1>3 DEF RemoveFile, TypeOK
        <3>2. archive' \in [Sessions -> Archives]
            BY <1>1, <1>3, EmptyArchive DEF RemoveFile, TypeOK
        <3>3. part' \in [Sessions -> [Chunks -> Parts]]
            <4>1. CASE \E i \in Chunks : part' = [part EXCEPT ![s][i] = Absent]
                <5>1. PICK i \in Chunks : part' = [part EXCEPT ![s][i] = Absent]
                    BY <4>1
                <5> QED BY <1>1, <5>1 DEF TypeOK, Parts
            <4>2. CASE part' = part
                BY <1>1, <4>2 DEF TypeOK
            <4> QED BY <1>3, <4>1, <4>2 DEF RemoveFile
        <3> QED BY <1>1, <1>3, <3>1, <3>2, <3>3 DEF RemoveFile, TypeOK, FilesType
    <2>2. UNCHANGED <<op, reply, fate>>
        BY <1>3 DEF RemoveFile
    <2> QED BY <1>1, <1>3, <2>1, <2>2, UnchangedTypes, TypeParts DEF RemoveFile
<1>4. CASE RemoveDirectory
    <2>1. FilesType'
        BY <1>1, <1>4 DEF RemoveDirectory, TypeOK, FilesType
    <2>2. LockType'
        BY <1>1, <1>4, GotoType DEF RemoveDirectory, LockType, TypeOK, StepNames
    <2> QED BY <1>1, <1>4, <2>1, <2>2, UnchangedTypes, TypeParts DEF RemoveDirectory
<1>5. CASE RemoveRequest
    <2>1. FilesType'
        BY <1>1, <1>5 DEF RemoveRequest, TypeOK, FilesType
    <2>2. op.call \in Calls \cup {NoCall}
        BY <1>1 DEF TypeOK, Operation
    <2>3. LockType'
        <3>1. CASE op.then = "create" /\ Open(op.call)
            BY <1>1, <1>5, <3>1, OpenType DEF RemoveRequest, RemoveFits, LockType
        <3>2. CASE Goto("sweep") /\ UNCHANGED <<reply, fate>>
            BY <1>1, <3>2, GotoType DEF LockType, TypeOK, StepNames
        <3>3. CASE op.then \in Codes /\ Answer(op.call, op.then, s) /\ UNCHANGED fate
            BY <1>1, <1>2, <2>2, <3>3, AnswerType DEF LockType, TypeOK
        <3> QED BY <1>5, <3>1, <3>2, <3>3 DEF RemoveRequest
    <2> QED BY <1>1, <1>5, <2>1, <2>3, UnchangedTypes, TypeParts DEF RemoveRequest
<1> QED BY <1>3, <1>4, <1>5 DEF RemoveStep

(* The sweep keeps the types. *)
LEMMA SweepStepType == ASSUME IndInv, Sweep \/ SweepStep PROVE TypeOK'
<1>1. TypeOK
    BY DEF IndInv
<1>2. CASE Sweep
    <2>1. LockType'
        BY <1>1, <1>2 DEF Sweep, LockType, TypeOK, NoOp, NoReply, Operation, Reply,
                          Calls, Codes, StepNames
    <2> QED BY <1>1, <1>2, <2>1, UnchangedTypes, TypeParts DEF Sweep
<1>3. CASE SweepSession
    <2>1. op.call \in Calls \cup {NoCall}
        BY <1>1 DEF TypeOK, Operation
    <2>2. PICK s \in op.todo :
              \/ op' = [op EXCEPT !.todo = @ \ {s}] /\ UNCHANGED <<reply, fate>>
              \/ Remove(op.call, s, ClientOf(s), "sweep", op.todo \ {s})
        BY <1>3 DEF SweepSession
    <2>3. s \in Sessions /\ op.todo \ {s} \in SUBSET Sessions
        BY <1>1 DEF TypeOK, Operation
    <2>4. LockType'
        <3>1. CASE op' = [op EXCEPT !.todo = @ \ {s}] /\ UNCHANGED <<reply, fate>>
            BY <1>1, <2>3, <3>1 DEF LockType, TypeOK, Operation
        <3> QED BY <1>1, <2>1, <2>2, <2>3, <3>1, RemoveType DEF LockType
    <2> QED BY <1>1, <1>3, <2>4, UnchangedTypes, TypeParts DEF SweepSession
<1>4. CASE RemoveStaleRequest
    <2>1. FilesType'
        BY <1>1, <1>4 DEF RemoveStaleRequest, TypeOK, FilesType
    <2> QED BY <1>1, <1>4, <2>1, UnchangedTypes, TypeParts DEF RemoveStaleRequest
<1>5. CASE EndSweep
    <2>1. op.call \in Calls \cup {NoCall}
        BY <1>1 DEF TypeOK, Operation
    <2>2. LockType'
        BY <1>1, <1>5, <2>1, AnswerType DEF EndSweep, LockType, TypeOK, Codes
    <2> QED BY <1>1, <1>5, <2>2, UnchangedTypes, TypeParts DEF EndSweep
<1> QED BY <1>2, <1>3, <1>4, <1>5 DEF SweepStep

(* The worker's steps keep the types. *)
LEMMA WorkerType ==
    ASSUME TypeOK, ReaderFits, Worker \/ \E s \in Sessions : WorkerRead(s)
    PROVE  TypeOK'
<1>1. ASSUME NEW s \in Sessions, NEW step \in {"idle", "digest"}, NEW next \in Reader,
             WorkerLoad(step, s, next)
      PROVE  TypeOK'
    <2> DEFINE call == [kind |-> "resolve", session |-> s]
    <2>1. call \in Calls /\ NoReader \in Reader
        BY EmptyArchive DEF Calls, NoReader, Reader
    <2>2. FilesType' /\ HistoryType'
        BY <1>1, UnchangedTypes DEF WorkerLoad
    <2>3. OutsideType'
        BY <1>1, <2>1 DEF WorkerLoad, OutsideType, TypeOK
    <2>4. LockType'
        <3>1. CASE Refuse(call, s)
            BY <2>1, <3>1, RefuseType DEF LockType
        <3>2. CASE Answer(call, "upload_incomplete", s) /\ UNCHANGED fate
            BY <2>1, <3>2, AnswerType DEF LockType, TypeOK, Codes
        <3>3. CASE reply' = NoReply /\ UNCHANGED <<op, fate>>
            BY <3>3 DEF LockType, TypeOK, NoReply, Reply, Codes
        <3> QED BY <1>1, <3>1, <3>2, <3>3 DEF WorkerLoad
    <2> QED BY <2>2, <2>3, <2>4, TypeParts
<1>2. ASSUME NEW s \in Sessions, WorkerRead(s) PROVE TypeOK'
    <2> DEFINE digest == IF HasRecord(s) THEN record[s].digest ELSE NoDigest
               next == [step |-> "digest", session |-> s, digest |-> digest,
                        data |-> <<>>]
    <2>1. digest \in Archives \cup {NoDigest}
        BY DEF TypeOK, HasRecord, RecordType
    <2>2. next \in Reader
        BY <2>1, EmptyArchive DEF Reader
    <2> QED BY <1>1, <1>2, <2>2 DEF WorkerRead
<1>3. CASE WorkerPath
    <2>1. reader.session \in Sessions
        BY <1>3 DEF WorkerPath, WorkerLoad, ReaderFits
    <2>2. [reader EXCEPT !.step = "path"] \in Reader
        BY DEF TypeOK, Reader
    <2> QED BY <1>1, <1>3, <2>1, <2>2 DEF WorkerPath
<1>4. CASE WorkerOpen \/ WorkerEnd
    <2>1. reader' \in Reader
        <3>1. CASE WorkerOpen
            BY <3>1, EmptyArchive
               DEF WorkerOpen, ReaderFits, TypeOK, NoReader, Reader
        <3>2. CASE WorkerEnd
            BY <3>2, EmptyArchive DEF WorkerEnd, NoReader, Reader
        <3> QED BY <1>4, <3>1, <3>2
    <2> QED BY <1>4, <2>1, UnchangedTypes, TypeParts
            DEF WorkerOpen, WorkerEnd, OutsideType, TypeOK
<1> QED BY <1>2, <1>3, <1>4 DEF Worker

(* An interruption and the passing of time keep the types. *)
LEMMA DisturbanceType == ASSUME TypeOK, Disturbance PROVE TypeOK'
<1>1. CASE Interrupt
    <2>1. op.call \in Calls \cup {NoCall} /\ op.session \in Sessions \cup {NoSession}
        BY DEF TypeOK, Operation
    <2>2. LockType'
        BY <1>1, <2>1, AnswerType DEF Interrupt, LockType, TypeOK, Codes
    <2>3. OutsideType'
        BY <1>1, RequestsAssumption DEF Interrupt, OutsideType, TypeOK
    <2> QED BY <1>1, <2>2, <2>3, UnchangedTypes, TypeParts DEF Interrupt
<1>2. ASSUME NEW s \in Sessions, Expire(s) PROVE TypeOK'
    BY <1>2 DEF Expire, TypeOK, files, history
<1> QED BY <1>1, <1>2 DEF Disturbance

(* Every step keeps the types. *)
LEMMA TypeStep == ASSUME IndInv, [Next]_vars PROVE TypeOK'
<1>1. TypeOK /\ ReaderFits
    BY DEF IndInv
<1>2. CASE Request
    BY <1>1, <1>2, CreateType, ReceiveType, SessionCallType, WorkerType DEF Request
<1>3. CASE Sweep \/ Step
    BY <1>3, CreateStepType, ReceiveStepType, AssembleStepType, RemoveStepType,
       SweepStepType DEF Step
<1>4. CASE Worker \/ Disturbance
    BY <1>1, <1>4, WorkerType, DisturbanceType
<1>5. CASE UNCHANGED vars
    BY <1>1, <1>5 DEF vars, TypeOK
<1> QED BY <1>2, <1>3, <1>4, <1>5 DEF Next

-----------------------------------------------------------------------------
(* Where each operation can be after a step, and what the others leave alone *)

disk == <<dirs, record, part, archive>>

(* What an answer, a begin and a removal do to the lock. *)
LEMMA LockEffects ==
    /\ \A call, code, s : Answer(call, code, s) => op'.step = "idle"
    /\ \A call, step, s :
           Begin(call, step, s)
               => op'.step = step /\ op'.session = s /\ op'.call = call
    /\ \A call, s, client, then, todo :
           Remove(call, s, client, then, todo)
               => /\ op'.step = "removing" /\ op'.session = s /\ op'.call = call
                  /\ op'.then = then
<1>1. ASSUME NEW call, NEW code, NEW s, Answer(call, code, s) PROVE op'.step = "idle"
    BY <1>1 DEF Answer, NoOp
<1>2. ASSUME NEW call, NEW step, NEW s, Begin(call, step, s)
      PROVE  op'.step = step /\ op'.session = s /\ op'.call = call
    BY <1>2 DEF Begin, NoOp
<1>3. ASSUME NEW call, NEW s, NEW client, NEW then, NEW todo,
             Remove(call, s, client, then, todo)
      PROVE  op'.step = "removing" /\ op'.session = s /\ op'.call = call /\ op'.then = then
    BY <1>3 DEF Remove
<1> QED BY <1>1, <1>2, <1>3

(* What a refusal and the choice of an identifier can do to the lock. *)
LEMMA ChoiceEffects ==
    /\ \A call, s : Refuse(call, s) => op'.step \in {"idle", "removing"}
    /\ \A call : Open(call) => op'.step \in {"idle", "directory"}
BY LockEffects DEF Refuse, Open

(* Where the lock's holder can be after a request. *)
LEMMA StepAfterRequest ==
    /\ \A q : Create(q) => op'.step \in {"idle", "removing", "directory"}
    /\ \A s, i, c :
           Receive(s, i, c) => op'.step \in {"idle", "removing", "create part", "received"}
    /\ \A s :
           /\ Read(s) \/ Discard(s) => op'.step \in {"idle", "removing"}
           /\ Complete(s) => op'.step \in {"idle", "removing", "remove chunks",
                                          "drop parts", "archive"}
<1>1. ASSUME NEW q, Create(q)
      PROVE  op'.step \in {"idle", "removing", "directory"}
    BY <1>1, LockEffects, ChoiceEffects DEF Create
<1>2. ASSUME NEW s, NEW i, NEW c, Receive(s, i, c)
      PROVE  op'.step \in {"idle", "removing", "create part", "received"}
    BY <1>2, LockEffects, ChoiceEffects DEF Receive
<1>3. ASSUME NEW s, Read(s) \/ Discard(s)
      PROVE  op'.step \in {"idle", "removing"}
    BY <1>3, LockEffects, ChoiceEffects DEF Read, Discard
<1>4. ASSUME NEW s, Complete(s)
      PROVE  op'.step \in {"idle", "removing", "remove chunks", "drop parts", "archive"}
    BY <1>4, LockEffects, ChoiceEffects DEF Complete
<1> QED BY <1>1, <1>2, <1>3, <1>4

(* Where the lock's holder can be after one of its own steps. *)
LEMMA StepAfterStep ==
    ASSUME TypeOK
    PROVE  /\ CreateStep => op'.step \in {"record", "request", "idle"}
           /\ ReceiveStep => op'.step \in {"write part", "received", "idle"}
           /\ AssembleStep => op'.step \in {"present", "copy", "unlink", "check",
                                 "complete", "remove chunks", "idle", "removing"}
           /\ RemoveStep => op'.step \in {"removing", "forget", "directory", "idle",
                                          "sweep"}
           /\ Sweep \/ SweepStep => op'.step \in {"sweep", "removing", "idle"}
<1>1. \A step : Goto(step) => op'.step = step
    BY DEF Goto, TypeOK, Operation
<1>2. CreateStep => op'.step \in {"record", "request", "idle"}
    BY <1>1, LockEffects DEF CreateStep, MakeDirectory, SaveNewRecord, WriteRequest
<1>3. ReceiveStep => op'.step \in {"write part", "received", "idle"}
    BY <1>1, LockEffects DEF ReceiveStep, CreatePart, WritePart, SaveReceived
<1>4. AssembleStep => op'.step \in {"present", "copy", "unlink", "check", "complete",
                                    "remove chunks", "idle", "removing"}
    BY <1>1, LockEffects
       DEF AssembleStep, DropParts, SavePresent, StartArchive, CopyPart, UnlinkPart,
           CheckArchive, SaveComplete, RemoveChunks
<1>5. RemoveStep => op'.step \in {"removing", "forget", "directory", "idle", "sweep"}
    BY <1>1, LockEffects, ChoiceEffects
       DEF RemoveStep, RemoveFile, RemoveDirectory, RemoveRequest
<1>6. Sweep => op'.step = "sweep"
    BY DEF Sweep, NoOp
<1>7. SweepStep => op'.step \in {"sweep", "removing", "idle"}
    <2>1. \A s : op' = [op EXCEPT !.todo = @ \ {s}] => op'.step = op.step
        BY DEF TypeOK, Operation
    <2> QED BY <2>1, LockEffects DEF SweepStep, SweepSession, RemoveStaleRequest, EndSweep
<1> QED BY <1>2, <1>3, <1>4, <1>5, <1>6, <1>7

\* steps of others than the holder of the lock
Aside == Worker \/ Disturbance \/ (\E s \in Sessions : WorkerRead(s)) \/ UNCHANGED vars

(* Whoever steps beside the lock's holder changes no session file, and     *)
(* moves the lock only to answer, or to remove an expired session.         *)
LEMMA StepAside ==
    ASSUME Aside
    PROVE  /\ UNCHANGED disk /\ UNCHANGED history
           /\ \/ UNCHANGED <<op, fate>>
              \/ op'.step \in {"idle", "removing"}
<1>1. ASSUME NEW step, NEW s, NEW next, WorkerLoad(step, s, next)
      PROVE  \/ UNCHANGED <<op, fate>>
             \/ op'.step \in {"idle", "removing"}
    BY <1>1, LockEffects, ChoiceEffects DEF WorkerLoad
<1>2. \A step, s, next :
          WorkerLoad(step, s, next) => UNCHANGED disk /\ UNCHANGED history
    BY DEF WorkerLoad, files, history, disk
<1>3. UNCHANGED disk /\ UNCHANGED history
    BY <1>2 DEF Aside, Worker, WorkerRead, WorkerPath, WorkerOpen, WorkerEnd, Disturbance,
                Interrupt, Expire, vars, files, history, disk
<1>4. UNCHANGED <<op, fate>> \/ op'.step \in {"idle", "removing"}
    BY <1>1, LockEffects
       DEF Aside, Worker, WorkerRead, WorkerPath, WorkerOpen, WorkerEnd, Disturbance,
           Interrupt, Expire, vars
<1> QED BY <1>3, <1>4

(* Every step is a request, a step of the lock's holder, or a step         *)
(* aside.                                                                  *)
LEMMA NextCases ==
    ASSUME [Next]_vars
    PROVE  \/ \E q \in Requests : Create(q)
           \/ \E s \in Sessions :
                  \/ \E i \in Chunks, c \in Contents : Receive(s, i, c)
                  \/ Read(s) \/ Complete(s) \/ Discard(s)
           \/ Sweep \/ Step \/ Aside
BY DEF Next, Request, Aside

-----------------------------------------------------------------------------
(* What the holder of the lock relies on *)

(* A chosen identifier has no record and no directory yet. *)
LEMMA OpenFits ==
    ASSUME IndInv, NEW call \in Creates, Open(call), UNCHANGED disk PROVE CreateFits'
<1>1. TypeOK /\ FilesFit
    BY DEF IndInv
<1>2. CASE op'.step = "idle"
    BY <1>2 DEF CreateFits
<1>3. CASE \E s \in Unborn : /\ Begin(call, "directory", s)
                             /\ fate' = [fate EXCEPT ![s] = "live"]
    <2>1. PICK s \in Sessions : /\ fate[s] = "unborn"
                                /\ Begin(call, "directory", s)
                                /\ fate' = [fate EXCEPT ![s] = "live"]
        BY <1>3 DEF Unborn
    <2>2. op'.step = "directory" /\ op'.session = s /\ op'.call = call
        BY <2>1, LockEffects
    <2>3. ~HasRecord(s)' /\ fate'[s] = "live"
        BY <1>1, <2>1 DEF FilesFit, HasRecord, TypeOK, disk
    <2> QED BY <2>1, <2>2, <2>3 DEF CreateFits
<1> QED BY <1>2, <1>3, LockEffects DEF Open

(* Every step keeps what create relies on. *)
LEMMA CreateFitsStep == ASSUME IndInv, [Next]_vars PROVE CreateFits'
<1>1. TypeOK /\ CreateFits /\ RemoveFits
    BY DEF IndInv
<1>2. op'.step \notin {"directory", "record", "request"} => CreateFits'
    BY DEF CreateFits
<1>3. ASSUME NEW q \in Requests, Create(q) PROVE CreateFits'
    <2> DEFINE call == [kind |-> "create", request |-> q]
    <2>1. call \in Creates /\ UNCHANGED disk
        BY <1>3 DEF Creates, Create, files, disk
    <2>2. CASE Open(call)
        BY <2>1, <2>2, OpenFits
    <2>3. ~Open(call) => op'.step \in {"idle", "removing"}
        BY <1>3, LockEffects DEF Create
    <2> QED BY <1>2, <2>2, <2>3
<1>4. CASE CreateStep
    <2>1. /\ op.session \in Sessions /\ fate[op.session] # "unborn"
          /\ op.call \in Creates
        BY <1>1, <1>4 DEF CreateStep, MakeDirectory, SaveNewRecord, WriteRequest, CreateFits
    <2>2. CASE MakeDirectory
        BY <1>1, <2>1, <2>2
           DEF MakeDirectory, Goto, CreateFits, TypeOK, Operation, HasRecord
    <2>3. CASE SaveNewRecord
        <3>1. New(op.call.request) \in RecordType
            BY <2>1 DEF Creates, New, RecordType
        <3>2. New(op.call.request) # NoRecord
            BY <3>1, RequestsAssumption
        <3> QED BY <1>1, <2>1, <2>3, <3>2
                DEF SaveNewRecord, Goto, CreateFits, TypeOK, Operation, HasRecord
    <2>4. CASE WriteRequest
        BY <1>2, <2>4, LockEffects DEF WriteRequest
    <2> QED BY <1>4, <2>2, <2>3, <2>4 DEF CreateStep
<1>5. CASE RemoveStep
    <2>1. CASE RemoveRequest /\ op.then = "create" /\ Open(op.call)
        BY <1>1, <2>1, OpenFits DEF RemoveFits, RemoveRequest, disk
    <2>2. ~(RemoveRequest /\ op.then = "create" /\ Open(op.call))
              => op'.step \in {"removing", "forget", "idle", "sweep"}
        BY <1>1, <1>5, LockEffects
           DEF RemoveStep, RemoveFile, RemoveDirectory, RemoveRequest, Goto, TypeOK,
               Operation
    <2> QED BY <1>2, <2>1, <2>2
<1>6. CASE Aside
    BY <1>1, <1>2, <1>6, StepAside DEF CreateFits, HasRecord, disk
<1> QED BY <1>1, <1>2, <1>3, <1>4, <1>5, <1>6, NextCases, StepAfterRequest,
           StepAfterStep DEF Step

(* Every step keeps what a removal relies on. *)
LEMMA RemoveFitsStep == ASSUME IndInv, [Next]_vars PROVE RemoveFits'
<1>1. TypeOK /\ RemoveFits /\ AssembleFits
    BY DEF IndInv
<1>2. op'.step \notin {"removing", "forget"} => RemoveFits'
    BY DEF RemoveFits
<1>3. ASSUME NEW call, NEW s \in Sessions, NEW client, NEW then, NEW todo,
             then = "create" => call \in Creates,
             Remove(call, s, client, then, todo)
      PROVE  RemoveFits'
    BY <1>1, <1>3, LockEffects DEF Remove, RemoveFits, TypeOK
<1>4. ASSUME NEW call, NEW s \in Sessions, Refuse(call, s) PROVE RemoveFits'
    BY <1>2, <1>3, <1>4, LockEffects DEF Refuse
<1>5. ASSUME NEW q \in Requests, Create(q) PROVE RemoveFits'
    <2> DEFINE call == [kind |-> "create", request |-> q]
               known == pointer[q.client]
    <2>1. call \in Creates /\ (known # NoSession => known \in Sessions)
        BY <1>1 DEF Creates, TypeOK, Clients
    <2>2. CASE /\ known # NoSession
               /\ Remove(call, known, ClientOf(known), "create", {})
        BY <1>3, <2>1, <2>2
    <2> QED BY <1>2, <1>5, <2>2, LockEffects, ChoiceEffects DEF Create
<1>6. ASSUME NEW s \in Sessions,
             \/ \E i \in Chunks, c \in Contents : Receive(s, i, c)
             \/ Read(s) \/ Complete(s) \/ Discard(s)
      PROVE  RemoveFits'
    <2>1. CASE \E i \in Chunks, c \in Contents : Receive(s, i, c)
        BY <1>2, <1>4, <2>1, LockEffects DEF Receive
    <2>2. CASE Read(s)
        BY <1>2, <1>4, <2>2, LockEffects DEF Read
    <2>3. CASE Complete(s)
        <3>1. CASE Refuse([kind |-> "complete", session |-> s], s)
            BY <1>4, <3>1
        <3>2. CASE op'.step \in {"idle", "remove chunks", "drop parts", "archive"}
            BY <1>2, <3>2
        <3> QED BY <2>3, <3>1, <3>2, LockEffects DEF Complete
    <2>4. CASE Discard(s)
        BY <1>2, <1>3, <2>4, LockEffects DEF Discard
    <2> QED BY <1>6, <2>1, <2>2, <2>3, <2>4
<1>7. CASE AssembleStep
    <2>1. CASE CheckArchive
        <3>1. op.session \in Sessions
            BY <1>1, <2>1 DEF CheckArchive, AssembleFits
        <3>2. \/ \E code \in {"upload_checksum_mismatch", "upload_not_archive"} :
                     Remove(op.call, op.session, ClientOf(op.session), code, {})
              \/ op'.step \notin {"removing", "forget"}
            BY <1>1, <2>1 DEF CheckArchive, Goto, TypeOK, Operation
        <3> QED BY <1>2, <1>3, <3>1, <3>2
    <2>2. ~CheckArchive => op'.step \notin {"removing", "forget"}
        BY <1>1, <1>7, LockEffects
           DEF AssembleStep, DropParts, SavePresent, StartArchive, CopyPart, UnlinkPart,
               SaveComplete, RemoveChunks, Goto, TypeOK, Operation
    <2> QED BY <1>2, <2>1, <2>2
<1>8. CASE RemoveStep
    <2>1. CASE RemoveFile
        BY <1>1, <2>1 DEF RemoveFile, RemoveFits
    <2>2. CASE RemoveDirectory
        BY <1>1, <2>2 DEF RemoveDirectory, Goto, RemoveFits, TypeOK, Operation
    <2>3. CASE RemoveRequest
        BY <1>1, <1>2, <2>3, LockEffects, ChoiceEffects
           DEF RemoveRequest, Goto, TypeOK, Operation
    <2> QED BY <1>8, <2>1, <2>2, <2>3 DEF RemoveStep
<1>9. CASE SweepStep
    <2>1. CASE SweepSession
        <3>1. PICK s \in op.todo :
                  \/ op' = [op EXCEPT !.todo = @ \ {s}]
                  \/ Remove(op.call, s, ClientOf(s), "sweep", op.todo \ {s})
            BY <2>1 DEF SweepSession
        <3>2. s \in Sessions
            BY <1>1 DEF TypeOK, Operation
        <3>3. op' = [op EXCEPT !.todo = @ \ {s}] => op'.step = "sweep"
            BY <1>1, <2>1 DEF SweepSession, TypeOK, Operation
        <3> QED BY <1>2, <1>3, <3>1, <3>2, <3>3
    <2>2. ~SweepSession => op'.step \notin {"removing", "forget"}
        BY <1>9, LockEffects DEF SweepStep, RemoveStaleRequest, EndSweep
    <2> QED BY <1>2, <2>1, <2>2
<1>10. CASE Aside
    <2>1. ASSUME NEW step, NEW s \in Sessions, NEW next, WorkerLoad(step, s, next)
          PROVE  RemoveFits'
        BY <1>1, <1>2, <1>4, <2>1, LockEffects DEF WorkerLoad, RemoveFits
    <2>2. CASE WorkerPath
        <3>1. reader.session \in Sessions
            BY <2>2 DEF IndInv, ReaderFits, WorkerPath, WorkerLoad
        <3> QED BY <2>1, <2>2, <3>1 DEF WorkerPath
    <2>3. ASSUME NEW s \in Sessions, WorkerRead(s) PROVE RemoveFits'
        BY <2>1, <2>3 DEF WorkerRead
    <2>4. CASE WorkerOpen \/ WorkerEnd \/ Disturbance \/ UNCHANGED vars
        BY <1>1, <1>2, <2>4, LockEffects
           DEF WorkerOpen, WorkerEnd, Disturbance, Interrupt, Expire, vars, RemoveFits
    <2> QED BY <1>10, <2>2, <2>3, <2>4 DEF Aside, Worker
<1>11. CASE Sweep
    BY <1>2, <1>11 DEF Sweep, NoOp
<1> QED BY <1>1, <1>2, <1>5, <1>6, <1>7, <1>8, <1>9, <1>10, <1>11, NextCases,
           StepAfterStep
        DEF Step

(* Every step keeps what receive_chunk relies on, if the room it needs     *)
(* stays free.                                                             *)
LEMMA ReceiveFitsStep ==
    ASSUME IndInv, [Next]_vars, op'.step = "create part" => Fits(1)' PROVE ReceiveFits'
<1>1. TypeOK /\ ReceiveFits
    BY DEF IndInv
<1>2. op'.step \notin {"create part", "write part", "received"} => ReceiveFits'
    BY DEF ReceiveFits
<1>3. ASSUME NEW s \in Sessions, NEW i \in Chunks, NEW c \in Contents, Receive(s, i, c)
      PROVE  ReceiveFits'
    <2> DEFINE call == [kind |-> "receive", session |-> s, index |-> i, content |-> c]
    <2>1. call \in Receives /\ call.index = i /\ call.content = c
        BY DEF Receives
    <2>2. UNCHANGED disk
        BY <1>3 DEF Receive, files, disk
    <2>3. CASE Begin(call, "create part", s) /\ Loads(s) /\ ~record[s].complete
                   /\ i \in ChunksOf(s) /\ ~Intact(s, i)
        BY <2>1, <2>2, <2>3, LockEffects
           DEF ReceiveFits, Loads, HasRecord, ChunksOf, Intact, disk
    <2>4. CASE Begin(call, "received", s) /\ Loads(s) /\ ~record[s].complete
                   /\ i \in ChunksOf(s) /\ part[s][i] = c
        <3>1. op'.step = "received" /\ op'.session = s /\ op'.call = call
            BY <2>4, LockEffects
        <3>2. /\ HasRecord(s)' /\ ~record'[s].complete /\ i \in ChunksOf(s)'
              /\ part'[s][i] = c
            BY <2>2, <2>4 DEF Loads, HasRecord, ChunksOf, disk
        <3> QED BY <2>1, <3>1, <3>2 DEF ReceiveFits
    <2>5. CASE op'.step \in {"idle", "removing"}
        BY <1>2, <2>5
    <2> QED BY <1>3, <2>3, <2>4, <2>5, LockEffects, ChoiceEffects DEF Receive
<1>4. CASE ReceiveStep
    <2> DEFINE s == op.session
               i == op.call.index
    <2>1. /\ s \in Sessions /\ i \in Chunks /\ op.call \in Receives
          /\ HasRecord(s) /\ ~record[s].complete /\ i \in ChunksOf(s)
        BY <1>1, <1>4 DEF ReceiveStep, CreatePart, WritePart, SaveReceived, ReceiveFits,
                          Receives
    <2>2. ASSUME NEW step, Goto(step)
          PROVE  op'.step = step /\ op'.session = s /\ op'.call = op.call
        BY <1>1, <2>2 DEF Goto, TypeOK, Operation
    <2>3. /\ record[s] # NoRecord /\ ~record[s].complete
          /\ i \in 1..record[s].request.chunks
        BY <2>1 DEF HasRecord, ChunksOf
    <2>4. CASE CreatePart
        <3>1. /\ op'.step = "write part" /\ op'.session = s /\ op'.call = op.call
              /\ record' = record
            BY <2>2, <2>4 DEF CreatePart
        <3>2. part'[s][i] = Torn
            BY <1>1, <2>1, <2>4 DEF CreatePart, TypeOK
        <3> QED BY <2>1, <2>3, <3>1, <3>2 DEF ReceiveFits, HasRecord, ChunksOf
    <2>5. CASE WritePart
        <3>1. CASE Goto("received")
            <4>1. /\ op'.step = "received" /\ op'.session = s /\ op'.call = op.call
                  /\ record' = record
                BY <2>2, <2>5, <3>1 DEF WritePart
            <4>2. part'[s][i] = op.call.content
                BY <1>1, <2>1, <2>5 DEF WritePart, TypeOK
            <4> QED BY <2>1, <2>3, <4>1, <4>2 DEF ReceiveFits, HasRecord, ChunksOf
        <3> QED BY <1>2, <2>5, <3>1, LockEffects DEF WritePart
    <2>6. CASE SaveReceived
        BY <1>2, <2>6, LockEffects DEF SaveReceived
    <2> QED BY <1>4, <2>4, <2>5, <2>6 DEF ReceiveStep
<1>5. CASE Aside
    BY <1>1, <1>2, <1>5, StepAside DEF ReceiveFits, HasRecord, ChunksOf, Intact, disk
<1> QED BY <1>1, <1>2, <1>3, <1>4, <1>5, NextCases, StepAfterRequest, StepAfterStep
        DEF Step

\* the parts an assembly reads are whole, and it has copied what it says
LEMMA AssembleFitsStep ==
    ASSUME IndInv, [Next]_vars, op'.step \in {"archive", "copy"} => Fits(1)'
    PROVE  AssembleFits'
<1> DEFINE Steps == {"drop parts", "present", "archive", "copy", "unlink", "check",
                     "complete", "remove chunks"}
<1>1. TypeOK /\ AssembleFits
    BY DEF IndInv
<1>2. op'.step \notin Steps => AssembleFits'
    BY DEF AssembleFits
<1>3. ASSUME NEW s \in Sessions, Complete(s) PROVE AssembleFits'
    <2> DEFINE call == [kind |-> "complete", session |-> s]
    <2>1. UNCHANGED disk
        BY <1>3 DEF Complete, files, disk
    <2>2. CASE /\ Loads(s)
               /\ \/ record[s].complete /\ Begin(call, "remove chunks", s)
                  \/ ~record[s].complete /\ Begin(call, "drop parts", s)
        <3>1. /\ op'.step \in {"remove chunks", "drop parts"} /\ op'.session = s
              /\ op'.step = "remove chunks" <=> record[s].complete
            BY <2>2, LockEffects
        <3>2. record'[s] = record[s] /\ record[s] # NoRecord
            BY <2>1, <2>2 DEF Loads, HasRecord, disk
        <3> QED BY <3>1, <3>2 DEF AssembleFits, HasRecord
    <2>3. CASE /\ Loads(s) /\ ~record[s].complete /\ VerifiedParts(s) = ChunksOf(s)
               /\ Begin(call, "archive", s)
        <3>1. op'.step = "archive" /\ op'.session = s
            BY <2>3, LockEffects
        <3>2. /\ record'[s] # NoRecord /\ ~record'[s].complete
              /\ \A i \in 1..record'[s].request.chunks : part'[s][i] \in Contents
            BY <2>1, <2>3 DEF Loads, HasRecord, VerifiedParts, ChunksOf, Intact, disk
        <3> QED BY <3>1, <3>2 DEF AssembleFits, HasRecord, IntactFrom, ChunksOf, Intact
    <2>4. CASE op'.step \in {"idle", "removing"}
        BY <1>2, <2>4
    <2> QED BY <1>3, <2>2, <2>3, <2>4, LockEffects, ChoiceEffects DEF Complete
<1>4. CASE AssembleStep
    <2> DEFINE s == op.session
               chunks == record[s].request.chunks
    <2>1. s \in Sessions /\ record[s] # NoRecord
        BY <1>1, <1>4 DEF AssembleStep, DropParts, SavePresent, StartArchive, CopyPart,
               UnlinkPart, CheckArchive, SaveComplete, RemoveChunks, AssembleFits,
               HasRecord
    <2>2. record[s] \in RecordType /\ chunks \in Nat \ {0}
        BY <1>1, <2>1, RequestsAssumption DEF TypeOK, RecordType
    <2>3. archive[s] \in Archives /\ Len(archive[s]) \in Nat
        BY <1>1, <2>1, ArchiveIsSequence, ChunkNumbers DEF TypeOK
    <2>4. ASSUME NEW step, Goto(step) PROVE op'.step = step /\ op'.session = s
        BY <1>1, <2>4 DEF Goto, TypeOK, Operation
    <2>5. CASE DropParts
        <3>1. op'.step = "present" /\ op'.session = s /\ UNCHANGED record
            BY <2>4, <2>5 DEF DropParts
        <3>2. ~record[s].complete
            BY <1>1, <2>5 DEF DropParts, AssembleFits
        <3> QED BY <2>1, <3>1, <3>2 DEF AssembleFits, HasRecord
    <2>6. CASE SavePresent \/ RemoveChunks
        BY <1>2, <2>6, LockEffects DEF SavePresent, RemoveChunks
    <2>7. CASE StartArchive
        <3>1. op'.step = "copy" /\ op'.session = s /\ UNCHANGED <<record, part>>
            BY <2>4, <2>7 DEF StartArchive
        <3>2. Len(archive'[s]) = 0
            BY <1>1, <2>1, <2>7 DEF StartArchive, TypeOK
        <3>3. ~record[s].complete /\ \A i \in 1..chunks : part[s][i] \in Contents
            BY <1>1, <2>2, <2>7
               DEF StartArchive, AssembleFits, IntactFrom, Intact, ChunksOf
        <3> QED BY <2>1, <2>2, <3>1, <3>2, <3>3
                DEF AssembleFits, HasRecord, IntactFrom, Intact, ChunksOf
    <2>8. CASE CopyPart
        <3> DEFINE i == Len(archive[s]) + 1
        <3>1. op'.step = "unlink" /\ op'.session = s /\ UNCHANGED <<record, part>>
            BY <2>4, <2>8 DEF CopyPart
        <3>2. i <= chunks /\ ~record[s].complete
            BY <1>1, <2>2, <2>3, <2>8 DEF CopyPart, AssembleFits
        <3>3. \A k \in 1..chunks : i <= k => part[s][k] \in Contents
            BY <1>1, <2>8 DEF CopyPart, AssembleFits, IntactFrom, Intact, ChunksOf
        <3>4. Len(archive'[s]) = i
            <4>1. i \in Chunks /\ part[s][i] \in Contents
                BY <2>2, <2>3, <3>2, <3>3, ChunkNumbers DEF RecordType
            <4> QED BY <1>1, <2>1, <2>3, <2>8, <4>1, LongerArchive DEF CopyPart, TypeOK
        <3> QED BY <2>1, <2>2, <2>3, <3>1, <3>2, <3>3, <3>4
                DEF AssembleFits, HasRecord, IntactFrom, Intact, ChunksOf
    <2>9. CASE UnlinkPart
        <3> DEFINE i == Len(archive[s])
        <3>1. /\ op'.session = s /\ UNCHANGED <<record, archive>>
              /\ op'.step = (IF i = chunks THEN "check" ELSE "copy")
            BY <2>4, <2>9 DEF UnlinkPart
        <3>2. i \in 1..chunks /\ ~record[s].complete
            BY <1>1, <2>9 DEF UnlinkPart, AssembleFits
        <3>3. \A k \in 1..chunks : i + 1 <= k => part'[s][k] \in Contents
            <4>1. \A k \in 1..chunks : i <= k => part[s][k] \in Contents
                BY <1>1, <2>9 DEF UnlinkPart, AssembleFits, IntactFrom, Intact, ChunksOf
            <4>2. \A k : k # i => part'[s][k] = part[s][k]
                BY <1>1, <2>1, <2>9 DEF UnlinkPart, TypeOK
            <4> QED BY <2>2, <2>3, <4>1, <4>2
        <3> QED BY <2>1, <2>2, <2>3, <3>1, <3>2, <3>3
                DEF AssembleFits, HasRecord, IntactFrom, Intact, ChunksOf
    <2>10. CASE CheckArchive
        <3>1. CASE /\ record[s].request.expected \in {NoDigest, archive[s]}
                   /\ Goto("complete")
            <4>1. /\ op'.step = "complete" /\ op'.session = s
                  /\ UNCHANGED <<record, archive>>
                BY <2>4, <2>10, <3>1 DEF CheckArchive, files
            <4>2. Len(archive[s]) = chunks /\ ~record[s].complete
                BY <1>1, <2>10 DEF CheckArchive, AssembleFits
            <4> QED BY <2>1, <3>1, <4>1, <4>2 DEF AssembleFits, HasRecord
        <3> QED BY <1>2, <2>10, <3>1, LockEffects DEF CheckArchive
    <2>11. CASE SaveComplete
        <3>1. op'.step = "remove chunks" /\ op'.session = s
            BY <2>4, <2>11 DEF SaveComplete
        <3>2. record'[s].complete /\ record'[s] \in RecordType
            BY <1>1, <2>1, <2>2, <2>3, <2>11 DEF SaveComplete, TypeOK, RecordType
        <3> QED BY <2>1, <3>1, <3>2, RequestsAssumption DEF AssembleFits, HasRecord
    <2> QED BY <1>4, <2>5, <2>6, <2>7, <2>8, <2>9, <2>10, <2>11 DEF AssembleStep
<1>5. CASE Aside
    BY <1>1, <1>2, <1>5, StepAside
       DEF AssembleFits, HasRecord, IntactFrom, Intact, ChunksOf, disk
<1> QED BY <1>1, <1>2, <1>3, <1>4, <1>5, NextCases, StepAfterRequest, StepAfterStep
        DEF Step

-----------------------------------------------------------------------------
(* Steps that change files, and steps that begin or end the life of a session *)

FileStep ==
    \/ MakeDirectory \/ SaveNewRecord \/ CreatePart \/ WritePart \/ SaveReceived
    \/ DropParts \/ SavePresent \/ StartArchive \/ CopyPart \/ UnlinkPart
    \/ SaveComplete \/ RemoveChunks \/ RemoveFile \/ RemoveDirectory

(* A request and the start of a sweep leave every file to the lock's holder. *)
LEMMA RequestEffects ==
    /\ \A q : Create(q) => UNCHANGED files /\ UNCHANGED outside /\ UNCHANGED acked
    /\ \A s, i, c : Receive(s, i, c) => UNCHANGED files /\ UNCHANGED outside
                                           /\ UNCHANGED answered
    /\ \A s : Read(s) \/ Complete(s) \/ Discard(s)
                  => UNCHANGED files /\ UNCHANGED outside /\ UNCHANGED history
    /\ Sweep => UNCHANGED files /\ UNCHANGED outside /\ UNCHANGED history
<1>1. ASSUME NEW q, Create(q)
      PROVE  UNCHANGED files /\ UNCHANGED outside /\ UNCHANGED acked
    <2>1. UNCHANGED <<files, outside, acked>>
        BY <1>1 DEF Create
    <2> QED BY <2>1
<1>2. ASSUME NEW s, NEW i, NEW c, Receive(s, i, c)
      PROVE  UNCHANGED files /\ UNCHANGED outside /\ UNCHANGED answered
    <2>1. UNCHANGED <<files, outside, answered>>
        BY <1>2 DEF Receive
    <2> QED BY <2>1
<1>3. \A s : Read(s) => UNCHANGED files /\ UNCHANGED outside /\ UNCHANGED history
    BY DEF Read
<1>4. \A s : Complete(s) => UNCHANGED files /\ UNCHANGED outside /\ UNCHANGED history
    BY DEF Complete
<1>5. \A s : Discard(s) => UNCHANGED files /\ UNCHANGED outside /\ UNCHANGED history
    BY DEF Discard
<1>6. Sweep => UNCHANGED files /\ UNCHANGED outside /\ UNCHANGED history
    BY DEF Sweep
<1> QED BY <1>1, <1>2, <1>3, <1>4, <1>5, <1>6

(* A step that changes a session file begins and ends no session's life. *)
LEMMA DiskSteps ==
    ASSUME [Next]_vars PROVE UNCHANGED disk \/ (FileStep /\ fate' = fate)
<1>1. CASE Step /\ ~FileStep
    BY <1>1 DEF Step, FileStep, CreateStep, ReceiveStep, AssembleStep, RemoveStep,
                SweepStep, WriteRequest, CheckArchive, RemoveRequest, SweepSession,
                RemoveStaleRequest, EndSweep, files, disk
<1>2. FileStep => fate' = fate
    BY DEF FileStep, MakeDirectory, SaveNewRecord, CreatePart, WritePart, SaveReceived,
           DropParts, SavePresent, StartArchive, CopyPart, UnlinkPart, SaveComplete,
           RemoveChunks, RemoveFile, RemoveDirectory
<1>3. CASE ~Step
    <2>1. UNCHANGED files => UNCHANGED disk
        BY DEF files, disk
    <2> QED BY <1>3, <2>1, NextCases, StepAside, RequestEffects
<1> QED BY <1>1, <1>2, <1>3

Lives(s) == fate' = [fate EXCEPT ![s] = "live"] /\ fate[s] = "unborn"
Dooms(s) == fate' = [fate EXCEPT ![s] = "doomed"]

(* A session's life begins or ends in a step that changes no session       *)
(* file.                                                                   *)
LEMMA FateSteps ==
    ASSUME TypeOK, [Next]_vars
    PROVE  \/ fate' = fate
           \/ UNCHANGED disk /\ UNCHANGED history
                /\ \E s \in Sessions : Lives(s) \/ Dooms(s)
<1> DEFINE Moves == \E s \in Sessions : Lives(s) \/ Dooms(s)
<1>1. ASSUME NEW call, NEW s, NEW client, NEW then, NEW todo,
             Remove(call, s, client, then, todo)
      PROVE  fate' = fate \/ Moves
    <2>1. s \notin Sessions => fate' = fate
        BY <1>1 DEF Remove, TypeOK
    <2> QED BY <1>1, <2>1 DEF Remove, Dooms
<1>2. ASSUME NEW call, Open(call) PROVE fate' = fate \/ Moves
    BY <1>2 DEF Open, Unborn, Lives
<1>3. ASSUME NEW call, NEW s, Refuse(call, s) PROVE fate' = fate \/ Moves
    BY <1>1, <1>3 DEF Refuse
<1>4. ASSUME NEW q \in Requests, Create(q)
      PROVE  fate' = fate \/ (UNCHANGED disk /\ UNCHANGED history /\ Moves)
    BY <1>1, <1>2, <1>4 DEF Create, files, disk, history
<1>5. ASSUME NEW s, NEW i, NEW c, Receive(s, i, c)
      PROVE  fate' = fate \/ (UNCHANGED disk /\ UNCHANGED history /\ Moves)
    BY <1>3, <1>5 DEF Receive, files, disk, history
<1>6. ASSUME NEW s, Read(s) \/ Complete(s)
      PROVE  fate' = fate \/ (UNCHANGED disk /\ UNCHANGED history /\ Moves)
    BY <1>3, <1>6 DEF Read, Complete, files, disk, history
<1>7. ASSUME NEW s, Discard(s)
      PROVE  fate' = fate \/ (UNCHANGED disk /\ UNCHANGED history /\ Moves)
    BY <1>1, <1>7 DEF Discard, files, disk, history
<1>8. CASE Aside
    <2>1. \A step, s, next : WorkerLoad(step, s, next) => fate' = fate \/ Moves
        BY <1>3 DEF WorkerLoad
    <2> QED BY <1>8, <2>1, StepAside
            DEF Aside, Worker, WorkerRead, WorkerPath, WorkerOpen, WorkerEnd,
                Disturbance, Interrupt, Expire, vars
<1>9. CASE CheckArchive \/ SweepSession \/ RemoveRequest
    BY <1>1, <1>2, <1>9
       DEF CheckArchive, SweepSession, RemoveRequest, files, disk, history
<1>10. CASE WriteRequest \/ RemoveStaleRequest \/ EndSweep \/ Sweep
    BY <1>10 DEF WriteRequest, RemoveStaleRequest, EndSweep, Sweep
<1>11. FileStep => fate' = fate
    BY DEF FileStep, MakeDirectory, SaveNewRecord, CreatePart, WritePart, SaveReceived,
           DropParts, SavePresent, StartArchive, CopyPart, UnlinkPart, SaveComplete,
           RemoveChunks, RemoveFile, RemoveDirectory
<1>12. Step => \/ CheckArchive \/ SweepSession \/ RemoveRequest \/ WriteRequest
               \/ RemoveStaleRequest \/ EndSweep \/ FileStep
    BY DEF Step, FileStep, CreateStep, ReceiveStep, AssembleStep, RemoveStep, SweepStep
<1> QED BY <1>4, <1>5, <1>6, <1>7, <1>8, <1>9, <1>10, <1>11, <1>12, NextCases

\* what a file step may do to the record and the archive of a session
Kept(s) == record'[s] = record[s] /\ archive'[s] = archive[s]
Created(s) ==
    /\ op.step = "record" /\ op.session = s /\ s \in dirs
    /\ ~HasRecord(s) /\ record'[s] # NoRecord /\ ~record'[s].complete
    /\ archive'[s] = archive[s]
InProgress(s) ==
    /\ HasRecord(s) /\ ~record[s].complete
    /\ record'[s] # NoRecord /\ ~record'[s].complete
    /\ record'[s].request = record[s].request
Finished(s) ==
    /\ HasRecord(s) /\ ~record[s].complete /\ archive'[s] = archive[s]
    /\ record'[s] = [record[s] EXCEPT !.complete = TRUE, !.digest = archive[s]]
    /\ Len(archive[s]) = record[s].request.chunks
    /\ record[s].request.expected \in {NoDigest, archive[s]}
Removed(s) ==
    /\ fate[s] = "doomed"
    /\ record'[s] \in {record[s], NoRecord} /\ archive'[s] \in {archive[s], <<>>}

(* What a file step can have done to the record and archive of a           *)
(* session.                                                                *)
LEMMA FileEffects ==
    ASSUME IndInv, FileStep, NEW s \in Sessions
    PROVE  Kept(s) \/ Created(s) \/ InProgress(s) \/ Finished(s) \/ Removed(s)
<1>1. TypeOK /\ CreateFits /\ ReceiveFits /\ AssembleFits /\ RemoveFits
    BY DEF IndInv
<1>2. HasRecord(s) => record[s] \in RecordType /\ record[s] # NoRecord
    BY <1>1 DEF TypeOK, HasRecord
<1>3. CASE \/ MakeDirectory \/ CreatePart \/ WritePart \/ DropParts \/ UnlinkPart
           \/ RemoveChunks \/ RemoveDirectory
    BY <1>3 DEF MakeDirectory, CreatePart, WritePart, DropParts, UnlinkPart, RemoveChunks,
                RemoveDirectory, Kept
<1>4. CASE SaveNewRecord
    <2>1. CASE op.session = s
        <3>1. New(op.call.request) \in RecordType
            BY <1>1, <1>4 DEF SaveNewRecord, CreateFits, Creates, New, RecordType
        <3>2. record'[s] = New(op.call.request)
            BY <1>1, <1>4, <2>1 DEF SaveNewRecord, TypeOK
        <3>3. ~record'[s].complete
            BY <3>2 DEF New
        <3>4. op.step = "record" /\ s \in dirs /\ ~HasRecord(s)
            BY <1>1, <1>4, <2>1 DEF SaveNewRecord, CreateFits
        <3> QED BY <1>4, <2>1, <3>1, <3>2, <3>3, <3>4, RequestsAssumption
                DEF SaveNewRecord, Created
    <2> QED BY <1>1, <1>4, <2>1 DEF SaveNewRecord, TypeOK, Kept
<1>5. CASE SaveReceived \/ SavePresent
    <2>1. CASE op.session = s
        <3>1. HasRecord(s) /\ ~record[s].complete
            BY <1>1, <1>5, <2>1 DEF SaveReceived, SavePresent, ReceiveFits, AssembleFits
        <3>2. PICK r : record'[s] = [record[s] EXCEPT !.received = r]
            BY <1>1, <1>5, <2>1 DEF SaveReceived, SavePresent, TypeOK
        <3>3. /\ record'[s].complete = record[s].complete
              /\ record'[s].request = record[s].request
            BY <1>2, <3>1, <3>2 DEF RecordType
        <3>4. record'[s] # NoRecord
            <4>1. CASE SaveReceived
                <5>1. op.call.index \in Chunks
                    BY <1>1, <4>1 DEF SaveReceived, ReceiveFits, Receives
                <5>2. record'[s] \in RecordType
                    BY <1>1, <1>2, <2>1, <3>1, <4>1, <5>1
                       DEF SaveReceived, TypeOK, RecordType
                <5> QED BY <5>2, RequestsAssumption
            <4>2. CASE SavePresent
                <5>1. VerifiedParts(s) \in SUBSET Chunks
                    BY <1>2, <3>1 DEF VerifiedParts, RecordType
                <5>2. record'[s] \in RecordType
                    BY <1>1, <1>2, <2>1, <3>1, <4>2, <5>1
                       DEF SavePresent, TypeOK, RecordType
                <5> QED BY <5>2, RequestsAssumption
            <4> QED BY <1>5, <4>1, <4>2
        <3> QED BY <3>1, <3>3, <3>4 DEF InProgress
    <2> QED BY <1>1, <1>5, <2>1 DEF SaveReceived, SavePresent, TypeOK, Kept
<1>6. CASE StartArchive \/ CopyPart
    <2>1. CASE op.session = s
        <3>1. HasRecord(s) /\ ~record[s].complete
            BY <1>1, <1>6, <2>1 DEF StartArchive, CopyPart, AssembleFits
        <3> QED BY <1>6, <3>1 DEF StartArchive, CopyPart, InProgress, HasRecord
    <2> QED BY <1>1, <1>6, <2>1 DEF StartArchive, CopyPart, TypeOK, Kept
<1>7. CASE SaveComplete
    <2>1. CASE op.session = s
        <3>1. /\ HasRecord(s) /\ ~record[s].complete
              /\ Len(archive[s]) = record[s].request.chunks
              /\ record[s].request.expected \in {NoDigest, archive[s]}
            BY <1>1, <1>7, <2>1 DEF SaveComplete, AssembleFits
        <3>2. record'[s] = [record[s] EXCEPT !.complete = TRUE, !.digest = archive[s]]
            BY <1>1, <1>7, <2>1 DEF SaveComplete, TypeOK
        <3> QED BY <1>7, <3>1, <3>2 DEF SaveComplete, Finished
    <2> QED BY <1>1, <1>7, <2>1 DEF SaveComplete, TypeOK, Kept
<1>8. CASE RemoveFile
    <2>1. CASE op.session = s
        <3>1. fate[s] = "doomed"
            BY <1>1, <1>8, <2>1 DEF RemoveFile, RemoveFits
        <3> QED BY <1>1, <1>8, <2>1, <3>1 DEF RemoveFile, TypeOK, Removed
    <2> QED BY <1>1, <1>8, <2>1 DEF RemoveFile, TypeOK, Kept
<1> QED BY <1>3, <1>4, <1>5, <1>6, <1>7, <1>8 DEF FileStep

\* what a step may do to the history
LEMMA AcknowledgeEffects ==
    ASSUME IndInv, [Next]_vars, NEW s \in Sessions, NEW i \in Chunks
    PROVE  \/ acked'[s][i] = acked[s][i]
           \/ /\ HasRecord(s) /\ i \in ChunksOf(s)
              /\ Intact(s, i)'
              /\ record'[s] # NoRecord /\ record'[s].request = record[s].request
<1>1. TypeOK /\ ReceiveFits
    BY DEF IndInv
<1>2. CASE acked' = acked
    BY <1>2
<1>3. ASSUME NEW t \in Sessions, NEW j \in Chunks, NEW c \in Contents,
             Receive(t, j, c), acked' # acked
      PROVE  \/ acked'[s][i] = acked[s][i]
             \/ /\ HasRecord(s) /\ i \in ChunksOf(s) /\ Intact(s, i)'
                /\ record'[s] # NoRecord /\ record'[s].request = record[s].request
    <2>1. /\ Loads(t) /\ j \in ChunksOf(t) /\ part[t][j] = c
          /\ AcknowledgePart(t, j, c) /\ UNCHANGED <<record, part>>
        BY <1>3 DEF Receive, files
    <2>2. CASE s = t /\ i = j
        BY <2>1, <2>2 DEF Loads, HasRecord, Intact
    <2> QED BY <1>1, <2>1, <2>2 DEF AcknowledgePart, TypeOK
<1>4. CASE WritePart \/ SaveReceived
    <2> DEFINE t == op.session
               j == op.call.index
    <2>1. /\ t \in Sessions /\ j \in Chunks /\ op.call.content \in Contents
          /\ HasRecord(t) /\ j \in ChunksOf(t)
        BY <1>1, <1>4 DEF WritePart, SaveReceived, ReceiveFits, Receives
    <2>2. acked' = acked \/ AcknowledgePart(t, j, op.call.content)
        BY <1>4 DEF WritePart, SaveReceived
    <2>3. part'[t][j] = op.call.content
        <3>1. CASE WritePart
            BY <1>1, <2>1, <3>1 DEF WritePart, TypeOK
        <3>2. CASE SaveReceived
            BY <1>1, <3>2 DEF SaveReceived, ReceiveFits
        <3> QED BY <1>4, <3>1, <3>2
    <2>4. record'[t] # NoRecord /\ record'[t].request = record[t].request
        <3>1. CASE WritePart
            BY <2>1, <3>1 DEF WritePart, HasRecord
        <3>2. CASE SaveReceived
            <4>1. record[t] \in RecordType
                BY <1>1, <2>1 DEF TypeOK, HasRecord
            <4>2. record'[t] = [record[t] EXCEPT !.received = @ \cup {j}]
                BY <1>1, <2>1, <3>2 DEF SaveReceived, TypeOK
            <4>3. record'[t] \in RecordType
                BY <2>1, <4>1, <4>2 DEF RecordType
            <4> QED BY <4>1, <4>2, <4>3, RequestsAssumption DEF RecordType
        <3> QED BY <1>4, <3>1, <3>2
    <2>5. CASE s = t /\ i = j
        BY <2>1, <2>3, <2>4, <2>5 DEF Intact
    <2>6. CASE ~(s = t /\ i = j)
        BY <1>1, <2>1, <2>2, <2>6 DEF AcknowledgePart, TypeOK
    <2> QED BY <2>5, <2>6
<1>5. CASE Step /\ ~(WritePart \/ SaveReceived)
    BY <1>5 DEF Step, CreateStep, MakeDirectory, SaveNewRecord, WriteRequest, ReceiveStep,
                CreatePart, AssembleStep, DropParts, SavePresent, StartArchive, CopyPart,
                UnlinkPart, CheckArchive, SaveComplete, RemoveChunks, RemoveStep,
                RemoveFile, RemoveDirectory, RemoveRequest, SweepStep, SweepSession,
                RemoveStaleRequest, EndSweep, history
<1>6. CASE Aside \/ Sweep \/ (\E q \in Requests : Create(q))
               \/ (\E t \in Sessions : Read(t) \/ Complete(t) \/ Discard(t))
    BY <1>6, StepAside DEF Sweep, Create, Read, Complete, Discard, history
<1> QED BY <1>2, <1>3, <1>4, <1>5, <1>6, NextCases

(* Only create changes what was last answered to an identifier. *)
LEMMA AnsweredSteps ==
    ASSUME [Next]_vars
    PROVE  answered' = answered \/ WriteRequest \/ \E q \in Requests : Create(q)
<1>1. CASE Step /\ ~WriteRequest
    BY <1>1 DEF Step, CreateStep, MakeDirectory, SaveNewRecord, ReceiveStep,
                CreatePart, WritePart, SaveReceived, AssembleStep, DropParts, SavePresent,
                StartArchive, CopyPart, UnlinkPart, CheckArchive, SaveComplete,
                RemoveChunks, RemoveStep, RemoveFile, RemoveDirectory, RemoveRequest,
                SweepStep, SweepSession, RemoveStaleRequest, EndSweep, history
<1>2. CASE Aside \/ Sweep
               \/ (\E s \in Sessions, i \in Chunks, d \in Contents : Receive(s, i, d))
               \/ (\E s \in Sessions : Read(s) \/ Complete(s) \/ Discard(s))
    BY <1>2, StepAside, RequestEffects DEF history
<1> QED BY <1>1, <1>2, NextCases

(* A create is answered only with a session that its request file points   *)
(* at.                                                                     *)
LEMMA AnswerEffects ==
    ASSUME IndInv, [Next]_vars, NEW c \in Clients
    PROVE  \/ answered'[c] = answered[c]
           \/ /\ answered'[c] \in Sessions /\ record'[answered'[c]] # NoRecord
              /\ fate[answered'[c]] # "unborn" /\ pointer'[c] = answered'[c]
<1>1. TypeOK /\ CreateFits /\ FilesFit
    BY DEF IndInv
<1>2. CASE answered' = answered
    BY <1>2
<1>3. ASSUME NEW q \in Requests, Create(q), answered' # answered
      PROVE  \/ answered'[c] = answered[c]
             \/ /\ answered'[c] \in Sessions /\ record'[answered'[c]] # NoRecord
                /\ fate[answered'[c]] # "unborn" /\ pointer'[c] = answered'[c]
    <2> DEFINE known == pointer[q.client]
    <2>1. /\ known # NoSession /\ HasRecord(known) /\ Acknowledge(q, known)
          /\ UNCHANGED <<record, pointer>>
        BY <1>3 DEF Create, files, history
    <2>2. q.client \in Clients /\ known \in Sessions
        BY <1>1, <2>1 DEF Clients, TypeOK
    <2>3. fate[known] # "unborn"
        BY <1>1, <2>1, <2>2 DEF FilesFit
    <2> QED BY <1>1, <2>1, <2>2, <2>3 DEF Acknowledge, TypeOK, HasRecord
<1>4. CASE WriteRequest
    <2> DEFINE k == op.call.request.client
    <2>1. /\ op.session \in Sessions /\ fate[op.session] # "unborn" /\ k \in Clients
          /\ HasRecord(op.session)
        BY <1>1, <1>4 DEF WriteRequest, CreateFits, Creates, Clients
    <2> QED BY <1>1, <1>4, <2>1 DEF WriteRequest, Acknowledge, TypeOK, HasRecord
<1> QED BY <1>2, <1>3, <1>4, AnsweredSteps

-----------------------------------------------------------------------------
(* The promises *)

\* a session is alive after a step if it was, or if it was just chosen
LEMMA StillAlive ==
    ASSUME TypeOK, [Next]_vars, NEW s \in Sessions
    PROVE  /\ fate'[s] = "live"
                => \/ fate[s] = "live"
                   \/ fate[s] = "unborn" /\ UNCHANGED disk /\ UNCHANGED history
           /\ fate[s] # "unborn" => fate'[s] # "unborn"
           /\ fate[s] = "doomed" => fate'[s] = "doomed"
BY FateSteps DEF Lives, Dooms, TypeOK

(* Every step keeps complete archives whole. *)
LEMMA CompleteIsWholeStep == ASSUME IndInv, [Next]_vars PROVE CompleteIsWhole'
<1>1. TypeOK /\ FilesFit /\ CompleteIsWhole
    BY DEF IndInv
<1> SUFFICES ASSUME NEW s \in Sessions,
                    fate'[s] = "live", record'[s] # NoRecord, record'[s].complete
             PROVE  /\ archive'[s] = record'[s].digest
                    /\ DOMAIN archive'[s] = 1..record'[s].request.chunks
                    /\ record'[s].request.expected \in {NoDigest, archive'[s]}
    BY DEF CompleteIsWhole, HasRecord, ChunksOf
<1>2. CASE Kept(s)
    <2>1. fate[s] # "unborn"
        BY <1>1, <1>2 DEF Kept, FilesFit, HasRecord
    <2>2. fate[s] = "live"
        BY <1>1, <2>1, StillAlive
    <2> QED BY <1>1, <1>2, <2>2 DEF Kept, CompleteIsWhole, HasRecord, ChunksOf
<1>3. CASE Finished(s)
    <2>1. record[s] \in RecordType /\ archive[s] \in Archives
        BY <1>1, <1>3 DEF Finished, TypeOK, HasRecord
    <2>2. DOMAIN archive[s] = 1..Len(archive[s])
        BY <2>1, ArchiveIsSequence
    <2>3. record'[s].request = record[s].request /\ record'[s].digest = archive[s]
        BY <1>3, <2>1 DEF Finished, RecordType
    <2> QED BY <1>3, <2>2, <2>3 DEF Finished
<1>4. UNCHANGED disk => Kept(s)
    BY DEF disk, Kept
<1>5. ~Created(s) /\ ~InProgress(s)
    BY DEF Created, InProgress
<1>6. FileStep /\ fate' = fate => ~Removed(s)
    BY DEF Removed
<1> QED BY <1>2, <1>3, <1>4, <1>5, <1>6, DiskSteps, FileEffects

(* Every step keeps what lies on disk with sessions that exist. *)
LEMMA FilesFitStep == ASSUME IndInv, [Next]_vars PROVE FilesFit'
<1>1. TypeOK /\ FilesFit /\ CreateFits
    BY DEF IndInv
<1>2. ASSUME NEW s \in Sessions, record'[s] # NoRecord
      PROVE  /\ s \in dirs' /\ fate'[s] # "unborn"
             /\ record'[s].complete => archive'[s] \in {<<>>, record'[s].digest}
    <2>1. CASE UNCHANGED disk
        BY <1>1, <1>2, <2>1, StillAlive DEF disk, FilesFit, HasRecord
    <2>2. CASE FileStep /\ fate' = fate
        <3>1. s \in dirs /\ fate[s] # "unborn"
            BY <1>1, <1>2, <2>2, FileEffects
               DEF FilesFit, CreateFits, Kept, Created, InProgress, Finished, Removed,
                   HasRecord
        <3>2. s \in dirs'
            <4>1. CASE MakeDirectory
                BY <3>1, <4>1 DEF MakeDirectory
            <4>2. CASE RemoveDirectory
                BY <1>2, <3>1, <4>2 DEF RemoveDirectory, Empty, HasRecord
            <4>3. CASE ~(MakeDirectory \/ RemoveDirectory)
                BY <2>2, <3>1, <4>3
                   DEF FileStep, SaveNewRecord, CreatePart, WritePart, SaveReceived,
                       DropParts, SavePresent, StartArchive, CopyPart, UnlinkPart,
                       SaveComplete, RemoveChunks, RemoveFile
            <4> QED BY <4>1, <4>2, <4>3
        <3>3. record'[s].complete => archive'[s] \in {<<>>, record'[s].digest}
            <4>1. CASE Kept(s) \/ Removed(s)
                BY <1>1, <1>2, <4>1 DEF FilesFit, Kept, Removed, HasRecord
            <4>2. CASE Finished(s)
                BY <1>1, <4>2 DEF Finished, TypeOK, HasRecord, RecordType
            <4> QED BY <2>2, <4>1, <4>2, FileEffects DEF Created, InProgress
        <3> QED BY <2>2, <3>1, <3>2, <3>3
    <2> QED BY <2>1, <2>2, DiskSteps
<1>3. ASSUME NEW s \in Sessions, NEW i \in Chunks,
             acked'[s][i] # Absent, fate'[s] # "doomed"
      PROVE  record'[s] # NoRecord /\ i \in 1..record'[s].request.chunks
    <2>1. HasRecord(s) /\ i \in ChunksOf(s) /\ fate[s] # "doomed"
        BY <1>1, <1>3, StillAlive, AcknowledgeEffects DEF FilesFit
    <2>2. record[s] \in RecordType
        BY <1>1, <2>1 DEF TypeOK, HasRecord
    <2>3. CASE UNCHANGED disk
        BY <2>1, <2>3 DEF disk, HasRecord, ChunksOf
    <2>4. CASE Finished(s)
        <3>1. archive[s] \in Archives
            BY <1>1 DEF TypeOK
        <3>2. /\ record'[s] \in RecordType
              /\ record'[s].request = record[s].request
            BY <2>2, <2>4, <3>1 DEF Finished, RecordType
        <3> QED BY <2>1, <3>2, RequestsAssumption DEF ChunksOf
    <2> QED BY <2>1, <2>3, <2>4, DiskSteps, FileEffects
            DEF Kept, Created, InProgress, Removed, HasRecord, ChunksOf
<1>4. ASSUME NEW c \in Clients, answered'[c] # NoSession
      PROVE  fate'[answered'[c]] # "unborn"
    BY <1>1, <1>4, AnswerEffects, StillAlive DEF FilesFit, TypeOK
<1> QED BY <1>2, <1>3, <1>4 DEF FilesFit, HasRecord, ChunksOf

(* A session that lives keeps its record; a complete one stays complete,   *)
(* with its archive.                                                       *)
LEMMA RecordStays ==
    ASSUME IndInv, [Next]_vars, NEW s \in Sessions, fate[s] = "live", HasRecord(s)
    PROVE  /\ record[s] \in RecordType /\ ChunksOf(s) \subseteq Chunks
           /\ record'[s] # NoRecord /\ record'[s].request = record[s].request
           /\ record[s].complete => record'[s].complete /\ archive'[s] = archive[s]
<1>1. TypeOK
    BY DEF IndInv
<1>2. record[s] \in RecordType /\ ChunksOf(s) \subseteq Chunks
    BY <1>1, RecordChanges
<1>3. archive[s] \in Archives
    BY <1>1 DEF TypeOK
<1>4. CASE Finished(s)
    <2>1. record'[s] \in RecordType /\ record'[s].request = record[s].request
        BY <1>2, <1>3, <1>4 DEF Finished, RecordType
    <2> QED BY <1>2, <1>4, <2>1, RequestsAssumption DEF Finished
<1>5. CASE Kept(s) \/ InProgress(s)
    BY <1>2, <1>5 DEF Kept, InProgress, HasRecord
<1>6. UNCHANGED disk => Kept(s)
    BY DEF disk, Kept
<1>7. ~Created(s) /\ ~Removed(s)
    BY DEF Created, Removed
<1> QED BY <1>4, <1>5, <1>6, <1>7, DiskSteps, FileEffects

\* a part whose bytes the backend has, as a chunk or in an archive
Stored(s, i) ==
    /\ HasRecord(s) /\ i \in ChunksOf(s)
    /\ Intact(s, i) \/ i \in DOMAIN archive[s]

(* A part that is stored stays stored while its session lives, through     *)
(* every step of every operation and every interruption.                   *)
LEMMA StoredStep ==
    ASSUME IndInv, [Next]_vars, NEW s \in Sessions, NEW i \in Chunks,
           fate'[s] = "live", fate[s] = "live", Stored(s, i)
    PROVE  Stored(s, i)'
<1>1. TypeOK /\ FilesFit /\ ReceiveFits /\ AssembleFits /\ RemoveFits /\ CompleteIsWhole
    BY DEF IndInv
<1>2. HasRecord(s) /\ i \in ChunksOf(s) /\ record[s] \in RecordType
    BY <1>1 DEF Stored, TypeOK, HasRecord
<1>3. part[s][i] \in Contents \/ i \in DOMAIN archive[s]
    BY DEF Stored, Intact
<1>4. part'[s][i] \in Contents \/ i \in DOMAIN archive'[s]
    <2>3. CASE \/ UNCHANGED disk \/ MakeDirectory \/ SaveNewRecord \/ SaveReceived
               \/ SavePresent \/ SaveComplete \/ RemoveDirectory
        BY <1>3, <2>3 DEF disk, MakeDirectory, SaveNewRecord, SaveReceived, SavePresent,
                          SaveComplete, RemoveDirectory
    <2>4. CASE op.session # s /\ FileStep
        <3>1. part'[s] = part[s] /\ archive'[s] = archive[s]
            BY <1>1, <2>4
               DEF FileStep, MakeDirectory, SaveNewRecord, CreatePart, WritePart,
                   SaveReceived, DropParts, SavePresent, StartArchive, CopyPart,
                   UnlinkPart, SaveComplete, RemoveChunks, RemoveFile, RemoveDirectory,
                   TypeOK
        <3> QED BY <1>3, <3>1
    <2>5. CASE op.session = s /\ CreatePart
        <3>1. ~Intact(s, op.call.index)
            BY <1>1, <2>5 DEF CreatePart, ReceiveFits
        <3>2. op.call.index # i => part'[s][i] = part[s][i]
            BY <1>1, <2>5 DEF CreatePart, TypeOK
        <3> QED BY <1>3, <2>5, <3>1, <3>2 DEF CreatePart, Intact
    <2>6. CASE op.session = s /\ WritePart
        <3>1. op.call.content \in Contents
            BY <1>1, <2>6 DEF WritePart, ReceiveFits, Receives
        <3>2. part'[s][i] \in {op.call.content, part[s][i]}
            BY <1>1, <2>6 DEF WritePart, TypeOK
        <3> QED BY <1>3, <2>6, <3>1, <3>2 DEF WritePart
    <2>7. CASE op.session = s /\ DropParts
        <3>1. part[s][i] # Torn => part'[s][i] = part[s][i]
            BY <1>1, <2>7 DEF DropParts, TypeOK
        <3> QED BY <1>3, <2>7, <3>1, RequestsAssumption DEF DropParts
    <2>8. CASE op.session = s /\ StartArchive
        <3>1. part[s][i] \in Contents
            BY <1>1, <1>2, <2>8, RequestsAssumption
               DEF StartArchive, AssembleFits, IntactFrom, Intact, ChunksOf
        <3> QED BY <2>8, <3>1 DEF StartArchive
    <2>9. CASE op.session = s /\ CopyPart
        <3>1. \A a, c : a \in Seq(Contents) => DOMAIN a \subseteq DOMAIN Append(a, c)
            OBVIOUS
        <3>2. archive[s] \in Seq(Contents)
            BY <1>1, ArchiveIsSequence DEF TypeOK
        <3> QED BY <1>1, <1>3, <2>9, <3>1, <3>2 DEF CopyPart, TypeOK
    <2>10. CASE op.session = s /\ UnlinkPart
        <3>1. Len(archive[s]) \in DOMAIN archive[s]
            <4>1. archive[s] \in Seq(Contents)
                BY <1>1, ArchiveIsSequence DEF TypeOK
            <4>2. Len(archive[s]) >= 1
                BY <1>1, <2>10 DEF UnlinkPart, AssembleFits
            <4> QED BY <4>1, <4>2
        <3>2. i # Len(archive[s]) => part'[s][i] = part[s][i]
            BY <1>1, <2>10 DEF UnlinkPart, TypeOK
        <3> QED BY <1>3, <2>10, <3>1, <3>2 DEF UnlinkPart
    <2>11. CASE op.session = s /\ RemoveChunks
        <3>1. record[s].complete
            BY <1>1, <2>11 DEF RemoveChunks, AssembleFits
        <3> QED BY <1>1, <1>2, <2>11, <3>1 DEF RemoveChunks, CompleteIsWhole
    <2>12. CASE op.session = s /\ RemoveFile
        BY <1>1, <2>12 DEF RemoveFile, RemoveFits
    <2> QED BY <2>3, <2>4, <2>5, <2>6, <2>7, <2>8, <2>9, <2>10, <2>11, <2>12, DiskSteps
            DEF FileStep
<1>5. record'[s] # NoRecord /\ record'[s].request = record[s].request
    BY <1>2, RecordStays
<1> QED BY <1>2, <1>4, <1>5 DEF Stored, HasRecord, ChunksOf, Intact


(* Every step keeps the acknowledged parts. *)
LEMMA PartKeptStep == ASSUME IndInv, [Next]_vars PROVE AcknowledgedPartKept'
<1>1. TypeOK /\ FilesFit /\ AcknowledgedPartKept
    BY DEF IndInv
<1> SUFFICES ASSUME NEW s \in Sessions, NEW i \in Chunks,
                    fate'[s] = "live", acked'[s][i] # Absent
             PROVE  part'[s][i] \in Contents \/ i \in DOMAIN archive'[s]
    BY DEF AcknowledgedPartKept, Intact
<1>2. CASE acked'[s][i] # acked[s][i]
    BY <1>2, AcknowledgeEffects DEF Intact
<1>3. CASE acked'[s][i] = acked[s][i]
    <2>1. fate[s] = "live" /\ HasRecord(s) /\ i \in ChunksOf(s)
        BY <1>1, <1>3, StillAlive DEF FilesFit
    <2>2. Stored(s, i)
        BY <1>1, <1>3, <2>1 DEF AcknowledgedPartKept, Stored
    <2>3. Stored(s, i)'
        BY <2>1, <2>2, StoredStep
    <2> QED BY <2>3 DEF Stored, Intact
<1> QED BY <1>2, <1>3

(* A request file changes where create ends, where a removal ends, and in a *)
(* sweep.                                                                   *)
LEMMA PointerSteps ==
    ASSUME [Next]_vars
    PROVE  pointer' = pointer \/ WriteRequest \/ RemoveStaleRequest \/ RemoveRequest
<1>1. CASE Step /\ ~(WriteRequest \/ RemoveStaleRequest \/ RemoveRequest)
    BY <1>1
       DEF Step, CreateStep, MakeDirectory, SaveNewRecord, ReceiveStep,
           CreatePart, WritePart, SaveReceived, AssembleStep, DropParts,
           SavePresent, StartArchive, CopyPart, UnlinkPart, CheckArchive,
           SaveComplete, RemoveChunks, RemoveStep, RemoveFile, RemoveDirectory,
           SweepStep, SweepSession, EndSweep, files
<1>2. Aside => pointer' = pointer
    <2>1. \A step, t, next : WorkerLoad(step, t, next) => pointer' = pointer
        BY DEF WorkerLoad, files
    <2> QED BY <2>1
            DEF Aside, Worker, WorkerRead, WorkerPath, WorkerOpen, WorkerEnd,
                Disturbance, Interrupt, Expire, vars, files
<1>3. UNCHANGED files => pointer' = pointer
    BY DEF files
<1> QED BY <1>1, <1>2, <1>3, NextCases, RequestEffects

(* Every step keeps the answered session where its client finds it. *)
LEMMA ReplayStep == ASSUME IndInv, [Next]_vars PROVE ReplayFindsSession'
<1>1. TypeOK /\ FilesFit /\ CreateFits /\ RemoveFits /\ ReplayFindsSession
    BY DEF IndInv
<1> SUFFICES ASSUME NEW c \in Clients,
                    answered'[c] # NoSession, fate'[answered'[c]] = "live"
             PROVE  record'[answered'[c]] # NoRecord /\ pointer'[c] = answered'[c]
    BY DEF ReplayFindsSession, HasRecord
<1>2. CASE answered'[c] # answered[c]
    BY <1>2, AnswerEffects
<1>3. CASE answered'[c] = answered[c]
    <2> DEFINE s == answered[c]
    <2>1. s \in Sessions /\ s # NoSession /\ fate[s] # "unborn"
        BY <1>1, <1>3 DEF TypeOK, FilesFit
    <2>2. fate[s] = "live" /\ HasRecord(s) /\ pointer[c] = s /\ s \in dirs
        BY <1>1, <1>3, <2>1, StillAlive DEF ReplayFindsSession, FilesFit
    <2>3. record'[s] # NoRecord
        <3>1. CASE UNCHANGED disk
            BY <2>2, <3>1 DEF disk, HasRecord
        <3>2. CASE Finished(s)
            <4>1. record[s] \in RecordType /\ archive[s] \in Archives
                BY <1>1, <2>1, <2>2 DEF TypeOK, HasRecord
            <4>2. record'[s] \in RecordType
                BY <3>2, <4>1 DEF Finished, RecordType
            <4> QED BY <4>2, RequestsAssumption
        <3> QED BY <2>1, <2>2, <3>1, <3>2, DiskSteps, FileEffects
                DEF Kept, Created, InProgress, Removed, HasRecord
    <2>4. pointer'[c] = s
        <3>1. CASE WriteRequest
            <4>1. op.call.request.client \in Clients
                BY <1>1, <3>1 DEF WriteRequest, CreateFits, Creates, Clients
            <4> QED BY <1>1, <1>3, <2>2, <3>1, <4>1 DEF WriteRequest, Acknowledge, TypeOK
        <3>2. CASE RemoveStaleRequest
            BY <1>1, <2>2, <3>2 DEF RemoveStaleRequest, Stale, TypeOK
        <3>3. CASE RemoveRequest
            BY <1>1, <2>2, <3>3 DEF RemoveRequest, RemoveFits
        <3> QED BY <2>2, <3>1, <3>2, <3>3, PointerSteps
    <2> QED BY <1>3, <2>3, <2>4
<1> QED BY <1>2, <1>3

\* nobody but the worker moves its reading
LEMMA ReaderSteps ==
    ASSUME [Next]_vars
    PROVE  reader' = reader \/ Worker \/ \E s \in Sessions : WorkerRead(s)
<1>1. Step => reader' = reader
    BY DEF Step, CreateStep, MakeDirectory, SaveNewRecord, WriteRequest, ReceiveStep,
           CreatePart, WritePart, SaveReceived, AssembleStep, DropParts, SavePresent,
           StartArchive, CopyPart, UnlinkPart, CheckArchive, SaveComplete, RemoveChunks,
           RemoveStep, RemoveFile, RemoveDirectory, RemoveRequest, SweepStep,
           SweepSession, RemoveStaleRequest, EndSweep, outside
<1>2. UNCHANGED outside => reader' = reader
    BY DEF outside
<1>3. Disturbance \/ UNCHANGED vars => reader' = reader
    BY DEF Disturbance, Interrupt, Expire, vars
<1> QED BY <1>1, <1>2, <1>3, NextCases, RequestEffects DEF Aside

(* Every step keeps the worker's bytes those of its digest. *)
LEMMA WorkerReadsDigestStep == ASSUME IndInv, [Next]_vars PROVE WorkerReadsDigest'
<1>1. TypeOK /\ ReaderFits /\ WorkerReadsDigest
    BY DEF IndInv
<1>2. CASE reader' = reader
    BY <1>1, <1>2 DEF WorkerReadsDigest
<1>3. ASSUME NEW s \in Sessions, WorkerRead(s) PROVE WorkerReadsDigest'
    BY <1>3 DEF WorkerRead, WorkerLoad, NoReader, WorkerReadsDigest
<1>4. CASE WorkerPath
    BY <1>1, <1>4 DEF WorkerPath, WorkerLoad, NoReader, WorkerReadsDigest, TypeOK, Reader
<1>5. CASE WorkerOpen
    <2>1. CASE archive[reader.session] = <<>>
        BY <1>5, <2>1 DEF WorkerOpen, NoReader, WorkerReadsDigest
    <2>2. CASE archive[reader.session] # <<>>
        <3>1. archive[reader.session] = reader.digest
            BY <1>1, <1>5, <2>2 DEF WorkerOpen, ReaderFits
        <3> QED BY <1>1, <1>5, <2>2, <3>1
                DEF WorkerOpen, WorkerReadsDigest, TypeOK, Reader
    <2> QED BY <2>1, <2>2
<1>6. CASE WorkerEnd
    BY <1>6 DEF WorkerEnd, NoReader, WorkerReadsDigest
<1> QED BY <1>2, <1>3, <1>4, <1>5, <1>6, ReaderSteps DEF Worker

(* Every step keeps the worker's session what it was. *)
LEMMA ReaderFitsStep == ASSUME IndInv, [Next]_vars PROVE ReaderFits'
<1>1. TypeOK /\ FilesFit /\ CreateFits /\ ReaderFits
    BY DEF IndInv
<1>2. reader'.step \notin {"digest", "path"} => ReaderFits'
    BY DEF ReaderFits
<1>3. ASSUME NEW s \in Sessions, NEW step, NEW next, WorkerLoad(step, s, next),
             next.session = s, next.digest = record[s].digest
      PROVE  ReaderFits'
    <2>1. CASE reader' = NoReader
        BY <1>2, <2>1 DEF NoReader
    <2>2. CASE Loads(s) /\ record[s].complete /\ reader' = next /\ reader' # NoReader
        <3>1. /\ fate[s] # "unborn" /\ record[s] # NoRecord
              /\ archive[s] \in {<<>>, record[s].digest}
            BY <1>1, <2>2 DEF FilesFit, Loads, HasRecord
        <3>2. UNCHANGED <<record, archive>>
            BY <1>3 DEF WorkerLoad, files
        <3>3. op.step = "idle" /\ UNCHANGED <<op, fate>>
            BY <1>3, <2>2 DEF WorkerLoad, Free
        <3> QED BY <1>3, <2>2, <3>1, <3>2, <3>3 DEF ReaderFits, HasRecord
    <2> QED BY <1>3, <2>1, <2>2 DEF WorkerLoad
<1>4. ASSUME NEW s \in Sessions, WorkerRead(s) PROVE ReaderFits'
    <2> DEFINE next == [step |-> "digest", session |-> s,
                        digest |-> IF HasRecord(s) THEN record[s].digest ELSE NoDigest,
                        data |-> <<>>]
    <2>1. CASE HasRecord(s)
        <3>1. next.session = s /\ next.digest = record[s].digest
            BY <2>1
        <3> QED BY <1>3, <1>4, <3>1 DEF WorkerRead
    <2>2. CASE ~HasRecord(s)
        BY <1>2, <1>4, <2>2 DEF WorkerRead, WorkerLoad, Loads, NoReader
    <2> QED BY <2>1, <2>2
<1>5. CASE WorkerPath
    <2> DEFINE s == reader.session
    <2>1. s \in Sessions
        BY <1>1, <1>5 DEF WorkerPath, WorkerLoad, ReaderFits
    <2>2. CASE reader' = NoReader
        BY <1>2, <2>2 DEF NoReader
    <2>3. CASE reader' # NoReader
        <3>1. HasRecord(s)
            BY <1>5, <2>3 DEF WorkerPath, WorkerLoad, Loads
        <3>2. record[s].digest = reader.digest
            BY <1>1, <1>5, <3>1 DEF WorkerPath, WorkerLoad, ReaderFits
        <3>3. /\ [reader EXCEPT !.step = "path"].session = s
              /\ [reader EXCEPT !.step = "path"].digest = record[s].digest
            BY <1>1, <3>2 DEF TypeOK, Reader
        <3> QED BY <1>3, <1>5, <2>1, <3>3 DEF WorkerPath
    <2> QED BY <2>2, <2>3
<1>6. CASE WorkerOpen \/ WorkerEnd
    <2>1. NoReader.step = "idle"
        BY DEF NoReader
    <2>2. \A a : [reader EXCEPT !.step = "import", !.data = a].step = "import"
        BY <1>1 DEF TypeOK, Reader
    <2>3. reader'.step \in {"idle", "import"}
        BY <1>6, <2>1, <2>2 DEF WorkerOpen, WorkerEnd
    <2> QED BY <1>2, <2>3
<1>7. ASSUME reader' = reader, reader.step \in {"digest", "path"} PROVE ReaderFits'
    <2>1. PICK s \in Sessions : s = reader.session
        BY <1>1, <1>7 DEF ReaderFits
    <2>2. fate[s] # "unborn" /\ fate'[s] # "unborn"
        BY <1>1, <1>7, <2>1, StillAlive DEF ReaderFits
    <2>3. op'.step \in {"directory", "record"} => op'.session # s
        <3>1. ASSUME NEW call, Open(call) PROVE op'.step # "directory" \/ op'.session # s
            BY <2>2, <3>1, LockEffects DEF Open, Unborn
        <3>2. CASE \E q \in Requests : Create(q)
            BY <3>1, <3>2, StepAfterRequest, LockEffects DEF Create
        <3>3. CASE RemoveStep
            BY <1>1, <3>1, <3>3, StepAfterStep, LockEffects
               DEF RemoveStep, RemoveFile, RemoveDirectory, RemoveRequest, Goto, TypeOK,
                   Operation
        <3>4. CASE MakeDirectory
            BY <1>1, <1>7, <2>1, <3>4
               DEF MakeDirectory, Goto, ReaderFits, TypeOK, Operation
        <3>5. CASE CreateStep /\ ~MakeDirectory
            BY <1>1, <3>5, LockEffects
               DEF CreateStep, SaveNewRecord, WriteRequest, Goto, TypeOK, Operation
        <3>6. CASE Aside
            BY <1>1, <1>7, <2>1, <3>6, StepAside DEF ReaderFits
        <3> QED BY <1>1, <3>2, <3>3, <3>4, <3>5, <3>6, NextCases, StepAfterRequest,
                   StepAfterStep
                DEF Step
    <2>4. /\ archive'[s] \in {<<>>, reader.digest}
          /\ record'[s] # NoRecord
               => record'[s].complete /\ record'[s].digest = reader.digest
        <3>1. /\ archive[s] \in {<<>>, reader.digest}
              /\ HasRecord(s) => record[s].complete /\ record[s].digest = reader.digest
              /\ op.step \in {"directory", "record"} => op.session # s
            BY <1>1, <1>7, <2>1 DEF ReaderFits
        <3>2. UNCHANGED disk => Kept(s)
            BY DEF disk, Kept
        <3> QED BY <3>1, <3>2, DiskSteps, FileEffects
                DEF Kept, Created, InProgress, Finished, Removed, HasRecord
    <2> QED BY <1>7, <2>1, <2>2, <2>3, <2>4 DEF ReaderFits, HasRecord
<1> QED BY <1>2, <1>4, <1>5, <1>6, <1>7, ReaderSteps DEF Worker

-----------------------------------------------------------------------------
(* Storage: cardinalities of the parts on disk *)

(* There are finitely many parts. *)
LEMMA FiniteStore == IsFiniteSet(Sessions \X Chunks)
<1> DEFINE f == [q \in Requests |-> 1..q.chunks]
           Ranges == {1..q.chunks : q \in Requests}
<1>1. f \in Surjection(Requests, Ranges)
    BY DEF Surjection
<1>2. IsFiniteSet(Ranges)
    BY <1>1, FS_Surjection, RequestsAssumption
<1>3. \A T \in Ranges : IsFiniteSet(T)
    BY FS_Interval, RequestsAssumption
<1>4. IsFiniteSet(Chunks)
    BY <1>2, <1>3, FS_UNION DEF Chunks
<1> QED BY <1>4, FS_Product, RequestsAssumption

(* So every set of parts has a size. *)
LEMMA StoredAreNumbers ==
    ASSUME NEW S, S \subseteq Sessions \X Chunks
    PROVE  IsFiniteSet(S) /\ Cardinality(S) \in Nat
BY FiniteStore, FS_Subset, FS_CardinalityType

(* What is used is a number, before and after a step. *)
LEMMA UsedType == Used \in Nat /\ Used' \in Nat
<1>1. /\ PartFiles \subseteq Sessions \X Chunks /\ Archived \subseteq Sessions \X Chunks
      /\ PartFiles' \subseteq Sessions \X Chunks /\ Archived' \subseteq Sessions \X Chunks
    BY DEF PartFiles, Archived
<1> QED BY <1>1, StoredAreNumbers DEF Used

(* A step that adds no part uses no more. *)
LEMMA UsedShrinks ==
    ASSUME PartFiles' \subseteq PartFiles, Archived' \subseteq Archived
    PROVE  Used' <= Used
<1>1. PartFiles \subseteq Sessions \X Chunks /\ Archived \subseteq Sessions \X Chunks
    BY DEF PartFiles, Archived
<1>2. IsFiniteSet(PartFiles) /\ IsFiniteSet(Archived)
    BY <1>1, StoredAreNumbers
<1>3. /\ Cardinality(PartFiles') <= Cardinality(PartFiles)
      /\ Cardinality(Archived') <= Cardinality(Archived)
    BY <1>2, FS_Subset
<1>4. /\ Cardinality(PartFiles) \in Nat /\ Cardinality(Archived) \in Nat
      /\ Cardinality(PartFiles') \in Nat /\ Cardinality(Archived') \in Nat
    BY <1>1, StoredAreNumbers
<1> QED BY <1>3, <1>4 DEF Used

(* A step that adds one part uses at most one more. *)
LEMMA UsedGrows ==
    ASSUME NEW x,
           \/ PartFiles' \subseteq PartFiles \cup {x} /\ Archived' \subseteq Archived
           \/ PartFiles' \subseteq PartFiles /\ Archived' \subseteq Archived \cup {x}
    PROVE  Used' <= Used + 1
<1>1. PartFiles \subseteq Sessions \X Chunks /\ Archived \subseteq Sessions \X Chunks
    BY DEF PartFiles, Archived
<1>2. IsFiniteSet(PartFiles) /\ IsFiniteSet(Archived)
    BY <1>1, StoredAreNumbers
<1>3. ASSUME NEW S, IsFiniteSet(S), NEW T, T \subseteq S \cup {x}
      PROVE  Cardinality(T) <= Cardinality(S) + 1
    <2>1. /\ IsFiniteSet(S \cup {x})
          /\ Cardinality(S \cup {x}) \in {Cardinality(S), Cardinality(S) + 1}
        BY <1>3, FS_AddElement
    <2>2. Cardinality(T) <= Cardinality(S \cup {x}) /\ IsFiniteSet(T)
        BY <1>3, <2>1, FS_Subset
    <2>3. Cardinality(S) \in Nat /\ Cardinality(T) \in Nat
        BY <1>3, <2>2, FS_CardinalityType
    <2> QED BY <2>1, <2>2, <2>3
<1>4. /\ Cardinality(PartFiles) \in Nat /\ Cardinality(Archived) \in Nat
      /\ Cardinality(PartFiles') \in Nat /\ Cardinality(Archived') \in Nat
    BY <1>1, StoredAreNumbers DEF PartFiles, Archived
<1>5. ASSUME NEW S, IsFiniteSet(S), NEW T, T \subseteq S
      PROVE  Cardinality(T) <= Cardinality(S)
    BY <1>5, FS_Subset
<1>6. CASE PartFiles' \subseteq PartFiles \cup {x} /\ Archived' \subseteq Archived
    BY <1>2, <1>3, <1>4, <1>5, <1>6 DEF Used
<1>7. CASE PartFiles' \subseteq PartFiles /\ Archived' \subseteq Archived \cup {x}
    BY <1>2, <1>3, <1>4, <1>5, <1>7 DEF Used
<1> QED BY <1>6, <1>7

(* A step that takes one chunk file away uses one less. *)
LEMMA UsedLoses ==
    ASSUME NEW x \in PartFiles, PartFiles' = PartFiles \ {x}, Archived' = Archived
    PROVE  Used' + 1 = Used
<1>1. PartFiles \subseteq Sessions \X Chunks /\ Archived \subseteq Sessions \X Chunks
    BY DEF PartFiles, Archived
<1>2. IsFiniteSet(PartFiles) /\ Cardinality(PartFiles) \in Nat /\ Cardinality(Archived) \in Nat
    BY <1>1, StoredAreNumbers
<1>3. Cardinality(PartFiles \ {x}) = Cardinality(PartFiles) - 1
    BY <1>2, FS_RemoveElement
<1> QED BY <1>2, <1>3 DEF Used

\* the steps that take no storage
LEMMA StepShrinks ==
    ASSUME IndInv, [Next]_vars, ~CreatePart, ~CopyPart PROVE Used' <= Used
<1>1. TypeOK /\ ReceiveFits /\ AssembleFits
    BY DEF IndInv
<1>2. CASE UNCHANGED <<part, archive>>
    BY <1>2, UsedShrinks DEF PartFiles, Archived
<1>3. CASE WritePart
    <2> DEFINE s == op.session
               i == op.call.index
    <2>1. s \in Sessions /\ part[s][i] = Torn /\ Torn # Absent
        BY <1>1, <1>3, RequestsAssumption DEF WritePart, ReceiveFits
    <2>2. \A t \in Sessions, j \in Chunks :
              part'[t][j] # Absent => part[t][j] # Absent
        BY <1>1, <1>3, <2>1 DEF WritePart, TypeOK
    <2> QED BY <1>3, <2>2, UsedShrinks DEF WritePart, PartFiles, Archived
<1>4. CASE DropParts \/ UnlinkPart \/ RemoveChunks
    <2>1. op.session \in Sessions
        BY <1>1, <1>4 DEF DropParts, UnlinkPart, RemoveChunks, AssembleFits
    <2>2. \A t \in Sessions, j \in Chunks :
              part'[t][j] # Absent => part[t][j] # Absent
        <3>1. CASE DropParts
            BY <1>1, <2>1, <3>1, RequestsAssumption DEF DropParts, TypeOK
        <3>2. CASE UnlinkPart
            BY <1>1, <2>1, <3>2 DEF UnlinkPart, TypeOK
        <3>3. CASE RemoveChunks
            BY <1>1, <2>1, <3>3 DEF RemoveChunks, TypeOK
        <3> QED BY <1>4, <3>1, <3>2, <3>3
    <2>3. archive' = archive
        BY <1>4 DEF DropParts, UnlinkPart, RemoveChunks
    <2> QED BY <2>2, <2>3, UsedShrinks DEF PartFiles, Archived
<1>5. CASE StartArchive \/ RemoveFile
    <2>1. \A t \in Sessions, j \in Chunks :
              part'[t][j] # Absent => part[t][j] # Absent
        <3>1. CASE part' = part
            BY <3>1
        <3>2. CASE \E i \in Chunks : part' = [part EXCEPT ![op.session][i] = Absent]
            <4>1. PICK i \in Chunks : part' = [part EXCEPT ![op.session][i] = Absent]
                BY <3>2
            <4> QED BY <1>1, <4>1 DEF TypeOK
        <3> QED BY <1>5, <3>1, <3>2 DEF StartArchive, RemoveFile
    <2>2. \A t \in Sessions : archive'[t] \in {archive[t], <<>>}
        BY <1>1, <1>5 DEF StartArchive, RemoveFile, TypeOK
    <2>3. \A j \in Chunks : ~(j <= Len(<<>>))
        BY ChunkNumbers
    <2>4. Archived' \subseteq Archived
        BY <2>2, <2>3 DEF Archived
    <2> QED BY <2>1, <2>4, UsedShrinks DEF PartFiles
<1>6. UNCHANGED disk => UNCHANGED <<part, archive>>
    BY DEF disk
<1>7. CASE \/ MakeDirectory \/ SaveNewRecord \/ SaveReceived \/ SavePresent
           \/ SaveComplete \/ RemoveDirectory
    BY <1>2, <1>7 DEF MakeDirectory, SaveNewRecord, SaveReceived, SavePresent,
                      SaveComplete, RemoveDirectory
<1> QED BY <1>2, <1>3, <1>4, <1>5, <1>6, <1>7, DiskSteps DEF FileStep

(* These two had the room for one part, and use no more than that. *)
LEMMA StepGrows ==
    ASSUME IndInv, CreatePart \/ CopyPart PROVE Fits(1) /\ Used' <= Used + 1
<1>1. TypeOK /\ ReceiveFits /\ AssembleFits
    BY DEF IndInv
<1>2. CASE CreatePart
    <2> DEFINE s == op.session
               i == op.call.index
    <2>1. Fits(1)
        BY <1>1, <1>2 DEF CreatePart, ReceiveFits
    <2>2. PartFiles' \subseteq PartFiles \cup {<<s, i>>}
        <3>1. \A t \in Sessions, j \in Chunks :
                  part'[t][j] = part[t][j] \/ (t = s /\ j = i)
            BY <1>1, <1>2 DEF CreatePart, TypeOK
        <3> QED BY <3>1 DEF PartFiles
    <2>3. Archived' = Archived
        BY <1>2 DEF CreatePart, Archived
    <2> QED BY <2>1, <2>2, <2>3, UsedGrows
<1>3. CASE CopyPart
    <2> DEFINE s == op.session
               i == Len(archive[s]) + 1
    <2>1. Fits(1) /\ s \in Sessions
        BY <1>1, <1>3 DEF CopyPart, AssembleFits
    <2>2. Archived' \subseteq Archived \cup {<<s, i>>}
        <3>1. \A t \in Sessions : t # s => archive'[t] = archive[t]
            BY <1>1, <1>3 DEF CopyPart, TypeOK
        <3>2. archive[s] \in Seq(Contents) /\ archive'[s] = Append(archive[s], part[s][i])
            BY <1>1, <1>3, <2>1, ArchiveIsSequence DEF CopyPart, TypeOK
        <3>3. Len(archive[s]) \in Nat /\ Len(archive'[s]) = Len(archive[s]) + 1
            BY <3>2
        <3>4. \A j \in Chunks : j <= Len(archive'[s]) => j <= Len(archive[s]) \/ j = i
            BY <3>3, ChunkNumbers
        <3> QED BY <3>1, <3>4 DEF Archived
    <2>3. PartFiles' = PartFiles
        BY <1>3 DEF CopyPart, PartFiles
    <2> QED BY <2>1, <2>2, <2>3, UsedGrows
<1> QED BY <1>2, <1>3

(* Every step keeps within the cap. *)
LEMMA CapacityStep == ASSUME IndInv, [Next]_vars PROVE UsedWithinCapacity'
<1>1. UsedWithinCapacity /\ Used \in Nat /\ Used' \in Nat /\ Capacity \in Nat
    BY UsedType, RequestsAssumption DEF IndInv
<1>2. CASE CreatePart \/ CopyPart
    BY <1>1, <1>2, StepGrows DEF UsedWithinCapacity, Fits
<1>3. CASE ~CreatePart /\ ~CopyPart
    BY <1>1, <1>3, StepShrinks DEF UsedWithinCapacity
<1> QED BY <1>2, <1>3

(* Arithmetic of what is used and what is left. *)
LEMMA RoomLeft ==
    ASSUME NEW m \in Nat, NEW n \in Nat, NEW limit \in Nat, m + 1 <= limit, n <= m
    PROVE  n + 1 <= limit
OBVIOUS

\* what an operation needs further on is still free
NeedsRoom == op.step \in {"create part", "archive", "copy"}

(* Room for one part is free whenever an operation is about to use it:     *)
(* it was checked when the lock was taken, and between two copies the      *)
(* chunk file just copied has been unlinked.                               *)
LEMMA RoomStep ==
    ASSUME IndInv, [Next]_vars, NeedsRoom'
    PROVE  Used' + 1 <= Capacity
<1>1. TypeOK /\ ReceiveFits /\ AssembleFits /\ UsedWithinCapacity
    BY DEF IndInv
<1>2. Used \in Nat /\ Used' \in Nat /\ Capacity \in Nat
    BY UsedType, RequestsAssumption
<1>3. Used + 1 <= Capacity /\ Used' <= Used => Used' + 1 <= Capacity
    BY <1>2, RoomLeft
<1>4. UNCHANGED disk => Used' <= Used
    BY UsedShrinks DEF disk, PartFiles, Archived
<1>5. ASSUME NEW s \in Sessions,
             Complete(s) \/ \E i \in Chunks, c \in Contents : Receive(s, i, c)
      PROVE  Used' + 1 <= Capacity
    <2>1. Used + 1 <= Capacity
        <3>1. op'.step \in {"create part", "archive", "copy"}
            BY DEF NeedsRoom
        <3>2. CASE Complete(s)
            <4>1. Fits(1) \/ op'.step \in {"idle", "removing", "remove chunks",
                                           "drop parts"}
                BY <3>2, LockEffects, ChoiceEffects DEF Complete
            <4> QED BY <3>1, <4>1 DEF Fits
        <3>3. ASSUME NEW i \in Chunks, NEW c \in Contents, Receive(s, i, c)
              PROVE  Used + 1 <= Capacity
            <4>1. Fits(1) \/ op'.step \in {"idle", "removing", "received"}
                BY <3>3, LockEffects, ChoiceEffects DEF Receive
            <4> QED BY <3>1, <4>1 DEF Fits
        <3> QED BY <1>5, <3>2, <3>3
    <2>2. UNCHANGED disk
        BY <1>5 DEF Complete, Receive, files, disk
    <2> QED BY <1>3, <1>4, <2>1, <2>2
<1>6. CASE Aside
    <2>1. op' = op /\ UNCHANGED disk
        BY <1>6, StepAside DEF NeedsRoom
    <2>2. Used + 1 <= Capacity
        BY <1>1, <2>1 DEF ReceiveFits, AssembleFits, Fits, NeedsRoom
    <2> QED BY <1>3, <1>4, <2>1, <2>2
<1>7. CASE AssembleStep
    <2>1. StartArchive \/ UnlinkPart
        BY <1>1, <1>7, LockEffects
           DEF AssembleStep, DropParts, SavePresent, CopyPart, CheckArchive, SaveComplete,
               RemoveChunks, Goto, TypeOK, Operation, NeedsRoom
    <2>2. CASE StartArchive
        <3>1. Used + 1 <= Capacity /\ ~CreatePart /\ ~CopyPart
            BY <1>1, <2>2 DEF StartArchive, AssembleFits, CreatePart, CopyPart, Fits
        <3> QED BY <1>3, <3>1, StepShrinks
    <2>3. CASE UnlinkPart
        <3> DEFINE s == op.session
                   i == Len(archive[s])
        <3>1. s \in Sessions /\ HasRecord(s) /\ i \in 1..record[s].request.chunks
            BY <1>1, <2>3 DEF UnlinkPart, AssembleFits
        <3>2. i \in Chunks
            BY <1>1, <3>1, RecordChanges DEF ChunksOf
        <3>3. part[s][i] # Absent
            <4>1. \A k \in 1..record[s].request.chunks :
                      i <= k => part[s][k] \in Contents
                BY <1>1, <2>3 DEF UnlinkPart, AssembleFits, IntactFrom, Intact, ChunksOf
            <4>2. i \in Nat
                BY <3>2, ChunkNumbers
            <4> QED BY <3>1, <4>1, <4>2, RequestsAssumption
        <3>4. <<s, i>> \in PartFiles
            BY <3>1, <3>2, <3>3 DEF PartFiles
        <3>5. PartFiles' = PartFiles \ {<<s, i>>}
            <4>1. part' = [part EXCEPT ![s][i] = Absent]
                BY <2>3 DEF UnlinkPart
            <4>2. \A t \in Sessions, j \in Chunks :
                      part'[t][j] = IF t = s /\ j = i THEN Absent ELSE part[t][j]
                BY <1>1, <3>1, <3>2, <4>1 DEF TypeOK
            <4>3. ASSUME NEW t \in Sessions, NEW j \in Chunks
                  PROVE  <<t, j>> \in PartFiles' <=> <<t, j>> \in PartFiles \ {<<s, i>>}
                BY <4>2 DEF PartFiles
            <4>4. PartFiles \subseteq Sessions \X Chunks /\ PartFiles' \subseteq Sessions \X Chunks
                BY DEF PartFiles
            <4> QED BY <4>3, <4>4
        <3>6. Archived' = Archived
            BY <2>3 DEF UnlinkPart, Archived
        <3>7. Used' + 1 = Used
            BY <3>4, <3>5, <3>6, UsedLoses
        <3> QED BY <1>1, <1>2, <3>7 DEF UsedWithinCapacity
    <2> QED BY <2>1, <2>2, <2>3
<1> QED BY <1>1, <1>5, <1>6, <1>7, NextCases, StepAfterRequest, StepAfterStep
        DEF Step, NeedsRoom

-----------------------------------------------------------------------------
(* The theorems *)

(* The store begins empty, with the lock free and no worker.               *)
LEMMA IndInvInit == Init => IndInv
<1> SUFFICES ASSUME Init PROVE IndInv
    OBVIOUS
<1>1. TypeOK
    BY TypeInit
<1>2. \A s \in Sessions : ~HasRecord(s)
    BY DEF Init, HasRecord
<1>3. CompleteIsWhole /\ ReplayFindsSession /\ FilesFit
    BY <1>2 DEF Init, CompleteIsWhole, ReplayFindsSession, FilesFit
<1>4. AcknowledgedPartKept
    BY DEF Init, AcknowledgedPartKept
<1>5. WorkerReadsDigest /\ ReaderFits
    BY DEF Init, NoReader, WorkerReadsDigest, ReaderFits
<1>6. CreateFits /\ ReceiveFits /\ AssembleFits /\ RemoveFits
    BY DEF Init, NoOp, CreateFits, ReceiveFits, AssembleFits, RemoveFits
<1>7. UsedWithinCapacity
    <2>1. PartFiles = {}
        BY DEF Init, PartFiles
    <2>2. Len(<<>>) = 0
        OBVIOUS
    <2>3. \A n \in Chunks : ~(n <= Len(<<>>))
        BY <2>2, ChunkNumbers
    <2>4. Archived = {}
        BY <2>3 DEF Init, Archived
    <2>5. Cardinality({}) = 0
        BY FS_EmptySet
    <2> QED BY <2>1, <2>4, <2>5, RequestsAssumption DEF Used, UsedWithinCapacity
<1> QED BY <1>1, <1>3, <1>4, <1>5, <1>6, <1>7 DEF IndInv

(* Every step, of the lock's holder or beside it, preserves the invariant. *)
LEMMA IndInvStep == ASSUME IndInv, [Next]_vars PROVE IndInv'
<1>1. NeedsRoom' => Fits(1)'
    BY RoomStep DEF Fits
<1>2. /\ op'.step = "create part" => Fits(1)'
      /\ op'.step \in {"archive", "copy"} => Fits(1)'
    BY <1>1 DEF NeedsRoom
<1>3. ReceiveFits' /\ AssembleFits'
    BY <1>2, ReceiveFitsStep, AssembleFitsStep
<1> QED BY <1>3, TypeStep, CompleteIsWholeStep, PartKeptStep, CapacityStep, ReplayStep,
           WorkerReadsDigestStep, FilesFitStep, CreateFitsStep, RemoveFitsStep,
           ReaderFitsStep
        DEF IndInv

(* What the operations rely on between two of their file changes holds in  *)
(* every reachable state.                                                  *)
THEOREM Inductive == Spec => []IndInv
<1>1. IndInv /\ [Next]_vars => IndInv'
    BY IndInvStep
<1> QED BY <1>1, IndInvInit, PTL DEF Spec

(* Every variable has its type in every reachable state.                   *)
THEOREM TypeCorrect == Spec => []TypeOK
<1>1. IndInv => TypeOK
    BY DEF IndInv
<1> QED BY <1>1, Inductive, PTL

(* A session that says it is complete has the archive it was verified as,  *)
(* of all its parts, wherever an operation was interrupted.                *)
THEOREM ArchivesWhole == Spec => []CompleteIsWhole
<1>1. IndInv => CompleteIsWhole
    BY DEF IndInv
<1> QED BY <1>1, Inductive, PTL

(* The bytes of an acknowledged part stay on disk while its session lives. *)
THEOREM PartsKept == Spec => []AcknowledgedPartKept
<1>1. IndInv => AcknowledgedPartKept
    BY DEF IndInv
<1> QED BY <1>1, Inductive, PTL

(* Chunk files and archives together never exceed the cap, not even half   *)
(* way through a copy.                                                     *)
THEOREM CapacityKept == Spec => []UsedWithinCapacity
<1>1. IndInv => UsedWithinCapacity
    BY DEF IndInv
<1> QED BY <1>1, Inductive, PTL

(* A repeated create request finds the session it was last answered with,  *)
(* as long as that session lives.                                          *)
THEOREM ReplaysFind == Spec => []ReplayFindsSession
<1>1. IndInv => ReplayFindsSession
    BY DEF IndInv
<1> QED BY <1>1, Inductive, PTL

(* A fetch worker that opens an archive without the lock reads the bytes   *)
(* whose digest it was told with the lock, or finds nothing to read.       *)
THEOREM WorkerReads == Spec => []WorkerReadsDigest
<1>1. IndInv => WorkerReadsDigest
    BY DEF IndInv
<1> QED BY <1>1, Inductive, PTL

(* The record and the archive of a complete session change by removal      *)
(* only, in every step.                                                    *)
THEOREM CompleteFinal == Spec => CompleteIsFinal
<1> DEFINE Final(s) ==
        /\ record'[s] \in {record[s], NoRecord}
        /\ archive'[s] \in {archive[s], <<>>}
        /\ (record'[s] # record[s] \/ archive'[s] # archive[s]) => fate[s] = "doomed"
<1>1. ASSUME IndInv, [Next]_vars, NEW s \in Sessions, HasRecord(s), record[s].complete
      PROVE  Final(s)
    <2>1. UNCHANGED disk => Kept(s)
        BY DEF disk, Kept
    <2>2. ~Created(s) /\ ~InProgress(s) /\ ~Finished(s)
        BY <1>1 DEF Created, InProgress, Finished
    <2>3. Kept(s) \/ Removed(s)
        BY <1>1, <2>1, <2>2, DiskSteps, FileEffects
    <2> QED BY <2>3 DEF Kept, Removed
<1>2. IndInv /\ [Next]_vars =>
          [\A s \in Sessions :
               HasRecord(s) /\ record[s].complete
                   => /\ record'[s] \in {record[s], NoRecord}
                      /\ archive'[s] \in {archive[s], <<>>}
                      /\ (record'[s] # record[s] \/ archive'[s] # archive[s])
                             => fate[s] = "doomed"]_vars
    BY <1>1
<1> QED BY <1>2, Inductive, PTL DEF Spec, CompleteIsFinal

-----------------------------------------------------------------------------
(* What the answers to clients rest on *)

(* A refusal answers, or removes a session that has a record. *)
LEMMA RefuseEffects ==
    ASSUME NEW call, NEW s, Refuse(call, s)
    PROVE  /\ op'.step = "idle" \/ (op'.step = "removing" /\ op'.then = "upload_expired")
           /\ \/ reply' = NoReply
              \/ reply'.code = "upload_not_found"
           /\ fate' = fate \/ (HasRecord(s) /\ fate' = [fate EXCEPT ![s] = "doomed"])
<1>1. CASE Answer(call, "upload_not_found", s) /\ UNCHANGED fate
    BY <1>1 DEF Answer, NoOp
<1>2. CASE HasRecord(s) /\ Remove(call, s, ClientOf(s), "upload_expired", {})
    BY <1>2 DEF Remove
<1> QED BY <1>1, <1>2 DEF Refuse

(* Beside the lock's holder, the lock is left, given back, or taken to     *)
(* remove an expired session.                                              *)
LEMMA AsideEffects ==
    ASSUME Aside
    PROVE  \/ UNCHANGED <<op, fate>>
           \/ op'.step = "idle"
           \/ op'.step = "removing" /\ op'.then = "upload_expired"
<1>1. ASSUME NEW step, NEW s, NEW next, WorkerLoad(step, s, next)
      PROVE  \/ UNCHANGED <<op, fate>>
             \/ op'.step = "idle"
             \/ op'.step = "removing" /\ op'.then = "upload_expired"
    <2>1. CASE Refuse([kind |-> "resolve", session |-> s], s)
        BY <2>1, RefuseEffects
    <2>2. CASE Answer([kind |-> "resolve", session |-> s], "upload_incomplete", s)
        BY <2>2, LockEffects
    <2> QED BY <1>1, <2>1, <2>2 DEF WorkerLoad
<1>2. CASE WorkerPath \/ \E s \in Sessions : WorkerRead(s)
    BY <1>1, <1>2 DEF WorkerPath, WorkerRead
<1>3. CASE WorkerOpen \/ WorkerEnd \/ Disturbance \/ UNCHANGED vars
    BY <1>3, LockEffects DEF WorkerOpen, WorkerEnd, Disturbance, Interrupt, Expire, vars
<1> QED BY <1>2, <1>3 DEF Aside, Worker

(* An operation that goes on is the same call for the same session.        *)
LEMMA GotoKeeps ==
    ASSUME TypeOK, NEW step, Goto(step)
    PROVE  /\ op'.step = step /\ op'.call = op.call /\ op'.session = op.session
           /\ op'.then = op.then
BY DEF Goto, TypeOK, Operation

(* Every step keeps what an operation will be answered as. *)
LEMMA CallsFitStep == ASSUME IndInv, CallsFit, [Next]_vars PROVE CallsFit'
<1>1. TypeOK
    BY DEF IndInv
<1>2. op'.step \notin AssembleSteps \cup {"sweep", "removing", "forget"} => CallsFit'
    BY DEF CallsFit
<1>3. op'.step = "removing" /\ op'.then \notin {"ok", "sweep"} => CallsFit'
    BY DEF CallsFit
<1>4. ASSUME NEW call, NEW s, Refuse(call, s) PROVE CallsFit'
    BY <1>2, <1>3, <1>4, RefuseEffects
<1>5. ASSUME NEW q \in Requests, Create(q) PROVE CallsFit'
    <2> DEFINE call == [kind |-> "create", request |-> q]
               known == pointer[q.client]
    <2>1. CASE Remove(call, known, ClientOf(known), "create", {})
        BY <1>3, <2>1, LockEffects
    <2> QED BY <1>2, <1>5, <2>1, LockEffects, ChoiceEffects DEF Create
<1>6. ASSUME NEW s \in Sessions,
             \/ \E i \in Chunks, c \in Contents : Receive(s, i, c)
             \/ Read(s) \/ Discard(s)
      PROVE  CallsFit'
    <2>1. ASSUME NEW i, NEW c, Receive(s, i, c) PROVE CallsFit'
        <3>1. \/ Refuse([kind |-> "receive", session |-> s, index |-> i, content |-> c], s)
              \/ op'.step \in {"idle", "create part", "received"}
            BY <2>1, LockEffects DEF Receive
        <3> QED BY <1>2, <1>4, <3>1
    <2>2. CASE Read(s)
        BY <1>2, <1>4, <2>2, LockEffects DEF Read
    <2>3. CASE Discard(s)
        <3> DEFINE call == [kind |-> "discard", session |-> s]
        <3>1. CASE Remove(call, s, ClientOf(s), "ok", {})
            <4>1. op'.step = "removing" /\ op'.then = "ok" /\ op'.call.kind = "discard"
                BY <3>1, LockEffects
            <4> QED BY <4>1 DEF CallsFit
        <3> QED BY <1>2, <2>3, <3>1, LockEffects DEF Discard
    <2> QED BY <1>6, <2>1, <2>2, <2>3
<1>7. ASSUME NEW s \in Sessions, Complete(s) PROVE CallsFit'
    <2> DEFINE call == [kind |-> "complete", session |-> s]
    <2>1. ASSUME NEW step \in AssembleSteps, Begin(call, step, s) PROVE CallsFit'
        <3>1. op'.step = step /\ op'.call = call /\ op'.session = s
            BY <2>1, LockEffects
        <3> QED BY <3>1 DEF CallsFit
    <2> QED BY <1>2, <1>4, <1>7, <2>1, LockEffects DEF Complete
<1>8. CASE Sweep
    BY <1>8 DEF Sweep, NoOp, CallsFit
<1>9. CASE AssembleStep
    <2>1. op.call = [kind |-> "complete", session |-> op.session]
        BY <1>9 DEF CallsFit, AssembleStep, DropParts, SavePresent, StartArchive, CopyPart,
                    UnlinkPart, CheckArchive, SaveComplete, RemoveChunks
    <2>2. ASSUME NEW step, Goto(step), step \in AssembleSteps PROVE CallsFit'
        BY <1>1, <2>1, <2>2, GotoKeeps DEF CallsFit
    <2>3. CASE CheckArchive
        <3>1. ASSUME NEW code \in {"upload_checksum_mismatch", "upload_not_archive"},
                     Remove(op.call, op.session, ClientOf(op.session), code, {})
              PROVE  CallsFit'
            BY <1>3, <3>1, LockEffects
        <3>2. \/ \E code \in {"upload_checksum_mismatch", "upload_not_archive"} :
                     Remove(op.call, op.session, ClientOf(op.session), code, {})
              \/ Goto("complete")
            BY <2>3 DEF CheckArchive
        <3> QED BY <2>2, <3>1, <3>2
    <2>4. CASE SavePresent \/ RemoveChunks
        BY <1>2, <2>4, LockEffects DEF SavePresent, RemoveChunks
    <2> QED BY <1>9, <2>2, <2>3, <2>4
            DEF AssembleStep, DropParts, StartArchive, CopyPart, UnlinkPart, SaveComplete
<1>10. CASE RemoveStep
    <2>1. CASE RemoveFile
        BY <2>1 DEF RemoveFile, CallsFit
    <2>2. CASE RemoveDirectory
        <3>1. op'.step = "forget" /\ op'.call = op.call /\ op'.then = op.then
            BY <1>1, <2>2, GotoKeeps DEF RemoveDirectory
        <3> QED BY <2>2, <3>1 DEF RemoveDirectory, CallsFit
    <2>3. CASE RemoveRequest
        <3>1. CASE op.then = "sweep" /\ Goto("sweep")
            BY <1>1, <2>3, <3>1, GotoKeeps DEF RemoveRequest, CallsFit
        <3> QED BY <1>2, <2>3, <3>1, LockEffects, ChoiceEffects DEF RemoveRequest
    <2> QED BY <1>10, <2>1, <2>2, <2>3 DEF RemoveStep
<1>11. CASE SweepStep
    <2>1. CASE SweepSession
        <3>1. op.call.kind = "sweep" /\ op.step = "sweep"
            BY <2>1 DEF SweepSession, CallsFit
        <3>2. PICK s : \/ op' = [op EXCEPT !.todo = @ \ {s}]
                       \/ Remove(op.call, s, ClientOf(s), "sweep", op.todo \ {s})
            BY <2>1 DEF SweepSession
        <3>3. op'.call = op.call
            BY <1>1, <3>2 DEF Remove, TypeOK, Operation
        <3>4. op'.step = "sweep" \/ (op'.step = "removing" /\ op'.then = "sweep")
            BY <1>1, <3>1, <3>2 DEF Remove, TypeOK, Operation
        <3> QED BY <3>1, <3>3, <3>4 DEF CallsFit
    <2>2. CASE RemoveStaleRequest
        BY <2>2 DEF RemoveStaleRequest, CallsFit
    <2>3. CASE EndSweep
        BY <1>2, <2>3, LockEffects DEF EndSweep
    <2> QED BY <1>11, <2>1, <2>2, <2>3 DEF SweepStep
<1>12. CASE Aside
    BY <1>2, <1>3, <1>12, AsideEffects DEF CallsFit
<1>13. CreateStep \/ ReceiveStep => CallsFit'
    BY <1>1, <1>2, StepAfterStep
<1> QED BY <1>5, <1>6, <1>7, <1>8, <1>9, <1>10, <1>11, <1>12, <1>13, NextCases DEF Step

(* When an identifier is chosen for a request, its last session is gone.   *)
LEMMA OpenGone ==
    ASSUME IndInv, NEW call \in Creates, Open(call), UNCHANGED disk, UNCHANGED answered,
           answered[call.request.client] # NoSession
               => ~HasRecord(answered[call.request.client])
    PROVE  LastGone'
<1> DEFINE c == call.request.client
           last == answered[c]
<1>1. TypeOK /\ FilesFit /\ c \in Clients
    BY DEF IndInv, Creates, Clients
<1>2. op'.step = "idle" => LastGone'
    BY DEF LastGone
<1>3. ASSUME NEW s \in Unborn, Begin(call, "directory", s),
             fate' = [fate EXCEPT ![s] = "live"]
      PROVE  LastGone'
    <2>1. op'.step = "directory" /\ op'.session = s /\ op'.call = call
        BY <1>3, LockEffects
    <2>2. s \in Sessions /\ fate[s] = "unborn" /\ fate'[s] = "live"
        BY <1>1, <1>3 DEF Unborn, TypeOK
    <2>3. last # NoSession => fate[last] # "unborn"
        BY <1>1 DEF FilesFit
    <2>4. last # NoSession => last # s /\ record'[last] = NoRecord
        BY <2>2, <2>3 DEF HasRecord, disk
    <2>5. answered'[op'.call.request.client] = last
        BY <2>1
    <2> QED BY <2>1, <2>2, <2>4, <2>5 DEF LastGone, HasRecord
<1> QED BY <1>2, <1>3, LockEffects DEF Open

(* Only the check of an archive ends an assembly or finds it good. *)
LEMMA AssembleGoesOn ==
    ASSUME TypeOK, AssembleStep, ~CheckArchive
    PROVE  op'.step \in {"idle", "present", "copy", "unlink", "check", "remove chunks"}
<1>1. \A step : Goto(step) => op'.step = step
    BY GotoKeeps
<1>2. CASE DropParts \/ StartArchive \/ CopyPart \/ UnlinkPart \/ SaveComplete
    BY <1>1, <1>2 DEF DropParts, StartArchive, CopyPart, UnlinkPart, SaveComplete
<1>3. CASE SavePresent \/ RemoveChunks
    BY <1>3, LockEffects DEF SavePresent, RemoveChunks
<1> QED BY <1>2, <1>3 DEF AssembleStep

(* Every step keeps an identifier's last session gone while another one is *)
(* created for it.                                                         *)
LEMMA LastGoneStep == ASSUME IndInv, AnswersFit, [Next]_vars PROVE LastGone'
<1>1. /\ TypeOK /\ CreateFits /\ RemoveFits /\ FilesFit
      /\ LastFound /\ LastGone /\ RecordGone
    BY DEF IndInv, AnswersFit
<1>2. op'.step \notin {"directory", "record", "request", "removing", "forget"} => LastGone'
    BY DEF LastGone
<1>3. op'.step \in {"removing", "forget"} /\ op'.then # "create" => LastGone'
    BY DEF LastGone
<1>4. ASSUME NEW call, NEW s, Refuse(call, s) PROVE LastGone'
    BY <1>2, <1>3, <1>4, RefuseEffects
<1>5. ASSUME NEW q \in Requests, Create(q) PROVE LastGone'
    <2> DEFINE call == [kind |-> "create", request |-> q]
               known == pointer[q.client]
               last == answered[q.client]
    <2>1. q.client \in Clients /\ call \in Creates /\ call.request.client = q.client
        BY DEF Clients, Creates
    <2>2. UNCHANGED disk
        BY <1>5 DEF Create, files, disk
    <2>3. last # NoSession /\ HasRecord(last) => known = last
        BY <1>1, <2>1 DEF LastFound
    <2>4. CASE Open(call) /\ UNCHANGED answered /\ ~(known # NoSession /\ HasRecord(known))
        BY <2>1, <2>2, <2>3, <2>4, OpenGone
    <2>5. CASE Remove(call, known, ClientOf(known), "create", {}) /\ UNCHANGED answered
        <3>1. op'.step = "removing" /\ op'.session = known /\ op'.call = call
            BY <2>5, LockEffects
        <3>2. answered'[op'.call.request.client] = last
            BY <2>5, <3>1
        <3>3. last \notin {NoSession, known} => record'[last] = NoRecord
            BY <2>2, <2>3 DEF HasRecord, disk
        <3> QED BY <3>1, <3>2, <3>3 DEF LastGone, HasRecord
    <2>6. \/ op'.step = "idle"
          \/ Remove(call, known, ClientOf(known), "create", {}) /\ UNCHANGED answered
          \/ Open(call) /\ UNCHANGED answered /\ ~(known # NoSession /\ HasRecord(known))
        BY <1>5, LockEffects DEF Create
    <2> QED BY <1>2, <2>4, <2>5, <2>6
<1>6. ASSUME NEW s \in Sessions,
             \/ \E i \in Chunks, c \in Contents : Receive(s, i, c)
             \/ Read(s) \/ Complete(s) \/ Discard(s)
      PROVE  LastGone'
    <2>1. ASSUME NEW i, NEW c, Receive(s, i, c) PROVE LastGone'
        <3>1. \/ Refuse([kind |-> "receive", session |-> s, index |-> i, content |-> c], s)
              \/ op'.step \in {"idle", "create part", "received"}
            BY <2>1, LockEffects DEF Receive
        <3> QED BY <1>2, <1>4, <3>1
    <2>2. CASE Read(s)
        BY <1>2, <1>4, <2>2, LockEffects DEF Read
    <2>3. CASE Complete(s)
        <3>1. \/ Refuse([kind |-> "complete", session |-> s], s)
              \/ op'.step \in {"idle", "remove chunks", "drop parts", "archive"}
            BY <2>3, LockEffects DEF Complete
        <3> QED BY <1>2, <1>4, <3>1
    <2>4. CASE Discard(s)
        <3>1. op'.step = "idle" \/ (op'.step = "removing" /\ op'.then = "ok")
            BY <2>4, LockEffects DEF Discard
        <3> QED BY <1>2, <1>3, <3>1
    <2> QED BY <1>6, <2>1, <2>2, <2>3, <2>4
<1>7. CASE CreateStep
    <2> DEFINE last == answered[op.call.request.client]
    <2>1. /\ op.session \in Sessions /\ op.call \in Creates
          /\ fate[op.session] = "live"
          /\ last # NoSession => last # op.session /\ ~HasRecord(last)
        BY <1>1, <1>7 DEF CreateStep, MakeDirectory, SaveNewRecord, WriteRequest,
                          CreateFits, LastGone
    <2>2. CASE MakeDirectory
        <3>1. op'.step = "record" /\ op'.call = op.call /\ op'.session = op.session
            BY <1>1, <2>2, GotoKeeps DEF MakeDirectory
        <3>2. UNCHANGED <<record, answered, fate>>
            BY <2>2 DEF MakeDirectory, history
        <3> QED BY <2>1, <3>1, <3>2 DEF LastGone, HasRecord
    <2>3. CASE SaveNewRecord
        <3>1. op'.step = "request" /\ op'.call = op.call /\ op'.session = op.session
            BY <1>1, <2>3, GotoKeeps DEF SaveNewRecord
        <3>2. UNCHANGED <<answered, fate>>
            BY <2>3 DEF SaveNewRecord, history
        <3>3. record'[op.session].request = op.call.request
            BY <1>1, <2>1, <2>3 DEF SaveNewRecord, New, TypeOK
        <3>4. last # NoSession => last # op.session /\ record'[last] = NoRecord
            <4>1. op.call.request.client \in Clients
                BY <2>1 DEF Creates, Clients
            <4>2. last # NoSession => last \in Sessions
                BY <1>1, <4>1 DEF TypeOK
            <4> QED BY <1>1, <2>1, <2>3, <4>2 DEF SaveNewRecord, TypeOK, HasRecord
        <3> QED BY <2>1, <3>1, <3>2, <3>3, <3>4 DEF LastGone, HasRecord
    <2>4. CASE WriteRequest
        BY <1>2, <2>4, LockEffects DEF WriteRequest
    <2> QED BY <1>7, <2>2, <2>3, <2>4 DEF CreateStep
<1>8. CASE RemoveStep
    <2> DEFINE last == answered[op.call.request.client]
    <2>1. op.then = "create" => /\ op.call \in Creates
                                /\ last \in {NoSession, op.session} \/ ~HasRecord(last)
        BY <1>1, <1>8 DEF RemoveStep, RemoveFile, RemoveDirectory, RemoveRequest,
                          RemoveFits, LastGone
    <2>2. CASE RemoveFile \/ RemoveDirectory
        <3>1. /\ op'.step \in {"removing", "forget"} /\ op'.call = op.call
              /\ op'.session = op.session /\ op'.then = op.then
            BY <1>1, <2>2, GotoKeeps DEF RemoveFile, RemoveDirectory
        <3>2. UNCHANGED answered
            BY <2>2 DEF RemoveFile, RemoveDirectory, history
        <3>3. ASSUME op.then = "create", last \notin {NoSession, op.session}
              PROVE  record'[last] = NoRecord
            <4>1. last \in Sessions
                BY <1>1, <2>1, <3>3 DEF Creates, Clients, TypeOK
            <4> QED BY <1>1, <2>1, <2>2, <3>3, <4>1
                    DEF RemoveFile, RemoveDirectory, TypeOK, HasRecord
        <3> QED BY <3>1, <3>2, <3>3 DEF LastGone, HasRecord
    <2>3. CASE RemoveRequest
        <3>1. CASE op.then = "create" /\ Open(op.call)
            <4>1. UNCHANGED disk /\ UNCHANGED answered /\ ~HasRecord(op.session)
                BY <1>1, <2>3 DEF RemoveRequest, RecordGone, history, disk
            <4> QED BY <2>1, <3>1, <4>1, OpenGone
        <3>2. CASE op'.step \in {"idle", "sweep"}
            BY <1>2, <3>2
        <3> QED BY <1>1, <2>3, <3>1, <3>2, GotoKeeps, LockEffects DEF RemoveRequest
    <2> QED BY <1>8, <2>2, <2>3 DEF RemoveStep
<1>9. CASE AssembleStep
    <2>1. CASE CheckArchive
        <3>1. op'.step = "complete"
              \/ (op'.step = "removing" /\ op'.then \in {"upload_checksum_mismatch",
                                                        "upload_not_archive"})
            BY <1>1, <2>1, GotoKeeps, LockEffects DEF CheckArchive
        <3> QED BY <1>2, <1>3, <3>1
    <2>2. CASE AssembleStep /\ ~CheckArchive
        BY <1>1, <1>2, <2>2, AssembleGoesOn
    <2> QED BY <1>9, <2>1, <2>2
<1>10. CASE SweepStep
    <2>1. CASE SweepSession
        <3>1. op'.step = "sweep" \/ (op'.step = "removing" /\ op'.then = "sweep")
            <4>1. \A s : op' = [op EXCEPT !.todo = @ \ {s}] => op'.step = op.step
                BY <1>1 DEF TypeOK, Operation
            <4> QED BY <2>1, <4>1, LockEffects DEF SweepSession
        <3> QED BY <1>2, <1>3, <3>1
    <2>2. CASE RemoveStaleRequest \/ EndSweep
        BY <1>2, <2>2, LockEffects DEF RemoveStaleRequest, EndSweep
    <2> QED BY <1>10, <2>1, <2>2 DEF SweepStep
<1>11. CASE Aside
    <2>1. CASE UNCHANGED <<op, fate>>
        BY <1>1, <1>11, <2>1, StepAside DEF LastGone, HasRecord, disk, history
    <2> QED BY <1>2, <1>3, <1>11, <2>1, AsideEffects
<1>12. ReceiveStep \/ Sweep => LastGone'
    BY <1>1, <1>2, StepAfterStep DEF Sweep, NoOp
<1> QED BY <1>5, <1>6, <1>7, <1>8, <1>9, <1>10, <1>11, <1>12, NextCases DEF Step

(* Every step keeps answered sessions to be found, or gone. *)
LEMMA LastFoundStep == ASSUME IndInv, AnswersFit, [Next]_vars PROVE LastFound'
<1>1. /\ TypeOK /\ FilesFit /\ CreateFits /\ RemoveFits
      /\ LastFound /\ LastGone /\ RecordGone
    BY DEF IndInv, AnswersFit
<1> SUFFICES ASSUME NEW c \in Clients, answered'[c] # NoSession
             PROVE  IF record'[answered'[c]] # NoRecord
                    THEN pointer'[c] = answered'[c]
                    ELSE fate'[answered'[c]] = "doomed"
    BY DEF LastFound, HasRecord
<1>2. CASE answered'[c] # answered[c]
    BY <1>2, AnswerEffects
<1>3. CASE answered'[c] = answered[c] /\ ~HasRecord(answered[c])
    <2> DEFINE s == answered[c]
    <2>1. s \in Sessions /\ fate[s] = "doomed" /\ fate'[s] = "doomed"
        BY <1>1, <1>3, StillAlive DEF LastFound, TypeOK
    <2>2. UNCHANGED disk => Kept(s)
        BY DEF disk, Kept
    <2>3. ~Created(s)
        BY <1>1, <2>1 DEF Created, LastGone
    <2>4. record'[s] = NoRecord
        BY <1>3, <2>1, <2>2, <2>3, DiskSteps, FileEffects
           DEF Kept, InProgress, Finished, Removed, HasRecord
    <2> QED BY <1>3, <2>1, <2>4
<1>4. CASE answered'[c] = answered[c] /\ HasRecord(answered[c])
    <2> DEFINE s == answered[c]
    <2>1. s \in Sessions /\ pointer[c] = s /\ s \in dirs
        BY <1>1, <1>4 DEF LastFound, TypeOK, FilesFit
    <2>2. record'[s] = NoRecord => fate'[s] = "doomed"
        <3>1. fate[s] # "live" => fate'[s] = "doomed"
            <4>1. fate[s] # "unborn"
                BY <1>1, <1>4, <2>1 DEF FilesFit
            <4> QED BY <1>1, <2>1, <4>1, StillAlive DEF TypeOK
        <3>2. fate[s] = "live" => record'[s] # NoRecord
            BY <1>4, <2>1, RecordStays
        <3> QED BY <3>1, <3>2
    <2>3. pointer'[c] = s
        <3>1. CASE WriteRequest
            <4>1. op.call.request.client \in Clients /\ op.session \in Sessions
                BY <1>1, <3>1 DEF WriteRequest, CreateFits, Creates, Clients
            <4> QED BY <1>1, <1>4, <2>1, <3>1, <4>1 DEF WriteRequest, Acknowledge, TypeOK
        <3>2. CASE RemoveStaleRequest
            BY <1>1, <2>1, <3>2 DEF RemoveStaleRequest, Stale, TypeOK
        <3>3. CASE RemoveRequest
            BY <1>1, <1>4, <2>1, <3>3 DEF RemoveRequest, RecordGone
        <3> QED BY <2>1, <3>1, <3>2, <3>3, PointerSteps
    <2> QED BY <1>4, <2>2, <2>3
<1> QED BY <1>2, <1>3, <1>4

(* Every step keeps what the file changes of a completion established.     *)
LEMMA ArchiveStartedStep ==
    ASSUME IndInv, ArchiveStarted, [Next]_vars PROVE ArchiveStarted'
<1>1. TypeOK
    BY DEF IndInv
<1>2. op'.step # "complete" => ArchiveStarted'
    BY DEF ArchiveStarted
<1>3. CASE CheckArchive
    <2>1. ASSUME Goto("complete") PROVE ArchiveStarted'
        <3>1. op'.session = op.session /\ archive' = archive
            BY <1>1, <1>3, <2>1, GotoKeeps DEF CheckArchive, files
        <3>2. op'.step = "complete"
            BY <1>1, <2>1, GotoKeeps
        <3>3. archive[op.session][1] \in ArchiveStarts
            BY <1>3, <3>2, LockEffects DEF CheckArchive
        <3> QED BY <3>1, <3>3 DEF ArchiveStarted
    <2> QED BY <1>2, <1>3, <2>1, LockEffects DEF CheckArchive
<1>4. CASE AssembleStep /\ ~CheckArchive
    BY <1>1, <1>2, <1>4, AssembleGoesOn
<1>5. CASE Aside
    <2>1. archive' = archive
        BY <1>5, StepAside DEF disk
    <2> QED BY <1>2, <1>5, <2>1, AsideEffects DEF ArchiveStarted
<1>6. CASE Sweep
    BY <1>2, <1>6 DEF Sweep, NoOp
<1> QED BY <1>1, <1>2, <1>3, <1>4, <1>5, <1>6, NextCases, StepAfterRequest, StepAfterStep
        DEF Step

(* Every step keeps what the file changes of a removal established. *)
LEMMA RecordGoneStep == ASSUME IndInv, RecordGone, [Next]_vars PROVE RecordGone'
<1>1. TypeOK
    BY DEF IndInv
<1>2. op'.step # "forget" => RecordGone'
    BY DEF RecordGone
<1>3. CASE RemoveDirectory
    <2>1. op'.session = op.session /\ UNCHANGED record /\ ~HasRecord(op.session)
        BY <1>1, <1>3, GotoKeeps DEF RemoveDirectory, Empty
    <2> QED BY <2>1 DEF RecordGone, HasRecord
<1>4. CASE RemoveFile \/ RemoveRequest
    BY <1>1, <1>2, <1>4, GotoKeeps, LockEffects, ChoiceEffects DEF RemoveFile, RemoveRequest
<1>5. CASE Aside
    <2>1. record' = record
        BY <1>5, StepAside DEF disk
    <2> QED BY <1>2, <1>5, <2>1, AsideEffects DEF RecordGone, HasRecord
<1>6. CASE Sweep
    BY <1>2, <1>6 DEF Sweep, NoOp
<1> QED BY <1>1, <1>2, <1>3, <1>4, <1>5, <1>6, NextCases, StepAfterRequest, StepAfterStep
        DEF Step, RemoveStep

(* Initially no one was answered and nothing goes on. *)
LEMMA AnswersFitInit == Init => AnswersFit
BY DEF Init, NoOp, AnswersFit, LastFound, LastGone, CallsFit, ArchiveStarted, RecordGone

(* Every step keeps what the answers to clients rest on. *)
LEMMA AnswersFitStep == ASSUME IndInv, AnswersFit, [Next]_vars PROVE AnswersFit'
BY LastFoundStep, LastGoneStep, CallsFitStep, ArchiveStartedStep, RecordGoneStep
   DEF AnswersFit

-----------------------------------------------------------------------------
(* Implementation of the abstract specification *)

\* what the abstract store shows of the sessions
Shown == <<StateOf, RequestOf, ContentOf>>

(* What a session looks like follows from its record and from its end. *)
LEMMA SessionLooks ==
    ASSUME NEW s \in Sessions
    PROVE  /\ HasRecord(s) =>
                  /\ StateOf[s] = IF record[s].complete THEN "complete" ELSE "open"
                  /\ RequestOf[s] = record[s].request
           /\ ~HasRecord(s) =>
                  /\ StateOf[s] = IF fate[s] = "doomed" THEN "gone" ELSE "none"
                  /\ RequestOf[s] = NoRecord
           /\ ContentOf[s] = IF HasRecord(s) /\ record[s].complete THEN record[s].digest
                                                                  ELSE NoDigest
BY DEF StateOf, RequestOf, ContentOf

\* nothing that a session shows has changed
Same(s) ==
    /\ StateOf'[s] = StateOf[s] /\ RequestOf'[s] = RequestOf[s]
    /\ ContentOf'[s] = ContentOf[s]

(* If no session looks different, nothing that is shown has changed. *)
LEMMA AllSame == ASSUME \A s \in Sessions : Same(s) PROVE UNCHANGED Shown
BY DEF Same, Shown, StateOf, RequestOf, ContentOf

(* A session looks the same while its record and its end stay. *)
LEMMA LooksSame ==
    ASSUME NEW s \in Sessions, record'[s] = record[s],
           HasRecord(s) \/ (fate'[s] = "doomed" <=> fate[s] = "doomed")
    PROVE  Same(s)
BY DEF Same, StateOf, RequestOf, ContentOf, HasRecord

(* One session that takes another state is a step of the abstract store. *)
LEMMA Becoming ==
    ASSUME NEW k \in Sessions, NEW now, NEW q, NEW a,
           StateOf'[k] = now, RequestOf'[k] = q, ContentOf'[k] = a,
           \A s \in Sessions \ {k} : Same(s), UNCHANGED <<answered, reader>>
    PROVE  Uploads!Become(k, now, q, a)
<1>1. StateOf' = [StateOf EXCEPT ![k] = now]
    BY DEF Same, StateOf
<1>2. RequestOf' = [RequestOf EXCEPT ![k] = q]
    BY DEF Same, RequestOf
<1>3. ContentOf' = [ContentOf EXCEPT ![k] = a]
    BY DEF Same, ContentOf
<1> QED BY <1>1, <1>2, <1>3 DEF Uploads!Become, Uploads!work

(* A session whose record goes, or that has none when its removal begins,  *)
(* is gone.                                                                *)
LEMMA Ending ==
    ASSUME NEW k \in Sessions, HasRecord(k) \/ fate[k] # "doomed",
           record'[k] = NoRecord, fate'[k] = "doomed",
           \A s \in Sessions \ {k} : Same(s), UNCHANGED <<answered, reader>>
    PROVE  Uploads!EndSession(k)
<1>1. StateOf'[k] = "gone" /\ RequestOf'[k] = NoRecord /\ ContentOf'[k] = NoDigest
    BY DEF StateOf, RequestOf, ContentOf, HasRecord
<1>2. StateOf[k] # "gone"
    BY DEF StateOf
<1> QED BY <1>1, <1>2, Becoming DEF Uploads!EndSession

(* A file step works on one session and shows nothing of the others. *)
LEMMA OthersSame ==
    ASSUME TypeOK, FileStep, NEW s \in Sessions, s # op.session PROVE Same(s)
<1>1. fate' = fate
    BY DEF FileStep, MakeDirectory, SaveNewRecord, CreatePart, WritePart, SaveReceived,
           DropParts, SavePresent, StartArchive, CopyPart, UnlinkPart, SaveComplete,
           RemoveChunks, RemoveFile, RemoveDirectory
<1>2. record'[s] = record[s]
    BY DEF TypeOK, FileStep, MakeDirectory, SaveNewRecord, CreatePart, WritePart,
           SaveReceived, DropParts, SavePresent, StartArchive, CopyPart, UnlinkPart,
           SaveComplete, RemoveChunks, RemoveFile, RemoveDirectory
<1> QED BY <1>1, <1>2, LooksSame

\* what can become of one session in a step
SessionMoves ==
    \E s \in Sessions : \/ Uploads!Finish(s) \/ Uploads!EndSession(s)
                        \/ \E q \in Requests : Uploads!OpenSession(s, q)

(* A new record opens a session for the request that is being answered. *)
LEMMA Opening == ASSUME IndInv, AnswersFit, SaveNewRecord PROVE SessionMoves
<1> DEFINE k == op.session
           q == op.call.request
<1>1. /\ TypeOK /\ k \in Sessions /\ q \in Requests /\ ~HasRecord(k) /\ fate[k] = "live"
    BY DEF IndInv, AnswersFit, CreateFits, LastGone, SaveNewRecord, Creates
<1>2. record'[k] = New(q)
    BY <1>1 DEF SaveNewRecord, TypeOK
<1>3. New(q) # NoRecord
    <2>1. New(q) \in RecordType
        BY <1>1 DEF New, RecordType
    <2> QED BY <2>1, RequestsAssumption
<1>4. StateOf'[k] = "open" /\ RequestOf'[k] = q /\ ContentOf'[k] = NoDigest
    BY <1>1, <1>2, <1>3 DEF StateOf, RequestOf, ContentOf, HasRecord, New
<1>5. StateOf[k] = "none"
    BY <1>1 DEF StateOf
<1>6. \A s \in Sessions \ {k} : Same(s)
    BY <1>1, OthersSame DEF FileStep
<1>7. UNCHANGED <<answered, reader>>
    BY DEF SaveNewRecord, history, outside
<1>8. Uploads!OpenSession(k, q)
    BY <1>1, <1>4, <1>5, <1>6, <1>7, Becoming DEF Uploads!OpenSession
<1> QED BY <1>1, <1>8 DEF SessionMoves

(* A completion finishes its session with an archive the request allows. *)
LEMMA Finishing == ASSUME IndInv, AnswersFit, SaveComplete PROVE SessionMoves
<1> DEFINE k == op.session
           q == record[k].request
           a == archive[k]
<1>1. /\ TypeOK /\ k \in Sessions /\ HasRecord(k) /\ ~record[k].complete
      /\ Len(a) = q.chunks /\ q.expected \in {NoDigest, a} /\ a[1] \in ArchiveStarts
    BY DEF IndInv, AnswersFit, AssembleFits, ArchiveStarted, SaveComplete
<1>2. record[k] \in RecordType /\ a \in Archives
    BY <1>1 DEF TypeOK, HasRecord
<1>3. a \in [1..q.chunks -> Contents]
    BY <1>1, <1>2, ArchiveIsSequence
<1>4. record'[k] = [record[k] EXCEPT !.complete = TRUE, !.digest = a]
    BY <1>1 DEF SaveComplete, TypeOK
<1>5. record'[k] \in RecordType /\ record'[k].complete
      /\ record'[k].request = q /\ record'[k].digest = a
    BY <1>2, <1>4 DEF RecordType
<1>6. record'[k] # NoRecord
    BY <1>5, RequestsAssumption
<1>7. StateOf'[k] = "complete" /\ RequestOf'[k] = q /\ ContentOf'[k] = a
    BY <1>1, <1>5, <1>6 DEF StateOf, RequestOf, ContentOf, HasRecord
<1>8. StateOf[k] = "open" /\ RequestOf[k] = q
    BY <1>1, SessionLooks
<1>9. \A s \in Sessions \ {k} : Same(s)
    BY <1>1, OthersSame DEF FileStep
<1>10. UNCHANGED <<answered, reader>>
    BY DEF SaveComplete, history, outside
<1>11. Uploads!Become(k, "complete", q, a)
    BY <1>1, <1>7, <1>9, <1>10, Becoming
<1>12. a \in Uploads!Allowed(q)
    BY <1>1, <1>3 DEF Uploads!Allowed
<1>13. Uploads!Finish(k)
    BY <1>8, <1>11, <1>12 DEF Uploads!Finish
<1> QED BY <1>1, <1>13 DEF SessionMoves

(* A removal ends its session when its record goes, whatever went before. *)
LEMMA Removing == ASSUME IndInv, RemoveFile PROVE UNCHANGED Shown \/ SessionMoves
<1> DEFINE k == op.session
<1>1. TypeOK /\ k \in Sessions /\ fate[k] = "doomed" /\ fate' = fate
    BY DEF IndInv, RemoveFits, RemoveFile
<1>2. \A s \in Sessions \ {k} : Same(s)
    BY <1>1, OthersSame DEF FileStep
<1>3. CASE record' = record
    BY <1>1, <1>3, LooksSame, AllSame
<1>4. CASE HasRecord(k) /\ record' = [record EXCEPT ![k] = NoRecord]
    <2>1. record'[k] = NoRecord
        BY <1>1, <1>4 DEF TypeOK
    <2>2. UNCHANGED <<answered, reader>>
        BY DEF RemoveFile, history, outside
    <2>3. Uploads!EndSession(k)
        BY <1>1, <1>2, <1>4, <2>1, <2>2, Ending
    <2> QED BY <1>1, <2>3 DEF SessionMoves
<1> QED BY <1>3, <1>4 DEF RemoveFile

(* The other file steps show nothing of what they change. *)
LEMMA Unseen ==
    ASSUME IndInv, FileStep, ~SaveNewRecord, ~SaveComplete, ~RemoveFile
    PROVE  UNCHANGED Shown
<1>1. TypeOK /\ fate' = fate
    BY DEF IndInv, FileStep, MakeDirectory, SaveNewRecord, CreatePart, WritePart,
           SaveReceived, DropParts, SavePresent, StartArchive, CopyPart, UnlinkPart,
           SaveComplete, RemoveChunks, RemoveFile, RemoveDirectory
<1>2. CASE record' = record
    BY <1>1, <1>2, LooksSame, AllSame
<1>3. CASE SaveReceived \/ SavePresent
    <2> DEFINE k == op.session
    <2>1. k \in Sessions /\ HasRecord(k) /\ record[k] \in RecordType
        BY <1>1, <1>3 DEF IndInv, SaveReceived, SavePresent, ReceiveFits, AssembleFits,
                          TypeOK, HasRecord
    <2>2. PICK r \in SUBSET Chunks : record'[k] = [record[k] EXCEPT !.received = r]
        <3>1. CASE SaveReceived
            <4>1. op.call.index \in Chunks
                BY <3>1 DEF IndInv, SaveReceived, ReceiveFits, Receives
            <4>2. record[k].received \cup {op.call.index} \in SUBSET Chunks
                BY <2>1, <4>1 DEF RecordType
            <4>3. record'[k] = [record[k] EXCEPT !.received = @ \cup {op.call.index}]
                BY <1>1, <2>1, <3>1 DEF SaveReceived, TypeOK
            <4> QED BY <2>1, <4>2, <4>3 DEF RecordType
        <3>2. CASE SavePresent
            <4>1. VerifiedParts(k) \in SUBSET Chunks
                BY <2>1 DEF VerifiedParts, RecordType
            <4>2. record'[k] = [record[k] EXCEPT !.received = VerifiedParts(k)]
                BY <1>1, <2>1, <3>2 DEF SavePresent, TypeOK
            <4> QED BY <4>1, <4>2
        <3> QED BY <1>3, <3>1, <3>2
    <2>3. /\ record'[k] \in RecordType
          /\ record'[k].request = record[k].request
          /\ record'[k].complete = record[k].complete
          /\ record'[k].digest = record[k].digest
        BY <2>1, <2>2 DEF RecordType
    <2>4. record'[k] # NoRecord
        BY <2>3, RequestsAssumption
    <2>5. Same(k)
        BY <2>1, <2>3, <2>4 DEF Same, StateOf, RequestOf, ContentOf, HasRecord
    <2> QED BY <1>1, <2>5, OthersSame, AllSame
<1> QED BY <1>2, <1>3
        DEF FileStep, MakeDirectory, CreatePart, WritePart, DropParts, StartArchive,
            CopyPart, UnlinkPart, RemoveChunks, RemoveDirectory

(* A refusal dooms no session but one that still has a record. *)
LEMMA RefusedSame ==
    ASSUME TypeOK, NEW call, NEW k, Refuse(call, k), record' = record
    PROVE  UNCHANGED Shown
<1>1. ASSUME NEW s \in Sessions PROVE HasRecord(s) \/ fate'[s] = fate[s]
    BY RefuseEffects DEF TypeOK
<1> QED BY <1>1, LooksSame, AllSame

(* The worker sees what the abstract worker may see, and shows nothing     *)
(* else.                                                                   *)
LEMMA WorkerSteps ==
    ASSUME IndInv, [Next]_vars
    PROVE  \/ reader' = reader
           \/ /\ UNCHANGED Shown /\ answered' = answered
              /\ \/ UNCHANGED <<reader.digest, reader.data>>
                 \/ Uploads!Import \/ Uploads!Stop
                 \/ \E s \in Sessions : Uploads!Tell(s)
<1> DEFINE Seen == /\ UNCHANGED Shown /\ answered' = answered
                   /\ \/ UNCHANGED <<reader.digest, reader.data>>
                      \/ Uploads!Import \/ Uploads!Stop
                      \/ \E s \in Sessions : Uploads!Tell(s)
<1>1. TypeOK /\ ReaderFits
    BY DEF IndInv
<1>2. ASSUME reader' = NoReader, UNCHANGED Shown, answered' = answered PROVE Seen
    <2>1. reader'.digest = NoDigest /\ reader'.data = <<>>
        BY <1>2 DEF NoReader
    <2> QED BY <1>2, <2>1 DEF Uploads!Stop, Uploads!session, Shown
<1>3. ASSUME NEW step, NEW s \in Sessions, NEW next, WorkerLoad(step, s, next)
      PROVE  /\ UNCHANGED Shown /\ answered' = answered
             /\ \/ reader' = NoReader
                \/ reader' = next /\ HasRecord(s) /\ record[s].complete
    <2>1. record' = record /\ answered' = answered
        BY <1>3 DEF WorkerLoad, files, history
    <2>2. fate' = fate => UNCHANGED Shown
        BY <2>1, LooksSame, AllSame
    <2>3. UNCHANGED Shown
        BY <1>1, <1>3, <2>1, <2>2, RefusedSame DEF WorkerLoad
    <2> QED BY <1>3, <2>1, <2>3 DEF WorkerLoad, Loads
<1>4. ASSUME NEW s \in Sessions, WorkerRead(s) PROVE Seen
    <2> DEFINE next == [step |-> "digest", session |-> s,
                        digest |-> IF HasRecord(s) THEN record[s].digest ELSE NoDigest,
                        data |-> <<>>]
    <2>1. /\ UNCHANGED Shown /\ answered' = answered
          /\ \/ reader' = NoReader
             \/ reader' = next /\ HasRecord(s) /\ record[s].complete
        BY <1>3, <1>4 DEF WorkerRead
    <2>2. CASE reader' = next /\ HasRecord(s) /\ record[s].complete
        <3>1. reader'.digest = record[s].digest /\ reader'.data = <<>>
            BY <2>2
        <3>2. StateOf[s] = "complete" /\ ContentOf[s] = record[s].digest
            BY <2>2, SessionLooks
        <3> QED BY <2>1, <3>1, <3>2 DEF Uploads!Tell, Uploads!session, Shown
    <2> QED BY <1>2, <2>1, <2>2
<1>5. CASE WorkerPath
    <2> DEFINE s == reader.session
               next == [reader EXCEPT !.step = "path"]
    <2>1. s \in Sessions
        BY <1>1, <1>5 DEF WorkerPath, WorkerLoad, ReaderFits
    <2>2. /\ UNCHANGED Shown /\ answered' = answered
          /\ \/ reader' = NoReader
             \/ reader' = next /\ HasRecord(s) /\ record[s].complete
        BY <1>3, <1>5, <2>1 DEF WorkerPath
    <2>3. CASE reader' = next /\ HasRecord(s) /\ record[s].complete
        <3>1. reader'.digest = reader.digest /\ reader'.data = reader.data
            BY <1>1, <2>3 DEF TypeOK, Reader
        <3> QED BY <2>2, <3>1
    <2> QED BY <1>2, <2>2, <2>3
<1>6. CASE WorkerOpen
    <2> DEFINE s == reader.session
    <2>1. record' = record /\ fate' = fate /\ answered' = answered
        BY <1>6 DEF WorkerOpen, files, history
    <2>2. UNCHANGED Shown
        BY <2>1, LooksSame, AllSame
    <2>3. CASE archive[s] # <<>>
        <3>1. s \in Sessions /\ archive[s] = reader.digest
            BY <1>1, <1>6, <2>3 DEF WorkerOpen, ReaderFits
        <3>2. reader'.digest = reader.digest /\ reader'.data = archive[s]
            BY <1>1, <1>6, <2>3 DEF WorkerOpen, TypeOK, Reader
        <3>3. reader.digest # NoDigest
            BY <1>1, <3>1, RequestsAssumption DEF TypeOK
        <3> QED BY <2>1, <2>2, <3>1, <3>2, <3>3
                DEF Uploads!Import, Uploads!session, Shown
    <2> QED BY <1>2, <1>6, <2>1, <2>2, <2>3 DEF WorkerOpen
<1>7. CASE WorkerEnd
    <2>1. record' = record /\ fate' = fate /\ answered' = answered /\ reader' = NoReader
        BY <1>7 DEF WorkerEnd, files, history
    <2>2. UNCHANGED Shown
        BY <2>1, LooksSame, AllSame
    <2> QED BY <1>2, <2>1, <2>2
<1> QED BY <1>4, <1>5, <1>6, <1>7, ReaderSteps DEF Worker

(* A session moves as the abstract one may, and then nothing else is shown. *)
LEMMA SessionSteps ==
    ASSUME IndInv, AnswersFit, [Next]_vars
    PROVE  \/ UNCHANGED Shown
           \/ SessionMoves /\ UNCHANGED <<answered, reader>>
<1>1. TypeOK
    BY DEF IndInv
<1>2. CASE FileStep
    <2>1. UNCHANGED <<answered, reader>>
        BY <1>2 DEF FileStep, MakeDirectory, SaveNewRecord, CreatePart, WritePart,
                    SaveReceived, DropParts, SavePresent, StartArchive, CopyPart,
                    UnlinkPart, SaveComplete, RemoveChunks, RemoveFile, RemoveDirectory,
                    history, outside
    <2> QED BY <1>2, <2>1, Opening, Finishing, Removing, Unseen
<1>3. CASE UNCHANGED disk
    <2>1. record' = record
        BY <1>3 DEF disk
    <2>2. CASE fate' = fate
        BY <2>1, <2>2, LooksSame, AllSame
    <2>3. ASSUME NEW k \in Sessions, Lives(k) PROVE UNCHANGED Shown
        <3>1. \A s \in Sessions : fate'[s] = "doomed" <=> fate[s] = "doomed"
            BY <1>1, <2>3 DEF Lives, TypeOK
        <3> QED BY <2>1, <3>1, LooksSame, AllSame
    <2>4. ASSUME NEW k \in Sessions, Dooms(k), UNCHANGED history
          PROVE  \/ UNCHANGED Shown
                 \/ SessionMoves /\ UNCHANGED <<answered, reader>>
        <3>1. \A s \in Sessions \ {k} : fate'[s] = fate[s]
            BY <1>1, <2>4 DEF Dooms, TypeOK
        <3>2. fate'[k] = "doomed"
            BY <1>1, <2>4 DEF Dooms, TypeOK
        <3>3. \A s \in Sessions \ {k} : Same(s)
            BY <2>1, <3>1, LooksSame
        <3>4. CASE HasRecord(k) \/ fate[k] = "doomed"
            <4>1. Same(k)
                BY <2>1, <3>2, <3>4, LooksSame
            <4> QED BY <3>3, <4>1, AllSame
        <3>5. CASE ~HasRecord(k) /\ fate[k] # "doomed"
            <4>1. answered' = answered /\ (reader' = reader \/ UNCHANGED Shown)
                BY <2>4, WorkerSteps DEF history
            <4>2. record'[k] = NoRecord
                BY <2>1, <3>5 DEF HasRecord
            <4>3. reader' = reader => Uploads!EndSession(k)
                BY <3>2, <3>3, <3>5, <4>1, <4>2, Ending
            <4> QED BY <4>1, <4>3 DEF SessionMoves
        <3> QED BY <3>4, <3>5
    <2> QED BY <1>1, <2>2, <2>3, <2>4, FateSteps
<1> QED BY <1>2, <1>3, DiskSteps

(* What an answer, a begin and a removal do to the reply. *)
LEMMA ReplyEffects ==
    /\ \A call, code, s : Answer(call, code, s)
           => reply'.call = call /\ reply'.code = code /\ reply'.session = s
    /\ \A call, step, s : Begin(call, step, s) => reply' = NoReply
    /\ \A call, s, client, then, todo :
           Remove(call, s, client, then, todo) => reply' = NoReply
<1>1. ASSUME NEW call, NEW code, NEW s, Answer(call, code, s)
      PROVE  reply'.call = call /\ reply'.code = code /\ reply'.session = s
    BY <1>1 DEF Answer
<1>2. \A call, step, s : Begin(call, step, s) => reply' = NoReply
    BY DEF Begin
<1>3. \A call, s, client, then, todo :
           Remove(call, s, client, then, todo) => reply' = NoReply
    BY DEF Remove
<1> QED BY <1>1, <1>2, <1>3

\* no answer of a create or a complete is given
Muted ==
    reply' \in {reply, NoReply} \/ reply'.code # "ok"
        \/ reply'.call.kind \notin {"create", "complete"}

(* Then the abstract store shows no new answer. *)
LEMMA MutedIsQuiet == Muted => Uploads!Quiet
<1>1. CASE reply' = reply
    BY <1>1 DEF Uploads!Quiet, AnswerOf
<1>2. CASE reply' = NoReply
    BY <1>2, RequestsAssumption
       DEF NoReply, Uploads!Quiet, AnswerOf, Calls, Creates, Completes
<1>3. CASE reply'.code # "ok"
    BY <1>3 DEF Uploads!Quiet, AnswerOf
<1>4. CASE reply'.call.kind \notin {"create", "complete"}
    BY <1>4 DEF Uploads!Quiet, AnswerOf, Creates, Completes
<1> QED BY <1>1, <1>2, <1>3, <1>4 DEF Muted

(* Only create and complete give such answers. *)
LEMMA MutedSteps ==
    ASSUME IndInv, CallsFit, [Next]_vars
    PROVE  \/ Muted \/ WriteRequest \/ RemoveChunks
           \/ \E q \in Requests : Create(q)
<1>1. /\ TypeOK /\ CallsFit /\ ReceiveFits
    BY DEF IndInv
<1>2. ASSUME NEW call, NEW s, Refuse(call, s) PROVE Muted
    BY <1>2, RefuseEffects DEF Muted
<1>3. ASSUME NEW call, Open(call) PROVE Muted
    BY <1>3, ReplyEffects DEF Open, Muted
<1>4. ASSUME NEW s \in Sessions, NEW i, NEW c, Receive(s, i, c) PROVE Muted
    <2> DEFINE call == [kind |-> "receive", session |-> s, index |-> i, content |-> c]
    <2>1. \/ Refuse(call, s) \/ Begin(call, "create part", s) \/ Begin(call, "received", s)
          \/ \E code : Answer(call, code, s)
        BY <1>4 DEF Receive
    <2>2. ASSUME NEW code, Answer(call, code, s) PROVE Muted
        <3>1. reply'.call = call
            BY <2>2, ReplyEffects
        <3>2. reply'.call.kind = "receive"
            BY <3>1
        <3> QED BY <3>2 DEF Muted
    <2> QED BY <1>2, <2>1, <2>2, ReplyEffects DEF Muted
<1>5. ASSUME NEW s \in Sessions, Read(s) \/ Discard(s) PROVE Muted
    BY <1>2, <1>5, ReplyEffects DEF Read, Discard, Muted
<1>6. ASSUME NEW s \in Sessions, Complete(s) PROVE Muted
    <2> DEFINE call == [kind |-> "complete", session |-> s]
    <2>1. \/ Refuse(call, s)
          \/ Answer(call, "upload_storage_full", s)
          \/ \E step : Begin(call, step, s)
        BY <1>6 DEF Complete
    <2> QED BY <1>2, <2>1, ReplyEffects DEF Muted
<1>7. CASE Sweep
    BY <1>7 DEF Sweep, Muted
<1>8. CASE CreateStep /\ ~WriteRequest
    BY <1>8 DEF CreateStep, MakeDirectory, SaveNewRecord, Muted
<1>9. CASE ReceiveStep
    <2>1. op.call.kind = "receive"
        BY <1>1, <1>9
           DEF ReceiveStep, CreatePart, WritePart, SaveReceived, ReceiveFits, Receives
    <2> QED BY <1>9, <2>1, ReplyEffects
            DEF ReceiveStep, CreatePart, WritePart, SaveReceived, Muted
<1>10. CASE AssembleStep /\ ~RemoveChunks
    <2>1. \/ reply' = reply
          \/ Answer(op.call, "upload_incomplete", op.session)
          \/ \E code : Remove(op.call, op.session, ClientOf(op.session), code, {})
        BY <1>10 DEF AssembleStep, DropParts, SavePresent, StartArchive, CopyPart,
                     UnlinkPart, CheckArchive, SaveComplete
    <2> QED BY <2>1, ReplyEffects DEF Muted
<1>11. CASE RemoveStep
    <2>1. CASE RemoveRequest
        <3>1. op.then = "ok" => op.call.kind = "discard"
            BY <1>1, <2>1 DEF RemoveRequest, CallsFit
        <3>2. \/ Open(op.call) \/ UNCHANGED reply
              \/ Answer(op.call, op.then, op.session)
            BY <2>1 DEF RemoveRequest
        <3> QED BY <1>3, <3>1, <3>2, ReplyEffects DEF Muted
    <2>2. CASE RemoveFile \/ RemoveDirectory
        BY <2>2 DEF RemoveFile, RemoveDirectory, Muted
    <2> QED BY <1>11, <2>1, <2>2 DEF RemoveStep
<1>12. CASE SweepStep
    <2>1. CASE EndSweep
        BY <1>1, <2>1, ReplyEffects DEF EndSweep, CallsFit, Muted
    <2>2. CASE SweepSession \/ RemoveStaleRequest
        BY <2>2, ReplyEffects DEF SweepSession, RemoveStaleRequest, Muted
    <2> QED BY <1>12, <2>1, <2>2 DEF SweepStep
<1>13. CASE Aside
    <2>1. ASSUME NEW step, NEW s, NEW next, WorkerLoad(step, s, next) PROVE Muted
        BY <1>2, <2>1, ReplyEffects DEF WorkerLoad, Muted
    <2>2. CASE WorkerPath \/ \E s \in Sessions : WorkerRead(s)
        BY <2>1, <2>2 DEF WorkerPath, WorkerRead
    <2>3. CASE WorkerOpen \/ WorkerEnd \/ Disturbance \/ UNCHANGED vars
        BY <2>3, ReplyEffects
           DEF WorkerOpen, WorkerEnd, Disturbance, Interrupt, Expire, vars, Muted
    <2> QED BY <1>13, <2>2, <2>3 DEF Aside, Worker
<1> QED BY <1>4, <1>5, <1>6, <1>7, <1>8, <1>9, <1>10, <1>11, <1>12, <1>13, NextCases
        DEF Step

(* An answer to a create is one that the abstract store may give, when the *)
(* session has a record of that very request.                              *)
LEMMA AnswersCreate ==
    ASSUME IndInv, AnswersFit, NEW k \in Sessions, NEW q \in Requests,
           HasRecord(k), record[k].request = q,
           answered[q.client] \in {NoSession, k} \/ ~HasRecord(answered[q.client]),
           Acknowledge(q, k), UNCHANGED reader, UNCHANGED Shown,
           Answer([kind |-> "create", request |-> q], "ok", k)
    PROVE  Uploads!AnswerCreate(k, q)
<1> DEFINE call == [kind |-> "create", request |-> q]
           last == answered[q.client]
<1>1. q.client \in Clients /\ call \in Creates
    BY DEF Clients, Creates
<1>2. AnswerOf' = [call |-> call, session |-> k]
    BY <1>1, ReplyEffects DEF AnswerOf
<1>3. StateOf[k] \in {"open", "complete"} /\ RequestOf[k] = q
    BY SessionLooks
<1>4. last \notin {NoSession, k} => StateOf[last] = "gone"
    <2>1. last # NoSession => last \in Sessions
        BY <1>1 DEF IndInv, TypeOK
    <2>2. last \notin {NoSession, k} => fate[last] = "doomed"
        BY <1>1 DEF AnswersFit, LastFound
    <2> QED BY <2>1, <2>2, SessionLooks
<1>5. answered' = [answered EXCEPT ![q.client] = k]
    BY DEF Acknowledge
<1> QED BY <1>2, <1>3, <1>4, <1>5
        DEF Uploads!AnswerCreate, Uploads!session, Uploads!work, Shown

(* Every answer of a create or a complete is the abstract store's. *)
LEMMA AnswerSteps ==
    ASSUME IndInv, AnswersFit, [Next]_vars
    PROVE  \/ Uploads!Quiet /\ answered' = answered
           \/ \E s \in Sessions : \/ Uploads!AnswerComplete(s)
                                  \/ \E q \in Requests : Uploads!AnswerCreate(s, q)
<1>1. TypeOK /\ CreateFits /\ AssembleFits /\ LastFound /\ LastGone /\ CallsFit
    BY DEF IndInv, AnswersFit
<1>2. ASSUME record' = record, fate' = fate PROVE UNCHANGED Shown
    BY <1>2, LooksSame, AllSame
<1>3. ASSUME NEW q \in Requests, Create(q)
      PROVE  \/ Muted /\ answered' = answered
             \/ \E s \in Sessions : Uploads!AnswerCreate(s, q)
    <2> DEFINE call == [kind |-> "create", request |-> q]
               known == pointer[q.client]
    <2>1. CASE /\ known # NoSession /\ HasRecord(known) /\ record[known].request = q
               /\ Answer(call, "ok", known) /\ Acknowledge(q, known) /\ UNCHANGED fate
        <3>1. q.client \in Clients /\ known \in Sessions
            BY <1>1, <2>1 DEF Clients, TypeOK
        <3>2. UNCHANGED Shown /\ UNCHANGED reader
            BY <1>2, <1>3, <2>1 DEF Create, files, outside
        <3>3. answered[q.client] \in {NoSession, known} \/ ~HasRecord(answered[q.client])
            BY <1>1, <3>1 DEF LastFound
        <3> QED BY <2>1, <3>1, <3>2, <3>3, AnswersCreate
    <2>2. CASE /\ answered' = answered
               /\ \/ Answer(call, "request_identifier_conflict", NoSession)
                  \/ Remove(call, known, ClientOf(known), "create", {})
                  \/ Open(call)
        BY <2>2, ReplyEffects DEF Open, Muted
    <2> QED BY <1>3, <2>1, <2>2 DEF Create
<1>4. CASE WriteRequest
    <2> DEFINE k == op.session
               q == op.call.request
    <2>1. /\ k \in Sessions /\ q \in Requests /\ HasRecord(k) /\ record[k].request = q
          /\ op.call = [kind |-> "create", request |-> q]
          /\ answered[q.client] = NoSession \/ ~HasRecord(answered[q.client])
        BY <1>1, <1>4 DEF WriteRequest, CreateFits, LastGone, Creates
    <2>2. UNCHANGED Shown /\ UNCHANGED reader
        BY <1>2, <1>4 DEF WriteRequest, outside
    <2>3. Uploads!AnswerCreate(k, q)
        BY <1>4, <2>1, <2>2, AnswersCreate DEF WriteRequest
    <2> QED BY <2>1, <2>3
<1>5. CASE RemoveChunks
    <2> DEFINE k == op.session
               call == [kind |-> "complete", session |-> k]
    <2>1. k \in Sessions /\ HasRecord(k) /\ record[k].complete /\ op.call = call
        BY <1>1, <1>5 DEF RemoveChunks, AssembleFits, CallsFit
    <2>2. UNCHANGED Shown /\ UNCHANGED reader /\ answered' = answered
        BY <1>2, <1>5 DEF RemoveChunks, outside, history
    <2>3. call \in Completes
        BY <2>1 DEF Completes
    <2>4. AnswerOf' = [call |-> call, session |-> k]
        BY <1>5, <2>1, <2>3, ReplyEffects DEF RemoveChunks, AnswerOf
    <2>5. StateOf[k] = "complete"
        BY <2>1, SessionLooks
    <2>6. Uploads!AnswerComplete(k)
        BY <2>2, <2>4, <2>5
           DEF Uploads!AnswerComplete, Uploads!session, Uploads!work, Shown
    <2> QED BY <2>1, <2>6
<1>6. answered' = answered \/ WriteRequest \/ \E q \in Requests : Create(q)
    BY AnsweredSteps
<1> QED BY <1>1, <1>3, <1>4, <1>5, <1>6, MutedSteps, MutedIsQuiet

(* Every step of the store is a step of the abstract one, or shows nothing. *)
LEMMA StepImplements ==
    ASSUME IndInv, AnswersFit, [Next]_vars
    PROVE  [Uploads!UploadsNext]_(Uploads!uploads)
<1>1. CASE \E s \in Sessions : \/ Uploads!AnswerComplete(s)
                               \/ \E q \in Requests : Uploads!AnswerCreate(s, q)
    BY <1>1 DEF Uploads!UploadsNext
<1>2. CASE Uploads!Quiet /\ answered' = answered
    <2>1. CASE SessionMoves
        BY <1>2, <2>1 DEF SessionMoves, Uploads!UploadsNext, Uploads!Silent
    <2>2. CASE UNCHANGED Shown /\ reader' = reader
        <3>1. UNCHANGED <<Uploads!session, answered, Uploads!work>>
            BY <1>2, <2>2 DEF Uploads!session, Uploads!work, Shown
        <3> QED BY <1>2, <3>1 DEF Uploads!UploadsNext, Uploads!Silent
    <2>3. CASE UNCHANGED Shown /\ UNCHANGED <<reader.digest, reader.data>>
        <3>1. UNCHANGED <<Uploads!session, answered, Uploads!work>>
            BY <1>2, <2>3 DEF Uploads!session, Uploads!work, Shown
        <3> QED BY <1>2, <3>1 DEF Uploads!UploadsNext, Uploads!Silent
    <2>4. CASE Uploads!Import \/ Uploads!Stop \/ \E s \in Sessions : Uploads!Tell(s)
        BY <1>2, <2>4 DEF Uploads!UploadsNext, Uploads!Silent
    <2> QED BY <2>1, <2>2, <2>3, <2>4, SessionSteps, WorkerSteps
<1> QED BY <1>1, <1>2, AnswerSteps

(* The empty store is the initial abstract one. *)
LEMMA InitImplements == Init => Uploads!UploadsInit
<1> SUFFICES ASSUME Init PROVE Uploads!UploadsInit
    OBVIOUS
<1>1. \A s \in Sessions : ~HasRecord(s) /\ fate[s] = "unborn"
    BY DEF Init, HasRecord
<1>2. /\ StateOf = [s \in Sessions |-> "none"] /\ RequestOf = [s \in Sessions |-> NoRecord]
      /\ ContentOf = [s \in Sessions |-> NoDigest]
    BY <1>1 DEF StateOf, RequestOf, ContentOf
<1>3. AnswerOf = NoCall
    BY RequestsAssumption DEF Init, NoReply, AnswerOf, Calls, Creates, Completes
<1> QED BY <1>2, <1>3 DEF Init, NoReader, Clients, Uploads!UploadsInit

(* What the answers to clients rest on holds in every reachable state. *)
THEOREM AnswersRest == Spec => [](IndInv /\ AnswersFit)
<1>1. IndInv /\ AnswersFit /\ [Next]_vars => AnswersFit'
    BY AnswersFitStep
<1> QED BY <1>1, AnswersFitInit, Inductive, PTL DEF Spec

(* The store implements AbstractUploads: whatever the lock's holder,       *)
(* crashes, expiry, sweeps and a worker without the lock do to the files,  *)
(* clients and the worker see sessions that are opened, finished and ended *)
(* once, and answers that stay true.                                       *)
THEOREM StoreImplements == Spec => ImplementsUploads
<1>1. IndInv /\ AnswersFit /\ [Next]_vars => [Uploads!UploadsNext]_(Uploads!uploads)
    BY StepImplements
<1> QED BY <1>1, InitImplements, AnswersRest, PTL
        DEF Spec, ImplementsUploads, Uploads!UploadsSpec



=============================================================================
