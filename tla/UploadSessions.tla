--------------------------- MODULE UploadSessions ---------------------------
(***************************************************************************)
(* The store of chunked archive uploads (dataset_sources/                  *)
(* upload_sessions.py, upload_session_files.py), as the application, its   *)
(* scheduler's sweep and a fetch worker use it.                            *)
(*                                                                         *)
(* One operation at a time holds the store's file lock; it is broken into  *)
(* the file changes that a crash can separate.  Sizes are counted in       *)
(* parts: a started part counts as a whole one, which is what the          *)
(* comparison with a limit of whole parts amounts to.  Indexes start at 1. *)
(***************************************************************************)
EXTENDS Naturals, Sequences, FiniteSets

CONSTANTS
    Sessions,          \* upload identifiers: random, so never used twice
    Requests,          \* create requests: [client, chunks, expected]
    Contents,          \* what a part of the exact size can hold
    ArchiveStarts,     \* the contents that begin with an archive's signature
    Capacity,          \* MAXIMUM_UPLOAD_STORAGE_BYTES, in parts
    MaxInterruptions,  \* bound: operations that die or fail half way
    NoSession, NoRecord, NoCall, NoDigest, Absent, Torn

VARIABLES
    dirs,           \* the session directories that exist
    record,         \* session.json of each session
    part,           \* the chunk files of each session
    archive,        \* archive.bin: the parts copied so far; <<>> also if absent
    pointer,        \* requests/<client request identifier>
    expired,        \* sessions whose lifetime passed
    op,             \* the operation that holds the lock
    reply,          \* its answer, until the next operation begins
    reader,         \* the fetch worker's use of an archive
    interruptions,
    \* history, read by properties only (and by nothing in the code):
    fate,           \* unborn, live, or doomed once its removal began
    answered,       \* the session last answered to a create request
    acked           \* the parts acknowledged to a client, with their contents

files == <<dirs, record, part, archive, pointer>>
history == <<answered, acked>>
outside == <<expired, reader, interruptions>>   \* changed by other actors only
vars == <<dirs, record, part, archive, pointer, expired, op, reply, reader,
          interruptions, fate, answered, acked>>

Clients == {q.client : q \in Requests}
Chunks == UNION {1..q.chunks : q \in Requests}
ChunksOf(s) == 1..record[s].request.chunks
Parts == Contents \cup {Absent, Torn}
Archives == UNION {[1..n -> Contents] : n \in {0} \cup Chunks}
RecordType == [request : Requests, received : SUBSET Chunks, complete : BOOLEAN,
               digest : Archives \cup {NoDigest}]
Codes == {"request_identifier_conflict", "upload_storage_full", "upload_not_found",
          "upload_expired", "upload_already_complete", "upload_chunk_mismatch",
          "upload_incomplete", "upload_checksum_mismatch", "upload_not_archive",
          "upload_storage", "ok"}

Creates == [kind : {"create"}, request : Requests]
Receives == [kind : {"receive"}, session : Sessions, index : Chunks,
             content : Contents]
Calls == Creates \cup Receives \cup [kind : {"sweep"}]
             \cup [kind : {"read", "complete", "discard", "resolve"},
                   session : Sessions]

ASSUME RequestsAssumption ==
    /\ IsFiniteSet(Requests) /\ IsFiniteSet(Sessions)
    /\ \A q \in Requests :
           /\ q.chunks \in Nat \ {0}
           /\ q.expected # NoDigest => q.expected \in [1..q.chunks -> Contents]
    /\ {Absent, Torn} \cap Contents = {} /\ Absent # Torn
    /\ NoSession \notin Sessions /\ NoRecord \notin RecordType /\ NoDigest \notin Archives
    /\ NoCall \notin Calls
    /\ ArchiveStarts \subseteq Contents
    /\ Capacity \in Nat /\ MaxInterruptions \in Nat

NoOp == [call |-> NoCall, step |-> "idle", session |-> NoSession,
         client |-> NoSession, then |-> "ok", todo |-> {}]
NoReply == [call |-> NoCall, code |-> "ok", session |-> NoSession]

-----------------------------------------------------------------------------
(* What the handlers look at *)

Free == op.step = "idle"
HasRecord(s) == record[s] # NoRecord
Intact(s, i) == part[s][i] \in Contents

\* _load answers a session only within its lifetime
Loads(s) == HasRecord(s) /\ s \notin expired

\* used_bytes: chunk files, whole or short, and assembled archives
PartFiles == {f \in Sessions \X Chunks : part[f[1]][f[2]] # Absent}
Archived == {f \in Sessions \X Chunks : f[2] <= Len(archive[f[1]])}
Used == Cardinality(PartFiles) + Cardinality(Archived)

\* _check_capacity
Fits(n) == Used + n <= Capacity

\* a fault: the record is believed, the files are not looked at
FaultyVerifiedParts(s) == record[s].received

\* verified_parts, before it drops the others
VerifiedParts(s) == {i \in record[s].received : Intact(s, i)}

New(q) == [request |-> q, received |-> {}, complete |-> FALSE, digest |-> NoDigest]

-----------------------------------------------------------------------------
(* Holding the lock and answering *)

Goto(step) == op' = [op EXCEPT !.step = step]

Begin(call, step, s) ==
    /\ op' = [NoOp EXCEPT !.call = call, !.step = step, !.session = s]
    /\ reply' = NoReply

Answer(call, code, s) ==
    /\ op' = NoOp
    /\ reply' = [call |-> call, code |-> code, session |-> s]

\* remove_session, called with the client identifier read before
Remove(call, s, client, then, todo) ==
    /\ op' = [call |-> call, step |-> "removing", session |-> s,
              client |-> client, then |-> then, todo |-> todo]
    /\ reply' = NoReply
    /\ fate' = [fate EXCEPT ![s] = "doomed"]

ClientOf(s) == IF HasRecord(s) THEN record[s].request.client ELSE NoSession

\* _load of a session that is absent, or past its lifetime and then removed
Refuse(call, s) ==
    \/ /\ ~HasRecord(s)
       /\ Answer(call, "upload_not_found", s)
       /\ UNCHANGED fate
    \/ /\ HasRecord(s) /\ s \in expired
       /\ Remove(call, s, ClientOf(s), "upload_expired", {})

-----------------------------------------------------------------------------
(* create *)

Acknowledge(q, s) == answered' = [answered EXCEPT ![q.client] = s]

Unborn == {s \in Sessions : fate[s] = "unborn"}

\* the session is new: check its whole size, then choose an identifier; the bound
\* on Sessions shows as a store that takes no more
Open(call) ==
    \/ /\ ~Fits(call.request.chunks) \/ Unborn = {}
       /\ Answer(call, "upload_storage_full", NoSession)
       /\ UNCHANGED fate
    \/ /\ Fits(call.request.chunks)
       /\ \E s \in Unborn :
              /\ Begin(call, "directory", s)
              /\ fate' = [fate EXCEPT ![s] = "live"]

\* a fault: a used identifier gets its session, whatever is asked for now
FaultyCreate(q) ==
    LET call == [kind |-> "create", request |-> q]
        known == pointer[q.client]
        found == known # NoSession /\ HasRecord(known)
    IN /\ Free
       /\ \/ /\ found /\ Loads(known)
             /\ Answer(call, "ok", known)
             /\ Acknowledge(q, known)
             /\ UNCHANGED fate
          \/ /\ found /\ ~Loads(known)
             /\ Remove(call, known, ClientOf(known), "create", {})
             /\ UNCHANGED answered
          \/ /\ ~found
             /\ Open(call)
             /\ UNCHANGED answered
       /\ UNCHANGED <<files, outside, acked>>

\* the identifier was used: by a session that is alive, over, or gone
Create(q) ==
    LET call == [kind |-> "create", request |-> q]
        known == pointer[q.client]
        found == known # NoSession /\ HasRecord(known)
    IN /\ Free
       /\ \/ /\ found /\ Loads(known) /\ record[known].request = q
             /\ Answer(call, "ok", known)
             /\ Acknowledge(q, known)
             /\ UNCHANGED fate
          \/ /\ found /\ Loads(known) /\ record[known].request # q
             /\ Answer(call, "request_identifier_conflict", NoSession)
             /\ UNCHANGED <<fate, answered>>
          \/ /\ found /\ ~Loads(known)
             /\ Remove(call, known, ClientOf(known), "create", {})
             /\ UNCHANGED answered
          \/ /\ ~found
             /\ Open(call)
             /\ UNCHANGED answered
       /\ UNCHANGED <<files, outside, acked>>

MakeDirectory ==
    /\ op.step = "directory"
    /\ dirs' = dirs \cup {op.session}
    /\ Goto("record")
    /\ UNCHANGED <<record, part, archive, pointer, outside, reply, fate, history>>

SaveNewRecord ==
    /\ op.step = "record"
    /\ record' = [record EXCEPT ![op.session] = New(op.call.request)]
    /\ Goto("request")
    /\ UNCHANGED <<dirs, part, archive, pointer, outside, reply, fate, history>>

WriteRequest ==
    /\ op.step = "request"
    /\ pointer' = [pointer EXCEPT ![op.call.request.client] = op.session]
    /\ Answer(op.call, "ok", op.session)
    /\ Acknowledge(op.call.request, op.session)
    /\ UNCHANGED <<dirs, record, part, archive, outside, fate, acked>>

-----------------------------------------------------------------------------
(* receive_chunk *)

AcknowledgePart(s, i, c) == acked' = [acked EXCEPT ![s][i] = c]

\* a part of another size, or a torn one, is written anew; a whole one compared
Receive(s, i, c) ==
    LET call == [kind |-> "receive", session |-> s, index |-> i, content |-> c]
    IN /\ Free
       /\ \/ /\ Refuse(call, s)
             /\ UNCHANGED acked
          \/ /\ Loads(s) /\ record[s].complete
             /\ Answer(call, "upload_already_complete", s)
             /\ UNCHANGED <<fate, acked>>
          \/ /\ Loads(s) /\ ~record[s].complete /\ i \in ChunksOf(s)
             /\ UNCHANGED fate
             /\ \/ /\ ~Intact(s, i) /\ ~Fits(1)
                   /\ Answer(call, "upload_storage_full", s)
                   /\ UNCHANGED acked
                \/ /\ ~Intact(s, i) /\ Fits(1)
                   /\ Begin(call, "create part", s)
                   /\ UNCHANGED acked
                \/ /\ Intact(s, i) /\ part[s][i] # c
                   /\ Answer(call, "upload_chunk_mismatch", s)
                   /\ UNCHANGED acked
                \/ /\ part[s][i] = c /\ i \notin record[s].received
                   /\ Begin(call, "received", s)
                   /\ UNCHANGED acked
                \/ /\ part[s][i] = c /\ i \in record[s].received
                   /\ Answer(call, "ok", s)
                   /\ AcknowledgePart(s, i, c)
       /\ UNCHANGED <<files, outside, answered>>

\* a fault: the record lists the part before its file is whole
FaultyCreatePart ==
    /\ op.step = "create part"
    /\ part' = [part EXCEPT ![op.session][op.call.index] = Torn]
    /\ record' = [record EXCEPT ![op.session].received = @ \cup {op.call.index}]
    /\ Goto("write part")
    /\ UNCHANGED <<dirs, archive, pointer, outside, reply, fate, history>>

\* write_chunk: the leftover is unlinked and the file created, then filled
CreatePart ==
    /\ op.step = "create part"
    /\ part' = [part EXCEPT ![op.session][op.call.index] = Torn]
    /\ Goto("write part")
    /\ UNCHANGED <<dirs, record, archive, pointer, outside, reply, fate, history>>

WritePart ==
    LET s == op.session
        i == op.call.index
    IN /\ op.step = "write part"
       /\ part' = [part EXCEPT ![s][i] = op.call.content]
       /\ \/ /\ i \notin record[s].received
             /\ Goto("received")
             /\ UNCHANGED <<reply, acked>>
          \/ /\ i \in record[s].received
             /\ Answer(op.call, "ok", s)
             /\ AcknowledgePart(s, i, op.call.content)
       /\ UNCHANGED <<dirs, record, archive, pointer, outside, fate, answered>>

SaveReceived ==
    LET s == op.session
    IN /\ op.step = "received"
       /\ record' = [record EXCEPT ![s].received = @ \cup {op.call.index}]
       /\ Answer(op.call, "ok", s)
       /\ AcknowledgePart(s, op.call.index, op.call.content)
       /\ UNCHANGED <<dirs, part, archive, pointer, outside, fate, answered>>

-----------------------------------------------------------------------------
(* read and complete *)

Read(s) ==
    LET call == [kind |-> "read", session |-> s]
    IN /\ Free
       /\ \/ Refuse(call, s)
          \/ Loads(s) /\ Answer(call, "ok", s) /\ UNCHANGED fate
       /\ UNCHANGED <<files, outside, history>>

\* a fault: the assembly is not checked against the cap
FaultyComplete(s) ==
    LET call == [kind |-> "complete", session |-> s]
    IN /\ Free
       /\ \/ Refuse(call, s)
          \/ /\ Loads(s)
             /\ UNCHANGED fate
             /\ \/ /\ record[s].complete
                   /\ Begin(call, "remove chunks", s)
                \/ /\ ~record[s].complete /\ VerifiedParts(s) # ChunksOf(s)
                   /\ Begin(call, "drop parts", s)
                \/ /\ ~record[s].complete /\ VerifiedParts(s) = ChunksOf(s)
                   /\ Begin(call, "archive", s)
       /\ UNCHANGED <<files, outside, history>>

Complete(s) ==
    LET call == [kind |-> "complete", session |-> s]
    IN /\ Free
       /\ \/ Refuse(call, s)
          \/ /\ Loads(s)
             /\ UNCHANGED fate
             /\ \/ /\ record[s].complete
                   /\ Begin(call, "remove chunks", s)
                \/ /\ ~record[s].complete /\ VerifiedParts(s) # ChunksOf(s)
                   /\ Begin(call, "drop parts", s)
                \/ /\ ~record[s].complete /\ VerifiedParts(s) = ChunksOf(s)
                   /\ \/ ~Fits(1) /\ Answer(call, "upload_storage_full", s)
                      \/ Fits(1) /\ Begin(call, "archive", s)
       /\ UNCHANGED <<files, outside, history>>

\* verified_parts unlinks the received parts of a wrong size ...
DropParts ==
    LET s == op.session
    IN /\ op.step = "drop parts"
       /\ part' = [part EXCEPT ![s] =
                     [i \in Chunks |-> IF i \in record[s].received /\ @[i] = Torn
                                       THEN Absent ELSE @[i]]]
       /\ Goto("present")
       /\ UNCHANGED <<dirs, record, archive, pointer, outside, reply, fate, history>>

\* ... and the record then lists the parts that are left
SavePresent ==
    LET s == op.session
    IN /\ op.step = "present"
       /\ record' = [record EXCEPT ![s].received = VerifiedParts(s)]
       /\ Answer(op.call, "upload_incomplete", s)
       /\ UNCHANGED <<dirs, part, archive, pointer, outside, fate, history>>

\* assemble: a new archive, then each part is copied and unlinked in turn
StartArchive ==
    /\ op.step = "archive"
    /\ archive' = [archive EXCEPT ![op.session] = <<>>]
    /\ Goto("copy")
    /\ UNCHANGED <<dirs, record, part, pointer, outside, reply, fate, history>>

CopyPart ==
    LET s == op.session
        i == Len(archive[s]) + 1
    IN /\ op.step = "copy"
       /\ archive' = [archive EXCEPT ![s] = Append(@, part[s][i])]
       /\ Goto("unlink")
       /\ UNCHANGED <<dirs, record, part, pointer, outside, reply, fate, history>>

UnlinkPart ==
    LET s == op.session
        i == Len(archive[s])
    IN /\ op.step = "unlink"
       /\ part' = [part EXCEPT ![s][i] = Absent]
       /\ Goto(IF i = record[s].request.chunks THEN "check" ELSE "copy")
       /\ UNCHANGED <<dirs, record, archive, pointer, outside, reply, fate, history>>

\* a fault: the checksum of the request is not compared
FaultyCheckArchive ==
    LET s == op.session
    IN /\ op.step = "check"
       /\ \/ /\ archive[s][1] \notin ArchiveStarts
             /\ Remove(op.call, s, ClientOf(s), "upload_not_archive", {})
          \/ /\ archive[s][1] \in ArchiveStarts
             /\ Goto("complete")
             /\ UNCHANGED <<reply, fate>>
       /\ UNCHANGED <<files, outside, history>>

\* the digest of the joined bytes and their first bytes decide
CheckArchive ==
    LET s == op.session
        expected == record[s].request.expected
    IN /\ op.step = "check"
       /\ \/ /\ expected \notin {NoDigest, archive[s]}
             /\ Remove(op.call, s, ClientOf(s), "upload_checksum_mismatch", {})
          \/ /\ expected \in {NoDigest, archive[s]}
             /\ archive[s][1] \notin ArchiveStarts
             /\ Remove(op.call, s, ClientOf(s), "upload_not_archive", {})
          \/ /\ expected \in {NoDigest, archive[s]}
             /\ archive[s][1] \in ArchiveStarts
             /\ Goto("complete")
             /\ UNCHANGED <<reply, fate>>
       /\ UNCHANGED <<files, outside, history>>

SaveComplete ==
    LET s == op.session
    IN /\ op.step = "complete"
       /\ record' = [record EXCEPT ![s].complete = TRUE, ![s].digest = archive[s]]
       /\ Goto("remove chunks")
       /\ UNCHANGED <<dirs, part, archive, pointer, outside, reply, fate, history>>

RemoveChunks ==
    /\ op.step = "remove chunks"
    /\ part' = [part EXCEPT ![op.session] = [i \in Chunks |-> Absent]]
    /\ Answer(op.call, "ok", op.session)
    /\ UNCHANGED <<dirs, record, archive, pointer, outside, fate, history>>

-----------------------------------------------------------------------------
(* discard, sweep, and the removal that they and _load share *)

Discard(s) ==
    LET call == [kind |-> "discard", session |-> s]
    IN /\ Free
       /\ \/ s \notin dirs /\ Answer(call, "ok", s) /\ UNCHANGED fate
          \/ s \in dirs /\ Remove(call, s, ClientOf(s), "ok", {})
       /\ UNCHANGED <<files, outside, history>>

\* the scheduler's maintain, on every round of its loop
Sweep ==
    /\ Free
    /\ op' = [NoOp EXCEPT !.call = [kind |-> "sweep"], !.step = "sweep",
                          !.todo = dirs]
    /\ reply' = NoReply
    /\ UNCHANGED <<files, outside, fate, history>>

\* a fault: a session without a readable record is passed over
FaultySweepSession ==
    /\ op.step = "sweep"
    /\ \E s \in op.todo :
           \/ /\ Loads(s) \/ ~HasRecord(s)
              /\ op' = [op EXCEPT !.todo = @ \ {s}]
              /\ UNCHANGED <<reply, fate>>
           \/ /\ HasRecord(s) /\ ~Loads(s)
              /\ Remove(op.call, s, ClientOf(s), "sweep", op.todo \ {s})
    /\ UNCHANGED <<files, outside, history>>

\* names are random, so the sorted order is any order
SweepSession ==
    /\ op.step = "sweep"
    /\ \E s \in op.todo :
           \/ /\ Loads(s)
              /\ op' = [op EXCEPT !.todo = @ \ {s}]
              /\ UNCHANGED <<reply, fate>>
           \/ /\ ~Loads(s)
              /\ Remove(op.call, s, ClientOf(s), "sweep", op.todo \ {s})
    /\ UNCHANGED <<files, outside, history>>

Stale(c) == pointer[c] # NoSession /\ pointer[c] \notin dirs

RemoveStaleRequest ==
    /\ op.step = "sweep" /\ op.todo = {}
    /\ \E c \in Clients :
           /\ Stale(c)
           /\ pointer' = [pointer EXCEPT ![c] = NoSession]
    /\ UNCHANGED <<dirs, record, part, archive, outside, op, reply, fate, history>>

EndSweep ==
    /\ op.step = "sweep" /\ op.todo = {}
    /\ \A c \in Clients : ~Stale(c)
    /\ Answer(op.call, "ok", NoSession)
    /\ UNCHANGED <<files, outside, fate, history>>

\* rmtree visits a directory in no particular order
RemoveFile ==
    LET s == op.session
    IN /\ op.step = "removing"
       /\ \/ /\ HasRecord(s)
             /\ record' = [record EXCEPT ![s] = NoRecord]
             /\ UNCHANGED <<part, archive>>
          \/ /\ archive[s] # <<>>
             /\ archive' = [archive EXCEPT ![s] = <<>>]
             /\ UNCHANGED <<record, part>>
          \/ /\ \E i \in Chunks :
                    /\ part[s][i] # Absent
                    /\ part' = [part EXCEPT ![s][i] = Absent]
             /\ UNCHANGED <<record, archive>>
       /\ UNCHANGED <<dirs, pointer, outside, op, reply, fate, history>>

Empty(s) == ~HasRecord(s) /\ archive[s] = <<>> /\ \A i \in Chunks : part[s][i] = Absent

RemoveDirectory ==
    /\ op.step = "removing" /\ Empty(op.session)
    /\ dirs' = dirs \ {op.session}
    /\ Goto("forget")
    /\ UNCHANGED <<record, part, archive, pointer, outside, reply, fate, history>>

\* a fault: the request file goes whatever session it points at
FaultyRemoveRequest ==
    /\ op.step = "forget"
    /\ pointer' = [c \in Clients |-> IF c = op.client THEN NoSession ELSE pointer[c]]
    /\ \/ op.then = "create" /\ Open(op.call)
       \/ op.then = "sweep" /\ Goto("sweep") /\ UNCHANGED <<reply, fate>>
       \/ op.then \in Codes /\ Answer(op.call, op.then, op.session) /\ UNCHANGED fate
    /\ UNCHANGED <<dirs, record, part, archive, outside, history>>

\* the request file goes only if it still points here; then the caller goes on
RemoveRequest ==
    /\ op.step = "forget"
    /\ pointer' = [c \in Clients |->
                     IF c = op.client /\ pointer[c] = op.session
                     THEN NoSession ELSE pointer[c]]
    /\ \/ /\ op.then = "create"
          /\ Open(op.call)
       \/ /\ op.then = "sweep"
          /\ Goto("sweep")
          /\ UNCHANGED <<reply, fate>>
       \/ /\ op.then \in Codes
          /\ Answer(op.call, op.then, op.session)
          /\ UNCHANGED fate
    /\ UNCHANGED <<dirs, record, part, archive, outside, history>>

-----------------------------------------------------------------------------
(* The fetch worker, another process: upload_source.resolve locks the store *)
(* twice, and import_file then reads the archive without the lock           *)

NoReader == [step |-> "idle", session |-> NoSession, digest |-> NoDigest,
             data |-> <<>>]

WorkerLoad(step, s, next) ==
    /\ Free
    /\ reader.step = step
    /\ \/ /\ Refuse([kind |-> "resolve", session |-> s], s)
          /\ reader' = NoReader
       \/ /\ Loads(s) /\ ~record[s].complete
          /\ reader' = NoReader
          /\ Answer([kind |-> "resolve", session |-> s], "upload_incomplete", s)
          /\ UNCHANGED fate
       \/ /\ Loads(s) /\ record[s].complete
          /\ reader' = next
          /\ reply' = NoReply
          /\ UNCHANGED <<op, fate>>
    /\ UNCHANGED <<files, expired, interruptions, history>>

WorkerRead(s) ==
    WorkerLoad("idle", s, [step |-> "digest", session |-> s,
                           digest |-> IF HasRecord(s) THEN record[s].digest
                                                      ELSE NoDigest,
                           data |-> <<>>])

WorkerPath == WorkerLoad("digest", reader.session, [reader EXCEPT !.step = "path"])

\* the file opened stays readable after it was unlinked
WorkerOpen ==
    /\ reader.step = "path"
    /\ reader' = IF archive[reader.session] = <<>> THEN NoReader
                 ELSE [reader EXCEPT !.step = "import",
                                      !.data = archive[reader.session]]
    /\ UNCHANGED <<files, expired, op, reply, interruptions, fate, history>>

WorkerEnd ==
    /\ reader.step # "idle"
    /\ reader' = NoReader
    /\ UNCHANGED <<files, expired, op, reply, interruptions, fate, history>>

-----------------------------------------------------------------------------
(* Time, crashes and failing storage *)

\* the clock is read when a session is loaded or swept, and not in between
Expire(s) ==
    /\ HasRecord(s) /\ s \notin expired
    /\ expired' = expired \cup {s}
    /\ UNCHANGED <<files, op, reply, reader, interruptions, fate, history>>

\* the process dies, or a file operation fails: either way the lock is released
Interrupt ==
    /\ ~Free
    /\ interruptions < MaxInterruptions
    /\ interruptions' = interruptions + 1
    /\ Answer(op.call, "upload_storage", op.session)
    /\ UNCHANGED <<files, expired, reader, fate, history>>

-----------------------------------------------------------------------------
Init ==
    /\ dirs = {}
    /\ record = [s \in Sessions |-> NoRecord]
    /\ part = [s \in Sessions |-> [i \in Chunks |-> Absent]]
    /\ archive = [s \in Sessions |-> <<>>]
    /\ pointer = [c \in Clients |-> NoSession]
    /\ expired = {}
    /\ op = NoOp
    /\ reply = NoReply
    /\ reader = NoReader
    /\ interruptions = 0
    /\ fate = [s \in Sessions |-> "unborn"]
    /\ answered = [c \in Clients |-> NoSession]
    /\ acked = [s \in Sessions |-> [i \in Chunks |-> Absent]]

\* any client may send any request; an identifier is known once it was given out
Request ==
    \/ \E q \in Requests : Create(q)
    \/ \E s \in Sessions :
           /\ fate[s] # "unborn"
           /\ \/ \E i \in Chunks, c \in Contents : Receive(s, i, c)
              \/ Read(s) \/ Complete(s) \/ Discard(s) \/ WorkerRead(s)

CreateStep == MakeDirectory \/ SaveNewRecord \/ WriteRequest
ReceiveStep == CreatePart \/ WritePart \/ SaveReceived
AssembleStep ==
    DropParts \/ SavePresent \/ StartArchive \/ CopyPart \/ UnlinkPart
        \/ CheckArchive \/ SaveComplete \/ RemoveChunks
RemoveStep == RemoveFile \/ RemoveDirectory \/ RemoveRequest
SweepStep == SweepSession \/ RemoveStaleRequest \/ EndSweep

\* what goes on by itself once the lock is held
Step == CreateStep \/ ReceiveStep \/ AssembleStep \/ RemoveStep \/ SweepStep
Worker == WorkerPath \/ WorkerOpen \/ WorkerEnd
Disturbance == Interrupt \/ \E s \in Sessions : Expire(s)

Next == Request \/ Sweep \/ Step \/ Worker \/ Disturbance

Spec == Init /\ [][Next]_vars

\* time passes, operations go on, and the waiting sweep gets the lock in its turn,
\* for the scheduler asks for it on every round
FairSpec == /\ Spec
            /\ WF_vars(Step) /\ SF_vars(Sweep)
            /\ WF_vars(\E s \in Sessions : Expire(s))

=============================================================================
