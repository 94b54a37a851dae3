---------------------- MODULE UploadSessionProperties ----------------------
(* What the upload store promises. *)
EXTENDS UploadSessions

-----------------------------------------------------------------------------
(* Types *)

StepNames == {"idle", "directory", "record", "request", "create part",
              "write part", "received", "drop parts", "present", "archive", "copy",
              "unlink", "check", "complete", "remove chunks", "removing", "forget",
              "sweep"}

Operation == [call : Calls \cup {NoCall}, step : StepNames,
              session : Sessions \cup {NoSession}, client : Clients \cup {NoSession},
              then : Codes \cup {"create", "sweep"}, todo : SUBSET Sessions]
Reply == [call : Calls \cup {NoCall}, code : Codes, session : Sessions \cup {NoSession}]
Reader == [step : {"idle", "digest", "path", "import"},
           session : Sessions \cup {NoSession},
           digest : Archives \cup {NoDigest}, data : Archives]

\* Every variable has its type: session.json parses, files hold parts or
\* archives of the known sizes, and the lock holder is at one of its steps.
TypeOK ==
    /\ dirs \subseteq Sessions
    /\ record \in [Sessions -> RecordType \cup {NoRecord}]
    /\ part \in [Sessions -> [Chunks -> Parts]]
    /\ archive \in [Sessions -> Archives]
    /\ pointer \in [Clients -> Sessions \cup {NoSession}]
    /\ expired \subseteq Sessions
    /\ op \in Operation /\ reply \in Reply /\ reader \in Reader
    /\ interruptions \in 0..MaxInterruptions
    /\ fate \in [Sessions -> {"unborn", "live", "doomed"}]
    /\ answered \in [Clients -> Sessions \cup {NoSession}]
    /\ acked \in [Sessions -> [Chunks -> Contents \cup {Absent}]]

-----------------------------------------------------------------------------
(* Safety *)

\* A session that says it is complete has the archive it was verified as, of all
\* its parts, over crashes at any step and until its removal begins.  complete()
\* writes the record only after the archive, and nothing else opens archive.bin.
CompleteIsWhole ==
    \A s \in Sessions :
        fate[s] = "live" /\ HasRecord(s) /\ record[s].complete
            => /\ archive[s] = record[s].digest
               /\ DOMAIN archive[s] = ChunksOf(s)
               /\ record[s].request.expected \in {NoDigest, archive[s]}

\* The bytes of an acknowledged part stay on disk while its session lives: in the
\* chunk file, or in the archive being assembled, also when the assembly was
\* interrupted and parts are sent again.
AcknowledgedPartKept ==
    \A s \in Sessions, i \in Chunks :
        fate[s] = "live" /\ acked[s][i] # Absent
            => Intact(s, i) \/ i \in DOMAIN archive[s]

\* Chunk files and archives together never exceed the cap, not even half way
\* through a copy, though only whole operations are checked against it.
UsedWithinCapacity == Used <= Capacity

\* The session last answered to a client identifier is found by every repetition
\* of the request while it lives: its record and its request file are in place,
\* whatever became of sessions that an interrupted create left behind.
ReplayFindsSession ==
    \A c \in Clients :
        answered[c] # NoSession /\ fate[answered[c]] = "live"
            => HasRecord(answered[c]) /\ pointer[c] = answered[c]

\* The archive a fetch worker opens by the path it was given has the digest it
\* was told before, although it holds no lock by then and the session may have
\* been discarded, expired or created again meanwhile.
WorkerReadsDigest == reader.step = "import" => reader.data = reader.digest

-----------------------------------------------------------------------------
(* What makes the invariants inductive *)

\* what lies on disk, and what was told to clients, belong to sessions that exist
FilesFit ==
    /\ \A s \in Sessions :
           HasRecord(s) =>
               /\ s \in dirs /\ fate[s] # "unborn"
               /\ record[s].complete => archive[s] \in {<<>>, record[s].digest}
    /\ \A s \in Sessions, i \in Chunks :
           acked[s][i] # Absent /\ fate[s] # "doomed"
               => HasRecord(s) /\ i \in ChunksOf(s)
    /\ \A c \in Clients :
           answered[c] # NoSession => fate[answered[c]] # "unborn"

\* from here on, of the parts of a session, an assembly reads only whole ones
IntactFrom(s, n) == \A i \in ChunksOf(s) : n <= i => Intact(s, i)

\* the holder of the lock finds what it looked at when it took the lock
CreateFits ==
    op.step \in {"directory", "record", "request"} =>
        LET s == op.session
        IN /\ s \in Sessions /\ fate[s] # "unborn" /\ op.call \in Creates
           /\ op.step # "request" <=> ~HasRecord(s)
           /\ op.step # "directory" => s \in dirs

ReceiveFits ==
    op.step \in {"create part", "write part", "received"} =>
        LET s == op.session
            i == op.call.index
        IN /\ s \in Sessions /\ op.call \in Receives
           /\ HasRecord(s) /\ ~record[s].complete /\ i \in ChunksOf(s)
           /\ op.step = "create part" => ~Intact(s, i) /\ Fits(1)
           /\ op.step = "write part" => part[s][i] = Torn
           /\ op.step = "received" => part[s][i] = op.call.content

AssembleSteps == {"drop parts", "present", "archive", "copy", "unlink", "check",
                  "complete", "remove chunks"}

AssembleFits ==
    op.step \in AssembleSteps =>
        LET s == op.session
            copied == Len(archive[s])
            chunks == record[s].request.chunks
        IN /\ s \in Sessions /\ HasRecord(s)
           /\ op.step = "remove chunks" <=> record[s].complete
           /\ op.step = "archive" => IntactFrom(s, 1) /\ Fits(1)
           /\ op.step = "copy" => IntactFrom(s, copied + 1) /\ Fits(1)
                                    /\ copied < chunks
           /\ op.step = "unlink" => IntactFrom(s, copied) /\ copied \in 1..chunks
           /\ op.step \in {"check", "complete"} => copied = chunks
           /\ op.step = "complete"
                 => record[s].request.expected \in {NoDigest, archive[s]}

RemoveFits ==
    op.step \in {"removing", "forget"} =>
        /\ op.session \in Sessions /\ fate[op.session] = "doomed"
        /\ op.then = "create" => op.call \in Creates

\* the worker's session was complete when it asked, and is no other since
ReaderFits ==
    reader.step \in {"digest", "path"} =>
        LET s == reader.session
        IN /\ s \in Sessions /\ fate[s] # "unborn"
           /\ op.step \in {"directory", "record"} => op.session # s
           /\ archive[s] \in {<<>>, reader.digest}
           /\ HasRecord(s) => record[s].complete /\ record[s].digest = reader.digest

\* The inductive invariant: the promises above, and what every operation may rely on
\* between two of its file changes.
IndInv ==
    /\ TypeOK /\ CompleteIsWhole /\ AcknowledgedPartKept /\ UsedWithinCapacity
    /\ ReplayFindsSession /\ WorkerReadsDigest
    /\ FilesFit /\ CreateFits /\ ReceiveFits /\ AssembleFits /\ RemoveFits
    /\ ReaderFits

\* a session that was answered to an identifier is found by it, or it is gone
LastFound ==
    \A c \in Clients :
        answered[c] # NoSession =>
            IF HasRecord(answered[c]) THEN pointer[c] = answered[c]
                                      ELSE fate[answered[c]] = "doomed"

\* while create goes on for an identifier, its last session is gone, or the one that
\* create found over and removes first
LastGone ==
    LET last == answered[op.call.request.client]
    IN /\ op.step \in {"directory", "record", "request"} =>
              /\ fate[op.session] = "live"
              /\ last # NoSession => last # op.session /\ ~HasRecord(last)
              /\ op.step = "request" => record[op.session].request = op.call.request
       /\ op.step \in {"removing", "forget"} /\ op.then = "create" =>
              last \in {NoSession, op.session} \/ ~HasRecord(last)

\* an operation that ends well is answered as the call it is
CallsFit ==
    /\ op.step \in AssembleSteps
           => op.call = [kind |-> "complete", session |-> op.session]
    /\ op.step = "sweep" => op.call.kind = "sweep"
    /\ op.step \in {"removing", "forget"} =>
           /\ op.then = "ok" => op.call.kind = "discard"
           /\ op.then = "sweep" => op.call.kind = "sweep"

\* what the file changes of a completion and of a removal have established
ArchiveStarted == op.step = "complete" => archive[op.session][1] \in ArchiveStarts
RecordGone == op.step = "forget" => ~HasRecord(op.session)

\* What the answers to clients rest on, beyond the inductive invariant.
AnswersFit == LastFound /\ LastGone /\ CallsFit /\ ArchiveStarted /\ RecordGone

-----------------------------------------------------------------------------
(* Steps *)

\* Once a session is complete its record and its archive change by removal only:
\* no late part, repeated completion or recovery touches them again.
CompleteIsFinal ==
    [][\A s \in Sessions :
           HasRecord(s) /\ record[s].complete
               => /\ record'[s] \in {record[s], NoRecord}
                  /\ archive'[s] \in {archive[s], <<>>}
                  /\ (record'[s] # record[s] \/ archive'[s] # archive[s])
                         => fate[s] = "doomed"]_vars

-----------------------------------------------------------------------------
(* The abstract specification *)

Completes == [kind : {"complete"}, session : Sessions]

\* a session without a record is not open yet, or gone once its removal began
StateOf == [s \in Sessions |-> IF HasRecord(s)
                               THEN IF record[s].complete THEN "complete" ELSE "open"
                               ELSE IF fate[s] = "doomed" THEN "gone" ELSE "none"]
RequestOf == [s \in Sessions |-> IF HasRecord(s) THEN record[s].request ELSE NoRecord]
ContentOf == [s \in Sessions |-> IF HasRecord(s) /\ record[s].complete
                                 THEN record[s].digest ELSE NoDigest]
AnswerOf == IF reply.code = "ok" /\ reply.call \in Creates \cup Completes
            THEN [call |-> reply.call, session |-> reply.session] ELSE NoCall

Uploads == INSTANCE AbstractUploads WITH
               NoRequest <- NoRecord, NoAnswer <- NoCall,
               state <- StateOf, request <- RequestOf, content <- ContentOf,
               known <- answered, answer <- AnswerOf,
               told <- reader.digest, imported <- reader.data

\* Whatever the lock's holder, crashes, expiry, sweeps and a worker without the lock
\* do to the files, outside they look like sessions that are opened, finished and
\* ended once: create answers only with a session of that very request, and moves an
\* identifier on only when nothing of its last session can be found any more; complete
\* answers only when the archive is recorded for good.
ImplementsUploads == Uploads!UploadsSpec

-----------------------------------------------------------------------------
(* Liveness, under FairSpec *)

\* Upload storage always drains: a session directory goes away in the end, also one
\* that an interrupted create, completion or removal left behind and that no client
\* knows of, and so does a request file whose session is gone; the sweep finds them.
StorageDrains ==
    /\ \A s \in Sessions : s \in dirs ~> s \notin dirs
    /\ \A c \in Clients : Stale(c) ~> ~Stale(c)

=============================================================================
