------------------------------ MODULE UploadFlow ------------------------------
(***************************************************************************)
(* The browser's side of an upload (user_interface/src/contracts/          *)
(* dataset_upload_flow.ts), composed with the upload store: one archive    *)
(* file is sent part by part, over attempts that a lost answer, a reload   *)
(* or a cancellation ends, resuming the session the browser remembers.     *)
(*                                                                         *)
(* A message sent stays on the wire until the backend takes it up, also    *)
(* when the browser has stopped waiting for its answer.  An answer reaches *)
(* the browser with the step that makes it; that it takes time shows in    *)
(* the time the browser's next message spends on the wire.                 *)
(***************************************************************************)
EXTENDS UploadSessions

CONSTANTS
    FileContent,   \* what each part of the archive file holds
    Arrivals,      \* what it may hold when it arrives: FileContent, or damaged
    CanDigest,     \* the browser has crypto.subtle and checks the part's digest
    MaxAttempts    \* bound: calls of upload_dataset_archive

VARIABLES
    memory,    \* sessionStorage: the one upload that may be resumed
    attempt,   \* the current call of upload_dataset_archive
    flow,      \* what it waits for
    wire,      \* requests the backend has not taken up
    caller,    \* the attempt whose request holds the lock; 0 for the sweep
    checked    \* history: the parts whose digest the current attempt compared, and which
               \* no interrupted assembly may have consumed since

browser == <<memory, attempt, flow, checked>>
flowVars == <<vars, browser, wire, caller>>

ASSUME FlowAssumption ==
    /\ FileContent \in Arrivals /\ Arrivals \subseteq Contents
    /\ CanDigest \in BOOLEAN /\ MaxAttempts \in Nat \ {0}
    /\ \A n \in 1..MaxAttempts : \E q \in Requests : q.client = n

FileParts == Chunks
Resting == [step |-> "idle", session |-> NoSession, received |-> {}, call |-> NoCall,
            aborted |-> FALSE]
Busy == flow.step \notin {"idle", "done"}

\* statuses 404; 503 and 507; and the other refusals, which end the session
Gone == {"upload_not_found", "upload_expired"}
Transient == {"upload_storage", "upload_storage_full"}

\* a fault: every refusal ends the session, a full store too
FaultyEndsSession(code) == code \notin {"ok"} \cup Gone

\* ends_session
EndsSession(code) == code \notin {"ok"} \cup Gone \cup Transient

-----------------------------------------------------------------------------
(* Sending and resting.  The wire keeps base and, when asked, the new call *)

Ask(base, n, step, call, f) ==
    /\ wire' = base \cup {[attempt |-> n, call |-> call]}
    /\ flow' = [f EXCEPT !.step = step, !.call = call]

Rest(base) ==
    /\ wire' = base
    /\ flow' = Resting

Forget == memory' = NoSession

\* create_upload_session takes a new random client identifier each time, and no
\* checksum of the whole file
NewSession(base, n) ==
    \E q \in Requests :
        /\ q.client = n
        /\ Ask(base, n, "creating", [kind |-> "create", request |-> q], Resting)

\* abandon_upload: ask to discard, forget when that is over
Abandon(base, s) ==
    Ask(base, attempt, "abandoning", [kind |-> "discard", session |-> s], flow)

\* the loop over the parts, and the completion after it
NextPart(base, f) ==
    LET missing == FileParts \ f.received
    IN \/ /\ missing = {}
          /\ Ask(base, attempt, "completing",
                 [kind |-> "complete", session |-> f.session], f)
       \/ /\ missing # {}
          /\ \E i \in missing, c \in Arrivals :
                 /\ \A j \in missing : i <= j
                 /\ Ask(base, attempt, "sending",
                        [kind |-> "receive", session |-> f.session, index |-> i,
                         content |-> c], f)

\* resume_or_create returned: a cancellation that came meanwhile counts now
Enter(base, s, received) ==
    IF flow.aborted THEN Abandon(base, s)
    ELSE NextPart(base, [flow EXCEPT !.session = s, !.received = received])

-----------------------------------------------------------------------------
(* What the flow does with the answer it waited for *)

\* catch: a session that is gone is forgotten, one that cannot finish abandoned
Refused(base, code) ==
    \/ /\ code \in Gone
       /\ Rest(base) /\ Forget
    \/ /\ EndsSession(code)
       /\ Abandon(base, flow.session) /\ UNCHANGED memory
    \/ /\ code \in Transient
       /\ Rest(base) /\ UNCHANGED memory

Reading(base, code, s) ==
    LET open == code = "ok" /\ ~record'[s].complete
        over == code \in Gone \/ (code = "ok" /\ record'[s].complete)
    IN \/ /\ open
          /\ Enter(base, s, record'[s].received)
          /\ UNCHANGED memory
       \/ /\ over
          /\ Forget
          /\ IF flow.aborted THEN Rest(base) ELSE NewSession(base, attempt)
       \/ /\ ~open /\ ~over
          /\ Rest(base) /\ UNCHANGED memory

Creating(base, code, s) ==
    \/ /\ code = "ok"
       /\ memory' = s
       /\ Enter(base, s, {})
    \/ /\ code # "ok"
       /\ Rest(base) /\ UNCHANGED memory

\* a fault: the digest in the answer is not compared
FaultySending(base, code) ==
    \/ /\ code = "ok"
       /\ NextPart(base, [flow EXCEPT !.received = @ \cup {flow.call.index}])
       /\ UNCHANGED memory
    \/ code # "ok" /\ Refused(base, code)

\* send_part compares the digest of what the backend received
Sending(base, code) ==
    LET wrong == CanDigest /\ flow.call.content # FileContent
    IN \/ /\ code = "ok" /\ ~wrong
          /\ NextPart(base, [flow EXCEPT !.received = @ \cup {flow.call.index}])
          /\ UNCHANGED memory
       \/ /\ code = "ok" /\ wrong
          /\ Abandon(base, flow.session) /\ UNCHANGED memory
       \/ /\ code # "ok"
          /\ Refused(base, code)

Completing(base, code) ==
    \/ /\ flow.aborted
       /\ Abandon(base, flow.session) /\ UNCHANGED memory
    \/ /\ ~flow.aborted /\ code = "ok"
       /\ wire' = base
       /\ flow' = [flow EXCEPT !.step = "done", !.call = NoCall]
       /\ Forget
    \/ /\ ~flow.aborted /\ code # "ok"
       /\ Refused(base, code)

React(base, code, s) ==
    \/ flow.step = "reading" /\ Reading(base, code, s)
    \/ flow.step = "creating" /\ Creating(base, code, s)
    \/ flow.step = "sending" /\ Sending(base, code)
    \/ flow.step = "completing" /\ Completing(base, code)
    \/ flow.step = "abandoning" /\ Rest(base) /\ Forget

Compared(held) == IF flow.step = "sending" /\ flow'.step \in {"sending", "completing"}
                  THEN held \cup {flow.call.index} ELSE held

\* a step of the store for attempt n; its answer goes to whoever still waits
Relay(base, n, held) ==
    /\ UNCHANGED attempt
    /\ IF Free' /\ n = attempt /\ Busy /\ reply'.call = flow.call
       THEN React(base, reply'.code, reply'.session) /\ checked' = Compared(held)
       ELSE wire' = base /\ checked' = held /\ UNCHANGED <<memory, flow>>

-----------------------------------------------------------------------------
(* The user and the page *)

\* the user chooses the file: resume the session remembered for it, or create one
Choose ==
    /\ ~Busy /\ attempt < MaxAttempts
    /\ attempt' = attempt + 1
    /\ \/ /\ memory # NoSession
          /\ Ask(wire, attempt + 1, "reading",
                 [kind |-> "read", session |-> memory], Resting)
       \/ /\ memory = NoSession
          /\ NewSession(wire, attempt + 1)
    /\ checked' = {}
    /\ UNCHANGED <<vars, memory, caller>>

\* the signal ends a part at once; elsewhere it is looked at after the answer
Cancel ==
    /\ flow.step \in {"reading", "creating", "sending", "completing"}
    /\ ~flow.aborted
    /\ IF flow.step = "sending"
       THEN Abandon(wire, flow.session)
       ELSE wire' = wire /\ flow' = [flow EXCEPT !.aborted = TRUE]
    /\ UNCHANGED <<vars, memory, attempt, caller, checked>>

\* no answer in time, or no connection: not a refusal, so the session is kept
LoseAnswer ==
    /\ Busy
    /\ \/ /\ flow.step = "abandoning"
          /\ Rest(wire) /\ Forget
       \/ /\ flow.step = "completing" /\ flow.aborted
          /\ Abandon(wire, flow.session) /\ UNCHANGED memory
       \/ /\ flow.step # "abandoning" /\ ~(flow.step = "completing" /\ flow.aborted)
          /\ Rest(wire) /\ UNCHANGED memory
    /\ UNCHANGED <<vars, attempt, caller, checked>>

\* a reload keeps sessionStorage, closing the tab does not
LeavePage ==
    /\ Busy
    /\ Rest(wire)
    /\ memory' \in {memory, NoSession}
    /\ UNCHANGED <<vars, attempt, caller, checked>>

-----------------------------------------------------------------------------
(* The backend *)

Handle(call) ==
    \/ call.kind = "create" /\ Create(call.request)
    \/ call.kind = "read" /\ Read(call.session)
    \/ call.kind = "receive" /\ Receive(call.session, call.index, call.content)
    \/ call.kind = "complete" /\ Complete(call.session)
    \/ call.kind = "discard" /\ Discard(call.session)

Serve ==
    \E m \in wire :
        /\ Handle(m.call)
        /\ caller' = m.attempt
        /\ Relay(wire \ {m}, m.attempt, checked)

\* the session's parts are being moved into its archive
Assembles(s) == op.session = s /\ op.step \in {"copy", "unlink", "check", "complete"}

\* if that is interrupted, its parts have to be sent again
Continue ==
    /\ UNCHANGED caller
    /\ \/ Step /\ Relay(wire, caller, checked)
       \/ Interrupt /\ Relay(wire, caller, IF Assembles(flow.session) THEN {} ELSE checked)

Maintain ==
    /\ Sweep
    /\ caller' = 0
    /\ UNCHANGED <<browser, wire>>

Pass ==
    /\ \E s \in Sessions : Expire(s)
    /\ UNCHANGED <<browser, wire, caller>>

FlowInit ==
    /\ Init
    /\ memory = NoSession /\ attempt = 0 /\ flow = Resting
    /\ wire = {} /\ caller = 0 /\ checked = {}

FlowNext ==
    \/ Choose \/ Cancel \/ LoseAnswer \/ LeavePage
    \/ Serve \/ Continue \/ Maintain \/ Pass

FlowSpec == FlowInit /\ [][FlowNext]_flowVars

-----------------------------------------------------------------------------
(* Properties *)

\* A part that the flow does not send, because it was answered or because the
\* session listed it, is in the backend's files: as a chunk, or in the archive of
\* an assembly that was interrupted.
SkippedPartsStored ==
    \A i \in flow.received :
        Busy /\ fate[flow.session] = "live"
            => Intact(flow.session, i) \/ i \in DOMAIN archive[flow.session]

\* The archive of an upload that the flow reports as done holds the file at every
\* part whose digest this attempt compared, whatever older attempts still had on the
\* wire and however often the backend was interrupted; but for the parts that were
\* consumed since by an assembly that was interrupted, which a late message may replace.
CheckedPartsAreTheFile ==
    flow.step = "done" /\ CanDigest /\ fate[flow.session] = "live"
        => \A i \in checked : archive[flow.session][i] = FileContent

\* "Send one part and make sure the backend stored exactly the bytes that left the
\* browser" (dataset_upload_flow.ts:170): a browser that can compute digests never
\* reports an upload as done whose archive is not the file.  It does: a part whose
\* answer was lost is skipped by the next attempt, which never compares it.
CompletedIsTheFile ==
    flow.step = "done" /\ CanDigest /\ fate[flow.session] = "live"
        => archive[flow.session] = [i \in FileParts |-> FileContent]

\* what sending the missing parts again would still make complete
Finishable(s) ==
    /\ Loads(s) /\ ~record[s].complete
    /\ \A i \in FileParts : Intact(s, i) => part[s][i] = FileContent

\* A refusal ends the session only if it "can never finish"
\* (dataset_upload_flow.ts:127), or if the part refused was damaged on its way; one
\* refusal is excepted, that parts are missing, which an interrupted assembly causes
\* and which sending them again would cure.
GivenUpCannotFinish ==
    [][flow.step \in {"sending", "completing"} /\ ~flow.aborted
           /\ flow'.step = "abandoning" /\ flow' # flow /\ Free'
           /\ reply'.call = flow.call /\ reply' # reply
           /\ reply'.code \notin {"ok", "upload_incomplete"}
           => \/ ~Finishable(flow.session)'
              \/ flow.call.kind = "receive" /\ flow.call.content # FileContent
      ]_flowVars

=============================================================================
