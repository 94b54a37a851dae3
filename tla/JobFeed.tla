------------------------------- MODULE JobFeed -------------------------------
(***************************************************************************)
(* How a browser page learns what became of the jobs: the event table of   *)
(* the queue (workflow_store.py), the event stream (workflow_routes.py)    *)
(* and the merge of streamed events, polled lists and late answers         *)
(* (use_workspace.ts, job_merge.ts).  A snapshot of a job is known by the  *)
(* number of the event it was saved with.                                  *)
(***************************************************************************)
EXTENDS Integers, Sequences, FiniteSets, SequencesExt, FiniteSetsExt

CONSTANTS
    FeedJobs,
    Page,         \* LIMIT of events
    MaxEvents,    \* bound: events
    MaxAnswers,   \* bound: replies under way
    MaxReloads    \* bound: reloads of the page

VARIABLES
    log,      \* workflow_events: whose snapshot each event is, and whether it is active
    stream,   \* event_stream: open, its cursor, and what was sent but not received
    replies,  \* lists and jobs on their way to the page
    page      \* the page: the cursor it reconnects with, its jobs, and its reloads

feedVars == <<log, stream, replies, page>>

ASSUME FeedAssumption ==
    /\ {MaxEvents, MaxAnswers, MaxReloads} \subseteq Nat
    /\ Page \in Nat \ {0}

NoCursor == -1
Unseen == 0
NoJobs == [j \in FeedJobs |-> Unseen]
Closed0 == [open |-> FALSE, cursor |-> 0, sent |-> <<>>]

\* the row of a job: its latest snapshot
Current(j) == Max({Unseen} \cup {e \in 1..Len(log) : log[e].job = j})
JobRows == [j \in FeedJobs |-> Current(j)]
OneJob(j) == [NoJobs EXCEPT ![j] = Current(j)]

\* save: the row and its event in one transaction; an ended job stays ended
SaveJob(j, active) ==
    /\ Len(log) < MaxEvents
    /\ Current(j) # Unseen => log[Current(j)].active
    /\ log' = Append(log, [job |-> j, active |-> active])
    /\ UNCHANGED <<stream, replies, page>>

-----------------------------------------------------------------------------
(* The stream *)

\* a connection: after the given event, or from a snapshot under the supervisor's lock
OpenStream ==
    /\ ~stream.open
    /\ stream' = IF page.cursor = NoCursor
                 THEN [open |-> TRUE, cursor |-> Len(log),
                       sent |-> <<[id |-> Len(log), jobs |-> JobRows]>>]
                 ELSE [open |-> TRUE, cursor |-> page.cursor, sent |-> <<>>]
    /\ UNCHANGED <<log, replies, page>>

\* one page of events, each with the snapshot it was saved with
SendEvents ==
    /\ stream.open /\ stream.cursor < Len(log)
    /\ LET last == Min({Len(log), stream.cursor + Page})
           sent == [k \in 1..(last - stream.cursor) |->
                       LET e == stream.cursor + k IN
                       [id |-> e, jobs |-> [NoJobs EXCEPT ![log[e].job] = e]]]
       IN stream' = [stream EXCEPT !.cursor = last, !.sent = @ \o sent]
    /\ UNCHANGED <<log, replies, page>>

\* ten seconds are over, or the connection is lost with what it carried
StreamEnds ==
    /\ stream.open /\ stream' = Closed0
    /\ UNCHANGED <<log, replies, page>>

-----------------------------------------------------------------------------
(* The page *)

\* a fault: what arrives last is shown
FaultyMergeJobs(shown, incoming) ==
    [j \in FeedJobs |-> IF incoming[j] # Unseen THEN incoming[j] ELSE shown[j]]

\* merge_job_lists: jobs are added, and replaced by newer snapshots only
MergeJobs(shown, incoming) ==
    [j \in FeedJobs |-> IF incoming[j] > shown[j] THEN incoming[j] ELSE shown[j]]

\* accept_job, accept_reset; the browser keeps the identifier for its next connection
ReceiveEvent ==
    /\ stream.open /\ stream.sent # <<>>
    /\ LET event == Head(stream.sent) IN
       page' = [page EXCEPT !.cursor = event.id, !.jobs = MergeJobs(@, event.jobs)]
    /\ stream' = [stream EXCEPT !.sent = Tail(@)]
    /\ UNCHANGED <<log, replies>>

\* read_jobs: when the page opens, when the stream opens, and every five seconds without
\* one while a job is active
AnswerList ==
    /\ Cardinality(replies) < MaxAnswers
    /\ replies' = replies \cup {JobRows}
    /\ UNCHANGED <<log, stream, page>>

\* the answer to a submission, an action, or to the retry of one
AnswerJob(j) ==
    /\ Cardinality(replies) < MaxAnswers /\ Current(j) # Unseen
    /\ replies' = replies \cup {OneJob(j)}
    /\ UNCHANGED <<log, stream, page>>

\* answers come in any order, and any number of them are lost
AcceptAnswer ==
    /\ \E jobs \in replies : /\ replies' = replies \ {jobs}
                             /\ page' = [page EXCEPT !.jobs = MergeJobs(@, jobs)]
    /\ UNCHANGED <<log, stream>>

LoseAnswer ==
    /\ \E jobs \in replies : replies' = replies \ {jobs}
    /\ UNCHANGED <<log, stream, page>>

ReloadPage ==
    /\ page.reloads < MaxReloads
    /\ page' = [cursor |-> NoCursor, jobs |-> NoJobs, reloads |-> page.reloads + 1]
    /\ stream' = Closed0 /\ replies' = {}
    /\ UNCHANGED log

-----------------------------------------------------------------------------
FeedInit ==
    /\ log = <<>> /\ stream = Closed0 /\ replies = {}
    /\ page = [cursor |-> NoCursor, jobs |-> NoJobs, reloads |-> 0]

FeedNext ==
    \/ \E j \in FeedJobs : AnswerJob(j) \/ \E active \in BOOLEAN : SaveJob(j, active)
    \/ OpenStream \/ SendEvents \/ StreamEnds \/ ReceiveEvent
    \/ AnswerList \/ AcceptAnswer \/ LoseAnswer \/ ReloadPage

FeedSpec == FeedInit /\ [][FeedNext]_feedVars

-----------------------------------------------------------------------------
(* Properties *)

\* A page never shows a job in an older state than it showed before, and has missed
\* nothing: it shows every event up to the cursor it will reconnect with, and once the
\* stream has caught up it shows every job as it is, over reconnections, pages of events,
\* late and lost answers.
PageFollowsJobs ==
    /\ [][page'.reloads = page.reloads =>
              \A j \in FeedJobs : page'.jobs[j] >= page.jobs[j]]_feedVars
    /\ [](/\ \A e \in 1..Len(log) : e <= page.cursor => page.jobs[log[e].job] >= e
          /\ stream.open /\ stream.sent = <<>> /\ stream.cursor = Len(log) =>
                 page.jobs = JobRows)
=============================================================================
