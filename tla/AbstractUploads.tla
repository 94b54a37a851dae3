-------------------------- MODULE AbstractUploads --------------------------
(***************************************************************************)
(* What the upload store promises the application, its clients and its     *)
(* fetch worker, without locks, files, parts, clocks or crashes: a session *)
(* is opened once, finished once, and gone for good; its archive is one    *)
(* that the request allowed and never changes; a request identifier names  *)
(* one session until that is gone; and a worker imports what it was told.  *)
(***************************************************************************)
EXTENDS Naturals

CONSTANTS Sessions, Requests, Contents, ArchiveStarts, NoSession, NoRequest, NoDigest,
          NoAnswer

VARIABLES state,     \* none, open, complete or gone
          request,   \* the request a session was opened for
          content,   \* the archive of a complete session
          known,     \* the session last answered to a request identifier
          answer,    \* of a create or a complete that succeeded, until the next call
          told,      \* the archive whose digest the worker was told ...
          imported   \* ... and the one it reads, <<>> before

session == <<state, request, content>>
work == <<told, imported>>
uploads == <<session, known, answer, work>>

UploadsInit ==
    /\ state = [s \in Sessions |-> "none"]
    /\ request = [s \in Sessions |-> NoRequest]
    /\ content = [s \in Sessions |-> NoDigest]
    /\ known = [c \in {q.client : q \in Requests} |-> NoSession]
    /\ answer = NoAnswer
    /\ told = NoDigest /\ imported = <<>>

-----------------------------------------------------------------------------
(* Sessions *)

Become(s, now, q, a) ==
    /\ state' = [state EXCEPT ![s] = now]
    /\ request' = [request EXCEPT ![s] = q]
    /\ content' = [content EXCEPT ![s] = a]
    /\ UNCHANGED <<known, work>>

OpenSession(s, q) == state[s] = "none" /\ Become(s, "open", q, NoDigest)

\* the archives that a request allows
Allowed(q) ==
    {a \in [1..q.chunks -> Contents] :
         a[1] \in ArchiveStarts /\ q.expected \in {NoDigest, a}}

Finish(s) ==
    /\ state[s] = "open"
    /\ \E a \in Allowed(request[s]) : Become(s, "complete", request[s], a)

EndSession(s) == state[s] # "gone" /\ Become(s, "gone", NoRequest, NoDigest)

-----------------------------------------------------------------------------
(* Answers to clients *)

\* an identifier moves to another session only when its last one is gone
AnswerCreate(s, q) ==
    /\ state[s] \in {"open", "complete"} /\ request[s] = q
    /\ \/ known[q.client] \in {NoSession, s}
       \/ state[known[q.client]] = "gone"
    /\ known' = [known EXCEPT ![q.client] = s]
    /\ answer' = [call |-> [kind |-> "create", request |-> q], session |-> s]
    /\ UNCHANGED <<session, work>>

AnswerComplete(s) ==
    /\ state[s] = "complete"
    /\ answer' = [call |-> [kind |-> "complete", session |-> s], session |-> s]
    /\ UNCHANGED <<session, known, work>>

-----------------------------------------------------------------------------
(* The worker *)

Tell(s) ==
    /\ state[s] = "complete"
    /\ told' = content[s] /\ imported' = <<>>
    /\ UNCHANGED <<session, known>>

\* whatever became of the session since
Import == /\ told # NoDigest
          /\ imported' = told
          /\ UNCHANGED <<session, known, told>>

Stop == /\ told' = NoDigest /\ imported' = <<>>
        /\ UNCHANGED <<session, known>>

-----------------------------------------------------------------------------
Quiet == answer' \in {answer, NoAnswer}

Silent ==
    \/ UNCHANGED <<session, known, work>>
    \/ \E s \in Sessions :
           \/ Finish(s) \/ EndSession(s) \/ Tell(s)
           \/ \E q \in Requests : OpenSession(s, q)
    \/ Import \/ Stop

UploadsNext ==
    \/ Quiet /\ Silent
    \/ \E s \in Sessions :
           AnswerComplete(s) \/ \E q \in Requests : AnswerCreate(s, q)

UploadsSpec == UploadsInit /\ [][UploadsNext]_uploads
=============================================================================
