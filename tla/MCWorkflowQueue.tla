-------------------------- MODULE MCWorkflowQueue --------------------------
(***************************************************************************)
(* Instances of WorkflowQueue for TLC: what clients may send, by the kind  *)
(* of jobs a run looks at.                                                 *)
(***************************************************************************)
EXTENDS WorkflowQueueProperties, TLC

CONSTANTS c1, c2, c3, c4, s1, s2

Request(client, what, about) == [client |-> client, what |-> what, about |-> about]

FourClients == {c1, c2, c3, c4}

(* Downloads: two clients start one each, two steer the first of them.     *)
FetchSubmissions == {Request(c1, "fetch_dataset", s1), Request(c2, "fetch_dataset", s2)}
FetchCommands == {Request(c3, "pause", 1), Request(c3, "cancel", 1),
                  Request(c4, "resume", 1), Request(c4, "cancel", 1)}

(* The jobs that need the proof lock, in one queue: inference requests     *)
(* beyond what it admits, identifiers sent with two payloads, and a     *)
(* training run and an evaluation of one experiment.                       *)
AllSubmissions == {Request(c1, "encode", s1), Request(c2, "decode", s1), Request(c2, "train", s1),
                   Request(c3, "train", s1), Request(c3, "evaluate", s1)}
AllCommands == {Request(c4, "stop", 1), Request(c4, "cancel", 1)}

(* A download, which needs no proof lock, before or behind a training run. *)
MixedSubmissions == {Request(c1, "train", s1), Request(c2, "fetch_dataset", s2)}
MixedCommands == {Request(c3, "stop", 1), Request(c3, "pause", 1),
                  Request(c4, "pause", 2), Request(c4, "cancel", 2)}
=============================================================================
