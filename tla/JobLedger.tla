----------------------------- MODULE JobLedger -----------------------------
(***************************************************************************)
(* What the local queue promises about its job table, whatever threads,    *)
(* workers, requests and restarts bring it about: one application at a     *)
(* time writes the table; it closes what an earlier one left unfinished    *)
(* before it accepts anything; it runs one job at a time; a job ends once. *)
(* The only exception is a runner that outlives a shutdown: it may still   *)
(* record how the job it was running really ended.                         *)
(***************************************************************************)
CONSTANT JobIds

VARIABLES status,  \* the status of each row of the table
          phase    \* whether, and how far, an application owns the table

ledger == <<status, phase>>

Ended == {"completed", "cancelled", "failed", "stopped"}
LedgerStatuses == {"absent", "queued", "running", "paused", "interrupted"} \cup Ended
Phases == {"down", "recovering", "open", "draining"}

LedgerInit == /\ status = [j \in JobIds |-> "absent"]
              /\ phase = "down"

Become(j, from, to) == /\ status[j] \in from
                       /\ \E s \in to : status' = [status EXCEPT ![j] = s]
                       /\ UNCHANGED phase

NoneIs(states) == \A j \in JobIds : status[j] \notin states

Own == /\ phase = "down"
       /\ phase' = "recovering"
       /\ UNCHANGED status

(* Jobs an application finds unfinished, or leaves unfinished.             *)
CloseUnfinished(j) == /\ phase \in {"recovering", "draining"}
                      /\ Become(j, {"queued", "running"}, {"interrupted"})

Open == /\ phase = "recovering"
        /\ NoneIs({"queued", "running"})
        /\ phase' = "open"
        /\ UNCHANGED status

AcceptJob(j) == phase = "open" /\ Become(j, {"absent"}, {"queued"})

Run(j) == /\ phase \in {"open", "draining"}
          /\ NoneIs({"running"})
          /\ Become(j, {"queued"}, {"running"})

End(j) == /\ phase \in {"open", "draining"}
          /\ Become(j, {"running"}, Ended \cup {"paused", "interrupted"})

Resume(j) == phase = "open" /\ Become(j, {"paused"}, {"queued"})

Cancel(j) == phase = "open" /\ Become(j, {"queued", "paused"}, {"cancelled"})

LateResult(j) == phase = "draining" /\ Become(j, {"interrupted"}, Ended \cup {"paused"})

Drain == /\ phase \in {"recovering", "open"}
         /\ phase' = "draining"
         /\ UNCHANGED status

Leave == /\ phase # "down"
         /\ phase' = "down"
         /\ UNCHANGED status

LedgerNext ==
    \/ \E j \in JobIds :
          \/ CloseUnfinished(j) \/ AcceptJob(j) \/ Run(j) \/ End(j)
          \/ Resume(j) \/ Cancel(j) \/ LateResult(j)
    \/ Own \/ Open \/ Drain \/ Leave

LedgerSpec == LedgerInit /\ [][LedgerNext]_ledger
=============================================================================
