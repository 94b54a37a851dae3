--------------------------- MODULE MCDatasetStore ---------------------------
(* Instances of the download cache and raw folder for TLC. *)
EXTENDS DatasetStoreProperties

CONSTANTS w1, w2, job, shell, whole, capped, archive, plain, upload

Fetch(owner, identity, resume) ==
    [owner |-> owner, identity |-> identity, resume |-> resume]

\* a job, and the command line with another selection or without resuming
JobAndCommand == {Fetch(job, whole, TRUE), Fetch(shell, capped, TRUE),
                  Fetch(shell, whole, FALSE)}
SameSelection == {Fetch(job, whole, TRUE), Fetch(shell, whole, TRUE)}

\* a repository of two files, or one uploaded archive
TwoSources == {<<archive, plain>>, <<upload>>}

\* in chunks: with two, a download can stop in the middle
Lengths == [a \in Assets |-> IF a = upload THEN 1 ELSE 2]
=============================================================================
