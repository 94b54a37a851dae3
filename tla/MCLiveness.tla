------------------------------ MODULE MCLiveness ------------------------------
(***************************************************************************)
(* What the job queue and the upload store must do in the end, in one run: *)
(* the first state chooses one of the two, and every later step is one of  *)
(* its own, so that the states are those of the one beside those of the    *)
(* other, never their product.                                             *)
(***************************************************************************)
EXTENDS MCWorkflowQueue, Sequences

CONSTANTS
    Sessions, Requests, Contents, ArchiveStarts, Capacity, MaxInterruptions,
    NoSession, NoUpload, NoCall, NoDigest, Absent, Torn, good

VARIABLES
    uploading,   \* whether the upload store runs, and not the queue
    dirs, record, part, archive, pointer, expired, op, reply, reader, interruptions,
    fate, answered, acked

storeVars == <<dirs, record, part, archive, pointer, expired, op, reply, reader,
               interruptions, fate, answered, acked>>

Store == INSTANCE UploadSessionProperties WITH NoRecord <- NoUpload

LivenessInit == uploading \in BOOLEAN /\ Init /\ Store!Init

LivenessNext ==
    \/ ~uploading /\ Next /\ UNCHANGED <<uploading, storeVars>>
    \/ uploading /\ Store!Next /\ UNCHANGED <<uploading, vars>>

\* the queue's own fairness, for where no boot has started it asks for nothing; and
\* that of FairSpec in UploadSessions, where the store runs
LivenessSpec ==
    /\ LivenessInit /\ [][LivenessNext]_<<uploading, vars, storeVars>>
    /\ Fairness
    /\ WF_storeVars(uploading /\ Store!Step) /\ SF_storeVars(uploading /\ Store!Sweep)
    /\ WF_storeVars(uploading /\ \E s \in Sessions : Store!Expire(s))

-----------------------------------------------------------------------------
\* What UploadSessionProperties states of upload_sessions.py: upload storage drains.
StorageDrains == Store!StorageDrains

\* an archive of one part, with its checksum
OneArchive == {[client |-> c1, chunks |-> 1, expected |-> <<good>>]}
=============================================================================
