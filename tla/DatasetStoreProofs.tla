------------------------- MODULE DatasetStoreProofs -------------------------
(***************************************************************************)
(* Proofs about the download cache and the raw source folder, for any      *)
(* workers, sources, sizes, faults and cleanups.                           *)
(*                                                                         *)
(* Part one needs nothing but the lock of the data root: stages can always *)
(* be recovered, and a fetch that ends well has its folder.  Its invariant *)
(* is StageInv.  Part two is about the bytes, while no two live workers    *)
(* hold one unfinished download (SharedPartials = FALSE; the code does not *)
(* ensure it, see the run SharedDownload): entries are what their          *)
(* manifests say and the folder what its marker says.  Its invariant is    *)
(* CacheInv, kept by every step together with StageInv.                    *)
(***************************************************************************)
EXTENDS DatasetStoreProperties, FiniteSetTheorems, WellFoundedInduction, TLAPS

-----------------------------------------------------------------------------
(* Part one: the data root *)

\* the steps of a worker that holds the lock of the data root
Staging == {"recover", "mark", "fill", "publish", "leave"}

\* stages and their markers
StageFields == {"markers", "dir", "files", "sums"}
StageRec(s) == [f \in StageFields |-> s[f]]
StageShaped == stage = [w \in Workers |-> StageRec(stage[w])]

StagesFit ==
    \A w \in Workers :
        /\ stage[w].dir \in BOOLEAN
        /\ stage[w].markers \in {{}, {"pending"}, {"pending", "owner"}, {"owner"}}
        /\ stage[w].markers = {} => stage[w] = NoStage
        /\ stage[w].dir => stage[w].markers = {"owner"}
        /\ At(w, "mark") => ~ stage[w].dir /\ stage[w].files = <<>>
        /\ run[w].pc \in {"fill", "publish"} => stage[w].dir
        /\ run[w].pc \in {"mark", "fill", "publish"} =>
               \A v \in Workers \ {w} : stage[v] = NoStage
        /\ (run[w].pc \in Staging) <=> (dataLock = w)

-----------------------------------------------------------------------------
(* Shapes: records and functions are what their fields and arguments say *)

Fields == {"pc", "fetch", "held", "asset", "received", "digest", "file", "outcome"}
Rec(r) == [f \in Fields |-> r[f]]
RunShaped == run = [w \in Workers |-> Rec(run[w])]

\* a step that touches no stage: the workers it moves do not hold the data root
Calm(v) ==
    /\ \/ run'[v].pc = run[v].pc
       \/ run'[v].pc \notin Staging /\ run[v].pc \notin Staging
    /\ \/ run'[v].outcome = run[v].outcome /\ run'[v].fetch = run[v].fetch
       \/ run'[v].outcome \notin {"completed", "reused"}
       \/ run'[v].outcome = "reused" /\ FolderState(run'[v].fetch.identity) = "reusable"
    /\ run'[v].pc = "new" => run[v].pc = "new" /\ run'[v].outcome = run[v].outcome
    /\ \/ run'[v].fetch \in Fetches
       \/ run'[v].fetch = run[v].fetch /\ (run[v].pc = "new" => run'[v].pc = "new")

\* a step that leaves the data root alone
Quiet == RunShaped' /\ UNCHANGED data /\ \A v \in Workers : Calm(v)

\* One worker is given a new record.
LEMMA RunSet ==
    ASSUME RunShaped, NEW w \in Workers, NEW r, r = Rec(r), run' = [run EXCEPT ![w] = r]
    PROVE  RunShaped' /\ run'[w] = r /\ \A v \in Workers \ {w} : run'[v] = run[v]
<1>1. \A v \in Workers : run'[v] = IF v = w THEN r ELSE run[v]
  BY DEF RunShaped
<1>2. \A v \in Workers : run[v] = Rec(run[v])
  BY DEF RunShaped
<1>3. run' = [v \in Workers |-> IF v = w THEN r ELSE run[v]]
  BY DEF RunShaped
<1>4. \A v \in Workers : run'[v] = Rec(run'[v])
  <2> HIDE DEF Rec
  <2> QED BY <1>1, <1>2
<1>5. run' = [v \in Workers |-> Rec(run'[v])]
  <2> HIDE DEF Rec
  <2> QED BY <1>3, <1>4
<1> QED BY <1>1, <1>5 DEF RunShaped

\* Ending a worker.
LEMMA EndMoves ==
    ASSUME RunShaped, NEW w \in Workers, NEW o, End(w, o)
    PROVE  /\ RunShaped' /\ run'[w] = Ended(run[w], o)
           /\ run'[w].pc = "ended" /\ run'[w].outcome = o /\ run'[w].fetch = run[w].fetch
           /\ \A v \in Workers \ {w} : run'[v] = run[v]
<1> DEFINE r == Ended(run[w], o)
<1>0. Waiting = Rec(Waiting)
  BY DEF Waiting, Rec, Fields
<1>1. r = Rec(r) /\ r.pc = "ended" /\ r.outcome = o /\ r.fetch = run[w].fetch
  BY <1>0 DEF Ended, Rec, Fields
<1>2. run' = [run EXCEPT ![w] = r]
  BY DEF End
<1> HIDE DEF r
<1>3. RunShaped' /\ run'[w] = r /\ \A v \in Workers \ {w} : run'[v] = run[v]
  BY <1>1, <1>2, RunSet
<1> QED BY <1>1, <1>3 DEF r

\* Moving a worker on.
LEMMA GotoMoves ==
    ASSUME RunShaped, NEW w \in Workers, NEW s, Goto(w, s)
    PROVE  /\ RunShaped' /\ run'[w] = [run[w] EXCEPT !.pc = s]
           /\ run'[w].pc = s /\ run'[w].outcome = run[w].outcome
           /\ run'[w].fetch = run[w].fetch /\ run'[w].held = run[w].held
           /\ \A v \in Workers \ {w} : run'[v] = run[v]
<1> DEFINE r == [run[w] EXCEPT !.pc = s]
<1>0. run[w] = Rec(run[w])
  BY DEF RunShaped
<1>1. /\ r = Rec(r) /\ r.pc = s /\ r.outcome = run[w].outcome
      /\ r.fetch = run[w].fetch /\ r.held = run[w].held
  BY <1>0 DEF Rec, Fields
<1>2. run' = [run EXCEPT ![w] = r]
  BY DEF Goto
<1> HIDE DEF r
<1>3. RunShaped' /\ run'[w] = r /\ \A v \in Workers \ {w} : run'[v] = run[v]
  BY <1>1, <1>2, RunSet
<1> QED BY <1>1, <1>3 DEF r

\* how a calm worker's new record may differ from its old one
Settles(r, old) ==
    /\ \/ r.outcome = old.outcome /\ r.fetch = old.fetch
       \/ r.outcome \notin {"completed", "reused"}
       \/ r.outcome = "reused" /\ FolderState(r.fetch.identity) = "reusable"
    /\ \/ r.fetch \in Fetches
       \/ r.fetch = old.fetch /\ old.pc # "new"
\* the workers, but for their descriptors
Alike(m) == /\ m = [v \in Workers |-> Rec(m[v])]
            /\ \A v \in Workers : /\ m[v].pc = run[v].pc /\ m[v].outcome = run[v].outcome
                                  /\ m[v].fetch = run[v].fetch

\* The run itself is such a record of workers.
LEMMA AlikeRun == ASSUME RunShaped PROVE Alike(run)
BY DEF RunShaped, Alike

\* Moving descriptors with a file changes nothing a stage depends on.
LEMMA AlikeMoved ==
    ASSUME RunShaped, NEW from, NEW a, NEW to PROVE Alike(Moved(from, a, to))
<1> DEFINE m == Moved(from, a, to)
<1>1. \A v \in Workers : m[v] = IF run[v].file = from /\ run[v].asset = a
                                THEN [run[v] EXCEPT !.file = to] ELSE run[v]
  BY DEF Moved
<1>2. \A v \in Workers : run[v] = Rec(run[v])
  BY DEF RunShaped
<1>3. ASSUME NEW v \in Workers
      PROVE  /\ m[v] = Rec(m[v]) /\ m[v].pc = run[v].pc /\ m[v].outcome = run[v].outcome
             /\ m[v].fetch = run[v].fetch
  <2> HIDE DEF m
  <2>1. CASE run[v].file = from /\ run[v].asset = a
    <3>1. m[v] = [run[v] EXCEPT !.file = to] /\ run[v] = Rec(run[v])
      BY <1>1, <1>2, <2>1
    <3> QED BY <3>1 DEF Rec, Fields
  <2>2. CASE ~ (run[v].file = from /\ run[v].asset = a)
    <3>1. m[v] = run[v] /\ run[v] = Rec(run[v])
      BY <1>1, <1>2, <2>2
    <3> QED BY <3>1
  <2> QED BY <2>1, <2>2
<1>4. m = [v \in Workers |-> m[v]]
  BY DEF Moved
<1> HIDE DEF m
<1>5. m = [v \in Workers |-> Rec(m[v])]
  <2> HIDE DEF Rec
  <2> QED BY <1>3, <1>4
<1>6. Alike(m)
  BY <1>3, <1>5 DEF Alike
<1> QED BY <1>6 DEF m

\* One worker goes on, away from the stages; of the others at most a descriptor changes.
LEMMA CalmStep ==
    ASSUME NEW m, Alike(m), NEW w \in Workers, NEW r, r = Rec(r), run' = [m EXCEPT ![w] = r],
           r.pc \notin Staging \cup {"new"}, run[w].pc \notin Staging, Settles(r, run[w])
    PROVE  RunShaped' /\ \A v \in Workers : Calm(v)
<1>1. \A v \in Workers : run'[v] = IF v = w THEN r ELSE m[v]
  BY DEF Alike
<1>2. \A v \in Workers : run'[v] = Rec(run'[v])
  <2>1. \A v \in Workers : m[v] = Rec(m[v])
    BY DEF Alike
  <2> HIDE DEF Rec
  <2> QED BY <1>1, <2>1
<1>3. run' = [v \in Workers |-> run'[v]]
  BY DEF Alike
<1>4. RunShaped'
  <2>1. run' = [v \in Workers |-> Rec(run'[v])]
    <3> HIDE DEF Rec
    <3> QED BY <1>2, <1>3
  <2> QED BY <2>1 DEF RunShaped
<1>5. ASSUME NEW v \in Workers PROVE Calm(v)
  <2>1. CASE v = w
    BY <1>1, <2>1 DEF Calm, Settles
  <2>2. CASE v # w
    BY <1>1, <2>2 DEF Calm, Alike
  <2> QED BY <2>1, <2>2
<1> QED BY <1>4, <1>5

\* A worker that ends with a failure is calm (fetch_dataset's error answers).
LEMMA CalmEnd ==
    ASSUME RunShaped, NEW w \in Workers, NEW o, End(w, o), run[w].pc \notin Staging \cup {"new"},
           o \notin {"completed", "reused"}
    PROVE  RunShaped' /\ \A v \in Workers : Calm(v)
<1>1. /\ RunShaped' /\ run'[w].pc = "ended" /\ run'[w].outcome = o
      /\ run'[w].fetch = run[w].fetch /\ \A v \in Workers \ {w} : run'[v] = run[v]
  BY EndMoves
<1> QED BY <1>1 DEF Calm, Staging

\* A worker that ends because it found its folder is calm: the folder is there.
LEMMA CalmReuse ==
    ASSUME RunShaped, NEW w \in Workers, End(w, "reused"), run[w].pc \notin Staging \cup {"new"},
           FolderState(run[w].fetch.identity) = "reusable"
    PROVE  RunShaped' /\ \A v \in Workers : Calm(v)
<1>1. /\ RunShaped' /\ run'[w].pc = "ended" /\ run'[w].outcome = "reused"
      /\ run'[w].fetch = run[w].fetch /\ \A v \in Workers \ {w} : run'[v] = run[v]
  BY EndMoves
<1> QED BY <1>1 DEF Calm, Staging

\* A worker that goes on to another step away from the data root is calm.
LEMMA CalmGoto ==
    ASSUME RunShaped, NEW w \in Workers, NEW s, Goto(w, s), run[w].pc \notin Staging \cup {"new"},
           s \notin Staging \cup {"new"}
    PROVE  RunShaped' /\ \A v \in Workers : Calm(v)
<1>1. /\ RunShaped' /\ run'[w].pc = s /\ run'[w].outcome = run[w].outcome
      /\ run'[w].fetch = run[w].fetch /\ \A v \in Workers \ {w} : run'[v] = run[v]
  BY GotoMoves
<1> QED BY <1>1 DEF Calm

\* _run_phases looks at the folder before anything else: no stage is touched.
LEMMA QuietBegin ==
    ASSUME RunShaped, NEW w \in Workers, NEW f \in Fetches, Begin(w, f),
           run[w].outcome \notin {"completed", "reused"}
    PROVE  Quiet
<1> DEFINE r0 == [run[w] EXCEPT !.fetch = f]
           r1 == [r0 EXCEPT !.pc = "needs"]
           r == CASE FolderState(f.identity) = "available" -> r1
                  [] FolderState(f.identity) = "reusable" -> Ended(r0, "reused")
                  [] OTHER -> Ended(r0, "source_folder_occupied")
<1>1. run' = [run EXCEPT ![w] = r] /\ At(w, "new") /\ UNCHANGED data
  BY Zenon DEF Begin
<1>2. run[w] = Rec(run[w]) /\ Waiting = Rec(Waiting)
  BY DEF RunShaped, Waiting, Rec, Fields
<1>3. /\ r1 = Rec(r1) /\ r1.pc = "needs" /\ r1.outcome = run[w].outcome /\ r1.fetch = f
      /\ r0.fetch = f
  BY <1>2 DEF Rec, Fields
<1>4. ASSUME NEW o
      PROVE  LET e == Ended(r0, o)
             IN  e = Rec(e) /\ e.pc = "ended" /\ e.outcome = o /\ e.fetch = f
  <2> HIDE DEF r0
  <2> QED BY <1>2, <1>3 DEF Ended, Rec, Fields
<1>5. FolderState(f.identity) \in {"available", "reusable", "conflict"}
  BY DEF FolderState
<1> HIDE DEF r0, r1
<1>6. CASE FolderState(f.identity) = "available"
  <2>1. r = r1
    BY <1>6
  <2> HIDE DEF r
  <2>2. Settles(r, run[w])
    BY <2>1, <1>1, <1>3 DEF Settles, At
  <2> QED BY <1>1, <1>3, <2>1, <2>2, AlikeRun, CalmStep DEF Quiet, Staging, At
<1>7. CASE FolderState(f.identity) # "available"
  <2>1. \/ r = Ended(r0, "reused") /\ FolderState(f.identity) = "reusable"
        \/ r = Ended(r0, "source_folder_occupied")
    BY <1>5, <1>7
  <2> HIDE DEF r
  <2>2. PICK o \in {"reused", "source_folder_occupied"} :
               r = Ended(r0, o) /\ (o = "reused" => FolderState(f.identity) = "reusable")
    BY <2>1
  <2>3. r = Rec(r) /\ r.pc = "ended" /\ r.outcome = o /\ r.fetch = f
    BY <1>4, <2>2
  <2>4. Settles(r, run[w])
    BY <2>2, <2>3 DEF Settles
  <2> QED BY <1>1, <2>3, <2>4, AlikeRun, CalmStep DEF Quiet, Staging, At
<1> QED BY <1>6, <1>7

\* asset_needs and ensure_assets only read.
LEMMA QuietLookups ==
    ASSUME RunShaped, NEW w \in Workers, Needs(w) \/ Next1(w)
    PROVE  Quiet
<1>0. UNCHANGED data /\ run[w].pc \in {"needs", "next"} /\ run[w] = Rec(run[w])
  BY DEF Needs, Next1, At, RunShaped
<1>1. CASE Needs(w)
  <2> DEFINE h == [a \in Assets |-> IF Whole(a) THEN entry[a].manifest ELSE None]
             r == [run[w] EXCEPT !.pc = "next", !.held = h]
  <2>1. run' = [run EXCEPT ![w] = r]
    BY <1>1 DEF Needs
  <2> HIDE DEF h
  <2>2. r = Rec(r) /\ r.pc = "next" /\ r.outcome = run[w].outcome /\ r.fetch = run[w].fetch
    BY <1>0 DEF Rec, Fields
  <2> HIDE DEF r
  <2> QED BY <1>0, <2>1, <2>2, AlikeRun, CalmStep DEF Quiet, Staging, Settles
<1>2. CASE Next1(w) /\ Wanted(w) # {}
  <2> DEFINE r == [run[w] EXCEPT !.pc = "open", !.asset = First(Wanted(w))]
  <2>1. run' = [run EXCEPT ![w] = r]
    BY <1>2 DEF Next1
  <2>2. r = Rec(r) /\ r.pc = "open" /\ r.outcome = run[w].outcome /\ r.fetch = run[w].fetch
    BY <1>0 DEF Rec, Fields
  <2> HIDE DEF r
  <2> QED BY <1>0, <2>1, <2>2, AlikeRun, CalmStep DEF Quiet, Staging, Settles
<1>3. CASE Next1(w) /\ Wanted(w) = {}
  <2>1. \/ Goto(w, "enter") \/ End(w, "source_folder_occupied")
        \/ End(w, "reused") /\ FolderState(run[w].fetch.identity) = "reusable"
    BY <1>3 DEF Next1, FolderState
  <2>2. CASE Goto(w, "enter")
    BY <1>0, <2>2, CalmGoto DEF Quiet, Staging
  <2>3. CASE End(w, "source_folder_occupied")
    BY <1>0, <2>3, CalmEnd DEF Quiet, Staging
  <2>4. CASE End(w, "reused") /\ FolderState(run[w].fetch.identity) = "reusable"
    BY <1>0, <2>4, CalmReuse DEF Quiet, Staging
  <2> QED BY <2>1, <2>2, <2>3, <2>4
<1> QED BY <1>1, <1>2, <1>3

\* Downloading and importing happen in the cache; no stage is touched.
LEMMA QuietDownload ==
    ASSUME RunShaped, NEW w \in Workers,
           \/ OpenPartial(w) \/ Connect(w) \/ Import(w) \/ Refused(w)
           \/ Receive(w) \/ Received(w) \/ Unusable(w) \/ Complete(w)
    PROVE  Quiet
<1>0. /\ UNCHANGED data /\ run[w].pc \in {"open", "connect", "stream", "complete"}
      /\ run[w] = Rec(run[w]) /\ run[w].pc \notin Staging \cup {"new"}
  BY DEF OpenPartial, Connect, Import, Refused, Receive, Received, Unusable, Complete,
         At, RunShaped, Staging
<1>a. ASSUME NEW m, Alike(m), NEW r, r = Rec(r), run' = [m EXCEPT ![w] = r],
             r.pc \notin Staging \cup {"new"}, r.outcome = m[w].outcome, r.fetch = m[w].fetch
      PROVE  Quiet
  <2>1. Settles(r, run[w])
    BY <1>0, <1>a DEF Alike, Settles
  <2> QED BY <1>0, <1>a, <2>1, CalmStep DEF Quiet
<1>1. CASE OpenPartial(w)
  <2> DEFINE m == IF Adoptable(run[w].asset) THEN run ELSE Moved("part", run[w].asset, "gone")
             r == [m[w] EXCEPT !.pc = "connect"]
  <2>1. run' = [m EXCEPT ![w] = r]
    BY <1>1 DEF OpenPartial
  <2>2. Alike(m)
    BY AlikeRun, AlikeMoved
  <2> HIDE DEF m
  <2>3. m[w] = Rec(m[w])
    BY <2>2 DEF Alike
  <2>4. r = Rec(r) /\ r.pc = "connect" /\ r.outcome = m[w].outcome /\ r.fetch = m[w].fetch
    BY <2>3 DEF Rec, Fields
  <2> HIDE DEF r
  <2> QED BY <2>1, <2>2, <2>4, <1>a DEF Staging
<1>2. CASE Connect(w)
  <2>1. PICK kept : run' = [run EXCEPT ![w].pc = "stream", ![w].received = Len(kept),
                                       ![w].digest = kept, ![w].file = "part"]
    BY <1>2 DEF Connect
  <2> DEFINE n == Len(kept)
             r == [run[w] EXCEPT !.pc = "stream", !.received = n, !.digest = kept,
                                 !.file = "part"]
  <2>2. run' = [run EXCEPT ![w] = r]
    BY <2>1
  <2> HIDE DEF n
  <2>3. r = Rec(r) /\ r.pc = "stream" /\ r.outcome = run[w].outcome /\ r.fetch = run[w].fetch
    BY <1>0 DEF Rec, Fields
  <2> HIDE DEF r
  <2> QED BY <2>2, <2>3, AlikeRun, <1>a DEF Staging
<1>3. CASE Import(w)
  <2> DEFINE r == [run[w] EXCEPT !.pc = "stream", !.file = "part"]
  <2>2. run' = [run EXCEPT ![w] = r]
    BY <1>3 DEF Import
  <2>3. r = Rec(r) /\ r.pc = "stream" /\ r.outcome = run[w].outcome /\ r.fetch = run[w].fetch
    BY <1>0 DEF Rec, Fields
  <2> HIDE DEF r
  <2> QED BY <2>2, <2>3, AlikeRun, <1>a DEF Staging
<1>4. CASE Refused(w)
  <2>1. PICK o \in {"dataset_storage", "download_status"} : End(w, o)
    BY <1>4 DEF Refused
  <2> QED BY <1>0, <2>1, CalmEnd DEF Quiet
<1>5. CASE Receive(w)
  <2>1. PICK chunk : run' = [run EXCEPT ![w].received = @ + 1, ![w].digest = Append(@, chunk)]
    BY <1>5 DEF Receive
  <2> DEFINE n == run[w].received + 1
             d == Append(run[w].digest, chunk)
             r == [run[w] EXCEPT !.received = n, !.digest = d]
  <2>2. run' = [run EXCEPT ![w] = r]
    <3>1. [run EXCEPT ![w].received = @ + 1, ![w].digest = Append(@, chunk)]
             = [run EXCEPT ![w] = [run[w] EXCEPT !.received = run[w].received + 1,
                                                 !.digest = Append(run[w].digest, chunk)]]
      BY DEF RunShaped
    <3> QED BY <2>1, <3>1
  <2> HIDE DEF n, d
  <2>3. r = Rec(r) /\ r.pc = run[w].pc /\ r.outcome = run[w].outcome /\ r.fetch = run[w].fetch
    BY <1>0 DEF Rec, Fields
  <2> HIDE DEF r
  <2> QED BY <1>0, <2>2, <2>3, AlikeRun, <1>a DEF Staging
<1>6. CASE Received(w)
  <2> DEFINE r == [run[w] EXCEPT !.pc = "complete", !.file = "closed"]
  <2>2. run' = [run EXCEPT ![w] = r]
    BY <1>6 DEF Received
  <2>3. r = Rec(r) /\ r.pc = "complete" /\ r.outcome = run[w].outcome /\ r.fetch = run[w].fetch
    BY <1>0 DEF Rec, Fields
  <2> HIDE DEF r
  <2> QED BY <2>2, <2>3, AlikeRun, <1>a DEF Staging
<1>7. CASE Unusable(w)
  <2>1. CASE End(w, "download_connection")
    BY <1>0, <2>1, CalmEnd DEF Quiet
  <2>2. CASE ~ End(w, "download_connection")
    <3>1. PICK m \in {run, Moved("part", run[w].asset, "gone")} :
             run' = [m EXCEPT ![w] = Ended(@, "download_checksum_mismatch")]
      BY <1>7, <2>2 DEF Unusable
    <3> DEFINE r == Ended(m[w], "download_checksum_mismatch")
    <3>2. Alike(m) /\ Waiting = Rec(Waiting)
      BY <3>1, AlikeRun, AlikeMoved DEF Waiting, Rec, Fields
    <3>3. r = Rec(r) /\ r.pc = "ended" /\ r.outcome = "download_checksum_mismatch"
          /\ r.fetch = run[w].fetch
      BY <3>2 DEF Ended, Rec, Fields, Alike
    <3>4. run' = [m EXCEPT ![w] = r]
      BY <3>1
    <3> HIDE DEF r
    <3> QED BY <1>0, <3>2, <3>3, <3>4, CalmStep DEF Quiet, Settles, Staging
  <2> QED BY <2>1, <2>2
<1>8. CASE Complete(w)
  <2>1. Goto(w, "seal") \/ End(w, "cache_storage")
    BY <1>8 DEF Complete
  <2>2. CASE Goto(w, "seal")
    BY <1>0, <2>2, CalmGoto DEF Quiet, Staging
  <2>3. CASE End(w, "cache_storage")
    BY <1>0, <2>3, CalmEnd DEF Quiet
  <2> QED BY <2>1, <2>2, <2>3
<1> QED BY <1>1, <1>2, <1>3, <1>4, <1>5, <1>6, <1>7, <1>8

\* DatasetCache.complete publishes in the cache; no stage is touched.
LEMMA QuietEntry ==
    ASSUME RunShaped, NEW w \in Workers,
           AdoptEntry(w) \/ Seal(w) \/ WriteManifest(w) \/ PublishEntry(w)
    PROVE  Quiet
<1>0. /\ UNCHANGED data /\ run[w].pc \in {"seal", "manifest", "rename"}
      /\ run[w].pc \notin Staging \cup {"new"}
  BY DEF AdoptEntry, Seal, WriteManifest, PublishEntry, At, Staging
<1>a. ASSUME NEW m, Alike(m), NEW r, r = Rec(r), run' = [m EXCEPT ![w] = r],
             r.pc \notin Staging \cup {"new"}, r.outcome = m[w].outcome, r.fetch = m[w].fetch
      PROVE  Quiet
  <2>1. Settles(r, run[w])
    BY <1>0, <1>a DEF Alike, Settles
  <2> QED BY <1>0, <1>a, <2>1, CalmStep DEF Quiet
<1>b. ASSUME NEW m, Alike(m), NEW a, NEW d, run' = [m EXCEPT ![w] = Holding(@, a, d)]
      PROVE  Quiet
  <2> DEFINE r == Holding(m[w], a, d)
  <2>1. m[w] = Rec(m[w]) /\ run' = [m EXCEPT ![w] = r]
    BY <1>b DEF Alike
  <2>2. r = Rec(r) /\ r.pc = "next" /\ r.outcome = m[w].outcome /\ r.fetch = m[w].fetch
    <3> DEFINE h == [m[w].held EXCEPT ![a] = d]
    <3>1. r = [m[w] EXCEPT !.pc = "next", !.asset = None, !.held = h, !.received = 0,
                           !.digest = <<>>]
      BY <2>1 DEF Holding, Rec, Fields
    <3> HIDE DEF h, r
    <3> QED BY <2>1, <3>1 DEF Rec, Fields
  <2> HIDE DEF r
  <2> QED BY <1>b, <2>1, <2>2, <1>a DEF Staging
<1>1. CASE AdoptEntry(w)
  <2>1. CASE End(w, "cache_entry_corrupt")
    BY <1>0, <2>1, CalmEnd DEF Quiet
  <2>2. CASE ~ End(w, "cache_entry_corrupt")
    <3>1. run' = [Moved("part", run[w].asset, "gone") EXCEPT ![w] =
                      Holding(@, run[w].asset, entry[run[w].asset].manifest)]
      BY <1>1, <2>2 DEF AdoptEntry
    <3> QED BY <3>1, <1>b, AlikeMoved
  <2> QED BY <2>1, <2>2
<1>2. CASE Seal(w)
  <2>1. CASE End(w, "cache_storage")
    BY <1>0, <2>1, CalmEnd DEF Quiet
  <2>2. CASE ~ End(w, "cache_storage")
    <3> DEFINE m == Moved("part", run[w].asset, "final")
               r == [m[w] EXCEPT !.pc = "manifest"]
    <3>1. run' = [m EXCEPT ![w] = r]
      BY <1>2, <2>2 DEF Seal
    <3>2. Alike(m)
      BY AlikeMoved
    <3> HIDE DEF m
    <3>3. m[w] = Rec(m[w])
      BY <3>2 DEF Alike
    <3>4. r = Rec(r) /\ r.pc = "manifest" /\ r.outcome = m[w].outcome /\ r.fetch = m[w].fetch
      BY <3>3 DEF Rec, Fields
    <3> HIDE DEF r
    <3> QED BY <3>1, <3>2, <3>4, <1>a DEF Staging
  <2> QED BY <2>1, <2>2
<1>3. CASE WriteManifest(w)
  <2>1. Goto(w, "rename")
    BY <1>3 DEF WriteManifest
  <2> QED BY <1>0, <2>1, CalmGoto DEF Quiet, Staging
<1>4. CASE PublishEntry(w)
  <2>1. run' = [Moved("final", run[w].asset, "entry") EXCEPT ![w] =
                    Holding(@, run[w].asset, run[w].digest)]
    BY <1>4 DEF PublishEntry
  <2> QED BY <2>1, <1>b, AlikeMoved
<1> QED BY <1>1, <1>2, <1>3, <1>4

\* Cleaning the cache and discarding unfinished files touch no stage.
LEMMA QuietApplication ==
    ASSUME RunShaped,
           (\E o \in Jobs : DiscardPartials(o)) \/ Collect \/ Clear
           \/ \E a \in Assets : ClearHalf(a)
    PROVE  Quiet
<1>1. CASE Collect \/ \E a \in Assets : ClearHalf(a)
  <2>1. UNCHANGED data /\ run' = run
    BY <1>1 DEF Collect, ClearHalf
  <2> QED BY <2>1 DEF Quiet, RunShaped, Calm
<1>2. ASSUME NEW G, run' = [w \in Workers |-> IF w \in G THEN [run[w] EXCEPT !.file = "gone"]
                                                ELSE run[w]]
      PROVE  RunShaped' /\ \A v \in Workers : Calm(v)
  <2> DEFINE F(w) == IF w \in G THEN [run[w] EXCEPT !.file = "gone"] ELSE run[w]
  <2>1. ASSUME NEW v \in Workers
        PROVE  /\ F(v) = Rec(F(v)) /\ F(v).pc = run[v].pc /\ F(v).outcome = run[v].outcome
               /\ F(v).fetch = run[v].fetch
    <3>1. run[v] = Rec(run[v])
      BY DEF RunShaped
    <3>2. CASE v \in G
      BY <3>1, <3>2 DEF Rec, Fields
    <3>3. CASE v \notin G
      BY <3>1, <3>3
    <3> QED BY <3>2, <3>3
  <2>2. \A v \in Workers : run'[v] = F(v)
    BY <1>2
  <2>3. run' = [v \in Workers |-> F(v)]
    BY <1>2
  <2> HIDE DEF F
  <2>4. run' = [v \in Workers |-> Rec(run'[v])]
    <3> HIDE DEF Rec
    <3> QED BY <2>1, <2>2, <2>3
  <2> QED BY <2>1, <2>2, <2>4 DEF RunShaped, Calm
<1>3. CASE \E o \in Jobs : DiscardPartials(o)
  <2>1. PICK o \in Jobs : DiscardPartials(o)
    BY <1>3
  <2> DEFINE own == {a \in Assets : partial[a] # Absent /\ partial[a].owner = o}
             G == {w \in Workers : run[w].file = "part" /\ run[w].asset \in own}
  <2>2. UNCHANGED data /\ run' = [w \in Workers |-> IF w \in G THEN [run[w] EXCEPT !.file = "gone"]
                                                  ELSE run[w]]
    BY <2>1 DEF DiscardPartials
  <2> HIDE DEF G
  <2> QED BY <1>2, <2>2 DEF Quiet
<1>4. CASE Clear
  <2> DEFINE kept == {a \in Assets : a \in cleaning}
             G == {w \in Workers : \/ run[w].file = "part"
                                   \/ run[w].file = "entry" /\ run[w].asset \notin kept}
  <2>2. UNCHANGED data /\ run' = [w \in Workers |-> IF w \in G THEN [run[w] EXCEPT !.file = "gone"]
                                                  ELSE run[w]]
    BY <1>4 DEF Clear
  <2> HIDE DEF G
  <2> QED BY <1>2, <2>2 DEF Quiet
<1> QED BY <1>1, <1>3, <1>4

\* Every step leaves the data root alone or is one of the nine that hold its lock or take it.
LEMMA StageSteps ==
    ASSUME RunShaped, \A w \in Workers : At(w, "new") =>
                          run[w].outcome \notin {"completed", "reused"},
           [Next]_vars
    PROVE  \/ Quiet
           \/ \E w \in Workers :
                  \/ Enter(w) \/ RecoverStaging(w) \/ Mark(w) \/ Fill(w) \/ WriteSourceMarker(w)
                  \/ Publish(w) \/ Exit(w) \/ Terminate(w) \/ Crash(w)
<1>1. ASSUME NEW w \in Workers, Work(w)
      PROVE  \/ Quiet \/ Enter(w) \/ RecoverStaging(w) \/ Mark(w) \/ Fill(w)
             \/ WriteSourceMarker(w) \/ Publish(w) \/ Exit(w)
  BY <1>1, QuietLookups, QuietDownload, QuietEntry DEF Work
<1>2. ASSUME NEW w \in Workers, NEW f \in Fetches, Begin(w, f) PROVE Quiet
  BY <1>2, QuietBegin DEF Begin
<1>3. CASE UNCHANGED vars
  BY <1>3 DEF vars, data, Quiet, RunShaped, Calm
<1> QED BY <1>1, <1>2, <1>3, QuietApplication DEF Next

\* a worker that has not begun has no result; one that has, has a fetch
FreshFits ==
    \A w \in Workers : At(w, "new") => run[w].outcome \notin {"completed", "reused"}

FetchFits == \A w \in Workers : At(w, "new") \/ run[w].fetch \in Fetches

\* results are what they say
EndsFit == FreshFits /\ FetchFits /\ FinishedFetchHasFolder

\* the inductive invariant of part one
StageInv == /\ RunShaped /\ StageShaped /\ StagesFit /\ EndsFit
            /\ dataLock \in Workers \cup {None}

\* A writer that goes to DatasetWriter.__exit__ keeps its fetch.
LEMMA LeaveMoves ==
    ASSUME RunShaped, NEW w \in Workers, NEW o, Leave(w, o)
    PROVE  /\ RunShaped' /\ run'[w] = [run[w] EXCEPT !.pc = "leave", !.outcome = o]
           /\ run'[w].pc = "leave" /\ run'[w].outcome = o
           /\ run'[w].fetch = run[w].fetch /\ run'[w].held = run[w].held
           /\ \A v \in Workers \ {w} : run'[v] = run[v]
<1> DEFINE r == [run[w] EXCEPT !.pc = "leave", !.outcome = o]
<1>0. run[w] = Rec(run[w])
  BY DEF RunShaped
<1>1. /\ r = Rec(r) /\ r.pc = "leave" /\ r.outcome = o
      /\ r.fetch = run[w].fetch /\ r.held = run[w].held
  BY <1>0 DEF Rec, Fields
<1>2. run' = [run EXCEPT ![w] = r]
  BY DEF Leave
<1> HIDE DEF r
<1>3. RunShaped' /\ run'[w] = r /\ \A v \in Workers \ {w} : run'[v] = run[v]
  BY <1>1, <1>2, RunSet
<1> QED BY <1>1, <1>3 DEF r

\* One stage is given a new record.
LEMMA StageSet ==
    ASSUME StageShaped, NEW w \in Workers, NEW s, s = StageRec(s),
           stage' = [stage EXCEPT ![w] = s]
    PROVE  StageShaped' /\ stage'[w] = s /\ \A v \in Workers \ {w} : stage'[v] = stage[v]
<1>1. \A v \in Workers : stage'[v] = IF v = w THEN s ELSE stage[v]
  BY DEF StageShaped
<1>2. \A v \in Workers : stage[v] = StageRec(stage[v])
  BY DEF StageShaped
<1>3. stage' = [v \in Workers |-> stage'[v]]
  BY DEF StageShaped
<1>4. stage' = [v \in Workers |-> StageRec(stage'[v])]
  <2> HIDE DEF StageRec
  <2> QED BY <1>1, <1>2, <1>3
<1> QED BY <1>1, <1>4 DEF StageShaped

\* The quiet steps.
LEMMA StageInvQuiet == ASSUME StageInv, Quiet PROVE StageInv'
<1>1. RunShaped' /\ StageShaped' /\ dataLock' \in Workers \cup {None}
  BY DEF StageInv, Quiet, data, StageShaped
<1>2. stage' = stage /\ folder' = folder /\ dataLock' = dataLock
  BY DEF Quiet, data
<1>3. FreshFits'
  BY DEF StageInv, EndsFit, Quiet, FreshFits, Calm, At
<1>6. FetchFits'
  BY DEF StageInv, EndsFit, Quiet, FetchFits, Calm, At
<1>4. FinishedFetchHasFolder'
  <2> SUFFICES ASSUME NEW w \in Workers, run'[w].outcome \in {"completed", "reused"}
               PROVE  folder' # NoFolder /\ folder'.identity = run'[w].fetch.identity
    BY DEF FinishedFetchHasFolder
  <2>1. Calm(w)
    BY DEF Quiet
  <2>2. CASE run'[w].outcome = run[w].outcome /\ run'[w].fetch = run[w].fetch
    BY <1>2, <2>2 DEF StageInv, EndsFit, FinishedFetchHasFolder
  <2>3. CASE FolderState(run'[w].fetch.identity) = "reusable"
    BY <1>2, <2>3 DEF FolderState
  <2> QED BY <2>1, <2>2, <2>3 DEF Calm
<1>5. StagesFit'
  <2> SUFFICES ASSUME NEW w \in Workers
               PROVE  /\ run'[w].pc \in Staging <=> run[w].pc \in Staging
                      /\ run'[w].pc \in Staging => run'[w].pc = run[w].pc
    BY <1>2 DEF StageInv, StagesFit, At, Staging
  <2>1. Calm(w)
    BY DEF Quiet
  <2> QED BY <2>1 DEF Calm
<1> QED BY <1>1, <1>3, <1>4, <1>5, <1>6 DEF StageInv, EndsFit

\* A worker of the data root goes on while no folder appears.
LEMMA FinishedKept ==
    ASSUME StageInv, NEW w \in Workers, \A v \in Workers \ {w} : run'[v] = run[v],
           folder' = folder, run'[w].pc # "new",
           run[w].pc # "new", run'[w].fetch = run[w].fetch,
           run'[w].outcome = run[w].outcome \/ run'[w].outcome \notin {"completed", "reused"}
    PROVE  EndsFit'
BY DEF StageInv, EndsFit, FinishedFetchHasFolder, FreshFits, FetchFits, At

\* Nobody else is in the data root.
LEMMA Alone ==
    ASSUME StageInv, NEW w \in Workers, run[w].pc \in Staging, NEW v \in Workers, v # w
    PROVE  run[v].pc \notin Staging /\ dataLock = w
BY DEF StageInv, StagesFit

\* DatasetWriter.__enter__ takes the lock only when nobody has it.
LEMMA StageInvEnter == ASSUME StageInv, NEW w \in Workers, Enter(w) PROVE StageInv'
<1>1. RunShaped /\ run[w].pc = "enter" /\ UNCHANGED <<folder, stage>>
  BY DEF StageInv, Enter, At
<1>2. CASE dataLock' = w /\ dataLock = None /\ Goto(w, "recover")
  <2>1. /\ RunShaped' /\ run'[w].pc = "recover" /\ run'[w].outcome = run[w].outcome
        /\ run'[w].fetch = run[w].fetch /\ \A v \in Workers \ {w} : run'[v] = run[v]
    BY <1>1, <1>2, GotoMoves
  <2>2. EndsFit'
    BY <1>1, <2>1, FinishedKept
  <2>3. \A v \in Workers : run[v].pc \notin Staging
    BY <1>2, StoreAssumption DEF StageInv, StagesFit
  <2>4. StagesFit'
    BY <1>1, <1>2, <2>1, <2>3 DEF StageInv, StagesFit, At, Staging
  <2> QED BY <1>1, <1>2, <2>1, <2>2, <2>4 DEF StageInv, StageShaped
<1>3. CASE End(w, "dataset_busy") /\ UNCHANGED dataLock
  <2>1. /\ RunShaped' /\ run'[w].pc = "ended" /\ run'[w].outcome = "dataset_busy"
        /\ run'[w].fetch = run[w].fetch
        /\ \A v \in Workers \ {w} : run'[v] = run[v]
    BY <1>1, <1>3, EndMoves
  <2>2. EndsFit'
    BY <1>1, <2>1, FinishedKept
  <2>4. StagesFit'
    BY <1>1, <1>3, <2>1 DEF StageInv, StagesFit, At, Staging
  <2> QED BY <1>1, <1>3, <2>1, <2>2, <2>4 DEF StageInv, StageShaped
<1> QED BY <1>2, <1>3 DEF Enter

\* recover_staging removes every stage that is left, so the writer is alone.
LEMMA StageInvRecover == ASSUME StageInv, NEW w \in Workers, RecoverStaging(w) PROVE StageInv'
<1>1. RunShaped /\ run[w].pc = "recover" /\ UNCHANGED folder /\ StagesFit
  BY DEF StageInv, RecoverStaging, At
<1>2. dataLock = w /\ \A v \in Workers \ {w} : run[v].pc \notin Staging
  BY <1>1, Alone DEF Staging, StagesFit
<1>3. ~ \E v \in Workers : stage[v].markers = {"pending"} /\ stage[v].dir
  BY <1>1 DEF StagesFit
<1>4. /\ stage' = [v \in Workers |-> IF stage[v].markers # {} THEN NoStage ELSE stage[v]]
      /\ Goto(w, "mark") /\ UNCHANGED dataLock
  BY <1>3 DEF RecoverStaging
<1>5. /\ RunShaped' /\ run'[w].pc = "mark" /\ run'[w].outcome = run[w].outcome
      /\ run'[w].fetch = run[w].fetch /\ \A v \in Workers \ {w} : run'[v] = run[v]
  BY <1>1, <1>4, GotoMoves
<1>6. \A v \in Workers : stage'[v] = NoStage
  BY <1>1, <1>4 DEF StagesFit
<1>7. EndsFit'
  BY <1>1, <1>5, FinishedKept
<1>8. NoStage = StageRec(NoStage) /\ ~ NoStage.dir /\ NoStage.markers = {} /\ NoStage.files = <<>>
  BY DEF NoStage, StageRec, StageFields
<1>9. StageShaped'
  <2>1. stage' = [v \in Workers |-> stage'[v]]
    BY <1>4
  <2>2. stage' = [v \in Workers |-> StageRec(stage'[v])]
    <3> HIDE DEF StageRec
    <3> QED BY <1>6, <1>8, <2>1
  <2> QED BY <2>2 DEF StageShaped
<1>10. StagesFit'
  <2>1. ASSUME NEW v \in Workers
        PROVE  /\ run'[v].pc \notin {"fill", "publish"}
               /\ (run'[v].pc \in Staging) <=> (dataLock' = v)
    BY <1>2, <1>4, <1>5 DEF Staging
  <2>2. \A v \in Workers :
           /\ stage'[v] = NoStage /\ stage'[v].markers = {} /\ stage'[v].dir = FALSE
           /\ stage'[v].files = <<>>
    BY <1>6, <1>8 DEF NoStage
  <2> QED BY <2>1, <2>2 DEF StagesFit, At
<1> QED BY <1>2, <1>4, <1>5, <1>7, <1>9, <1>10 DEF StageInv

\* A worker that holds the lock changes its own stage.
LEMMA OwnStage ==
    ASSUME StageInv, NEW w \in Workers, run[w].pc \in Staging, RunShaped',
           \A v \in Workers \ {w} : run'[v] = run[v], run'[w].pc \in Staging,
           UNCHANGED <<folder, dataLock>>, EndsFit',
           NEW s, s = StageRec(s), stage' = [stage EXCEPT ![w] = s],
           /\ s.dir \in BOOLEAN
           /\ s.markers \in {{}, {"pending"}, {"pending", "owner"}, {"owner"}}
           /\ s.markers = {} => s = NoStage
           /\ s.dir => s.markers = {"owner"}
           /\ run'[w].pc = "mark" => ~ s.dir /\ s.files = <<>>
           /\ run'[w].pc \in {"fill", "publish"} => s.dir
           /\ run'[w].pc \in {"mark", "fill", "publish"} =>
                  run[w].pc \in {"mark", "fill", "publish"}
    PROVE  StageInv'
<1>1. StageShaped' /\ stage'[w] = s /\ \A v \in Workers \ {w} : stage'[v] = stage[v]
  BY StageSet DEF StageInv
<1>2. dataLock = w /\ \A v \in Workers \ {w} : run[v].pc \notin Staging
  BY Alone DEF StageInv, StagesFit
<1>3. \A v \in Workers \ {w} : run'[v].pc \notin Staging
  BY <1>2
<1>4. StagesFit'
  <2> SUFFICES ASSUME NEW u \in Workers
               PROVE  (/\ stage[u].dir \in BOOLEAN
                       /\ stage[u].markers \in {{}, {"pending"}, {"pending", "owner"}, {"owner"}}
                       /\ stage[u].markers = {} => stage[u] = NoStage
                       /\ stage[u].dir => stage[u].markers = {"owner"}
                       /\ At(u, "mark") => ~ stage[u].dir /\ stage[u].files = <<>>
                       /\ run[u].pc \in {"fill", "publish"} => stage[u].dir
                       /\ run[u].pc \in {"mark", "fill", "publish"} =>
                              \A v \in Workers \ {u} : stage[v] = NoStage
                       /\ (run[u].pc \in Staging) <=> (dataLock = u))'
    BY DEF StagesFit
  <2>1. CASE u = w
    <3>1. run[w].pc \in {"mark", "fill", "publish"} =>
              \A v \in Workers \ {w} : stage[v] = NoStage
      BY DEF StageInv, StagesFit
    <3> QED BY <1>1, <1>2, <2>1, <3>1 DEF At
  <2>2. CASE u # w
    <3>1. stage'[u] = stage[u] /\ run'[u] = run[u] /\ run'[u].pc \notin Staging
      BY <1>1, <1>3, <2>2
    <3>2. /\ stage[u].dir \in BOOLEAN
          /\ stage[u].markers \in {{}, {"pending"}, {"pending", "owner"}, {"owner"}}
          /\ stage[u].markers = {} => stage[u] = NoStage
          /\ stage[u].dir => stage[u].markers = {"owner"}
      BY DEF StageInv, StagesFit
    <3>3. run'[u].pc \notin {"mark", "fill", "publish"} /\ dataLock' # u
      BY <1>2, <2>2, <3>1 DEF Staging
    <3> QED BY <3>1, <3>2, <3>3 DEF At
  <2> QED BY <2>1, <2>2
<1> QED BY <1>1, <1>2, <1>4 DEF StageInv

\* create_owner_marker in its steps, then mkdir: the marker is always there first.
LEMMA StageInvMark ==
    ASSUME StageInv, NEW w \in Workers, Mark(w)
    PROVE  /\ StageInv' /\ stage'[w].files = <<>>
           /\ \A v \in Workers \ {w} : stage'[v] = stage[v]
<1> DEFINE s == stage[w]
           new == CASE s.markers = {} -> [s EXCEPT !.markers = {"pending"}]
                    [] s.markers = {"pending"} -> [s EXCEPT !.markers = @ \cup {"owner"}]
                    [] s.markers = {"pending", "owner"} -> [s EXCEPT !.markers = {"owner"}]
                    [] OTHER -> [s EXCEPT !.dir = TRUE]
<1>1. /\ RunShaped /\ run[w].pc = "mark" /\ UNCHANGED <<folder, dataLock>>
      /\ stage' = [stage EXCEPT ![w] = new]
  BY Zenon DEF StageInv, Mark, At
<1>2. /\ s = StageRec(s) /\ s.markers \in {{}, {"pending"}, {"pending", "owner"}, {"owner"}}
      /\ ~ s.dir /\ s.dir \in BOOLEAN /\ s.files = <<>>
  BY <1>1 DEF StageInv, StagesFit, StageShaped, At
<1> HIDE DEF s
<1>0. /\ {"pending"} # {} /\ {"owner"} # {} /\ {"pending", "owner"} # {}
      /\ {"pending", "owner"} # {"pending"} /\ {"pending", "owner"} # {"owner"}
      /\ {"owner"} # {"pending"}
  <2>1. /\ "pending" \in {"pending"} /\ "owner" \in {"owner"} /\ "owner" \in {"pending", "owner"}
        /\ "pending" \in {"pending", "owner"} /\ "owner" \notin {"pending"}
        /\ "pending" \notin {"owner"} /\ "pending" \notin {} /\ "owner" \notin {}
    OBVIOUS
  <2> QED BY <2>1, Zenon
<1>3. /\ new = StageRec(new) /\ new.files = <<>> /\ new.dir \in BOOLEAN
      /\ new.markers \in {{"pending"}, {"pending", "owner"}, {"owner"}}
      /\ new.dir <=> s.markers = {"owner"}
      /\ new.dir => new.markers = {"owner"}
  <2>1. CASE s.markers = {}
    <3>1. new = [s EXCEPT !.markers = {"pending"}]
      BY <2>1
    <3> HIDE DEF new
    <3> QED BY <1>0, <1>2, <2>1, <3>1 DEF StageRec, StageFields
  <2>2. CASE s.markers = {"pending"}
    <3>1. new = [s EXCEPT !.markers = {"pending", "owner"}]
      <4>1. s.markers \cup {"owner"} = {"pending", "owner"}
        BY <2>2
      <4> QED BY <1>0, <2>2, <4>1
    <3> HIDE DEF new
    <3> QED BY <1>0, <1>2, <2>2, <3>1 DEF StageRec, StageFields
  <2>3. CASE s.markers = {"pending", "owner"}
    <3>1. new = [s EXCEPT !.markers = {"owner"}]
      BY <1>0, <2>3
    <3> HIDE DEF new
    <3> QED BY <1>0, <1>2, <2>3, <3>1 DEF StageRec, StageFields
  <2>4. CASE s.markers = {"owner"}
    <3>1. new = [s EXCEPT !.dir = TRUE]
      BY <1>0, <2>4
    <3> HIDE DEF new
    <3> QED BY <1>0, <1>2, <2>4, <3>1 DEF StageRec, StageFields
  <2> QED BY <1>2, <2>1, <2>2, <2>3, <2>4
<1>4. /\ RunShaped' /\ run'[w].outcome = run[w].outcome /\ run'[w].fetch = run[w].fetch
      /\ \A v \in Workers \ {w} : run'[v] = run[v]
      /\ run'[w].pc = IF s.markers = {"owner"} THEN "fill" ELSE "mark"
  <2>1. CASE s.markers = {"owner"}
    <3>1. Goto(w, "fill")
      BY <2>1 DEF Mark, s
    <3> QED BY <1>1, <2>1, <3>1, GotoMoves
  <2>2. CASE s.markers # {"owner"}
    <3>1. run' = run
      BY <2>2 DEF Mark, s
    <3> QED BY <1>1, <2>2, <3>1 DEF RunShaped
  <2> QED BY <2>1, <2>2
<1>5. EndsFit'
  BY <1>1, <1>4, FinishedKept
<1> HIDE DEF new
<1>6. StageInv'
  BY <1>1, <1>3, <1>4, <1>5, OwnStage DEF Staging
<1> QED BY <1>1, <1>3, <1>6, StageSet DEF StageInv

\* Steps of a writer that leave its place in the data root or fill its stage.
LEMMA StageInvFill ==
    ASSUME StageInv, NEW w \in Workers, Fill(w) \/ WriteSourceMarker(w)
    PROVE  StageInv'
<1>1. /\ RunShaped /\ run[w].pc = "fill" /\ UNCHANGED <<folder, dataLock>>
      /\ stage[w] = StageRec(stage[w]) /\ stage[w].dir /\ stage[w].markers = {"owner"}
      /\ stage = [v \in Workers |-> stage[v]]
  BY DEF StageInv, StagesFit, StageShaped, Fill, WriteSourceMarker, At
<1>2. ASSUME NEW s, s = StageRec(s), s.dir, s.markers = {"owner"},
             stage' = [stage EXCEPT ![w] = s], RunShaped', run'[w].pc \in {"fill", "publish", "leave"},
             run'[w].fetch = run[w].fetch,
             run'[w].outcome = run[w].outcome \/ run'[w].outcome \notin {"completed", "reused"},
             \A v \in Workers \ {w} : run'[v] = run[v]
      PROVE  StageInv'
  <2>1. EndsFit'
    BY <1>1, <1>2, FinishedKept
  <2>2. s.dir = TRUE
    BY <1>1, <1>2
  <2> QED BY <1>1, <1>2, <2>1, <2>2, OwnStage DEF Staging
<1>3. CASE Fill(w) /\ run' = run
  <2> DEFINE a == First(Unfilled(w))
             f == With(stage[w].files, a, entry[a].file)
             s == [stage[w] EXCEPT !.files = f]
  <2>0. /\ RunShaped' /\ run'[w].pc = "fill" /\ run'[w].outcome = run[w].outcome
        /\ run'[w].fetch = run[w].fetch /\ \A v \in Workers \ {w} : run'[v] = run[v]
    BY <1>1, <1>3 DEF RunShaped
  <2>1. stage' = [stage EXCEPT ![w] = s] \/ UNCHANGED stage
    BY <1>3 DEF Fill
  <2> HIDE DEF f
  <2>2. s = StageRec(s) /\ s.dir /\ s.markers = {"owner"}
    BY <1>1 DEF StageRec, StageFields
  <2>3. CASE stage' = [stage EXCEPT ![w] = s]
    <3> HIDE DEF s
    <3> QED BY <1>2, <2>0, <2>2, <2>3
  <2>4. CASE UNCHANGED stage
    <3>1. stage' = [stage EXCEPT ![w] = stage[w]]
      BY <1>1, <2>4
    <3> QED BY <1>1, <1>2, <2>0, <3>1
  <2> QED BY <2>1, <2>3, <2>4
<1>4. CASE Leave(w, "source_unreadable") /\ UNCHANGED stage
  <2>1. /\ RunShaped' /\ run'[w].pc = "leave" /\ run'[w].outcome = "source_unreadable"
        /\ run'[w].fetch = run[w].fetch
        /\ \A v \in Workers \ {w} : run'[v] = run[v]
    BY <1>1, <1>4, LeaveMoves
  <2>2. stage' = [stage EXCEPT ![w] = stage[w]]
    BY <1>1, <1>4
  <2> QED BY <1>1, <1>2, <2>1, <2>2
<1>5. CASE WriteSourceMarker(w)
  <2> DEFINE m == [a \in Range(plan) |-> run[w].held[a]]
             s == [stage[w] EXCEPT !.sums = m]
  <2>1. stage' = [stage EXCEPT ![w] = s] /\ Goto(w, "publish")
    BY <1>5 DEF WriteSourceMarker
  <2> HIDE DEF m
  <2>2. s = StageRec(s) /\ s.dir /\ s.markers = {"owner"}
    BY <1>1 DEF StageRec, StageFields
  <2>3. /\ RunShaped' /\ run'[w].pc = "publish" /\ run'[w].outcome = run[w].outcome
        /\ run'[w].fetch = run[w].fetch /\ \A v \in Workers \ {w} : run'[v] = run[v]
    BY <1>1, <2>1, GotoMoves
  <2> HIDE DEF s
  <2> QED BY <1>1, <1>2, <2>1, <2>2, <2>3
<1> QED BY <1>3, <1>4, <1>5 DEF Fill

\* The rename that publishes the stage, or the folder another fetch published meanwhile.
LEMMA StageInvPublish == ASSUME StageInv, NEW w \in Workers, Publish(w) PROVE StageInv'
<1>1. /\ RunShaped /\ run[w].pc = "publish" /\ UNCHANGED dataLock
      /\ stage[w] = StageRec(stage[w]) /\ stage[w].dir /\ stage[w].markers = {"owner"}
      /\ stage[w].dir \in BOOLEAN
      /\ stage = [v \in Workers |-> stage[v]] /\ dataLock = w
      /\ \A v \in Workers \ {w} : run[v].pc \notin Staging
      /\ run[w].fetch \in Fetches
  BY Alone DEF StageInv, StagesFit, StageShaped, Publish, At, Staging, EndsFit, FetchFits
<1>2. CASE folder = NoFolder
  <2> DEFINE s == [NoStage EXCEPT !.markers = {"owner"}]
  <2>1. /\ folder' = [identity |-> run[w].fetch.identity, files |-> stage[w].files,
                      sums |-> stage[w].sums]
        /\ stage' = [stage EXCEPT ![w] = s]
        /\ Leave(w, "completed")
    BY <1>2 DEF Publish
  <2>2. /\ RunShaped' /\ run'[w].pc = "leave" /\ run'[w].outcome = "completed"
        /\ run'[w].fetch = run[w].fetch /\ \A v \in Workers \ {w} : run'[v] = run[v]
    BY <1>1, <2>1, LeaveMoves
  <2>3. s = StageRec(s) /\ s.dir = FALSE /\ s.markers = {"owner"}
    BY DEF NoStage, StageRec, StageFields
  <2> HIDE DEF s
  <2>4. folder'.identity = run'[w].fetch.identity /\ folder' # NoFolder
    <3>1. run[w].fetch.identity \in Identities
      BY <1>1 DEF Identities
    <3>2. folder'.identity = run[w].fetch.identity /\ NoFolder.identity = None
      BY <2>1 DEF NoFolder
    <3> QED BY <2>2, <3>1, <3>2, StoreAssumption
  <2>5. \A v \in Workers : run[v].outcome \notin {"completed", "reused"}
    BY <1>2 DEF StageInv, EndsFit, FinishedFetchHasFolder
  <2>6. EndsFit'
    BY <1>1, <2>2, <2>4, <2>5 DEF StageInv, EndsFit, FinishedFetchHasFolder, FreshFits, FetchFits, At
  <2>7. StageShaped' /\ stage'[w] = s /\ \A v \in Workers \ {w} : stage'[v] = stage[v]
    BY <2>1, <2>3, StageSet DEF StageInv
  <2>8. StagesFit'
    <3>1. \A v \in Workers : /\ run'[v].pc \notin {"mark", "fill", "publish"}
                             /\ (run'[v].pc \in Staging) <=> (dataLock' = v)
      BY <1>1, <2>2 DEF Staging
    <3>2. {"owner"} # {}
      OBVIOUS
    <3>3. \A v \in Workers :
             /\ stage'[v].dir \in BOOLEAN
             /\ stage'[v].markers \in {{}, {"pending"}, {"pending", "owner"}, {"owner"}}
             /\ stage'[v].markers = {} => stage'[v] = NoStage
             /\ stage'[v].dir => stage'[v].markers = {"owner"}
      BY <2>3, <2>7, <3>2 DEF StageInv, StagesFit
    <3> QED BY <3>1, <3>3 DEF StagesFit, At
  <2> QED BY <1>1, <2>2, <2>6, <2>7, <2>8 DEF StageInv
<1>3. CASE folder # NoFolder
  <2>1. Leave(w, "source_folder_occupied") /\ UNCHANGED <<folder, stage>>
    BY <1>3 DEF Publish
  <2>2. /\ RunShaped' /\ run'[w].pc = "leave" /\ run'[w].outcome = "source_folder_occupied"
        /\ run'[w].fetch = run[w].fetch /\ \A v \in Workers \ {w} : run'[v] = run[v]
    BY <1>1, <2>1, LeaveMoves
  <2>3. EndsFit'
    BY <1>1, <2>1, <2>2, FinishedKept
  <2>4. stage' = [stage EXCEPT ![w] = stage[w]]
    BY <1>1, <2>1
  <2> DEFINE s == stage[w]
  <2>5. s = StageRec(s) /\ s.dir = TRUE /\ s.markers = {"owner"} /\ stage' = [stage EXCEPT ![w] = s]
    BY <1>1, <2>4
  <2>6. {"owner"} # {}
    OBVIOUS
  <2> HIDE DEF s
  <2> QED BY <1>1, <2>1, <2>2, <2>3, <2>5, <2>6, OwnStage DEF Staging
<1> QED BY <1>2, <1>3

\* The way out of the data root: the directory first, then its marker and the lock.
LEMMA StageInvExit == ASSUME StageInv, NEW w \in Workers, Exit(w) PROVE StageInv'
<1>1. /\ RunShaped /\ run[w].pc = "leave" /\ UNCHANGED folder
      /\ stage[w].dir \in BOOLEAN /\ dataLock = w
      /\ \A v \in Workers \ {w} : run[v].pc \notin Staging
      /\ run[w].fetch \in Fetches
  BY Alone DEF StageInv, StagesFit, Exit, At, Staging, EndsFit, FetchFits
<1>2. CASE stage[w].dir
  <2> DEFINE s == [NoStage EXCEPT !.markers = {"owner"}]
  <2>1. stage' = [stage EXCEPT ![w] = s] /\ UNCHANGED <<run, dataLock>>
    BY <1>2 DEF Exit
  <2>2. s = StageRec(s) /\ s.dir = FALSE /\ s.markers = {"owner"} /\ {"owner"} # {}
    BY DEF NoStage, StageRec, StageFields
  <2> HIDE DEF s
  <2>3. /\ RunShaped' /\ run'[w].pc = "leave" /\ run'[w].fetch = run[w].fetch
        /\ run'[w].outcome = run[w].outcome /\ \A v \in Workers \ {w} : run'[v] = run[v]
    BY <1>1, <2>1 DEF RunShaped
  <2>4. EndsFit'
    BY <1>1, <2>3, FinishedKept
  <2> QED BY <1>1, <2>1, <2>2, <2>3, <2>4, OwnStage DEF Staging
<1>3. CASE ~ stage[w].dir
  <2>1. stage' = [stage EXCEPT ![w] = NoStage] /\ End(w, run[w].outcome) /\ dataLock' = None
    BY <1>3 DEF Exit
  <2>2. /\ RunShaped' /\ run'[w].pc = "ended" /\ run'[w].outcome = run[w].outcome
        /\ run'[w].fetch = run[w].fetch /\ \A v \in Workers \ {w} : run'[v] = run[v]
    BY <1>1, <2>1, EndMoves
  <2>3. EndsFit'
    BY <1>1, <2>2, FinishedKept
  <2>4. NoStage = StageRec(NoStage) /\ NoStage.dir = FALSE /\ NoStage.markers = {}
    BY DEF NoStage, StageRec, StageFields
  <2>5. StageShaped' /\ stage'[w] = NoStage /\ \A v \in Workers \ {w} : stage'[v] = stage[v]
    BY <2>1, <2>4, StageSet DEF StageInv
  <2>6. StagesFit'
    <3>1. \A v \in Workers : /\ run'[v].pc \notin {"mark", "fill", "publish"}
                             /\ (run'[v].pc \in Staging) <=> (dataLock' = v)
      BY <1>1, <2>1, <2>2, StoreAssumption DEF Staging
    <3>3. \A v \in Workers :
             /\ stage'[v].dir \in BOOLEAN
             /\ stage'[v].markers \in {{}, {"pending"}, {"pending", "owner"}, {"owner"}}
             /\ stage'[v].markers = {} => stage'[v] = NoStage
             /\ stage'[v].dir => stage'[v].markers = {"owner"}
      BY <2>4, <2>5 DEF StageInv, StagesFit
    <3> QED BY <3>1, <3>3 DEF StagesFit, At
  <2> QED BY <1>1, <2>1, <2>2, <2>3, <2>5, <2>6 DEF StageInv
<1> QED BY <1>2, <1>3

\* A worker that ends where it stands, with the data root's lock if it held it: its stage
\* keeps its marker.
LEMMA StageInvGone ==
    ASSUME StageInv, NEW w \in Workers, run[w].pc # "new", NEW o, End(w, o),
           o \notin {"completed", "reused"}, UNCHANGED <<folder, stage>>,
           dataLock' = Held(dataLock, w)
    PROVE  StageInv'
<1>1. /\ RunShaped' /\ run'[w].pc = "ended" /\ run'[w].outcome = o
      /\ run'[w].fetch = run[w].fetch /\ \A v \in Workers \ {w} : run'[v] = run[v]
  BY EndMoves DEF StageInv
<1>2. EndsFit'
  BY <1>1, FinishedKept
<1>3. StagesFit'
  <2>1. \A v \in Workers : (run'[v].pc \in Staging) <=> (dataLock' = v)
    BY <1>1, StoreAssumption DEF StageInv, StagesFit, Held, Staging
  <2>2. run'[w].pc \notin {"mark", "fill", "publish"}
    BY <1>1
  <2> QED BY <1>1, <2>1, <2>2 DEF StageInv, StagesFit, At
<1>4. dataLock' \in Workers \cup {None}
  BY DEF StageInv, Held
<1> QED BY <1>1, <1>2, <1>3, <1>4 DEF StageInv, StageShaped

\* A signal sends the holder of the data root's lock through __exit__, others to the end.
LEMMA StageInvTerminate == ASSUME StageInv, NEW w \in Workers, Terminate(w) PROVE StageInv'
<1>1. RunShaped /\ run[w].pc \notin {"new", "leave"} /\ UNCHANGED data
  BY DEF StageInv, Terminate, Live
<1>2. CASE dataLock = w
  <2>1. Leave(w, "stopped") /\ run[w].pc \in Staging
    BY <1>2 DEF Terminate, StageInv, StagesFit
  <2>2. /\ RunShaped' /\ run'[w].pc = "leave" /\ run'[w].outcome = "stopped"
        /\ run'[w].fetch = run[w].fetch /\ \A v \in Workers \ {w} : run'[v] = run[v]
    BY <1>1, <2>1, LeaveMoves
  <2>3. UNCHANGED <<folder, dataLock, stage>>
    BY <1>1 DEF data
  <2>4. EndsFit'
    BY <1>1, <2>2, <2>3, FinishedKept
  <2>5. StagesFit'
    BY <2>1, <2>2, <2>3 DEF StageInv, StagesFit, At, Staging
  <2> QED BY <2>2, <2>3, <2>4, <2>5 DEF StageInv, StageShaped
<1>3. CASE dataLock # w
  <2>1. End(w, "stopped") /\ UNCHANGED <<folder, stage>> /\ dataLock' = Held(dataLock, w)
    BY <1>1, <1>3 DEF Terminate, data, Held
  <2> QED BY <1>1, <2>1, StageInvGone
<1> QED BY <1>2, <1>3

\* Nothing is there at first.
LEMMA StageInvInit == Init => StageInv
<1> SUFFICES ASSUME Init PROVE StageInv
  OBVIOUS
<1>0. Waiting = Rec(Waiting) /\ Waiting.pc = "new" /\ Waiting.outcome = None
  BY DEF Waiting, Rec, Fields
<1>1. NoStage = StageRec(NoStage) /\ NoStage.dir = FALSE /\ NoStage.markers = {}
  BY DEF NoStage, StageRec, StageFields
<1>2. \A w \in Workers : run[w] = Waiting /\ stage[w] = NoStage
  BY DEF Init
<1>3. RunShaped
  <2>1. run = [w \in Workers |-> run[w]]
    BY DEF Init
  <2>2. run = [w \in Workers |-> Rec(run[w])]
    <3> HIDE DEF Rec
    <3> QED BY <1>0, <1>2, <2>1
  <2> QED BY <2>2 DEF RunShaped
<1>4. StageShaped
  <2>1. stage = [w \in Workers |-> stage[w]]
    BY DEF Init
  <2>2. stage = [w \in Workers |-> StageRec(stage[w])]
    <3> HIDE DEF StageRec
    <3> QED BY <1>1, <1>2, <2>1
  <2> QED BY <2>2 DEF StageShaped
<1>5. EndsFit
  BY <1>0, <1>2, StoreAssumption DEF EndsFit, FreshFits, FetchFits, FinishedFetchHasFolder, At
<1>6. dataLock = None
  BY DEF Init
<1>7. StagesFit
  BY <1>0, <1>1, <1>2, <1>6, StoreAssumption DEF StagesFit, At, Staging
<1> QED BY <1>3, <1>4, <1>5, <1>6, <1>7 DEF StageInv

\* Every step keeps the invariant of the data root.
LEMMA StageInvNext == StageInv /\ [Next]_vars => StageInv'
<1> SUFFICES ASSUME StageInv, [Next]_vars PROVE StageInv'
  OBVIOUS
<1>1. /\ RunShaped
      /\ \A w \in Workers : At(w, "new") => run[w].outcome \notin {"completed", "reused"}
  BY DEF StageInv, EndsFit, FreshFits
<1>2. CASE Quiet
  BY <1>2, StageInvQuiet
<1>3. ASSUME NEW w \in Workers, Fill(w) PROVE StageInv'
  BY <1>3, StageInvFill
<1>4. ASSUME NEW w \in Workers, WriteSourceMarker(w) PROVE StageInv'
  BY <1>4, StageInvFill
<1>5. ASSUME NEW w \in Workers, Crash(w) PROVE StageInv'
  <2>1. /\ End(w, "crashed") /\ UNCHANGED <<folder, stage>> /\ dataLock' = Held(dataLock, w)
        /\ run[w].pc # "new"
    BY <1>5 DEF Crash, Live
  <2> QED BY <2>1, StageInvGone
<1> QED BY <1>1, <1>2, <1>3, <1>4, <1>5, StageSteps, StageInvEnter, StageInvRecover,
           StageInvMark, StageInvPublish, StageInvExit, StageInvTerminate

\* The invariant of the data root holds in every reachable state.
THEOREM StageInvariant == Spec => []StageInv
BY StageInvInit, StageInvNext, PTL DEF Spec

\* A stage has the marker by which the next writer finds it, whatever worker stops where
\* (create_owner_marker, recover_staging, __exit__).
THEOREM StagesAreRecoverable == Spec => []StagesRecoverable
<1>1. StageInv => StagesRecoverable
  BY DEF StageInv, StagesFit, StagesRecoverable
<1> QED BY <1>1, StageInvariant, PTL

\* A fetch that reports completed or reused left or found the folder of its own selection
\* (raw_folder_state, DatasetWriter.publish).
THEOREM FinishedFetchesHaveTheirFolder == Spec => []FinishedFetchHasFolder
<1>1. StageInv => FinishedFetchHasFolder
  BY DEF StageInv, EndsFit
<1> QED BY <1>1, StageInvariant, PTL
-----------------------------------------------------------------------------
(* Part two: the cache, while no two live workers hold one unfinished download *)

\* between open_partial and the entry; with the cache lock; with the digests of all files
Past == {"connect", "stream", "complete", "seal", "manifest", "rename"}
Sealing == {"manifest", "rename"}
Writing == {"enter", "recover", "mark", "fill", "publish"}

\* the records of unfinished downloads and of entries
PartFields == {"owner", "part", "final", "manifest"}
PartRec(p) == [f \in PartFields |-> p[f]]
EntryFields == {"file", "manifest"}
EntryRec(e) == [f \in EntryFields |-> e[f]]

\* unfinished downloads
PartsFit ==
    /\ partial = [a \in Assets |-> partial[a]]
    /\ \A a \in Assets : partial[a] # Absent =>
           partial[a] = PartRec(partial[a]) /\ partial[a].part \in Files \cup {Absent}

\* entries: what is there of file and manifest agrees, and agrees with what was known
EntriesFit ==
    /\ entry = [a \in Assets |-> entry[a]]
    /\ \A a \in Assets : entry[a] # Absent =>
           /\ entry[a] = EntryRec(entry[a])
           /\ Absent \notin {entry[a].file, entry[a].manifest} =>
                  entry[a].file = entry[a].manifest
           /\ a \in Known /\ entry[a].file # Absent => entry[a].file = True(a)

\* the cache lock is held exactly between the last name of a part and its entry
LockFits == \A w \in Workers : (run[w].pc \in Sealing) <=> (cacheLock = w)

\* one worker at a time on an asset
Exclusive ==
    \A v, w \in Workers :
        v # w /\ run[v].pc \in Past /\ run[w].pc \in Past => run[v].asset # run[w].asset

CleaningFits == cleanups \in Nat /\ (cleaning # None => cleanups > 0)

\* where a worker stands decides what it has of asset, bytes and descriptor
Place(w) ==
    /\ run[w].pc \in {"open"} \cup Past => run[w].asset \in Range(plan)
    /\ run[w].received \in Nat /\ run[w].digest \in Files
    /\ run[w].pc \in {"new", "needs", "next", "open", "connect"} =>
           run[w].received = 0 /\ run[w].digest = <<>>
    /\ run[w].file = "closed" \/ (At(w, "stream") /\ run[w].file \in {"part", "gone"})
    /\ At(w, "stream") => run[w].file # "closed"

\* the bytes a worker received are those that are there, unless a cleanup took them
Bytes(w) ==
    /\ At(w, "stream") /\ run[w].file = "part" =>
           /\ partial[run[w].asset] = PartRec(partial[run[w].asset])
           /\ partial[run[w].asset].part = run[w].digest
    /\ At(w, "stream") /\ run[w].file = "gone" => partial[run[w].asset] = Absent
    /\ run[w].pc \in {"complete", "seal"} /\ partial[run[w].asset] # Absent =>
           partial[run[w].asset].part = run[w].digest
    /\ run[w].pc \in Sealing =>
           /\ partial[run[w].asset] = PartRec(partial[run[w].asset])
           /\ partial[run[w].asset].part = Absent
           /\ partial[run[w].asset].final = run[w].digest
           /\ entry[run[w].asset] = Absent
    /\ At(w, "rename") => partial[run[w].asset].manifest = run[w].digest
    /\ run[w].pc \in {"complete", "seal"} \cup Sealing /\ run[w].asset \in Known =>
           run[w].digest = True(run[w].asset)

\* the digests a worker goes on with
Holds(w) ==
    /\ run[w].held = [a \in Assets |-> run[w].held[a]]
    /\ \A a \in Assets : run[w].held[a] # None =>
           /\ a \in Known => run[w].held[a] = True(a)
           /\ cleanups = 0 => entry[a] # Absent /\ entry[a].file = run[w].held[a]
    /\ run[w].pc \in Writing => \A a \in Range(plan) : run[w].held[a] # None

\* the stage is filled from the entries
Fills(w) ==
    /\ run[w].pc \in {"fill", "publish"} =>
           /\ DOMAIN stage[w].files \subseteq Range(plan)
           /\ \A a \in DOMAIN stage[w].files :
                  a \in Known \/ cleanups = 0 => stage[w].files[a] = run[w].held[a]
    /\ At(w, "publish") =>
           /\ DOMAIN stage[w].files = Range(plan)
           /\ stage[w].sums = [a \in Range(plan) |-> run[w].held[a]]

\* the inductive invariant of part two
CacheInv ==
    /\ plan \in Plans
    /\ PartsFit /\ EntriesFit /\ LockFits /\ Exclusive /\ CleaningFits
    /\ FolderMatchesMarker
    /\ \A w \in Workers : Place(w) /\ Bytes(w) /\ Holds(w) /\ Fills(w)

\* The least of some natural numbers.
LEMMA LeastIn ==
    ASSUME NEW F \in SUBSET Nat, F # {}
    PROVE  Min(F) \in F
<1>1. PICK x \in F : \A y \in F : ~ (<<y, x>> \in OpToRel(<, Nat))
  <2>1. IsWellFoundedOn(OpToRel(<, Nat), Nat)
    BY NatLessThanWellFounded, Zenon
  <2> QED BY <2>1, WFMin, Zenon
<1>2. ASSUME NEW y \in F PROVE x =< y
  <2>1. <<y, x>> \in Nat \X Nat
    OBVIOUS
  <2>2. ~ (<<y, x>>[1] < <<y, x>>[2])
    BY <1>1, <2>1, Zenon DEF OpToRel
  <2> QED BY <2>2
<1>3. \E m \in F : \A y \in F : m =< y
  BY <1>2
<1> QED BY <1>3, Zenon DEF Min

\* The next file in the order of the plan.
LEMMA FirstIn ==
    ASSUME plan \in Plans, NEW S, S # {}, S \subseteq Range(plan)
    PROVE  First(S) \in S
<1> DEFINE I == {i \in DOMAIN plan : plan[i] \in S}
<1>1. plan \in Seq(Assets)
  BY StoreAssumption
<1>2. I \in SUBSET Nat
  BY <1>1
<1>3. I # {}
  BY DEF Range
<1>4. Min(I) \in I
  <2> HIDE DEF I
  <2> QED BY <1>2, <1>3, LeastIn
<1> QED BY <1>4 DEF First

\* The files of a source are assets.
LEMMA PlanAssets == ASSUME plan \in Plans PROVE Range(plan) \subseteq Assets
BY DEF Assets

\* Chunks, and sequences of them.
LEMMA FileFacts ==
    /\ <<>> \in Files
    /\ \A f \in Files : Len(f) \in Nat
    /\ \A f \in Files, a \in Assets : \A i \in 1..Size[a] : Append(f, i) \in Files
    /\ \A f \in Files : Append(f, Bad) \in Files
<1> DEFINE C == (UNION {1..Size[a] : a \in Assets}) \cup {Bad}
<1>1. Files = Seq(C)
  BY DEF Files
<1>2. Bad \in C /\ \A a \in Assets : \A i \in 1..Size[a] : i \in C
  <2>1. ASSUME NEW a \in Assets, NEW i, i \in 1..Size[a] PROVE i \in C
    <3> DEFINE D == {1..Size[b] : b \in Assets}
    <3>1. 1..Size[a] \in D
      OBVIOUS
    <3> HIDE DEF D
    <3>2. i \in UNION D
      BY <2>1, <3>1
    <3> QED BY <3>2 DEF D
  <2> QED BY <2>1
<1> HIDE DEF C
<1>3. \A f \in Seq(C), c \in C : Append(f, c) \in Seq(C)
  OBVIOUS
<1> QED BY <1>1, <1>2, <1>3

\* No other worker has an asset's descriptor: a rename or a removal moves none.
LEMMA MovedNobody ==
    ASSUME RunShaped, NEW from, NEW a, NEW to,
           \A v \in Workers : ~ (run[v].file = from /\ run[v].asset = a)
    PROVE  Moved(from, a, to) = run
<1>1. Moved(from, a, to) = [v \in Workers |-> run[v]]
  BY DEF Moved
<1>2. run = [v \in Workers |-> run[v]]
  BY DEF RunShaped
<1> QED BY <1>1, <1>2

\* What the steps of one worker have in common.
Elsewhere(w) == /\ \A v \in Workers \ {w} : run'[v] = run[v]
                /\ UNCHANGED <<plan, cleaning, cleanups>>

\* No other worker is at the asset of this one.
Owner(w) == \A v \in Workers \ {w} : run[v].pc \in Past => run[v].asset # run[w].asset

\* A worker between open_partial and its entry is alone at its asset.
LEMMA PastOwns == ASSUME Exclusive, NEW w \in Workers, run[w].pc \in Past PROVE Owner(w)
BY DEF Exclusive, Owner

\* The disk does not change, or only at the asset of this worker.
Confined(w) ==
    \/ UNCHANGED <<partial, entry>>
    \/ /\ Owner(w)
       /\ \A b \in Assets : b # run[w].asset => partial'[b] = partial[b] /\ entry'[b] = entry[b]
       /\ entry'[run[w].asset] = entry[run[w].asset] \/ entry[run[w].asset] = Absent

\* What one worker does, its disk effects confined to its asset, keeps what the others rely on.
LEMMA OthersKeep ==
    ASSUME CacheInv, NEW w \in Workers, Elsewhere(w), NEW v \in Workers \ {w},
           Confined(w),
           stage'[v] = stage[v] \/ run[v].pc \notin {"fill", "publish"}
    PROVE  Place(v)' /\ Bytes(v)' /\ Holds(v)' /\ Fills(v)'
<1>1. /\ plan \in Plans /\ Place(v) /\ Bytes(v) /\ Holds(v) /\ Fills(v) /\ run'[v] = run[v]
      /\ plan' = plan /\ cleanups' = cleanups
  BY DEF CacheInv, Elsewhere
<1>2. Place(v)'
  BY <1>1 DEF Place, At
<1>3. run[v].pc \in Past =>
          /\ partial'[run[v].asset] = partial[run[v].asset]
          /\ entry'[run[v].asset] = entry[run[v].asset]
  <2>1. run[v].pc \in Past => run[v].asset \in Assets
    BY <1>1, PlanAssets DEF Place
  <2> QED BY <2>1 DEF Owner, Confined
<1>4. Bytes(v)'
  <2>1. CASE run[v].pc \in Past
    BY <1>1, <1>3, <2>1 DEF Bytes, At
  <2>2. CASE run[v].pc \notin Past
    BY <1>1, <2>2 DEF Bytes, At, Past, Sealing
  <2> QED BY <2>1, <2>2
<1>5. \A b \in Assets : entry[b] # Absent => entry'[b] = entry[b]
  BY DEF Owner, Confined
<1>6. Holds(v)'
  BY <1>1, <1>5 DEF Holds
<1>7. Fills(v)'
  BY <1>1 DEF Fills, At
<1> QED BY <1>2, <1>4, <1>6, <1>7

\* A step of one worker keeps the invariant if the worker's own part and the disk's do.
LEMMA Assemble ==
    ASSUME CacheInv, NEW w \in Workers, Elsewhere(w), Confined(w),
           \A v \in Workers \ {w} : stage'[v] = stage[v] \/ run[v].pc \notin {"fill", "publish"},
           Place(w)', Bytes(w)', Holds(w)', Fills(w)',
           PartsFit', EntriesFit', LockFits', FolderMatchesMarker',
           run'[w].pc \in Past =>
               \A v \in Workers \ {w} : run[v].pc \in Past => run[v].asset # run'[w].asset
    PROVE  CacheInv'
<1>1. \A v \in Workers : Place(v)' /\ Bytes(v)' /\ Holds(v)' /\ Fills(v)'
  BY OthersKeep
<1>2. Exclusive'
  BY DEF CacheInv, Exclusive, Elsewhere
<1>3. CleaningFits' /\ plan' \in Plans
  BY DEF CacheInv, CleaningFits, Elsewhere
<1> QED BY <1>1, <1>2, <1>3 DEF CacheInv

\* What is said of the folder stays true while it does not change.
LEMMA FolderKept ==
    ASSUME CacheInv, UNCHANGED <<folder, plan>>, cleanups' = 0 => cleanups = 0
    PROVE  FolderMatchesMarker'
BY DEF CacheInv, FolderMatchesMarker

\* What is said of the cache stays true while it does not change.
LEMMA DiskKept ==
    ASSUME CacheInv, UNCHANGED <<partial, entry>> PROVE PartsFit' /\ EntriesFit'
BY DEF CacheInv, PartsFit, EntriesFit

\* The cache lock stays with its holder.
LEMMA LockKept ==
    ASSUME CacheInv, NEW w \in Workers, \A v \in Workers \ {w} : run'[v] = run[v],
           UNCHANGED cacheLock, run'[w].pc \in Sealing <=> run[w].pc \in Sealing
    PROVE  LockFits'
BY DEF CacheInv, LockFits

\* A worker that stops gives the cache lock back if it had it.
LEMMA LockLeft ==
    ASSUME CacheInv, NEW w \in Workers, \A v \in Workers \ {w} : run'[v] = run[v],
           cacheLock' = Held(cacheLock, w), run'[w].pc \notin Sealing
    PROVE  LockFits'
<1>1. ASSUME NEW v \in Workers PROVE (run'[v].pc \in Sealing) <=> (cacheLock' = v)
  <2>1. (run[v].pc \in Sealing) <=> (cacheLock = v)
    BY DEF CacheInv, LockFits
  <2>2. v # None
    BY StoreAssumption
  <2>3. CASE v = w
    BY <2>2, <2>3 DEF Held
  <2>4. CASE v # w
    <3>1. run'[v] = run[v] /\ cacheLock' = IF cacheLock = w THEN None ELSE cacheLock
      BY <2>4 DEF Held
    <3> QED BY <2>1, <2>2, <2>4, <3>1
  <2> QED BY <2>3, <2>4
<1> QED BY <1>1 DEF LockFits

\* What an ended worker's record has.
LEMMA EndedHas ==
    ASSUME NEW r, NEW o
    PROVE  LET e == Ended(r, o)
           IN  /\ e.pc = "ended" /\ e.received = 0 /\ e.digest = <<>> /\ e.file = "closed"
               /\ e.held = [a \in Assets |-> None]
<1>1. Waiting = Rec(Waiting) /\ Waiting.received = 0 /\ Waiting.digest = <<>>
      /\ Waiting.file = "closed" /\ Waiting.held = [a \in Assets |-> None]
  BY DEF Waiting, Rec, Fields
<1> DEFINE h == [a \in Assets |-> None]
<1>2. Waiting = Rec(Waiting) /\ Waiting.held = h
  BY <1>1
<1> HIDE DEF h
<1>3. LET e == Ended(r, o)
      IN  e.pc = "ended" /\ e.received = 0 /\ e.digest = <<>> /\ e.file = "closed" /\ e.held = h
  BY <1>1, <1>2 DEF Ended, Rec, Fields
<1> QED BY <1>3 DEF h

\* A worker that ends leaves nothing to keep.
LEMMA CacheInvEnding ==
    ASSUME CacheInv, NEW w \in Workers, Elsewhere(w), Confined(w),
           \A v \in Workers \ {w} : stage'[v] = stage[v] \/ run[v].pc \notin {"fill", "publish"},
           NEW r, NEW o, run'[w] = Ended(r, o), cacheLock' = Held(cacheLock, w),
           PartsFit', EntriesFit', UNCHANGED folder
    PROVE  CacheInv'
<1>1. /\ run'[w].pc = "ended" /\ run'[w].received = 0 /\ run'[w].digest = <<>>
      /\ run'[w].file = "closed" /\ run'[w].held = [a \in Assets |-> None]
  <2> DEFINE e == Ended(r, o)
  <2>1. /\ e.pc = "ended" /\ e.received = 0 /\ e.digest = <<>> /\ e.file = "closed"
        /\ e.held = [a \in Assets |-> None]
    BY EndedHas
  <2> HIDE DEF e
  <2>2. run'[w] = e
    BY DEF e
  <2> QED BY <2>1, <2>2
<1>2. Place(w)'
  BY <1>1, FileFacts DEF Place, Past, At
<1>3. Bytes(w)'
  BY <1>1 DEF Bytes, At, Sealing
<1>4. Holds(w)'
  BY <1>1 DEF Holds, Writing
<1>5. Fills(w)'
  BY <1>1 DEF Fills, At
<1>6. LockFits'
  BY <1>1, LockLeft DEF Elsewhere, Sealing
<1>7. FolderMatchesMarker'
  BY FolderKept DEF Elsewhere
<1>8. run'[w].pc \notin Past
  BY <1>1 DEF Past
<1> QED BY <1>2, <1>3, <1>4, <1>5, <1>6, <1>7, <1>8, Assemble

\* A worker that is at no asset moves on among the steps that are at none.
LEMMA CacheInvMoving ==
    ASSUME CacheInv, NEW w \in Workers, Elsewhere(w), UNCHANGED disk,
           \A v \in Workers \ {w} : stage'[v] = stage[v] \/ run[v].pc \notin {"fill", "publish"},
           run[w].pc \notin Past, run'[w].pc \notin Past \cup {"new", "needs", "next", "open"},
           run'[w].held = run[w].held, run'[w].received = run[w].received,
           run'[w].digest = run[w].digest, run'[w].file = run[w].file,
           run'[w].pc \in Writing => \A a \in Range(plan) : run[w].held[a] # None,
           Fills(w)', FolderMatchesMarker'
    PROVE  CacheInv'
<1>0. /\ Place(w) /\ Holds(w) /\ Elsewhere(w) /\ UNCHANGED <<partial, entry, cacheLock>>
      /\ "stream" \in Past /\ Sealing \subseteq Past /\ {"complete", "seal", "connect"} \subseteq Past
  BY DEF CacheInv, disk, Past, Sealing
<1>2. Place(w)'
  BY <1>0 DEF Place, At
<1>3. Bytes(w)'
  BY <1>0 DEF Bytes, At, Sealing, Past
<1>4. Holds(w)'
  BY <1>0 DEF Holds, Elsewhere
<1>5. LockFits'
  BY <1>0, LockKept DEF Elsewhere
<1>6. Confined(w)
  BY <1>0 DEF Confined
<1> QED BY <1>0, <1>2, <1>3, <1>4, <1>5, <1>6, DiskKept, Assemble

\* The rest of a record when a worker only moves on.
LEMMA GotoKeeps ==
    ASSUME RunShaped, NEW w \in Workers, NEW s, Goto(w, s)
    PROVE  /\ run'[w].pc = s /\ run'[w].asset = run[w].asset
           /\ run'[w].held = run[w].held /\ run'[w].received = run[w].received
           /\ run'[w].digest = run[w].digest /\ run'[w].file = run[w].file
           /\ run'[w].fetch = run[w].fetch
           /\ \A v \in Workers \ {w} : run'[v] = run[v]
<1>1. /\ run'[w] = [run[w] EXCEPT !.pc = s] /\ run[w] = Rec(run[w])
      /\ \A v \in Workers \ {w} : run'[v] = run[v]
  BY GotoMoves DEF RunShaped
<1> QED BY <1>1 DEF Rec, Fields

\* The rest of a record when a writer goes to its way out.
LEMMA LeaveKeeps ==
    ASSUME RunShaped, NEW w \in Workers, NEW o, Leave(w, o)
    PROVE  /\ run'[w].pc = "leave" /\ run'[w].asset = run[w].asset
           /\ run'[w].held = run[w].held /\ run'[w].received = run[w].received
           /\ run'[w].digest = run[w].digest /\ run'[w].file = run[w].file
           /\ run'[w].fetch = run[w].fetch
           /\ \A v \in Workers \ {w} : run'[v] = run[v]
<1>1. /\ run'[w] = [run[w] EXCEPT !.pc = "leave", !.outcome = o] /\ run[w] = Rec(run[w])
      /\ \A v \in Workers \ {w} : run'[v] = run[v]
  BY LeaveMoves DEF RunShaped
<1> QED BY <1>1 DEF Rec, Fields

\* A worker that is not publishing an entry has no cache lock to give back.
LEMMA NoLock ==
    ASSUME CacheInv, NEW w \in Workers, run[w].pc \notin Sealing, UNCHANGED cacheLock
    PROVE  cacheLock' = Held(cacheLock, w)
BY DEF CacheInv, LockFits, Held

\* A worker that only ends.
LEMMA CacheInvStops ==
    ASSUME CacheInv, RunShaped, NEW w \in Workers, NEW o, End(w, o),
           UNCHANGED <<plan, cleaning, cleanups, partial, entry, folder>>,
           \A v \in Workers \ {w} : stage'[v] = stage[v] \/ run[v].pc \notin {"fill", "publish"},
           cacheLock' = Held(cacheLock, w)
    PROVE  CacheInv'
<1>1. Elsewhere(w) /\ run'[w] = Ended(run[w], o)
  BY EndMoves DEF Elsewhere
<1>2. Confined(w)
  BY DEF Confined
<1> QED BY <1>1, <1>2, DiskKept, CacheInvEnding

\* A writer that goes on or leaves, with nothing written.
LEMMA CacheInvGoes ==
    ASSUME CacheInv, RunShaped, NEW w \in Workers, NEW s, Goto(w, s),
           UNCHANGED <<plan, cleaning, cleanups, partial, entry, cacheLock, folder>>,
           \A v \in Workers \ {w} : stage'[v] = stage[v] \/ run[v].pc \notin {"fill", "publish"},
           run[w].pc \in Writing, s \in {"recover", "mark"}
    PROVE  CacheInv'
<1>1. /\ Elsewhere(w) /\ run'[w].pc = s
      /\ run'[w].held = run[w].held /\ run'[w].received = run[w].received
      /\ run'[w].digest = run[w].digest /\ run'[w].file = run[w].file
  BY GotoKeeps DEF Elsewhere
<1>2. Fills(w)'
  BY <1>1 DEF Fills, At
<1>3. \A a \in Range(plan) : run[w].held[a] # None
  BY DEF CacheInv, Holds
<1>4. run[w].pc \notin Past /\ run'[w].pc \notin Past \cup {"new", "needs", "next", "open"}
  BY <1>1 DEF Past, Writing
<1> QED BY <1>1, <1>2, <1>3, <1>4, FolderKept, CacheInvMoving DEF disk

\* A writer on its way out through __exit__.
LEMMA CacheInvLeaves ==
    ASSUME CacheInv, RunShaped, NEW w \in Workers, NEW o, Leave(w, o),
           UNCHANGED <<plan, cleaning, cleanups, partial, entry, cacheLock>>,
           \A v \in Workers \ {w} : stage'[v] = stage[v] \/ run[v].pc \notin {"fill", "publish"},
           run[w].pc \in Staging, FolderMatchesMarker'
    PROVE  CacheInv'
<1>1. /\ Elsewhere(w) /\ run'[w].pc = "leave"
      /\ run'[w].held = run[w].held /\ run'[w].received = run[w].received
      /\ run'[w].digest = run[w].digest /\ run'[w].file = run[w].file
  BY LeaveKeeps DEF Elsewhere
<1>2. Fills(w)'
  BY <1>1 DEF Fills, At
<1>4. /\ run[w].pc \notin Past /\ run'[w].pc \notin Past \cup {"new", "needs", "next", "open"}
      /\ run'[w].pc \notin Writing
  BY <1>1 DEF Past, Writing, Staging
<1> QED BY <1>1, <1>2, <1>4, CacheInvMoving DEF disk

\* DatasetWriter.__enter__.
LEMMA CacheInvEnter == ASSUME CacheInv, StageInv, NEW w \in Workers, Enter(w) PROVE CacheInv'
<1>1. /\ run[w].pc = "enter" /\ run[w].pc \notin Sealing /\ run[w].pc \in Writing
      /\ UNCHANGED <<plan, cleaning, cleanups, partial, entry, cacheLock, folder, stage>>
  BY DEF Enter, At, disk, service, Sealing, Writing
<1>2. RunShaped
  BY DEF StageInv
<1>3. CASE Goto(w, "recover")
  BY <1>1, <1>2, <1>3, CacheInvGoes
<1>4. CASE End(w, "dataset_busy")
  BY <1>1, <1>2, <1>4, NoLock, CacheInvStops
<1> QED BY <1>3, <1>4 DEF Enter

\* recover_staging removes stages of workers that do not write any more.
LEMMA CacheInvRecover ==
    ASSUME CacheInv, StageInv, NEW w \in Workers, RecoverStaging(w) PROVE CacheInv'
<1>1. /\ run[w].pc = "recover" /\ run[w].pc \notin Sealing /\ run[w].pc \in Writing
      /\ UNCHANGED <<plan, cleaning, cleanups, partial, entry, cacheLock, folder>>
  BY DEF RecoverStaging, At, disk, service, Sealing, Writing
<1>2. RunShaped
  BY DEF StageInv
<1>3. \A v \in Workers \ {w} : run[v].pc \notin {"fill", "publish"}
  BY <1>1, Alone DEF Staging
<1>4. CASE Goto(w, "mark")
  BY <1>1, <1>2, <1>3, <1>4, CacheInvGoes
<1>5. CASE End(w, "dataset_storage")
  BY <1>1, <1>2, <1>3, <1>5, NoLock, CacheInvStops
<1> QED BY <1>4, <1>5 DEF RecoverStaging

\* The marker and the directory: the stage that is to be filled is empty.
LEMMA CacheInvMark == ASSUME CacheInv, StageInv, NEW w \in Workers, Mark(w) PROVE CacheInv'
<1>1. /\ run[w].pc = "mark" /\ RunShaped
      /\ UNCHANGED <<plan, cleaning, cleanups, partial, entry, cacheLock, folder>>
      /\ stage'[w].files = <<>> /\ \A v \in Workers \ {w} : stage'[v] = stage[v]
  BY StageInvMark DEF Mark, At, disk, service, StageInv
<1>2. /\ run'[w].pc \in {"mark", "fill"} /\ Elsewhere(w)
      /\ run'[w].held = run[w].held /\ run'[w].received = run[w].received
      /\ run'[w].digest = run[w].digest /\ run'[w].file = run[w].file
  <2>1. CASE Goto(w, "fill")
    BY <1>1, <2>1, GotoKeeps DEF Elsewhere
  <2>2. CASE UNCHANGED run
    BY <1>1, <2>2 DEF Elsewhere
  <2> QED BY <2>1, <2>2 DEF Mark
<1>3. Fills(w)'
  <2>1. DOMAIN stage'[w].files = {}
    BY <1>1
  <2> QED BY <1>2, <2>1 DEF Fills, At
<1>4. \A a \in Range(plan) : run[w].held[a] # None
  BY <1>1 DEF CacheInv, Holds, Writing
<1>5. run[w].pc \notin Past /\ run'[w].pc \notin Past \cup {"new", "needs", "next", "open"}
  BY <1>1, <1>2 DEF Past
<1> QED BY <1>1, <1>2, <1>3, <1>4, <1>5, FolderKept, CacheInvMoving DEF disk

\* _materialize_asset: what is read of an entry is what the worker's digest names.
LEMMA CacheInvFill == ASSUME CacheInv, StageInv, NEW w \in Workers, Fill(w) PROVE CacheInv'
<1>1. /\ run[w].pc = "fill" /\ RunShaped /\ run[w].pc \in Staging
      /\ UNCHANGED <<plan, cleaning, cleanups, partial, entry, cacheLock, folder>>
      /\ stage = [v \in Workers |-> stage[v]] /\ stage[w] = StageRec(stage[w])
  BY DEF Fill, At, disk, service, StageInv, StageShaped, Staging
<1>2. CASE Leave(w, "source_unreadable") /\ UNCHANGED stage
  BY <1>1, <1>2, FolderKept, CacheInvLeaves
<1>3. CASE ~ (Leave(w, "source_unreadable") /\ UNCHANGED stage)
  <2> DEFINE a == First(Unfilled(w))
             g == With(stage[w].files, a, entry[a].file)
  <2>1. /\ UNCHANGED run /\ stage' = [stage EXCEPT ![w].files = g]
        /\ entry[a] # Absent /\ entry[a].file # Absent /\ Unfilled(w) # {}
    BY <1>3 DEF Fill
  <2>2. a \in Range(plan) /\ a \notin DOMAIN stage[w].files
    <3>1. First(Unfilled(w)) \in Unfilled(w)
      BY <2>1, FirstIn DEF Unfilled, CacheInv
    <3> QED BY <3>1 DEF Unfilled
  <2>3. /\ DOMAIN g = DOMAIN stage[w].files \cup {a} /\ g[a] = entry[a].file
        /\ \A b \in DOMAIN stage[w].files : g[b] = stage[w].files[b]
    <3> HIDE DEF a
    <3> DEFINE f == stage[w].files
               x == entry[a].file
    <3>1. a \notin DOMAIN f
      BY <2>2
    <3> HIDE DEF f, x
    <3>2. /\ DOMAIN With(f, a, x) = DOMAIN f \cup {a} /\ With(f, a, x)[a] = x
          /\ \A b \in DOMAIN f : With(f, a, x)[b] = f[b]
      BY <3>1 DEF With
    <3> QED BY <3>2 DEF f, x
  <2> HIDE DEF g
  <2>4. stage'[w].files = g /\ \A v \in Workers \ {w} : stage'[v] = stage[v]
    BY <1>1, <2>1 DEF StageRec, StageFields
  <2>5. /\ a \in Assets /\ run[w].held[a] # None
        /\ a \in Known => run[w].held[a] = True(a) /\ entry[a].file = True(a)
        /\ cleanups = 0 => entry[a].file = run[w].held[a]
    <3>1. a \in Assets
      BY <2>2, PlanAssets DEF CacheInv
    <3>2. run[w].held[a] # None
      BY <1>1, <2>2 DEF CacheInv, Holds, Writing
    <3>3. /\ a \in Known => run[w].held[a] = True(a)
          /\ cleanups = 0 => entry[a].file = run[w].held[a]
      BY <3>1, <3>2 DEF CacheInv, Holds
    <3>4. a \in Known => entry[a].file = True(a)
      BY <2>1, <3>1 DEF CacheInv, EntriesFit
    <3> QED BY <3>1, <3>2, <3>3, <3>4
  <2> HIDE DEF a
  <2>6. Fills(w)
    BY DEF CacheInv
  <2>7. Fills(w)'
    BY <1>1, <2>1, <2>2, <2>3, <2>4, <2>5, <2>6 DEF Fills, At
  <2>8. Elsewhere(w)
    BY <1>1, <2>1 DEF Elsewhere
  <2>9. \A b \in Range(plan) : run[w].held[b] # None
    BY <1>1 DEF CacheInv, Holds, Writing
  <2>10. run[w].pc \notin Past /\ run'[w].pc \notin Past \cup {"new", "needs", "next", "open"}
    BY <1>1, <2>1 DEF Past
  <2> QED BY <1>1, <2>1, <2>4, <2>7, <2>8, <2>9, <2>10, FolderKept, CacheInvMoving DEF disk
<1> QED BY <1>2, <1>3

\* write_source_marker lists the digests of what was read.
LEMMA CacheInvMarker ==
    ASSUME CacheInv, StageInv, NEW w \in Workers, WriteSourceMarker(w) PROVE CacheInv'
<1> DEFINE m == [a \in Range(plan) |-> run[w].held[a]]
<1>1. /\ run[w].pc = "fill" /\ RunShaped /\ Goto(w, "publish") /\ Unfilled(w) = {}
      /\ UNCHANGED <<plan, cleaning, cleanups, partial, entry, cacheLock, folder>>
      /\ stage = [v \in Workers |-> stage[v]] /\ stage[w] = StageRec(stage[w])
      /\ stage' = [stage EXCEPT ![w].sums = m]
  BY DEF WriteSourceMarker, At, disk, service, StageInv, StageShaped
<1>2. /\ Elsewhere(w) /\ run'[w].pc = "publish"
      /\ run'[w].held = run[w].held /\ run'[w].received = run[w].received
      /\ run'[w].digest = run[w].digest /\ run'[w].file = run[w].file
  BY <1>1, GotoKeeps DEF Elsewhere
<1>a. m = [a \in Range(plan') |-> run'[w].held[a]]
  BY <1>1, <1>2
<1> HIDE DEF m
<1>3. /\ stage'[w].files = stage[w].files /\ stage'[w].sums = m
      /\ \A v \in Workers \ {w} : stage'[v] = stage[v]
  BY <1>1 DEF StageRec, StageFields
<1>4. Fills(w) /\ plan' = plan /\ cleanups' = cleanups
  BY <1>1 DEF CacheInv
<1>5. DOMAIN stage[w].files = Range(plan)
  BY <1>1, <1>4 DEF Fills, Unfilled
<1>6. Fills(w)'
  BY <1>1, <1>2, <1>3, <1>4, <1>5, <1>a DEF Fills, At
<1>7. \A b \in Range(plan) : run[w].held[b] # None
  BY <1>1 DEF CacheInv, Holds, Writing
<1>8. run[w].pc \notin Past /\ run'[w].pc \notin Past \cup {"new", "needs", "next", "open"}
  BY <1>1, <1>2 DEF Past
<1> QED BY <1>1, <1>2, <1>3, <1>6, <1>7, <1>8, FolderKept, CacheInvMoving DEF disk

\* DatasetWriter.publish: the folder is the stage, so its marker is right.
LEMMA CacheInvPublish ==
    ASSUME CacheInv, StageInv, NEW w \in Workers, Publish(w) PROVE CacheInv'
<1>1. /\ run[w].pc = "publish" /\ RunShaped /\ run[w].pc \in Staging
      /\ UNCHANGED <<plan, cleaning, cleanups, partial, entry, cacheLock>>
  BY DEF Publish, At, disk, service, StageInv, Staging
<1>2. \A v \in Workers \ {w} : run[v].pc \notin {"fill", "publish"}
  BY <1>1, Alone DEF Staging
<1>3. Fills(w)
  BY DEF CacheInv
<1>4. CASE folder = NoFolder
  <2>1. /\ Leave(w, "completed")
        /\ folder' = [identity |-> run[w].fetch.identity, files |-> stage[w].files,
                      sums |-> stage[w].sums]
    BY <1>4 DEF Publish
  <2>2. /\ DOMAIN folder'.files = Range(plan)
        /\ \A a \in Range(plan) : folder'.sums[a] = run[w].held[a]
        /\ \A a \in Range(plan) :
               a \in Known \/ cleanups = 0 => folder'.files[a] = run[w].held[a]
    BY <1>1, <1>3, <2>1 DEF Fills, At
  <2>3. FolderMatchesMarker'
    BY <1>1, <2>2 DEF FolderMatchesMarker
  <2> QED BY <1>1, <1>2, <2>1, <2>3, CacheInvLeaves
<1>5. CASE folder # NoFolder
  <2>1. Leave(w, "source_folder_occupied") /\ UNCHANGED folder
    BY <1>5 DEF Publish
  <2> QED BY <1>1, <1>2, <2>1, FolderKept, CacheInvLeaves
<1> QED BY <1>4, <1>5

\* __exit__ touches no cache.
LEMMA CacheInvExit == ASSUME CacheInv, StageInv, NEW w \in Workers, Exit(w) PROVE CacheInv'
<1>1. /\ run[w].pc = "leave" /\ RunShaped /\ run[w].pc \notin Sealing
      /\ UNCHANGED <<plan, cleaning, cleanups, partial, entry, cacheLock, folder>>
  BY DEF Exit, At, disk, service, StageInv, Sealing
<1>2. \A v \in Workers \ {w} : run[v].pc \notin {"fill", "publish"}
  BY <1>1, Alone DEF Staging
<1>3. CASE End(w, run[w].outcome)
  BY <1>1, <1>2, <1>3, NoLock, CacheInvStops
<1>4. CASE UNCHANGED run
  <2>1. Elsewhere(w)
    BY <1>1, <1>4 DEF Elsewhere
  <2>2. Fills(w)'
    BY <1>1, <1>4 DEF Fills, At
  <2>3. /\ run[w].pc \notin Past /\ run'[w].pc \notin Past \cup {"new", "needs", "next", "open"}
        /\ run'[w].pc \notin Writing
    BY <1>1, <1>4 DEF Past, Writing
  <2> QED BY <1>1, <1>2, <1>4, <2>1, <2>2, <2>3, FolderKept, CacheInvMoving DEF disk
<1> QED BY <1>3, <1>4 DEF Exit

\* A signal leaves the files as they are.
LEMMA CacheInvTerminate ==
    ASSUME CacheInv, StageInv, NEW w \in Workers, Terminate(w) PROVE CacheInv'
<1>1. /\ RunShaped /\ UNCHANGED <<plan, cleaning, cleanups, partial, entry, folder, stage>>
      /\ cacheLock' = Held(cacheLock, w)
  BY DEF Terminate, data, service, StageInv
<1>2. CASE End(w, "stopped")
  BY <1>1, <1>2, CacheInvStops
<1>3. CASE dataLock = w
  <2>1. Leave(w, "stopped") /\ run[w].pc \in Staging
    BY <1>3 DEF Terminate, StageInv, StagesFit
  <2>2. cacheLock' = cacheLock
    <3>1. run[w].pc \notin Sealing
      BY <2>1 DEF Staging, Sealing
    <3> QED BY <1>1, <3>1 DEF CacheInv, LockFits, Held
  <2> QED BY <1>1, <2>1, <2>2, FolderKept, CacheInvLeaves
<1> QED BY <1>2, <1>3 DEF Terminate

\* A crash leaves the files as they are and gives the locks back.
LEMMA CacheInvCrash ==
    ASSUME CacheInv, StageInv, NEW w \in Workers, Crash(w) PROVE CacheInv'
<1>1. /\ RunShaped /\ UNCHANGED <<plan, cleaning, cleanups, partial, entry, folder, stage>>
      /\ cacheLock' = Held(cacheLock, w) /\ End(w, "crashed")
  BY DEF Crash, service, StageInv
<1> QED BY <1>1, CacheInvStops

\* A worker that looks around: it is at no asset yet, and has received nothing.
LEMMA CacheInvLooking ==
    ASSUME CacheInv, NEW w \in Workers, Elsewhere(w), UNCHANGED <<disk, data>>,
           run[w].pc \notin Past, run'[w].pc \in {"needs", "next", "open"},
           run'[w].received = 0, run'[w].digest = <<>>, run'[w].file = "closed",
           run'[w].pc = "open" => run'[w].asset \in Range(plan),
           Holds(w)'
    PROVE  CacheInv'
<1>1. UNCHANGED <<partial, entry, cacheLock, folder, stage, plan, cleanups>>
  BY DEF disk, data, Elsewhere
<1>2. Place(w)'
  BY <1>1, FileFacts DEF Place, Past, At
<1>3. Bytes(w)' /\ Fills(w)'
  BY DEF Bytes, Fills, At, Sealing
<1>4. LockFits'
  <2>1. run'[w].pc \notin Sealing /\ run[w].pc \notin Sealing
    BY DEF Sealing, Past
  <2> QED BY <1>1, <2>1, LockKept DEF Elsewhere
<1>5. Confined(w) /\ run'[w].pc \notin Past
  BY <1>1 DEF Confined, Past
<1> QED BY <1>1, <1>2, <1>3, <1>4, <1>5, DiskKept, FolderKept, Assemble

\* A fetch begins or finds its folder at once.
LEMMA CacheInvBegin ==
    ASSUME CacheInv, StageInv, NEW w \in Workers, NEW f \in Fetches, Begin(w, f)
    PROVE  CacheInv'
<1> DEFINE r0 == [run[w] EXCEPT !.fetch = f]
           r1 == [r0 EXCEPT !.pc = "needs"]
           r == CASE FolderState(f.identity) = "available" -> r1
                  [] FolderState(f.identity) = "reusable" -> Ended(r0, "reused")
                  [] OTHER -> Ended(r0, "source_folder_occupied")
<1>1. /\ run' = [run EXCEPT ![w] = r] /\ run[w].pc = "new"
      /\ UNCHANGED <<disk, data, service>>
  BY Zenon DEF Begin, At
<1>2. run[w] = Rec(run[w]) /\ run = [v \in Workers |-> run[v]]
  BY DEF RunShaped, StageInv
<1>3. /\ r1.pc = "needs" /\ r1.held = run[w].held /\ r1.received = run[w].received
      /\ r1.digest = run[w].digest /\ r1.file = run[w].file
  BY <1>2 DEF Rec, Fields
<1>4. r = r1 \/ \E o \in {"reused", "source_folder_occupied"} : r = Ended(r0, o)
  OBVIOUS
<1> HIDE DEF r0, r1, r
<1>5. Elsewhere(w) /\ run'[w] = r
  BY <1>1, <1>2 DEF Elsewhere, service
<1>6. /\ run[w].pc \notin Past /\ run[w].received = 0 /\ run[w].digest = <<>>
      /\ run[w].file = "closed" /\ run[w].pc \notin Sealing
  BY <1>1 DEF CacheInv, Place, At, Past, Sealing
<1>7. CASE r = r1
  <2>1. Holds(w) /\ UNCHANGED <<plan, entry, cleanups>>
    BY <1>1 DEF CacheInv, disk, service
  <2>2. run'[w].pc = "needs" /\ run'[w].held = run[w].held
    BY <1>3, <1>5, <1>7
  <2>3. Holds(w)'
    BY <2>1, <2>2 DEF Holds, Writing
  <2> QED BY <1>1, <1>3, <1>5, <1>6, <1>7, <2>2, <2>3, CacheInvLooking
<1>8. CASE \E o \in {"reused", "source_folder_occupied"} : r = Ended(r0, o)
  <2>1. PICK o \in {"reused", "source_folder_occupied"} : run'[w] = Ended(r0, o)
    BY <1>5, <1>8
  <2>2. UNCHANGED <<partial, entry, cacheLock, folder, stage>>
    BY <1>1 DEF disk, data
  <2>3. Confined(w) /\ cacheLock' = Held(cacheLock, w)
    BY <1>6, <2>2, NoLock DEF Confined
  <2> QED BY <1>5, <2>1, <2>2, <2>3, DiskKept, CacheInvEnding
<1> QED BY <1>4, <1>7, <1>8

\* asset_needs goes on with verified entries only.
LEMMA CacheInvNeeds == ASSUME CacheInv, StageInv, NEW w \in Workers, Needs(w) PROVE CacheInv'
<1> DEFINE h == [a \in Assets |-> IF Whole(a) THEN entry[a].manifest ELSE None]
           r == [run[w] EXCEPT !.pc = "next", !.held = h]
<1>1. /\ run' = [run EXCEPT ![w] = r] /\ run[w].pc = "needs"
      /\ UNCHANGED <<disk, data, service>>
  BY DEF Needs, At
<1>2. run[w] = Rec(run[w]) /\ run = [v \in Workers |-> run[v]]
  BY DEF RunShaped, StageInv
<1>a. /\ h = [a \in Assets |-> h[a]]
      /\ \A a \in Assets : h[a] # None => Whole(a) /\ h[a] = entry[a].manifest
  OBVIOUS
<1> HIDE DEF h
<1>3. /\ r.pc = "next" /\ r.held = h /\ r.received = run[w].received
      /\ r.digest = run[w].digest /\ r.file = run[w].file
  BY <1>2 DEF Rec, Fields
<1> HIDE DEF r
<1>5. Elsewhere(w) /\ run'[w] = r
  BY <1>1, <1>2 DEF Elsewhere, service
<1>6. /\ run[w].pc \notin Past /\ run[w].received = 0 /\ run[w].digest = <<>>
      /\ run[w].file = "closed"
  BY <1>1 DEF CacheInv, Place, At, Past
<1>7. Holds(w)'
  <2>1. UNCHANGED <<plan, entry, cleanups>> /\ run'[w].held = h /\ run'[w].pc = "next"
    BY <1>1, <1>3, <1>5 DEF disk, service
  <2>2. ASSUME NEW a \in Assets, h[a] # None
        PROVE  /\ a \in Known => h[a] = True(a)
               /\ entry[a] # Absent /\ entry[a].file = h[a]
    <3>1. Whole(a) /\ h[a] = entry[a].manifest
      BY <1>a, <2>2
    <3> QED BY <3>1 DEF Whole, CacheInv, EntriesFit
  <2> QED BY <1>a, <2>1, <2>2 DEF Holds, Writing
<1>8. run'[w].pc = "next"
  BY <1>3, <1>5
<1> QED BY <1>1, <1>3, <1>5, <1>6, <1>7, <1>8, CacheInvLooking

\* ensure_assets: the next file that is wanted, or the data root when none is.
LEMMA CacheInvNext1 == ASSUME CacheInv, StageInv, NEW w \in Workers, Next1(w) PROVE CacheInv'
<1>1. /\ run[w].pc = "next" /\ UNCHANGED <<disk, data, service>> /\ RunShaped
      /\ run[w] = Rec(run[w]) /\ run = [v \in Workers |-> run[v]]
      /\ UNCHANGED <<plan, cleaning, cleanups, partial, entry, cacheLock, folder, stage>>
  BY DEF Next1, At, RunShaped, StageInv, disk, data, service
<1>2. /\ run[w].pc \notin Past /\ run[w].received = 0 /\ run[w].digest = <<>>
      /\ run[w].file = "closed" /\ run[w].pc \notin Sealing /\ Holds(w)
  BY <1>1 DEF CacheInv, Place, At, Past, Sealing
<1>3. CASE Wanted(w) # {}
  <2> DEFINE a == First(Wanted(w))
             r == [run[w] EXCEPT !.pc = "open", !.asset = a]
  <2>1. run' = [run EXCEPT ![w] = r]
    BY <1>3 DEF Next1
  <2>2. a \in Range(plan)
    <3>1. a \in Wanted(w)
      BY <1>3, FirstIn DEF Wanted, CacheInv
    <3> QED BY <3>1 DEF Wanted
  <2> HIDE DEF a
  <2>3. /\ r.pc = "open" /\ r.held = run[w].held /\ r.received = run[w].received
        /\ r.digest = run[w].digest /\ r.file = run[w].file /\ r.asset = a
    BY <1>1 DEF Rec, Fields
  <2> HIDE DEF r
  <2>4. Elsewhere(w) /\ run'[w] = r
    BY <1>1, <2>1 DEF Elsewhere
  <2>5. run'[w].pc = "open" /\ run'[w].held = run[w].held
    BY <2>3, <2>4
  <2>6. Holds(w)'
    BY <1>1, <1>2, <2>5 DEF Holds, Writing
  <2> QED BY <1>1, <1>2, <2>2, <2>3, <2>4, <2>5, <2>6, CacheInvLooking
<1>4. CASE Wanted(w) = {}
  <2>1. PICK o \in {"reused", "source_folder_occupied"} : Goto(w, "enter") \/ End(w, o)
    BY <1>4 DEF Next1
  <2>2. CASE End(w, o)
    BY <1>1, <1>2, <2>2, NoLock, CacheInvStops
  <2>3. CASE Goto(w, "enter")
    <3>1. /\ Elsewhere(w) /\ run'[w].pc = "enter"
          /\ run'[w].held = run[w].held /\ run'[w].received = run[w].received
          /\ run'[w].digest = run[w].digest /\ run'[w].file = run[w].file
      BY <1>1, <2>3, GotoKeeps DEF Elsewhere
    <3>2. \A a \in Range(plan) : run[w].held[a] # None
      BY <1>4 DEF Wanted
    <3>3. Fills(w)'
      BY <3>1 DEF Fills, At
    <3>4. run'[w].pc \notin Past \cup {"new", "needs", "next", "open"}
      BY <3>1 DEF Past
    <3> QED BY <1>1, <1>2, <3>1, <3>2, <3>3, <3>4, FolderKept, CacheInvMoving
  <2> QED BY <2>1, <2>2, <2>3
<1> QED BY <1>3, <1>4

\* One unfinished download changes.
LEMMA PartSet ==
    ASSUME PartsFit, NEW a \in Assets, NEW p, partial' = [partial EXCEPT ![a] = p],
           p # Absent => p = PartRec(p) /\ p.part \in Files \cup {Absent}
    PROVE  /\ PartsFit' /\ partial'[a] = p
           /\ \A b \in Assets : b # a => partial'[b] = partial[b]
<1>1. \A b \in Assets : partial'[b] = IF b = a THEN p ELSE partial[b]
  BY DEF PartsFit
<1>2. partial' = [b \in Assets |-> partial'[b]]
  BY DEF PartsFit
<1>3. PartsFit'
  <2>1. ASSUME NEW b \in Assets, partial'[b] # Absent
        PROVE  partial'[b] = PartRec(partial'[b]) /\ partial'[b].part \in Files \cup {Absent}
    <3> HIDE DEF PartRec
    <3>1. CASE b = a
      BY <1>1, <2>1, <3>1
    <3>2. CASE b # a
      BY <1>1, <2>1, <3>2 DEF PartsFit
    <3> QED BY <3>1, <3>2
  <2> HIDE DEF PartRec
  <2> QED BY <1>2, <2>1 DEF PartsFit
<1> QED BY <1>1, <1>3

\* The part file of one unfinished download changes.
LEMMA BytesSet ==
    ASSUME PartsFit, NEW a \in Assets, NEW d, partial' = [partial EXCEPT ![a].part = d],
           partial[a] = PartRec(partial[a]), d \in Files \cup {Absent}
    PROVE  /\ PartsFit' /\ partial'[a] = PartRec(partial'[a]) /\ partial'[a].part = d
           /\ \A b \in Assets : b # a => partial'[b] = partial[b]
<1> DEFINE p == [partial[a] EXCEPT !.part = d]
<1>1. p = PartRec(p) /\ p.part = d
  BY DEF PartRec, PartFields
<1>2. partial' = [partial EXCEPT ![a] = p]
  OBVIOUS
<1> HIDE DEF p
<1>3. /\ PartsFit' /\ partial'[a] = p
      /\ \A b \in Assets : b # a => partial'[b] = partial[b]
  BY <1>1, <1>2, PartSet
<1> QED BY <1>1, <1>3

\* A worker at an asset: what it changes is there.
LEMMA CacheInvAtAsset ==
    ASSUME CacheInv, NEW w \in Workers, Elsewhere(w), Owner(w), run[w].asset \in Range(plan),
           UNCHANGED <<entry, data>>, PartsFit',
           \A b \in Assets : b # run[w].asset => partial'[b] = partial[b],
           run'[w].asset = run[w].asset, run'[w].held = run[w].held,
           run'[w].pc \in Past,
           Place(w)', Bytes(w)', LockFits'
    PROVE  CacheInv'
<1>1. UNCHANGED <<plan, cleanups, folder, stage>> /\ Holds(w)
  BY DEF Elsewhere, data, CacheInv
<1>2. Holds(w)'
  BY <1>1 DEF Holds, Writing, Past
<1>3. Fills(w)'
  BY DEF Fills, At, Past
<1>4. Confined(w) /\ EntriesFit'
  BY DEF Confined, CacheInv, EntriesFit
<1> QED BY <1>1, <1>2, <1>3, <1>4, FolderKept, Assemble DEF Owner

\* open_partial while no other live worker is at the asset: the descriptor is alone.
LEMMA CacheInvOpen ==
    ASSUME SharedPartials = FALSE, CacheInv, StageInv, NEW w \in Workers, OpenPartial(w)
    PROVE  CacheInv'
<1> DEFINE a == run[w].asset
           p == IF Adoptable(a) THEN [partial[a] EXCEPT !.owner = run[w].fetch.owner]
                ELSE NewPartial(run[w].fetch.owner)
           moved == IF Adoptable(a) THEN run ELSE Moved("part", a, "gone")
           r == [run[w] EXCEPT !.pc = "connect"]
<1>1. /\ run[w].pc = "open" /\ Others(w, a) = {} /\ RunShaped
      /\ partial' = [partial EXCEPT ![a] = p] /\ run' = [moved EXCEPT ![w].pc = "connect"]
      /\ UNCHANGED <<entry, cacheLock, data, service>>
  BY DEF OpenPartial, At, StageInv
<1>2. Owner(w)
  BY <1>1 DEF Owner, Others, Live, Past
<1>3. Moved("part", a, "gone") = run
  <2>1. ASSUME NEW v \in Workers, run[v].file = "part", run[v].asset = a PROVE FALSE
    <3>1. At(v, "stream")
      BY <2>1 DEF CacheInv, Place
    <3>2. CASE v = w
      BY <1>1, <3>1, <3>2 DEF At
    <3>3. CASE v # w
      BY <1>2, <2>1, <3>1, <3>3 DEF Owner, At, Past
    <3> QED BY <3>2, <3>3
  <2> QED BY <1>1, <2>1, MovedNobody
<1>4. run' = [run EXCEPT ![w] = r]
  BY <1>1, <1>3
<1>5. run[w] = Rec(run[w]) /\ run = [v \in Workers |-> run[v]]
  BY <1>1 DEF RunShaped
<1>6. /\ r.pc = "connect" /\ r.held = run[w].held /\ r.received = run[w].received
      /\ r.digest = run[w].digest /\ r.file = run[w].file /\ r.asset = a
  BY <1>5 DEF Rec, Fields
<1> HIDE DEF r
<1>7. Elsewhere(w) /\ run'[w] = r
  BY <1>1, <1>4, <1>5 DEF Elsewhere, service
<1>8. a \in Range(plan) /\ a \in Assets /\ Place(w)
  BY <1>1, PlanAssets DEF CacheInv, Place
<1>9. p = PartRec(p) /\ p.part \in Files \cup {Absent}
  <2>1. CASE Adoptable(a)
    <3>1. partial[a] = PartRec(partial[a]) /\ partial[a].part \in Files \cup {Absent}
      BY <1>8, <2>1 DEF Adoptable, CacheInv, PartsFit
    <3>2. p = [partial[a] EXCEPT !.owner = run[w].fetch.owner]
      BY <2>1
    <3> HIDE DEF p, a
    <3> QED BY <3>1, <3>2 DEF PartRec, PartFields
  <2>2. CASE ~ Adoptable(a)
    <3>1. p = NewPartial(run[w].fetch.owner)
      BY <2>2
    <3> HIDE DEF p
    <3> QED BY <3>1 DEF NewPartial, PartRec, PartFields
  <2> QED BY <2>1, <2>2
<1> HIDE DEF p
<1>10. PartsFit' /\ \A b \in Assets : b # a => partial'[b] = partial[b]
  BY <1>1, <1>8, <1>9, PartSet DEF CacheInv
<1>11. Place(w)'
  BY <1>1, <1>6, <1>7, <1>8 DEF Place, At, Past, service
<1>12. Bytes(w)'
  BY <1>6, <1>7 DEF Bytes, At, Sealing
<1>13. LockFits'
  BY <1>1, <1>6, <1>7, LockKept DEF Elsewhere, Sealing
<1>14. run'[w].pc \in Past
  BY <1>6, <1>7 DEF Past
<1> QED BY <1>1, <1>2, <1>6, <1>7, <1>8, <1>10, <1>11, <1>12, <1>13, <1>14, CacheInvAtAsset

\* A worker that starts to receive: what it hashed so far is what is there.
LEMMA CacheInvStarts ==
    ASSUME CacheInv, StageInv, NEW w \in Workers, run[w].pc = "connect",
           NEW kept \in Files, NEW n \in Nat,
           partial[run[w].asset] # Absent,
           partial' = [partial EXCEPT ![run[w].asset].part = kept],
           run' = [run EXCEPT ![w] = [run[w] EXCEPT !.pc = "stream", !.received = n,
                                                    !.digest = kept, !.file = "part"]],
           UNCHANGED <<entry, cacheLock, data, service>>
    PROVE  CacheInv'
<1> DEFINE a == run[w].asset
           r == [run[w] EXCEPT !.pc = "stream", !.received = n, !.digest = kept,
                               !.file = "part"]
<1>1. run[w] = Rec(run[w]) /\ run = [v \in Workers |-> run[v]] /\ run' = [run EXCEPT ![w] = r]
  BY DEF RunShaped, StageInv
<1>2. /\ r.pc = "stream" /\ r.held = run[w].held /\ r.received = n
      /\ r.digest = kept /\ r.file = "part" /\ r.asset = a
  BY <1>1 DEF Rec, Fields
<1> HIDE DEF r
<1>3. Elsewhere(w) /\ run'[w] = r
  BY <1>1 DEF Elsewhere, service
<1>4. a \in Range(plan) /\ a \in Assets /\ Place(w)
  BY PlanAssets DEF CacheInv, Place, Past
<1>5. partial[a] = PartRec(partial[a])
  BY <1>4 DEF CacheInv, PartsFit
<1>6. /\ PartsFit' /\ partial'[a] = PartRec(partial'[a]) /\ partial'[a].part = kept
      /\ \A b \in Assets : b # a => partial'[b] = partial[b]
  BY <1>4, <1>5, BytesSet DEF CacheInv
<1>7. Place(w)'
  BY <1>2, <1>3, <1>4 DEF Place, At, Past, service
<1>8. Bytes(w)'
  BY <1>2, <1>3, <1>6 DEF Bytes, At, Sealing
<1>9. LockFits'
  BY <1>2, <1>3, LockKept DEF Elsewhere, Sealing
<1>10. run'[w].pc \in Past /\ Owner(w)
  BY <1>2, <1>3, PastOwns DEF Past, CacheInv
<1> QED BY <1>2, <1>3, <1>4, <1>6, <1>7, <1>8, <1>9, <1>10, CacheInvAtAsset

\* What is hashed before streaming is what was kept.
LEMMA CacheInvConnect ==
    ASSUME CacheInv, StageInv, NEW w \in Workers, Connect(w) PROVE CacheInv'
<1>1. PICK kept \in Accepted(w) :
          /\ run[w].pc = "connect" /\ partial[run[w].asset] # Absent
          /\ partial' = [partial EXCEPT ![run[w].asset].part = kept]
          /\ run' = [run EXCEPT ![w].pc = "stream", ![w].received = Len(kept),
                                ![w].digest = kept, ![w].file = "part"]
          /\ UNCHANGED <<entry, cacheLock, data, service>>
  BY DEF Connect, At
<1>2. kept \in Files
  <2>1. run[w].asset \in Assets
    BY <1>1, PlanAssets DEF CacheInv, Place, Past
  <2>2. kept = <<>> \/ (kept = partial[run[w].asset].part /\ kept # Absent)
    <3>1. kept = <<>> \/ kept = Kept(w)
      BY <1>1 DEF Accepted
    <3>2. Kept(w) = <<>> \/ (Kept(w) = partial[run[w].asset].part /\ Kept(w) # Absent)
      BY Zenon DEF Kept
    <3> QED BY <3>1, <3>2
  <2> QED BY <1>1, <2>1, <2>2, FileFacts DEF CacheInv, PartsFit
<1> DEFINE n == Len(kept)
<1>3. n \in Nat
  BY <1>2, FileFacts
<1>4. run' = [run EXCEPT ![w] = [run[w] EXCEPT !.pc = "stream", !.received = n,
                                               !.digest = kept, !.file = "part"]]
  BY <1>1
<1> HIDE DEF n
<1> QED BY <1>1, <1>2, <1>3, <1>4, CacheInvStarts

\* import_file starts over.
LEMMA CacheInvImport ==
    ASSUME CacheInv, StageInv, NEW w \in Workers, Import(w) PROVE CacheInv'
<1>1. /\ run[w].pc = "connect" /\ partial[run[w].asset] # Absent
      /\ partial' = [partial EXCEPT ![run[w].asset].part = <<>>]
      /\ run' = [run EXCEPT ![w].pc = "stream", ![w].file = "part"]
      /\ UNCHANGED <<entry, cacheLock, data, service>>
  BY DEF Import, At
<1>2. run[w].received = 0 /\ run[w].digest = <<>> /\ <<>> \in Files
  BY <1>1, FileFacts DEF CacheInv, Place
<1>3. run[w] = Rec(run[w])
  BY DEF RunShaped, StageInv
<1>4. [run[w] EXCEPT !.pc = "stream", !.file = "part"]
        = [run[w] EXCEPT !.pc = "stream", !.received = 0, !.digest = <<>>, !.file = "part"]
  BY <1>2, <1>3 DEF Rec, Fields
<1> DEFINE d == <<>>
           n == 0
<1>5. /\ run' = [run EXCEPT ![w] = [run[w] EXCEPT !.pc = "stream", !.received = n,
                                                  !.digest = d, !.file = "part"]]
      /\ partial' = [partial EXCEPT ![run[w].asset].part = d] /\ d \in Files /\ n \in Nat
  <2>1. run' = [run EXCEPT ![w] = [run[w] EXCEPT !.pc = "stream", !.file = "part"]]
    BY ONLY <1>1
  <2>2. partial' = [partial EXCEPT ![run[w].asset].part = d]
    BY ONLY <1>1
  <2>3. d \in Files /\ n \in Nat
    BY <1>2
  <2> QED BY ONLY <1>4, <2>1, <2>2, <2>3
<1> HIDE DEF d, n
<1> QED BY <1>1, <1>5, CacheInvStarts

\* What a refused worker leaves: an unfinished download with the bytes it kept.
LEMMA CacheInvRefused ==
    ASSUME CacheInv, StageInv, NEW w \in Workers, Refused(w) PROVE CacheInv'
<1> DEFINE a == run[w].asset
<1>1. /\ run[w].pc = "connect" /\ run[w].pc \notin Sealing /\ RunShaped
      /\ UNCHANGED <<plan, cleaning, cleanups, entry, cacheLock, folder, stage>>
  BY DEF Refused, At, StageInv, data, service, Sealing
<1>2. CASE UNCHANGED partial /\ End(w, "dataset_storage")
  BY <1>1, <1>2, NoLock, CacheInvStops
<1>3. CASE /\ partial[a] # Absent /\ partial' = [partial EXCEPT ![a].part = Kept(w)]
           /\ End(w, "download_status")
  <2>1. a \in Assets /\ Owner(w)
    BY <1>1, PlanAssets, PastOwns DEF CacheInv, Place, Past
  <2>2. Kept(w) \in Files \cup {Absent} /\ partial[a] = PartRec(partial[a])
    <3>1. Kept(w) = <<>> \/ Kept(w) = partial[a].part
      BY Zenon DEF Kept
    <3> QED BY <1>3, <2>1, <3>1, FileFacts DEF CacheInv, PartsFit
  <2>3. PartsFit' /\ \A b \in Assets : b # a => partial'[b] = partial[b]
    BY <1>3, <2>1, <2>2, BytesSet DEF CacheInv
  <2>4. Confined(w) /\ EntriesFit'
    BY <1>1, <2>1, <2>3 DEF Confined, CacheInv, EntriesFit
  <2>5. run'[w] = Ended(run[w], "download_status") /\ Elsewhere(w)
    BY <1>1, <1>3, EndMoves DEF Elsewhere
  <2> QED BY <1>1, <2>3, <2>4, <2>5, NoLock, CacheInvEnding
<1> QED BY <1>2, <1>3 DEF Refused

\* A chunk is hashed and appended to the same file.
LEMMA CacheInvReceive ==
    ASSUME CacheInv, StageInv, NEW w \in Workers, Receive(w) PROVE CacheInv'
<1> DEFINE a == run[w].asset
           n == run[w].received + 1
<1>1. PICK chunk \in {n, Bad} :
          /\ run[w].pc = "stream" /\ run[w].received < Size[a] /\ Append1(w, chunk)
          /\ run' = [run EXCEPT ![w].received = @ + 1, ![w].digest = Append(@, chunk)]
          /\ UNCHANGED <<cacheLock, data, service>>
  BY DEF Receive, At
<1> DEFINE d == Append(run[w].digest, chunk)
           r == [run[w] EXCEPT !.received = n, !.digest = d]
<1>2. run[w] = Rec(run[w]) /\ run = [v \in Workers |-> run[v]]
  BY DEF RunShaped, StageInv
<1>3. run' = [run EXCEPT ![w] = r]
  <2>1. [run EXCEPT ![w].received = @ + 1, ![w].digest = Append(@, chunk)]
           = [run EXCEPT ![w] = [run[w] EXCEPT !.received = run[w].received + 1,
                                               !.digest = Append(run[w].digest, chunk)]]
    BY DEF RunShaped, StageInv
  <2> QED BY <1>1, <2>1
<1>4. a \in Range(plan) /\ a \in Assets /\ Place(w) /\ Bytes(w)
  BY <1>1, PlanAssets DEF CacheInv, Place, Past
<1>5. n \in 1..Size[a] /\ d \in Files
  <2>1. n \in 1..Size[a]
    BY <1>1, <1>4, StoreAssumption DEF Place
  <2> QED BY <1>4, <2>1, FileFacts DEF Place
<1>6. UNCHANGED entry /\ (run[w].file = "part" \/ run[w].file = "gone")
  BY <1>1, <1>4 DEF Append1, Place, At
<1>7. /\ run[w].file = "part" => partial' = [partial EXCEPT ![a].part = Append(@, chunk)]
      /\ run[w].file = "gone" => UNCHANGED partial
  BY <1>1 DEF Append1
<1>8. n \in Nat
  BY <1>5
<1> HIDE DEF n, d
<1>9. /\ r.pc = run[w].pc /\ r.held = run[w].held /\ r.received = n
      /\ r.digest = d /\ r.file = run[w].file /\ r.asset = a
  BY <1>2 DEF Rec, Fields
<1> HIDE DEF r
<1>10. Elsewhere(w) /\ run'[w] = r
  BY <1>1, <1>2, <1>3 DEF Elsewhere, service
<1>11. /\ PartsFit' /\ \A b \in Assets : b # a => partial'[b] = partial[b]
       /\ run[w].file = "part" => partial'[a] = PartRec(partial'[a]) /\ partial'[a].part = d
       /\ run[w].file = "gone" => partial'[a] = Absent
  <2>1. CASE run[w].file = "part"
    <3>1. partial[a] = PartRec(partial[a]) /\ partial[a].part = run[w].digest
      BY <1>1, <1>4, <2>1 DEF Bytes, At
    <3>2. partial' = [partial EXCEPT ![a].part = d]
      BY <1>7, <2>1, <3>1 DEF d
    <3>3. /\ PartsFit' /\ partial'[a] = PartRec(partial'[a]) /\ partial'[a].part = d
          /\ \A b \in Assets : b # a => partial'[b] = partial[b]
      BY <1>4, <1>5, <3>1, <3>2, BytesSet DEF CacheInv
    <3> QED BY <2>1, <3>3
  <2>2. CASE run[w].file = "gone"
    BY <1>1, <1>4, <1>6, <1>7, <2>2, DiskKept DEF Bytes, At
  <2> QED BY <1>6, <2>1, <2>2
<1>12. Place(w)'
  BY <1>1, <1>4, <1>5, <1>6, <1>8, <1>9, <1>10 DEF Place, At, Past, Elsewhere
<1>13. Bytes(w)'
  BY <1>1, <1>9, <1>10, <1>11 DEF Bytes, At, Sealing
<1>14. LockFits'
  BY <1>1, <1>9, <1>10, LockKept DEF Elsewhere
<1>15. run'[w].pc \in Past /\ Owner(w)
  BY <1>1, <1>9, <1>10, PastOwns DEF Past, CacheInv
<1> QED BY <1>1, <1>4, <1>6, <1>9, <1>10, <1>11, <1>12, <1>13, <1>14, <1>15, CacheInvAtAsset

\* A file of known checksum goes on only when its digest is right.
LEMMA CacheInvReceived ==
    ASSUME CacheInv, StageInv, NEW w \in Workers, Received(w) PROVE CacheInv'
<1> DEFINE a == run[w].asset
           r == [run[w] EXCEPT !.pc = "complete", !.file = "closed"]
<1>1. /\ run[w].pc = "stream" /\ UNCHANGED <<disk, data, service>>
      /\ a \in Known => run[w].digest = True(a)
      /\ run' = [run EXCEPT ![w] = r]
  BY DEF Received, At
<1>2. run[w] = Rec(run[w]) /\ run = [v \in Workers |-> run[v]]
  BY DEF RunShaped, StageInv
<1>3. /\ r.pc = "complete" /\ r.held = run[w].held /\ r.received = run[w].received
      /\ r.digest = run[w].digest /\ r.file = "closed" /\ r.asset = a
  BY <1>2 DEF Rec, Fields
<1> HIDE DEF r
<1>4. Elsewhere(w) /\ run'[w] = r /\ UNCHANGED <<partial, entry, cacheLock>>
  BY <1>1, <1>2 DEF Elsewhere, service, disk
<1>5. a \in Range(plan) /\ Place(w) /\ Bytes(w)
  BY <1>1 DEF CacheInv, Place, Past
<1>6. Place(w)'
  BY <1>3, <1>4, <1>5 DEF Place, At, Past, Elsewhere
<1>7. Bytes(w)'
  <2>1. partial[a] # Absent => partial[a].part = run[w].digest
    BY <1>1, <1>5 DEF Place, Bytes, At
  <2> QED BY <1>1, <1>3, <1>4, <2>1 DEF Bytes, At, Sealing
<1>8. LockFits'
  BY <1>1, <1>3, <1>4, LockKept DEF Elsewhere, Sealing
<1>9. run'[w].pc \in Past /\ Owner(w)
  BY <1>1, <1>3, <1>4, PastOwns DEF Past, CacheInv
<1> QED BY <1>1, <1>3, <1>4, <1>5, <1>6, <1>7, <1>8, <1>9, DiskKept, CacheInvAtAsset

\* No other worker has a descriptor on a file of this worker's asset.
LEMMA NoDescriptor ==
    ASSUME CacheInv, NEW w \in Workers, Owner(w)
    PROVE  \A v \in Workers \ {w} : run[v].file # "closed" => run[v].asset # run[w].asset
BY DEF CacheInv, Place, Owner, Past, At

\* An unfinished download is removed.
LEMMA PartDropped ==
    ASSUME PartsFit, NEW a \in Assets, Drop(a)
    PROVE  /\ PartsFit' /\ partial'[a] = Absent
           /\ \A b \in Assets : b # a => partial'[b] = partial[b]
<1>1. partial' = [partial EXCEPT ![a] = Absent]
  BY DEF Drop
<1> QED BY <1>1, PartSet

\* What fails its check is dropped; nobody else had it open.
LEMMA CacheInvUnusable ==
    ASSUME CacheInv, StageInv, NEW w \in Workers, Unusable(w) PROVE CacheInv'
<1> DEFINE a == run[w].asset
<1>1. /\ run[w].pc = "stream" /\ run[w].pc \notin Sealing /\ RunShaped
      /\ UNCHANGED <<plan, cleaning, cleanups, entry, cacheLock, folder, stage>>
  BY DEF Unusable, At, StageInv, data, service, Sealing
<1>2. a \in Assets /\ Owner(w)
  BY <1>1, PlanAssets, PastOwns DEF CacheInv, Place, Past
<1>3. CASE UNCHANGED partial /\ End(w, "download_connection")
  BY <1>1, <1>3, NoLock, CacheInvStops
<1>4. CASE ~ (UNCHANGED partial /\ End(w, "download_connection"))
  <2>1. PICK m \in {run, Moved("part", a, "gone")} :
            /\ run' = [m EXCEPT ![w] = Ended(@, "download_checksum_mismatch")]
            /\ Drop(a) \/ UNCHANGED partial
    BY <1>4 DEF Unusable
  <2>2. /\ \A v \in Workers \ {w} : m[v] = run[v]
        /\ m = [v \in Workers |-> m[v]]
    <3>1. CASE m = run
      BY <1>1, <3>1 DEF RunShaped
    <3>2. CASE m = Moved("part", a, "gone")
      <4>2. \A v \in Workers \ {w} : Moved("part", a, "gone")[v] = run[v]
        BY <1>2, NoDescriptor DEF Moved
      <4>3. Moved("part", a, "gone") = [v \in Workers |-> Moved("part", a, "gone")[v]]
        BY DEF Moved
      <4> HIDE DEF a
      <4> QED BY <3>2, <4>2, <4>3
    <3> QED BY <2>1, <3>1, <3>2
  <2> DEFINE r == Ended(m[w], "download_checksum_mismatch")
  <2>3. run' = [m EXCEPT ![w] = r]
    BY <2>1
  <2> HIDE DEF r
  <2>4. run'[w] = r /\ Elsewhere(w)
    BY <1>1, <2>2, <2>3 DEF Elsewhere
  <2>5. PartsFit' /\ \A b \in Assets : b # a => partial'[b] = partial[b]
    <3>1. CASE Drop(a)
      BY <1>2, <3>1, PartDropped DEF CacheInv
    <3>2. CASE UNCHANGED partial
      BY <1>1, <3>2, DiskKept
    <3> QED BY <2>1, <3>1, <3>2
  <2>6. Confined(w) /\ EntriesFit'
    BY <1>1, <1>2, <2>5 DEF Confined, CacheInv, EntriesFit
  <2>7. run'[w] = Ended(m[w], "download_checksum_mismatch")
    BY <2>4 DEF r
  <2> QED BY <1>1, <2>4, <2>5, <2>6, <2>7, NoLock, CacheInvEnding
<1> QED BY <1>3, <1>4

\* complete looks at the path, which still is the file that was written.
LEMMA CacheInvComplete ==
    ASSUME CacheInv, StageInv, NEW w \in Workers, Complete(w) PROVE CacheInv'
<1>1. /\ run[w].pc = "complete" /\ run[w].pc \notin Sealing /\ RunShaped
      /\ UNCHANGED <<plan, cleaning, cleanups, partial, entry, cacheLock, folder, stage>>
      /\ UNCHANGED data
  BY DEF Complete, At, StageInv, data, service, Sealing, disk
<1>2. CASE End(w, "cache_storage")
  BY <1>1, <1>2, NoLock, CacheInvStops
<1>3. CASE Goto(w, "seal")
  <2>1. /\ Elsewhere(w) /\ run'[w].pc = "seal" /\ run'[w].asset = run[w].asset
        /\ run'[w].held = run[w].held /\ run'[w].received = run[w].received
        /\ run'[w].digest = run[w].digest /\ run'[w].file = run[w].file
    BY <1>1, <1>3, GotoKeeps DEF Elsewhere
  <2>2. Place(w) /\ Bytes(w) /\ run[w].asset \in Range(plan)
    BY <1>1 DEF CacheInv, Place, Past
  <2>3. Place(w)'
    BY <1>1, <2>1, <2>2 DEF Place, At, Past
  <2>4. Bytes(w)'
    BY <1>1, <2>1, <2>2 DEF Bytes, At, Sealing
  <2>5. LockFits'
    BY <1>1, <2>1, LockKept DEF Elsewhere, Sealing
  <2>6. run'[w].pc \in Past /\ Owner(w)
    BY <1>1, <2>1, PastOwns DEF Past, CacheInv
  <2> QED BY <1>1, <2>1, <2>2, <2>3, <2>4, <2>5, <2>6, DiskKept, CacheInvAtAsset
<1> QED BY <1>2, <1>3 DEF Complete

\* At an asset without a descriptor of its own, a worker's renames move no descriptor.
LEMMA MovesNone ==
    ASSUME CacheInv, RunShaped, NEW w \in Workers, run[w].pc \in {"seal", "rename"}
    PROVE  /\ Moved("part", run[w].asset, "gone") = run
           /\ Moved("part", run[w].asset, "final") = run
           /\ Moved("final", run[w].asset, "entry") = run
<1>1. Owner(w) /\ run[w].file = "closed"
  BY PastOwns DEF CacheInv, Past, Place, At
<1>2. \A v \in Workers : run[v].file # "closed" => run[v].asset # run[w].asset
  BY <1>1, NoDescriptor
<1>3. \A v \in Workers : /\ ~ (run[v].file = "part" /\ run[v].asset = run[w].asset)
                         /\ ~ (run[v].file = "final" /\ run[v].asset = run[w].asset)
  BY <1>2
<1> QED BY <1>3, MovedNobody

\* A worker that goes on with an entry.
LEMMA CacheInvHolding ==
    ASSUME CacheInv, RunShaped, NEW w \in Workers, run[w].pc \in {"seal", "rename"}, NEW d,
           run' = [run EXCEPT ![w] = Holding(run[w], run[w].asset, d)],
           Drop(run[w].asset), cacheLock' = Held(cacheLock, w), UNCHANGED <<data, service>>,
           EntriesFit', \A b \in Assets : b # run[w].asset => entry'[b] = entry[b],
           entry'[run[w].asset] = entry[run[w].asset] \/ entry[run[w].asset] = Absent,
           run[w].asset \in Known => d = True(run[w].asset),
           entry'[run[w].asset] # Absent /\ entry'[run[w].asset].file = d
    PROVE  CacheInv'
<1> DEFINE a == run[w].asset
           h == [run[w].held EXCEPT ![a] = d]
           r == [run[w] EXCEPT !.pc = "next", !.asset = None, !.held = h, !.received = 0,
                               !.digest = <<>>]
<1>1. run[w] = Rec(run[w]) /\ run = [v \in Workers |-> run[v]]
  BY DEF RunShaped
<1>2. run' = [run EXCEPT ![w] = r]
  <2>1. Holding(run[w], a, d) = r
    BY <1>1 DEF Holding, Rec, Fields
  <2> QED BY <2>1
<1>3. a \in Assets /\ Owner(w) /\ Holds(w) /\ run[w].file = "closed"
  BY PlanAssets, PastOwns DEF CacheInv, Place, Past, At
<1>4. h = [b \in Assets |-> IF b = a THEN d ELSE run[w].held[b]]
  BY <1>3 DEF Holds
<1>a. h = [b \in Assets |-> h[b]] /\ \A b \in Assets : h[b] = IF b = a THEN d ELSE run[w].held[b]
  BY <1>4
<1> HIDE DEF h
<1>5. /\ r.pc = "next" /\ r.held = h /\ r.received = 0 /\ r.digest = <<>>
      /\ r.file = run[w].file
  BY <1>1 DEF Rec, Fields
<1> HIDE DEF r
<1>6. /\ run'[w] = r /\ Elsewhere(w) /\ UNCHANGED <<plan, cleanups, folder, stage>>
  BY <1>1, <1>2 DEF Elsewhere, service, data
<1>7. PartsFit' /\ \A b \in Assets : b # a => partial'[b] = partial[b]
  BY <1>3, PartDropped DEF CacheInv
<1>8. Confined(w)
  BY <1>3, <1>7 DEF Confined
<1>9. Place(w)'
  BY <1>3, <1>5, <1>6, FileFacts DEF Place, At, Past
<1>10. Bytes(w)' /\ Fills(w)'
  BY <1>5, <1>6 DEF Bytes, Fills, At, Sealing
<1>11. Holds(w)'
  <2>1. \A b \in Assets : entry[b] # Absent => entry'[b] = entry[b]
    BY <1>3
  <2>2. ASSUME NEW b \in Assets, h[b] # None
        PROVE  /\ b \in Known => h[b] = True(b)
               /\ cleanups = 0 => entry'[b] # Absent /\ entry'[b].file = h[b]
    <3>1. CASE b = a
      BY <1>a, <3>1
    <3>2. CASE b # a
      <4>1. h[b] = run[w].held[b]
        BY <1>a, <3>2
      <4> QED BY <1>3, <2>1, <2>2, <4>1 DEF Holds
    <3> QED BY <3>1, <3>2
  <2>3. run'[w].held = h /\ run'[w].pc = "next" /\ cleanups' = cleanups
    BY <1>5, <1>6
  <2> QED BY <1>a, <2>2, <2>3 DEF Holds, Writing
<1>12. LockFits'
  BY <1>5, <1>6, LockLeft DEF Elsewhere, Sealing
<1>13. run'[w].pc \notin Past
  BY <1>5, <1>6 DEF Past
<1> QED BY <1>6, <1>7, <1>8, <1>9, <1>10, <1>11, <1>12, <1>13, FolderKept, Assemble

\* _adopt_existing goes on with an entry only after verifying it.
LEMMA CacheInvAdopt ==
    ASSUME CacheInv, StageInv, NEW w \in Workers, AdoptEntry(w) PROVE CacheInv'
<1> DEFINE a == run[w].asset
<1>1. /\ run[w].pc = "seal" /\ run[w].pc \notin Sealing /\ RunShaped /\ entry[a] # Absent
      /\ UNCHANGED <<plan, cleaning, cleanups, entry, cacheLock, folder, stage>>
      /\ UNCHANGED <<data, service>>
  BY DEF AdoptEntry, At, StageInv, data, service, Sealing
<1>2. CASE End(w, "cache_entry_corrupt") /\ UNCHANGED partial
  BY <1>1, <1>2, NoLock, CacheInvStops
<1>3. CASE ~ (End(w, "cache_entry_corrupt") /\ UNCHANGED partial)
  <2>1. /\ Whole(a) /\ Drop(a)
        /\ run' = [Moved("part", a, "gone") EXCEPT ![w] = Holding(@, a, entry[a].manifest)]
    BY <1>3 DEF AdoptEntry
  <2>2. Moved("part", a, "gone") = run
    BY <1>1, MovesNone
  <2> DEFINE d == entry[a].manifest
  <2>3. run' = [run EXCEPT ![w] = Holding(run[w], a, d)]
    BY <2>1, <2>2
  <2>4. a \in Assets
    BY <1>1, PlanAssets DEF CacheInv, Place, Past
  <2>5. EntriesFit' /\ entry' = entry
    BY <1>1 DEF CacheInv, EntriesFit
  <2>6. /\ a \in Known => d = True(a)
        /\ entry[a].file = d
    BY <1>1, <2>1, <2>4 DEF Whole, CacheInv, EntriesFit
  <2> HIDE DEF d
  <2>7. cacheLock' = Held(cacheLock, w)
    BY <1>1, NoLock
  <2> QED BY <1>1, <2>1, <2>3, <2>5, <2>6, <2>7, CacheInvHolding
<1> QED BY <1>2, <1>3

\* _seal_partial: the bytes under their final name are those that were received.
LEMMA CacheInvSeal == ASSUME CacheInv, StageInv, NEW w \in Workers, Seal(w) PROVE CacheInv'
<1> DEFINE a == run[w].asset
<1>1. /\ run[w].pc = "seal" /\ run[w].pc \notin Sealing /\ RunShaped /\ entry[a] = Absent
      /\ cacheLock = None
      /\ UNCHANGED <<plan, cleaning, cleanups, entry, folder, stage>>
      /\ UNCHANGED <<data, service>>
  BY DEF Seal, At, StageInv, data, service, Sealing, CacheFree
<1>2. CASE End(w, "cache_storage") /\ UNCHANGED <<partial, cacheLock>>
  BY <1>1, <1>2, NoLock, CacheInvStops
<1>3. CASE ~ (End(w, "cache_storage") /\ UNCHANGED <<partial, cacheLock>>)
  <2> DEFINE p == [partial[a] EXCEPT !.owner = None, !.part = Absent, !.final = partial[a].part]
             r == [run[w] EXCEPT !.pc = "manifest"]
  <2>1. /\ partial[a] # Absent /\ partial[a].part # Absent /\ cacheLock' = w
        /\ partial' = [partial EXCEPT ![a] = p]
        /\ run' = [Moved("part", a, "final") EXCEPT ![w].pc = "manifest"]
    BY <1>3 DEF Seal
  <2>2. Moved("part", a, "final") = run
    BY <1>1, MovesNone
  <2>3. run' = [run EXCEPT ![w] = r]
    BY <2>1, <2>2
  <2>4. run[w] = Rec(run[w]) /\ run = [v \in Workers |-> run[v]]
    BY <1>1 DEF RunShaped
  <2>5. /\ r.pc = "manifest" /\ r.held = run[w].held /\ r.received = run[w].received
        /\ r.digest = run[w].digest /\ r.file = run[w].file /\ r.asset = a
    BY <2>4 DEF Rec, Fields
  <2> HIDE DEF r
  <2>6. Elsewhere(w) /\ run'[w] = r
    BY <1>1, <2>3, <2>4 DEF Elsewhere, service
  <2>7. a \in Range(plan) /\ a \in Assets /\ Place(w) /\ Bytes(w) /\ Owner(w)
    BY <1>1, PlanAssets, PastOwns DEF CacheInv, Place, Past
  <2>8. p = PartRec(p) /\ p.part = Absent /\ p.final = run[w].digest
    <3>1. partial[a] = PartRec(partial[a])
      BY <2>1, <2>7 DEF CacheInv, PartsFit
    <3>2. partial[a].part = run[w].digest
      BY <1>1, <2>1, <2>7 DEF Bytes
    <3> DEFINE f == partial[a].part
    <3>3. p = [partial[a] EXCEPT !.owner = None, !.part = Absent, !.final = f]
      OBVIOUS
    <3> HIDE DEF f, p
    <3>4. p = PartRec(p) /\ p.part = Absent /\ p.final = f
      <4> HIDE DEF a
      <4> QED BY <3>1, <3>3 DEF PartRec, PartFields
    <3> QED BY <3>2, <3>4 DEF f
  <2> HIDE DEF p
  <2>9. PartsFit' /\ partial'[a] = p /\ \A b \in Assets : b # a => partial'[b] = partial[b]
    BY <2>1, <2>7, <2>8, PartSet DEF CacheInv
  <2>10. Place(w)'
    BY <1>1, <2>5, <2>6, <2>7 DEF Place, At, Past, Elsewhere
  <2>11. Bytes(w)'
    BY <1>1, <2>5, <2>6, <2>7, <2>8, <2>9 DEF Bytes, At, Sealing
  <2>12. LockFits'
    <3>1. \A v \in Workers : run[v].pc \notin Sealing
      BY <1>1, StoreAssumption DEF CacheInv, LockFits
    <3>2. \A v \in Workers \ {w} : run'[v].pc \notin Sealing
      BY <2>6, <3>1 DEF Elsewhere
    <3>3. run'[w].pc \in Sealing /\ cacheLock' = w
      BY <2>1, <2>5, <2>6 DEF Sealing
    <3> QED BY <3>2, <3>3 DEF LockFits
  <2>13. run'[w].pc \in Past
    BY <2>5, <2>6 DEF Past
  <2> QED BY <1>1, <2>5, <2>6, <2>7, <2>9, <2>10, <2>11, <2>12, <2>13, CacheInvAtAsset
<1> QED BY <1>2, <1>3

\* write_manifest_file writes the digest of exactly these bytes.
LEMMA CacheInvManifest ==
    ASSUME CacheInv, StageInv, NEW w \in Workers, WriteManifest(w) PROVE CacheInv'
<1> DEFINE a == run[w].asset
           d == run[w].digest
           p == [partial[a] EXCEPT !.manifest = d]
<1>1. /\ run[w].pc = "manifest" /\ RunShaped /\ Goto(w, "rename")
      /\ UNCHANGED <<plan, cleaning, cleanups, entry, cacheLock, folder, stage>>
      /\ UNCHANGED data /\ partial' = [partial EXCEPT ![a] = p]
  BY DEF WriteManifest, At, StageInv, data, service
<1>2. a \in Range(plan) /\ a \in Assets /\ Place(w) /\ Bytes(w) /\ Owner(w)
  BY <1>1, PlanAssets, PastOwns DEF CacheInv, Place, Past
<1>3. /\ partial[a] = PartRec(partial[a]) /\ partial[a].final = d /\ entry[a] = Absent
      /\ partial[a].part = Absent
  BY <1>1, <1>2 DEF Bytes, Sealing
<1>4. p = PartRec(p) /\ p.part = Absent /\ p.final = d /\ p.manifest = d
  <2> HIDE DEF a, d
  <2> QED BY <1>3 DEF PartRec, PartFields
<1> HIDE DEF p
<1>5. PartsFit' /\ partial'[a] = p /\ \A b \in Assets : b # a => partial'[b] = partial[b]
  BY <1>1, <1>2, <1>4, PartSet DEF CacheInv
<1>6. /\ Elsewhere(w) /\ run'[w].pc = "rename" /\ run'[w].asset = run[w].asset
      /\ run'[w].held = run[w].held /\ run'[w].received = run[w].received
      /\ run'[w].digest = run[w].digest /\ run'[w].file = run[w].file
  BY <1>1, GotoKeeps DEF Elsewhere
<1>7. Place(w)'
  BY <1>1, <1>2, <1>6 DEF Place, At, Past, Elsewhere
<1>8. Bytes(w)'
  <2>1. a \in Known => d = True(a)
    BY <1>1, <1>2 DEF Bytes, Sealing
  <2> QED BY <1>1, <1>3, <1>4, <1>5, <1>6, <2>1 DEF Bytes, At, Sealing
<1>9. LockFits'
  BY <1>1, <1>6, LockKept DEF Sealing, Elsewhere
<1>10. run'[w].pc \in Past
  BY <1>6 DEF Past
<1> QED BY <1>1, <1>2, <1>5, <1>6, <1>7, <1>8, <1>9, <1>10, CacheInvAtAsset

\* publish_directory makes them an entry that matches its manifest.
LEMMA CacheInvPublishEntry ==
    ASSUME CacheInv, StageInv, NEW w \in Workers, PublishEntry(w) PROVE CacheInv'
<1> DEFINE a == run[w].asset
           d == run[w].digest
           e == [file |-> d, manifest |-> d]
<1>1. /\ run[w].pc = "rename" /\ RunShaped /\ Drop(a) /\ cacheLock' = None
      /\ entry' = [entry EXCEPT ![a] = [file |-> partial[a].final,
                                        manifest |-> partial[a].manifest]]
      /\ run' = [Moved("final", a, "entry") EXCEPT ![w] = Holding(@, a, d)]
      /\ UNCHANGED <<data, service>>
  BY DEF PublishEntry, At, StageInv
<1>2. a \in Range(plan) /\ a \in Assets /\ Place(w) /\ Bytes(w)
  BY <1>1, PlanAssets DEF CacheInv, Place, Past
<1>3. /\ partial[a].final = d /\ partial[a].manifest = d /\ entry[a] = Absent
      /\ a \in Known => d = True(a)
  BY <1>1, <1>2 DEF Bytes, Sealing, At
<1>4. run' = [run EXCEPT ![w] = Holding(run[w], a, d)]
  <2>1. Moved("final", a, "entry") = run
    BY <1>1, MovesNone
  <2> QED BY <1>1, <2>1
<1>5. cacheLock' = Held(cacheLock, w)
  BY <1>1 DEF CacheInv, LockFits, Held, Sealing
<1>6. /\ e = EntryRec(e) /\ e.file = d /\ e.manifest = d /\ e # Absent
  <2>1. e \in [file : Files \cup {Absent}, manifest : Files \cup {Absent}]
    BY <1>2 DEF Place
  <2> QED BY <2>1, StoreAssumption DEF EntryRec, EntryFields
<1>7. entry' = [entry EXCEPT ![a] = e]
  BY <1>1, <1>3
<1> HIDE DEF e
<1>8. entry = [b \in Assets |-> entry[b]]
  BY DEF CacheInv, EntriesFit
<1>9. /\ entry'[a] = e /\ \A b \in Assets : b # a => entry'[b] = entry[b]
      /\ entry' = [b \in Assets |-> entry'[b]]
  BY <1>2, <1>7, <1>8
<1>10. EntriesFit'
  <2>1. ASSUME NEW b \in Assets, entry'[b] # Absent
        PROVE  /\ entry'[b] = EntryRec(entry'[b])
               /\ Absent \notin {entry'[b].file, entry'[b].manifest} =>
                      entry'[b].file = entry'[b].manifest
               /\ b \in Known /\ entry'[b].file # Absent => entry'[b].file = True(b)
    <3>1. CASE b = a
      BY <1>3, <1>6, <1>9, <3>1
    <3>2. CASE b # a
      <4>1. entry'[b] = entry[b]
        BY <1>9, <3>2
      <4> QED BY <2>1, <4>1 DEF CacheInv, EntriesFit
    <3> QED BY <3>1, <3>2
  <2> QED BY <1>9, <2>1 DEF EntriesFit
<1> HIDE DEF d
<1> QED BY <1>1, <1>3, <1>4, <1>5, <1>6, <1>9, <1>10, CacheInvHolding

\* The application removes files while no worker holds the cache lock.
LEMMA CacheInvRemoved ==
    ASSUME CacheInv, RunShaped, NEW G, UNCHANGED <<cacheLock, data, plan>>,
           cacheLock = None \/ (G = {} /\ UNCHANGED entry),
           \A v \in Workers : run'[v] = IF run[v].file = "part" /\ run[v].asset \in G
                                        THEN [run[v] EXCEPT !.file = "gone"] ELSE run[v],
           \A a \in Assets : partial'[a] = IF a \in G THEN Absent ELSE partial[a],
           PartsFit', EntriesFit', CleaningFits',
           cleanups' = 0 => cleanups = 0 /\ UNCHANGED entry
    PROVE  CacheInv'
<1>1. ASSUME NEW v \in Workers
      PROVE  /\ run'[v].pc = run[v].pc /\ run'[v].asset = run[v].asset
             /\ run'[v].held = run[v].held /\ run'[v].received = run[v].received
             /\ run'[v].digest = run[v].digest
             /\ run'[v].file = IF run[v].file = "part" /\ run[v].asset \in G THEN "gone"
                               ELSE run[v].file
  <2>1. run[v] = Rec(run[v])
    BY DEF RunShaped
  <2>2. CASE run[v].file = "part" /\ run[v].asset \in G
    <3>1. run'[v] = [run[v] EXCEPT !.file = "gone"]
      BY <2>2
    <3> QED BY <2>1, <2>2, <3>1 DEF Rec, Fields
  <2>3. CASE ~ (run[v].file = "part" /\ run[v].asset \in G)
    <3>1. run'[v] = run[v]
      BY <2>3
    <3> QED BY <2>3, <3>1
  <2> QED BY <2>2, <2>3
<1>2. UNCHANGED <<plan, folder, stage, cacheLock>>
  BY DEF data
<1>3. ASSUME NEW v \in Workers PROVE Place(v)'
  BY <1>1, <1>2 DEF CacheInv, Place, At
<1>4. ASSUME NEW v \in Workers PROVE Bytes(v)'
  <2>1. Place(v) /\ Bytes(v)
    BY DEF CacheInv
  <2>2. CASE run[v].pc \in Sealing
    <3>1. G = {} /\ UNCHANGED entry
      BY <2>2, StoreAssumption DEF CacheInv, LockFits
    <3>2. run'[v] = run[v] /\ run[v].asset \in Assets
      BY <2>1, <2>2, <3>1, PlanAssets DEF Place, Past, Sealing, CacheInv
    <3>3. partial'[run[v].asset] = partial[run[v].asset] /\ entry' = entry
      BY <3>1, <3>2
    <3> QED BY <2>1, <3>2, <3>3 DEF Bytes, At
  <2>3. CASE run[v].pc \in {"stream", "complete", "seal"}
    <3> DEFINE a == run[v].asset
    <3>1. a \in Assets /\ run[v].pc \notin Sealing
      BY <2>1, <2>3, PlanAssets DEF Place, Past, CacheInv, Sealing
    <3>2. partial'[a] = IF a \in G THEN Absent ELSE partial[a]
      BY <3>1
    <3>3. /\ run'[v].pc = run[v].pc /\ run'[v].asset = a /\ run'[v].digest = run[v].digest
          /\ run'[v].file = IF run[v].file = "part" /\ a \in G THEN "gone" ELSE run[v].file
      BY <1>1
    <3> HIDE DEF a
    <3>4. /\ At(v, "stream") /\ run[v].file = "part" =>
                partial[a] = PartRec(partial[a]) /\ partial[a].part = run[v].digest
          /\ At(v, "stream") /\ run[v].file = "gone" => partial[a] = Absent
          /\ run[v].pc \in {"complete", "seal"} /\ partial[a] # Absent =>
                partial[a].part = run[v].digest
          /\ run[v].pc \in {"complete", "seal"} /\ a \in Known => run[v].digest = True(a)
      BY <2>1 DEF a, Bytes
    <3>5. CASE a \in G
      <4>1. partial'[a] = Absent /\ ~ run'[v].file = "part"
        BY <3>2, <3>3, <3>5
      <4> QED BY <3>1, <3>3, <3>4, <4>1 DEF Bytes, At, Sealing
    <3>6. CASE a \notin G
      <4>1. partial'[a] = partial[a] /\ run'[v].file = run[v].file
        BY <3>2, <3>3, <3>6
      <4> QED BY <3>1, <3>3, <3>4, <4>1 DEF Bytes, At, Sealing
    <3> QED BY <3>5, <3>6
  <2>4. CASE run[v].pc \notin {"stream", "complete", "seal"} \cup Sealing
    BY <1>1, <2>4 DEF Bytes, At, Sealing
  <2> QED BY <2>2, <2>3, <2>4
<1>5. ASSUME NEW v \in Workers PROVE Holds(v)'
  BY <1>1, <1>2 DEF CacheInv, Holds
<1>6. ASSUME NEW v \in Workers PROVE Fills(v)'
  <2>1. Fills(v) /\ cleanups' = 0 => cleanups = 0
    BY DEF CacheInv
  <2>2. Fills(v)
    BY DEF CacheInv
  <2> QED BY <1>1, <1>2, <2>1, <2>2 DEF Fills, At
<1>7. LockFits' /\ Exclusive'
  BY <1>1, <1>2 DEF CacheInv, LockFits, Exclusive
<1>8. FolderMatchesMarker'
  BY <1>2, FolderKept
<1> QED BY <1>2, <1>3, <1>4, <1>5, <1>6, <1>7, <1>8 DEF CacheInv

\* discard_partials removes unfinished files of a job nobody runs.
LEMMA CacheInvDiscard ==
    ASSUME CacheInv, StageInv, NEW o \in Jobs, DiscardPartials(o) PROVE CacheInv'
<1> DEFINE G == {a \in Assets : partial[a] # Absent /\ partial[a].owner = o}
<1>1. /\ cacheLock = None /\ RunShaped
      /\ partial' = [a \in Assets |-> IF a \in G THEN Absent ELSE partial[a]]
      /\ run' = [w \in Workers |-> IF run[w].file = "part" /\ run[w].asset \in G
                                   THEN [run[w] EXCEPT !.file = "gone"] ELSE run[w]]
      /\ UNCHANGED <<entry, cacheLock, data, plan, cleaning, cleanups>>
  BY DEF DiscardPartials, CacheFree, StageInv, service
<1> HIDE DEF G
<1>2. PartsFit'
  BY <1>1 DEF CacheInv, PartsFit
<1>3. EntriesFit' /\ CleaningFits'
  BY <1>1 DEF CacheInv, EntriesFit, CleaningFits
<1> QED BY <1>1, <1>2, <1>3, CacheInvRemoved

\* remove_unused only looks before it takes the cache lock.
LEMMA CacheInvCollect == ASSUME CacheInv, StageInv, Collect PROVE CacheInv'
<1>1. /\ RunShaped /\ UNCHANGED <<plan, partial, entry, cacheLock, data, run>>
      /\ cleanups' = cleanups + 1
  BY DEF Collect, StageInv, disk
<1>2. CleaningFits' /\ cleanups' # 0
  BY <1>1 DEF CacheInv, CleaningFits
<1> DEFINE G == {}
<1>3. /\ G = {} /\ UNCHANGED entry
      /\ \A v \in Workers : run'[v] = IF run[v].file = "part" /\ run[v].asset \in G
                                      THEN [run[v] EXCEPT !.file = "gone"] ELSE run[v]
      /\ \A a \in Assets : partial'[a] = IF a \in G THEN Absent ELSE partial[a]
  BY <1>1
<1> HIDE DEF G
<1> QED BY <1>1, <1>2, <1>3, DiskKept, CacheInvRemoved

\* clear_unused_entries removes whole entries and all unfinished files.
LEMMA CacheInvClear == ASSUME CacheInv, StageInv, Clear PROVE CacheInv'
<1> DEFINE kept == {a \in Assets : a \in cleaning}
<1>1. /\ cacheLock = None /\ RunShaped /\ cleaning # None /\ cleaning' = None
      /\ partial' = [a \in Assets |-> Absent]
      /\ entry' = [a \in Assets |-> IF a \in kept THEN entry[a] ELSE Absent]
      /\ run' = [w \in Workers |->
                     IF \/ run[w].file = "part"
                        \/ run[w].file = "entry" /\ run[w].asset \notin kept
                     THEN [run[w] EXCEPT !.file = "gone"] ELSE run[w]]
      /\ UNCHANGED <<plan, cacheLock, data, cleanups>>
  BY DEF Clear, CacheFree, StageInv
<1> HIDE DEF kept
<1>2. \A v \in Workers : /\ run[v].file # "entry"
                         /\ run[v].file = "part" => run[v].asset \in Assets
  BY PlanAssets DEF CacheInv, Place, At, Past
<1>3. \A v \in Workers : run'[v] = IF run[v].file = "part" /\ run[v].asset \in Assets
                                   THEN [run[v] EXCEPT !.file = "gone"] ELSE run[v]
  BY <1>1, <1>2
<1>4. /\ \A a \in Assets : partial'[a] = IF a \in Assets THEN Absent ELSE partial[a]
      /\ PartsFit'
  BY <1>1 DEF PartsFit
<1>5. EntriesFit'
  <2>1. /\ entry' = [a \in Assets |-> entry'[a]]
        /\ \A a \in Assets : entry'[a] # Absent => entry'[a] = entry[a]
    BY <1>1
  <2> QED BY <2>1 DEF CacheInv, EntriesFit
<1>6. CleaningFits' /\ cleanups' # 0
  BY <1>1 DEF CacheInv, CleaningFits
<1> QED BY <1>1, <1>3, <1>4, <1>5, <1>6, CacheInvRemoved

\* An application that dies while clearing leaves an entry without one of its files.
LEMMA CacheInvClearHalf ==
    ASSUME CacheInv, StageInv, NEW a \in Assets, ClearHalf(a) PROVE CacheInv'
<1>1. /\ RunShaped /\ UNCHANGED <<plan, partial, cacheLock, data, run, cleanups>>
      /\ cleaning # None /\ cleaning' = None /\ entry[a] # Absent /\ cacheLock = None
      /\ \/ entry' = [entry EXCEPT ![a].file = Absent]
         \/ entry' = [entry EXCEPT ![a].manifest = Absent]
  BY DEF ClearHalf, StageInv, CacheFree
<1>2. CleaningFits' /\ cleanups' # 0
  BY <1>1 DEF CacheInv, CleaningFits
<1>3. entry = [b \in Assets |-> entry[b]] /\ entry[a] = EntryRec(entry[a])
  BY <1>1 DEF CacheInv, EntriesFit
<1>4. PICK e : /\ entry' = [entry EXCEPT ![a] = e] /\ e = EntryRec(e)
               /\ Absent \in {e.file, e.manifest}
               /\ e.file = Absent \/ e.file = entry[a].file
  <2>1. CASE entry' = [entry EXCEPT ![a].file = Absent]
    <3> DEFINE e == [entry[a] EXCEPT !.file = Absent]
    <3>1. entry' = [entry EXCEPT ![a] = e]
      BY <2>1
    <3>2. e = EntryRec(e) /\ e.file = Absent
      BY <1>3 DEF EntryRec, EntryFields
    <3> HIDE DEF e
    <3> QED BY <3>1, <3>2
  <2>2. CASE entry' = [entry EXCEPT ![a].manifest = Absent]
    <3> DEFINE e == [entry[a] EXCEPT !.manifest = Absent]
    <3>1. entry' = [entry EXCEPT ![a] = e]
      BY <2>2
    <3>2. e = EntryRec(e) /\ e.manifest = Absent /\ e.file = entry[a].file
      BY <1>3 DEF EntryRec, EntryFields
    <3> HIDE DEF e
    <3> QED BY <3>1, <3>2
  <2> QED BY <1>1, <2>1, <2>2
<1>5. /\ entry'[a] = e /\ \A b \in Assets : b # a => entry'[b] = entry[b]
      /\ entry' = [b \in Assets |-> entry'[b]]
  BY <1>3, <1>4
<1>6. EntriesFit'
  <2>1. ASSUME NEW b \in Assets, entry'[b] # Absent
        PROVE  /\ entry'[b] = EntryRec(entry'[b])
               /\ Absent \notin {entry'[b].file, entry'[b].manifest} =>
                      entry'[b].file = entry'[b].manifest
               /\ b \in Known /\ entry'[b].file # Absent => entry'[b].file = True(b)
    <3>1. CASE b = a
      <4>1. a \in Known /\ entry[a].file # Absent => entry[a].file = True(a)
        BY <1>1 DEF CacheInv, EntriesFit
      <4> QED BY <1>4, <1>5, <3>1, <4>1
    <3>2. CASE b # a
      <4>1. entry'[b] = entry[b]
        BY <1>5, <3>2
      <4> QED BY <2>1, <4>1 DEF CacheInv, EntriesFit
    <3> QED BY <3>1, <3>2
  <2> QED BY <1>5, <2>1 DEF EntriesFit
<1> DEFINE G == {}
<1>7. /\ \A v \in Workers : run'[v] = IF run[v].file = "part" /\ run[v].asset \in G
                                      THEN [run[v] EXCEPT !.file = "gone"] ELSE run[v]
      /\ \A b \in Assets : partial'[b] = IF b \in G THEN Absent ELSE partial[b]
  BY <1>1
<1> HIDE DEF G
<1>8. PartsFit'
  BY <1>1 DEF CacheInv, PartsFit
<1> QED BY <1>1, <1>2, <1>6, <1>7, <1>8, CacheInvRemoved

\* The cache is empty at first.
LEMMA CacheInvInit == Init => CacheInv
<1> SUFFICES ASSUME Init PROVE CacheInv
  OBVIOUS
<1>0. Waiting = Rec(Waiting) /\ Waiting.pc = "new" /\ Waiting.received = 0
      /\ Waiting.digest = <<>> /\ Waiting.file = "closed" /\ Waiting.held = [a \in Assets |-> None]
  BY DEF Waiting, Rec, Fields
<1>1. /\ \A w \in Workers : run[w] = Waiting
      /\ \A a \in Assets : partial[a] = Absent /\ entry[a] = Absent
      /\ cacheLock = None /\ folder = NoFolder /\ plan \in Plans /\ cleanups = 0 /\ cleaning = None
      /\ partial = [a \in Assets |-> partial[a]] /\ entry = [a \in Assets |-> entry[a]]
  BY DEF Init
<1>2. PartsFit /\ EntriesFit
  BY <1>1 DEF PartsFit, EntriesFit
<1>3. LockFits /\ Exclusive /\ CleaningFits
  BY <1>0, <1>1, StoreAssumption DEF LockFits, Exclusive, CleaningFits, Past, Sealing
<1>4. FolderMatchesMarker
  BY <1>1 DEF FolderMatchesMarker
<1>5. ASSUME NEW w \in Workers PROVE Place(w) /\ Bytes(w) /\ Holds(w) /\ Fills(w)
  <2>1. Place(w)
    BY <1>0, <1>1, FileFacts DEF Place, At, Past
  <2>2. Bytes(w) /\ Fills(w)
    BY <1>0, <1>1 DEF Bytes, Fills, At, Sealing
  <2>3. Holds(w)
    <3>1. run[w].held = [a \in Assets |-> None] /\ run[w].pc = "new"
      BY <1>0, <1>1
    <3> QED BY <3>1 DEF Holds, Writing
  <2> QED BY <2>1, <2>2, <2>3
<1> QED BY <1>1, <1>2, <1>3, <1>4, <1>5 DEF CacheInv

\* Every step keeps the cache's invariant, given the data root's.
LEMMA CacheInvNext ==
    ASSUME SharedPartials = FALSE, CacheInv, StageInv, [Next]_vars PROVE CacheInv'
<1>1. ASSUME NEW w \in Workers, Work(w) PROVE CacheInv'
  BY <1>1, CacheInvNeeds, CacheInvNext1, CacheInvOpen, CacheInvConnect, CacheInvImport,
     CacheInvRefused, CacheInvReceive, CacheInvReceived, CacheInvUnusable, CacheInvComplete,
     CacheInvAdopt, CacheInvSeal, CacheInvManifest, CacheInvPublishEntry, CacheInvEnter,
     CacheInvRecover, CacheInvMark, CacheInvFill, CacheInvMarker, CacheInvPublish,
     CacheInvExit DEF Work
<1>2. ASSUME NEW w \in Workers, Terminate(w) \/ Crash(w) PROVE CacheInv'
  BY <1>2, CacheInvTerminate, CacheInvCrash
<1>3. ASSUME NEW w \in Workers, NEW f \in Fetches, Begin(w, f) PROVE CacheInv'
  BY <1>3, CacheInvBegin
<1>4. ASSUME NEW o \in Jobs, DiscardPartials(o) PROVE CacheInv'
  BY <1>4, CacheInvDiscard
<1>5. ASSUME NEW a \in Assets, ClearHalf(a) PROVE CacheInv'
  BY <1>5, CacheInvClearHalf
<1>6. CASE UNCHANGED vars
  <2> USE <1>6 DEF vars, CacheInv
  <2>1. PartsFit' /\ EntriesFit'
    BY DEF PartsFit, EntriesFit
  <2>2. LockFits' /\ Exclusive' /\ CleaningFits'
    BY DEF LockFits, Exclusive, CleaningFits
  <2>3. FolderMatchesMarker'
    BY DEF FolderMatchesMarker
  <2>4. ASSUME NEW w \in Workers PROVE Place(w)' /\ Bytes(w)'
    BY DEF Place, Bytes, At
  <2>5. ASSUME NEW w \in Workers PROVE Holds(w)' /\ Fills(w)'
    BY DEF Holds, Fills, At
  <2> QED BY <2>1, <2>2, <2>3, <2>4, <2>5
<1> QED BY <1>1, <1>2, <1>3, <1>4, <1>5, <1>6, CacheInvCollect, CacheInvClear DEF Next

\* The cache's invariant holds in every reachable state.
THEOREM CacheInvariant == SharedPartials = FALSE => (Spec => []CacheInv)
<1> SUFFICES ASSUME SharedPartials = FALSE PROVE Spec => []CacheInv
  OBVIOUS
<1>1. CacheInv /\ StageInv /\ [Next]_vars => CacheInv'
  BY CacheInvNext
<1> QED BY <1>1, CacheInvInit, StageInvariant, PTL DEF Spec

\* A complete entry holds the bytes its manifest names, and the true file when its
\* checksum was known (DatasetCache.complete), through every stop, crash, resume and
\* cleanup.
THEOREM EntriesMatchTheirManifest ==
    SharedPartials = FALSE => (Spec => []EntriesMatchManifest)
<1> SUFFICES ASSUME SharedPartials = FALSE PROVE Spec => []EntriesMatchManifest
  OBVIOUS
<1>1. CacheInv => EntriesMatchManifest
  BY DEF CacheInv, EntriesFit, EntriesMatchManifest
<1> QED BY <1>1, CacheInvariant, PTL

\* The published folder has every file of its source and its marker lists the digests of
\* the bytes it was made from (materialize, build_marker).
THEOREM FoldersMatchTheirMarker ==
    SharedPartials = FALSE => (Spec => []FolderMatchesMarker)
<1> SUFFICES ASSUME SharedPartials = FALSE PROVE Spec => []FolderMatchesMarker
  OBVIOUS
<1>1. CacheInv => FolderMatchesMarker
  BY DEF CacheInv
<1> QED BY <1>1, CacheInvariant, PTL
=============================================================================
