---------------------------- MODULE DatasetStore ----------------------------
(***************************************************************************)
(* The download cache and the raw source folder (dataset_sources/cache.py, *)
(* transfer.py, fetch.py, materialization.py, dataset_storage.py), as      *)
(* fetch workers, the application's cleanup and a cancelled job use them.  *)
(*                                                                         *)
(* All fetches name one source folder and the same files; they differ in   *)
(* the selection, hence in the identity their folder would have.  A file   *)
(* is a sequence of chunks, chunk i of the true file being the number i;   *)
(* a digest is the sequence that was hashed.  An open descriptor follows   *)
(* its file when the file is renamed with its directory, or unlinked.      *)
(***************************************************************************)
EXTENDS Naturals, Sequences, FiniteSets, SequencesExt

CONSTANTS
    Workers,          \* worker processes; each runs one fetch
    Fetches,          \* what they run: [owner, identity, resume]
    Jobs,             \* the owners that are jobs of the queue, not the command line
    Plans,            \* the sources: their files, in the order they are fetched
    Size,             \* their lengths, in chunks
    Known,            \* those whose size and checksum are known beforehand
    Ranged,           \* those the server can continue in the middle
    Local,            \* those copied from the upload store
    SharedPartials,   \* whether two live workers may hold one unfinished download
    ServerFails,      \* whether the server may refuse, break off or send other bytes
    MaxFaults,        \* bound: crashes, signals and stops
    MaxCleanups,      \* bound: cleanups of the cache
    None, Absent, Bad

VARIABLES
    plan,       \* the source all fetches name
    partial,    \* the directory <identity>.partial of each asset
    entry,      \* its complete directory
    cacheLock,  \* the worker inside complete() that holds .cache.lock
    folder,     \* data/<source_name>
    stage,      \* data/.staging/run-<uuid> of each worker, with its markers
    dataLock,   \* the worker that holds data/.dataset.lock
    run,        \* the workers
    cleaning,   \* remove_unused: None, or the assets in use when it looked
    faults, cleanups

vars == <<plan, partial, entry, cacheLock, folder, stage, dataLock, run, cleaning,
          faults, cleanups>>
disk == <<partial, entry, cacheLock>>
data == <<folder, stage, dataLock>>
service == <<plan, cleaning, cleanups>>

Assets == UNION {Range(p) : p \in Plans}
First(S) == plan[Min({i \in DOMAIN plan : plan[i] \in S})]
Owners == {f.owner : f \in Fetches}
Identities == {f.identity : f \in Fetches}
Files == Seq((UNION {1..Size[a] : a \in Assets}) \cup {Bad})
True(a) == [i \in 1..Size[a] |-> i]

ASSUME StoreAssumption ==
    /\ Plans \subseteq Seq(Assets)
    /\ Size \in [Assets -> Nat \ {0}]
    /\ Local \subseteq Known /\ Known \subseteq Assets
    /\ Ranged \subseteq Assets \ Local
    /\ Jobs \subseteq Owners
    /\ {SharedPartials, ServerFails} \subseteq BOOLEAN
    /\ MaxFaults \in Nat /\ MaxCleanups \in Nat
    /\ None \notin Workers \cup Owners \cup Identities
    /\ None \notin {"completed", "reused"}
    /\ Absent \notin [file : Files \cup {Absent}, manifest : Files \cup {Absent}]

NewPartial(o) == [owner |-> o, part |-> Absent, final |-> Absent, manifest |-> Absent]
NoStage == [markers |-> {}, dir |-> FALSE, files |-> <<>>, sums |-> <<>>]
NoFolder == [identity |-> None, files |-> <<>>, sums |-> <<>>]
Waiting == [pc |-> "new", fetch |-> None, held |-> [a \in Assets |-> None],
            asset |-> None, received |-> 0, digest |-> <<>>, file |-> "closed",
            outcome |-> None]

-----------------------------------------------------------------------------
(* What the code looks at *)

Live(w) == run[w].pc \notin {"new", "ended"}
At(w, step) == run[w].pc = step
CacheFree == cacheLock = None

\* load_entry with verify_bytes: manifest readable, size and checksum right
Whole(a) == /\ entry[a] # Absent /\ entry[a].file # Absent
            /\ entry[a].manifest = entry[a].file

\* open_partial: a readable record beside a part file
Adoptable(a) == partial[a] # Absent /\ partial[a].owner # None /\ partial[a].part # Absent

\* raw_folder_state
FolderState(identity) ==
    IF folder = NoFolder THEN "available"
    ELSE IF folder.identity = identity THEN "reusable" ELSE "conflict"

\* _markers and in_use: what the published folder was made from
InUse == DOMAIN folder.sums

Wanted(w) == {a \in Range(plan) : run[w].held[a] = None}
Unfilled(w) == Range(plan) \ DOMAIN stage[w].files

-----------------------------------------------------------------------------
(* A worker's own state *)

Goto(w, step) == run' = [run EXCEPT ![w].pc = step]
Ended(r, outcome) == [Waiting EXCEPT !.pc = "ended", !.fetch = r.fetch,
                                     !.outcome = outcome]
End(w, outcome) == run' = [run EXCEPT ![w] = Ended(@, outcome)]

\* the descriptors on a file that moved to another directory or lost its last name
Moved(from, a, to) ==
    [v \in Workers |-> IF run[v].file = from /\ run[v].asset = a
                       THEN [run[v] EXCEPT !.file = to] ELSE run[v]]

\* remove_tree of an unfinished download
Drop(a) == partial' = [partial EXCEPT ![a] = Absent]

\* the path still leads to the directory; the descriptor to the file it opened
Append1(w, chunk) ==
    LET a == run[w].asset IN
    CASE run[w].file = "part" ->
             /\ partial' = [partial EXCEPT ![a].part = Append(@, chunk)]
             /\ UNCHANGED entry
      [] run[w].file = "final" ->
             /\ partial' = [partial EXCEPT ![a].final = Append(@, chunk)]
             /\ UNCHANGED entry
      [] run[w].file = "entry" ->
             /\ entry' = [entry EXCEPT ![a].file = Append(@, chunk)]
             /\ UNCHANGED partial
      [] OTHER -> UNCHANGED <<partial, entry>>

Fault == faults < MaxFaults /\ faults' = faults + 1

-----------------------------------------------------------------------------
(* fetch_dataset: resolve and look at what is there *)

\* the queue starts a job's worker only while no cleanup runs
Begin(w, f) ==
    /\ At(w, "new")
    /\ f.owner \in Jobs => cleaning = None
    /\ LET r == [run[w] EXCEPT !.fetch = f] IN
       run' = [run EXCEPT ![w] = CASE FolderState(f.identity) = "available" ->
                                          [r EXCEPT !.pc = "needs"]
                                   [] FolderState(f.identity) = "reusable" ->
                                          Ended(r, "reused")
                                   [] OTHER -> Ended(r, "source_folder_occupied")]
    /\ UNCHANGED <<disk, data, service, faults>>

\* asset_needs: verified entries are used as they are
Needs(w) ==
    /\ At(w, "needs")
    /\ run' = [run EXCEPT ![w].pc = "next",
                          ![w].held = [a \in Assets |-> IF Whole(a) THEN entry[a].manifest
                                                                    ELSE None]]
    /\ UNCHANGED <<disk, data, service, faults>>

\* ensure_assets: the next asset without an entry; find_materialized after the last
Next1(w) ==
    /\ At(w, "next")
    /\ IF Wanted(w) # {}
       THEN run' = [run EXCEPT ![w].pc = "open", ![w].asset = First(Wanted(w))]
       ELSE CASE FolderState(run[w].fetch.identity) = "available" -> Goto(w, "enter")
              [] FolderState(run[w].fetch.identity) = "reusable" -> End(w, "reused")
              [] OTHER -> End(w, "source_folder_occupied")
    /\ UNCHANGED <<disk, data, service, faults>>

-----------------------------------------------------------------------------
(* Downloading and importing into an unfinished directory *)

\* who else is between open_partial and the end of this asset
Others(w, a) == {v \in Workers \ {w} : Live(v) /\ run[v].asset = a}

\* under the cache lock: adopt the bytes that are there, whoever received them
OpenPartial(w) ==
    LET a == run[w].asset
        o == run[w].fetch.owner
        moved == IF Adoptable(a) THEN run ELSE Moved("part", a, "gone")
    IN /\ At(w, "open") /\ CacheFree
       /\ SharedPartials \/ Others(w, a) = {}
       /\ partial' = [partial EXCEPT ![a] = IF Adoptable(a) THEN [@ EXCEPT !.owner = o]
                                            ELSE NewPartial(o)]
       /\ run' = [moved EXCEPT ![w].pc = "connect"]
       /\ UNCHANGED <<entry, cacheLock, data, service, faults>>

\* the bytes to continue from; none when told not to resume or unable to
Kept(w) ==
    LET a == run[w].asset IN
    IF partial[a].part = Absent \/ ~run[w].fetch.resume \/ a \notin Ranged THEN <<>>
    ELSE partial[a].part

\* the answers an honest server gives: to the end of the file a range is refused
Accepted(w) == IF Kept(w) = <<>> THEN {<<>>}
               ELSE IF Len(Kept(w)) >= Size[run[w].asset] THEN {} ELSE {Kept(w), <<>>}

\* a fault: continue after the kept bytes without hashing them
FaultyConnect(w) ==
    LET a == run[w].asset IN
    /\ At(w, "connect") /\ a \notin Local /\ partial[a] # Absent
    /\ \E kept \in Accepted(w) :
           /\ partial' = [partial EXCEPT ![a].part = kept]
           /\ run' = [run EXCEPT ![w].pc = "stream", ![w].received = Len(kept),
                                 ![w].digest = <<>>, ![w].file = "part"]
    /\ UNCHANGED <<entry, cacheLock, data, service, faults>>

\* open_for_append, truncate, the request, _accept_response (206, or 200 and restart),
\* then hash what is kept
Connect(w) ==
    LET a == run[w].asset IN
    /\ At(w, "connect") /\ a \notin Local /\ partial[a] # Absent
    /\ \E kept \in Accepted(w) :
           /\ partial' = [partial EXCEPT ![a].part = kept]
           /\ run' = [run EXCEPT ![w].pc = "stream", ![w].received = Len(kept),
                                 ![w].digest = kept, ![w].file = "part"]
    /\ UNCHANGED <<entry, cacheLock, data, service, faults>>

\* import_file starts over whatever is there; the upload store's file is then streamed
Import(w) ==
    LET a == run[w].asset IN
    /\ At(w, "connect") /\ a \in Local /\ partial[a] # Absent
    /\ partial' = [partial EXCEPT ![a].part = <<>>]
    /\ run' = [run EXCEPT ![w].pc = "stream", ![w].file = "part"]
    /\ UNCHANGED <<entry, cacheLock, data, service, faults>>

\* any other status: the request fails, the file stays as it was left
Refused(w) ==
    LET a == run[w].asset IN
    /\ At(w, "connect")
    /\ \/ /\ partial[a] = Absent        \* a cleanup took the directory
          /\ UNCHANGED partial
          /\ End(w, "dataset_storage")
       \/ /\ a \notin Local /\ partial[a] # Absent
          /\ Accepted(w) = {} \/ ServerFails
          /\ partial' = [partial EXCEPT ![a].part = Kept(w)]
          /\ End(w, "download_status")
    /\ UNCHANGED <<entry, cacheLock, data, service, faults>>

\* one chunk: hashed, and appended to whatever file the descriptor holds
Receive(w) ==
    LET a == run[w].asset IN
    /\ At(w, "stream") /\ run[w].received < Size[a]
    /\ \E chunk \in {run[w].received + 1} \cup (IF ServerFails /\ a \notin Local THEN {Bad} ELSE {}) :
           LET got == [run EXCEPT ![w].received = @ + 1, ![w].digest = Append(@, chunk)]
           IN /\ Append1(w, chunk)
              /\ run' = got
    /\ UNCHANGED <<cacheLock, data, service, faults>>

\* download_asset returns: the size and checksum of what it received are right, as
\* far as they are known; without a known size the end may come early
Received(w) ==
    LET a == run[w].asset IN
    /\ At(w, "stream")
    /\ IF a \in Known THEN run[w].digest = True(a)
       ELSE run[w].received = Size[a] \/ ServerFails
    /\ run' = [run EXCEPT ![w].pc = "complete", ![w].file = "closed"]
    /\ UNCHANGED <<disk, data, service, faults>>

\* the connection broke, or _download drops what failed its check; a failed import
\* drops the file whoever owns it by now
Unusable(w) ==
    LET a == run[w].asset
        own == partial[a] # Absent /\ (a \in Local \/ partial[a].owner = run[w].fetch.owner)
    IN /\ At(w, "stream") /\ ServerFails
       /\ \/ /\ a \notin Local
             /\ UNCHANGED partial
             /\ End(w, "download_connection")
          \/ /\ a \in Known => run[w].digest # True(a)
             /\ CacheFree
             /\ IF own THEN Drop(a) ELSE UNCHANGED partial
             /\ LET moved == IF own THEN Moved("part", a, "gone") ELSE run
                IN run' = [moved EXCEPT ![w] = Ended(@, "download_checksum_mismatch")]
       /\ UNCHANGED <<entry, cacheLock, data, service, faults>>

-----------------------------------------------------------------------------
(* complete: verify, then publish under the cache lock *)

\* the file at the path, which need not be the one that was written
Complete(w) ==
    LET a == run[w].asset IN
    /\ At(w, "complete")
    /\ IF partial[a] # Absent /\ partial[a].part # Absent
          /\ Len(partial[a].part) = run[w].received
       THEN Goto(w, "seal") ELSE End(w, "cache_storage")
    /\ UNCHANGED <<disk, data, service, faults>>

\* the worker goes on with an entry; it does not read it again
Holding(r, a, digest) == [r EXCEPT !.pc = "next", !.asset = None, !.held[a] = digest,
                                   !.received = 0, !.digest = <<>>]

\* _adopt_existing: an entry that appeared meanwhile is kept, unless it is damaged
AdoptEntry(w) ==
    LET a == run[w].asset IN
    /\ At(w, "seal") /\ CacheFree /\ entry[a] # Absent
    /\ IF Whole(a)
       THEN /\ Drop(a)
            /\ run' = [Moved("part", a, "gone") EXCEPT ![w] =
                           Holding(@, a, entry[a].manifest)]
       ELSE End(w, "cache_entry_corrupt") /\ UNCHANGED partial
    /\ UNCHANGED <<entry, cacheLock, data, service, faults>>

\* _seal_partial: the part gets its final name, the record goes
Seal(w) ==
    LET a == run[w].asset IN
    /\ At(w, "seal") /\ CacheFree /\ entry[a] = Absent
    /\ IF partial[a] # Absent /\ partial[a].part # Absent
       THEN /\ partial' = [partial EXCEPT ![a] = [@ EXCEPT !.owner = None, !.part = Absent,
                                                           !.final = partial[a].part]]
            /\ run' = [Moved("part", a, "final") EXCEPT ![w].pc = "manifest"]
            /\ cacheLock' = w
       ELSE End(w, "cache_storage") /\ UNCHANGED <<partial, cacheLock>>
    /\ UNCHANGED <<entry, data, service, faults>>

\* write_manifest_file: the digest of what was received, not of what is there
WriteManifest(w) ==
    /\ At(w, "manifest")
    /\ partial' = [partial EXCEPT ![run[w].asset].manifest = run[w].digest]
    /\ Goto(w, "rename")
    /\ UNCHANGED <<entry, cacheLock, data, service, faults>>

\* publish_directory: one rename, under the lock that excludes any other entry
PublishEntry(w) ==
    LET a == run[w].asset IN
    /\ At(w, "rename")
    /\ entry' = [entry EXCEPT ![a] = [file |-> partial[a].final,
                                      manifest |-> partial[a].manifest]]
    /\ Drop(a)
    /\ run' = [Moved("final", a, "entry") EXCEPT ![w] = Holding(@, a, run[w].digest)]
    /\ cacheLock' = None
    /\ UNCHANGED <<data, service, faults>>

-----------------------------------------------------------------------------
(* materialize: DatasetWriter around the stage *)

\* __enter__: the data root's lock, without waiting
Enter(w) ==
    /\ At(w, "enter")
    /\ IF dataLock = None THEN dataLock' = w /\ Goto(w, "recover")
       ELSE End(w, "dataset_busy") /\ UNCHANGED dataLock
    /\ UNCHANGED <<disk, folder, stage, service, faults>>

\* recover_staging: every marked stage and every marker of an earlier run; it stops
\* at a stage that has only the unfinished marker
RecoverStaging(w) ==
    /\ At(w, "recover")
    /\ IF \E v \in Workers : stage[v].markers = {"pending"} /\ stage[v].dir
       THEN End(w, "dataset_storage") /\ dataLock' = None /\ UNCHANGED stage
       ELSE /\ stage' = [v \in Workers |-> IF stage[v].markers # {} THEN NoStage
                                           ELSE stage[v]]
            /\ Goto(w, "mark") /\ UNCHANGED dataLock
    /\ UNCHANGED <<disk, folder, service, faults>>

\* a fault: the directory before its marker
FaultyMark(w) ==
    LET s == stage[w] IN
    /\ At(w, "mark")
    /\ stage' = [stage EXCEPT ![w] =
                     CASE ~s.dir -> [s EXCEPT !.dir = TRUE]
                       [] OTHER -> [s EXCEPT !.markers = {"owner"}]]
    /\ IF s.dir THEN Goto(w, "fill") ELSE UNCHANGED run
    /\ UNCHANGED <<disk, folder, dataLock, service, faults>>

\* create_owner_marker writes it aside, links it, drops the other name; then mkdir
Mark(w) ==
    LET s == stage[w] IN
    /\ At(w, "mark")
    /\ stage' = [stage EXCEPT ![w] =
                     CASE s.markers = {} -> [s EXCEPT !.markers = {"pending"}]
                       [] s.markers = {"pending"} -> [s EXCEPT !.markers = @ \cup {"owner"}]
                       [] s.markers = {"pending", "owner"} -> [s EXCEPT !.markers = {"owner"}]
                       [] OTHER -> [s EXCEPT !.dir = TRUE]]
    /\ IF s.markers = {"owner"} THEN Goto(w, "fill") ELSE UNCHANGED run
    /\ UNCHANGED <<disk, folder, dataLock, service, faults>>

\* the way out through __exit__
Leave(w, outcome) == run' = [run EXCEPT ![w].pc = "leave", ![w].outcome = outcome]

\* one more file in a stage
With(files, a, bytes) ==
    [b \in DOMAIN files \cup {a} |-> IF b = a THEN bytes ELSE files[b]]

\* a fault: a file that cannot be read is left out
FaultyFill(w) ==
    /\ At(w, "fill") /\ Unfilled(w) # {}
    /\ LET a == First(Unfilled(w)) IN
           stage' = [stage EXCEPT ![w].files =
                         With(@, a, IF entry[a] = Absent THEN Absent ELSE entry[a].file)]
    /\ UNCHANGED <<disk, run, folder, dataLock, service, faults>>

\* _materialize_asset: read the entry's file, wherever it is by now
Fill(w) ==
    /\ At(w, "fill") /\ Unfilled(w) # {}
    /\ LET a == First(Unfilled(w)) IN
           IF entry[a] # Absent /\ entry[a].file # Absent
           THEN /\ stage' = [stage EXCEPT ![w].files = With(@, a, entry[a].file)]
                /\ UNCHANGED run
           ELSE Leave(w, "source_unreadable") /\ UNCHANGED stage
    /\ UNCHANGED <<disk, folder, dataLock, service, faults>>

\* build_marker, write_source_marker: the manifests' digests
WriteSourceMarker(w) ==
    /\ At(w, "fill") /\ Unfilled(w) = {}
    /\ stage' = [stage EXCEPT ![w].sums = [a \in Range(plan) |-> run[w].held[a]]]
    /\ Goto(w, "publish")
    /\ UNCHANGED <<disk, folder, dataLock, service, faults>>

\* a fault: a folder that is there already counts as this fetch's own
FaultyOccupied(w) ==
    /\ At(w, "publish")
    /\ IF folder = NoFolder
       THEN folder' = [identity |-> run[w].fetch.identity, files |-> stage[w].files,
                       sums |-> stage[w].sums]
       ELSE UNCHANGED folder
    /\ stage' = [stage EXCEPT ![w].dir = folder # NoFolder]
    /\ Leave(w, "completed")
    /\ UNCHANGED <<disk, dataLock, service, faults>>

\* DatasetWriter.publish: the stage becomes the folder unless there is one
Publish(w) ==
    /\ At(w, "publish")
    /\ IF folder = NoFolder
       THEN /\ folder' = [identity |-> run[w].fetch.identity, files |-> stage[w].files,
                          sums |-> stage[w].sums]
            /\ stage' = [stage EXCEPT ![w] = [NoStage EXCEPT !.markers = {"owner"}]]
            /\ Leave(w, "completed")
       ELSE Leave(w, "source_folder_occupied") /\ UNCHANGED <<folder, stage>>
    /\ UNCHANGED <<disk, dataLock, service, faults>>

\* remove_owned_stage and _release_lock: the directory, its marker, the lock
Exit(w) ==
    /\ At(w, "leave")
    /\ IF stage[w].dir
       THEN stage' = [stage EXCEPT ![w] = [NoStage EXCEPT !.markers = {"owner"}]]
            /\ UNCHANGED <<run, dataLock>>
       ELSE /\ stage' = [stage EXCEPT ![w] = NoStage]
            /\ End(w, run[w].outcome) /\ dataLock' = None
    /\ UNCHANGED <<disk, folder, service, faults>>

-----------------------------------------------------------------------------
(* Signals, crashes, and the application beside the workers *)

Held(lock, w) == IF lock = w THEN None ELSE lock

\* DatasetTerminated, wherever the worker is: _stopped keeps the unfinished files and
\* DatasetWriter removes its stage
Terminate(w) ==
    /\ Live(w) /\ run[w].pc # "leave" /\ Fault
    /\ IF dataLock = w THEN Leave(w, "stopped") ELSE End(w, "stopped")
    /\ cacheLock' = Held(cacheLock, w)
    /\ UNCHANGED <<partial, entry, data, service>>

\* the process dies: its locks and descriptors go, its files stay
Crash(w) ==
    /\ Live(w) /\ Fault
    /\ End(w, "crashed")
    /\ cacheLock' = Held(cacheLock, w) /\ dataLock' = Held(dataLock, w)
    /\ UNCHANGED <<partial, entry, folder, stage, service>>

\* discard_partials of a job that is cancelled while it is queued or paused
DiscardPartials(o) ==
    LET own == {a \in Assets : partial[a] # Absent /\ partial[a].owner = o} IN
    /\ o \in Jobs /\ CacheFree /\ own # {}
    /\ \A w \in Workers : Live(w) => run[w].fetch.owner # o
    /\ partial' = [a \in Assets |-> IF a \in own THEN Absent ELSE partial[a]]
    /\ run' = [w \in Workers |-> IF run[w].file = "part" /\ run[w].asset \in own
                                 THEN [run[w] EXCEPT !.file = "gone"] ELSE run[w]]
    /\ UNCHANGED <<entry, cacheLock, data, service, faults>>

\* remove_unused: no job may download; then in_use, before the cache lock
Collect ==
    /\ cleaning = None /\ cleanups < MaxCleanups
    /\ \A w \in Workers : Live(w) => run[w].fetch.owner \notin Jobs
    /\ cleaning' = InUse /\ cleanups' = cleanups + 1
    /\ UNCHANGED <<plan, disk, data, run, faults>>

\* clear_unused_entries: all unfinished files, and the entries not in use
Clear ==
    LET kept == {a \in Assets : a \in cleaning} IN
    /\ cleaning # None /\ CacheFree
    /\ partial' = [a \in Assets |-> Absent]
    /\ entry' = [a \in Assets |-> IF a \in kept THEN entry[a] ELSE Absent]
    /\ run' = [w \in Workers |->
                   IF \/ run[w].file = "part"
                      \/ run[w].file = "entry" /\ run[w].asset \notin kept
                   THEN [run[w] EXCEPT !.file = "gone"] ELSE run[w]]
    /\ cleaning' = None
    /\ UNCHANGED <<plan, cacheLock, data, faults, cleanups>>

\* the application dies while it removes an entry: its file or its manifest is left
ClearHalf(a) ==
    /\ cleaning # None /\ CacheFree /\ a \notin cleaning /\ entry[a] # Absent /\ Fault
    /\ \/ entry' = [entry EXCEPT ![a].file = Absent]
       \/ entry' = [entry EXCEPT ![a].manifest = Absent]
    /\ cleaning' = None
    /\ UNCHANGED <<plan, partial, cacheLock, data, run, cleanups>>

-----------------------------------------------------------------------------
Init ==
    /\ plan \in Plans
    /\ partial = [a \in Assets |-> Absent] /\ entry = [a \in Assets |-> Absent]
    /\ cacheLock = None /\ dataLock = None
    /\ folder = NoFolder /\ stage = [w \in Workers |-> NoStage]
    /\ run = [w \in Workers |-> Waiting]
    /\ cleaning = None /\ faults = 0 /\ cleanups = 0

Work(w) ==
    \/ Needs(w) \/ Next1(w) \/ OpenPartial(w) \/ Connect(w) \/ Import(w) \/ Refused(w)
    \/ Receive(w) \/ Received(w) \/ Unusable(w) \/ Complete(w)
    \/ AdoptEntry(w) \/ Seal(w) \/ WriteManifest(w) \/ PublishEntry(w)
    \/ Enter(w) \/ RecoverStaging(w) \/ Mark(w) \/ Fill(w)
    \/ WriteSourceMarker(w) \/ Publish(w) \/ Exit(w)

Next ==
    \/ \E w \in Workers : Work(w) \/ Terminate(w) \/ Crash(w)
    \/ \E w \in Workers, f \in Fetches : Begin(w, f)
    \/ \E o \in Jobs : DiscardPartials(o)
    \/ Collect \/ Clear \/ \E a \in Assets : ClearHalf(a)

Spec == Init /\ [][Next]_vars
=============================================================================
