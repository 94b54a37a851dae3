----------------------- MODULE DatasetStoreProperties -----------------------
(* What the download cache and the raw source folder must keep. *)
EXTENDS DatasetStore

\* A cache entry that has its file and its manifest holds exactly the bytes the manifest
\* names (cache.py: "immutable, checksum-verified"), through every stop, crash, resume
\* and cleanup; and these are the true file when its checksum was known.
EntriesMatchManifest ==
    \A a \in Assets :
        entry[a] # Absent /\ Absent \notin {entry[a].file, entry[a].manifest} =>
            /\ entry[a].file = entry[a].manifest
            /\ a \in Known => entry[a].file = True(a)

\* A published raw folder has every file of its source, and the digests its marker lists
\* are those of the bytes it was made from (materialize, build_marker), whatever other
\* fetch ran meanwhile; for files of known checksum whatever cleanup ran, too.
FolderMatchesMarker ==
    folder # NoFolder =>
        /\ DOMAIN folder.files = Range(plan)
        /\ \A a \in Range(plan) :
               a \in Known \/ cleanups = 0 => folder.files[a] = folder.sums[a]

\* Staging survives crashes: a stage always has the marker by which the next writer finds
\* it, the writer that fills a stage still has it, and a writer past recovery shares
\* .staging with nobody (create_owner_marker, recover_staging, __exit__).
StagesRecoverable ==
    /\ \A w \in Workers : stage[w].dir => "owner" \in stage[w].markers
    /\ \A w \in Workers :
           /\ run[w].pc \in {"fill", "publish"} => stage[w].dir
           /\ run[w].pc \in {"mark", "fill", "publish"} =>
                  \A v \in Workers \ {w} : stage[v] = NoStage

\* A fetch that reports completed or reused left, or found, the folder of its own
\* selection: not the one a concurrent fetch of the same name published.
FinishedFetchHasFolder ==
    \A w \in Workers :
        run[w].outcome \in {"completed", "reused"} =>
            folder # NoFolder /\ folder.identity = run[w].fetch.identity

\* docs/datasets.md: a signal "keeps the partial download for a later resume": with an
\* honest server a fetch is not refused because of what an earlier one left behind.
StoppedDownloadResumes == \A w \in Workers : run[w].outcome # "download_status"
=============================================================================
