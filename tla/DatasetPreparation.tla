-------------------------- MODULE DatasetPreparation --------------------------
(***************************************************************************)
(* Preparing a dataset revision: the scan of a source folder, the import   *)
(* of its images, the groups that keep related images in one split, and    *)
(* the reuse of an earlier revision (dataset_preparation.py and the        *)
(* modules it calls).  A revision is immutable and named by its content;   *)
(* how a stage becomes a folder is DatasetStore's subject.                 *)
(***************************************************************************)
EXTENDS Integers, FiniteSets, FiniteSetsExt

CONSTANTS
    Files,           \* source_path, 1 .. n in sorted order
    Pictures,        \* contents that can be read, known by rgb_checksum
    Small,           \* those with a side below 256: not eligible
    Unreadable,      \* a content that cannot
    UpstreamLabels,  \* set column of the metadata
    Mappings,        \* split_mapping: from labels to splits
    MaxEdits, MaxRuns   \* bounds: files changed by the user, preparations

VARIABLES
    source,     \* the folder: content and age of each file
    rows,       \* its metadata, or none
    revisions,  \* the published revisions
    prepared,   \* what the last preparation was asked for and answered with
    run,        \* prepare_dataset, which has the lock
    efforts     \* counts edits and runs

preparationVars == <<source, rows, revisions, prepared, run, efforts>>

NoRows == <<>>
NoAnswer == {}
NoImport == [pc |-> "none", mapping |-> <<>>, seen |-> <<>>, images |-> <<>>]

ASSUME PreparationAssumption ==
    /\ IsFiniteSet(Files) /\ Files = 1..Cardinality(Files) /\ Files # {}
    /\ Unreadable \notin Pictures /\ Small \subseteq Pictures
    /\ \A m \in Mappings : DOMAIN m = UpstreamLabels
    /\ {MaxEdits, MaxRuns} \subseteq Nat

-----------------------------------------------------------------------------
(* assign_groups: union-find over the images, in the order of their paths. *)
(* An image is linked by its pixels and by its declared identity           *)

RgbKey(images, f) == <<"rgb", images[f]>>
IdentityKey(f) == <<"identity", rows[f].identity>>
Keys(images, f) == {RgbKey(images, f)} \cup (IF rows = NoRows THEN {} ELSE {IdentityKey(f)})

\* find also shortens the paths it walks, which changes no root
Root(parents, f) ==
    LET at[n \in 0..Cardinality(Files)] == IF n = 0 THEN f ELSE parents[at[n - 1]]
    IN at[Cardinality(Files)]

\* a fault: the image is moved, not the group it is in by now
FaultyLink(forest, f, key) ==
    IF key \in DOMAIN forest.tokens
    THEN [forest EXCEPT !.parents[f] = Root(forest.parents, forest.tokens[key])]
    ELSE [forest EXCEPT !.tokens = [k \in DOMAIN @ \cup {key} |-> IF k = key THEN f ELSE @[k]]]

\* one key of one image: the first image with it, or a link to that one's group
Link(forest, f, key) ==
    IF key \in DOMAIN forest.tokens
    THEN [forest EXCEPT !.parents[Root(forest.parents, f)] =
                            Root(forest.parents, forest.tokens[key])]
    ELSE [forest EXCEPT !.tokens = [k \in DOMAIN @ \cup {key} |-> IF k = key THEN f ELSE @[k]]]

LinkImage(forest, images, f) ==
    LET pixels == Link(forest, f, RgbKey(images, f)) IN
    IF rows = NoRows THEN pixels ELSE Link(pixels, f, IdentityKey(f))

Forest(images) ==
    LET after[f \in 0..Cardinality(Files)] ==
            IF f = 0 THEN [parents |-> [g \in Files |-> g], tokens |-> <<>>]
            ELSE IF f \in DOMAIN images THEN LinkImage(after[f - 1], images, f) ELSE after[f - 1]
    IN after[Cardinality(Files)]

Groups(images) ==
    LET parents == Forest(images).parents
        roots == {Root(parents, f) : f \in DOMAIN images}
    IN {{f \in DOMAIN images : Root(parents, f) = r} : r \in roots}

GroupId(images, group) == UNION {Keys(images, f) : f \in group}
DeclaredSplits(mapping, group) == IF rows = NoRows THEN {} ELSE {mapping[rows[f].label] : f \in group}

\* the split of an undeclared group comes from a checksum of its identifier; any function
\* of the identifier will do
Generated(id) == IF Cardinality(id) % 2 = 1 THEN "train" ELSE "tuning"

Conflict(images, mapping) ==
    \E group \in Groups(images) : Cardinality(DeclaredSplits(mapping, group)) > 1

\* some image is left, and no group is declared for two splits
Groupable(images, mapping) == DOMAIN images # {} /\ ~Conflict(images, mapping)

\* the record of each image: its group, its split, and the first image with its pixels
Assign(images, mapping) ==
    LET GroupOf(f) == CHOOSE group \in Groups(images) : f \in group
        Split(group) == LET declared == DeclaredSplits(mapping, group) IN
            IF declared = {} THEN Generated(GroupId(images, group))
                             ELSE CHOOSE split \in declared : TRUE
    IN [f \in DOMAIN images |->
           [group |-> GroupId(images, GroupOf(f)),
            split |-> Split(GroupOf(f)),
            representative |-> Min({g \in DOMAIN images : images[g] = images[f]})]]

Trainable(images, records) ==
    \E f \in DOMAIN images :
        images[f] \notin Small /\ records[f].split = "train" /\ records[f].representative = f

\* validated_records: every count and group of a revision follows from its images
Valid(revision) ==
    /\ Groupable(revision.images, revision.mapping)
    /\ Assign(revision.images, revision.mapping) = revision.records
    /\ Trainable(revision.images, revision.records)

-----------------------------------------------------------------------------
(* prepare_dataset, one at a time *)

\* what can be decoded and converted; the rest is rejected
Decodes(content) == content # Unreadable

\* read_source_bytes: the file that the scan saw, or none
Unchanged(f) == source[f] = run.seen[f]

Contents(seen) == [f \in Files |-> seen[f].content]
EffectiveMapping(mapping) == IF rows = NoRows THEN <<>> ELSE mapping

\* the manifest and the records; its name is a checksum of both
Revision(images, mapping) ==
    [mapping |-> mapping, seen |-> run.seen, images |-> images,
     records |-> Assign(images, mapping)]

\* the scan and the first reading of every file; metadata that names the files is given
InventoryDataset(mapping) ==
    /\ run.pc = "none"
    /\ efforts.runs < MaxRuns /\ efforts' = [efforts EXCEPT !.runs = @ + 1]
    /\ run' = [pc |-> "reuse", mapping |-> mapping, seen |-> source, images |-> <<>>]
    /\ UNCHANGED <<source, rows, revisions, prepared>>

\* _same_request compares the settings, the mapping not among them; stored and current are
\* the checksums of all files, the rejected ones included
Reusable(revision) == Contents(revision.seen) = Contents(run.seen) /\ Valid(revision)

Answer(revision) == prepared' = {[mapping |-> EffectiveMapping(run.mapping), seen |-> run.seen,
                                  revision |-> revision]}

ReuseRevision ==
    /\ run.pc = "reuse"
    /\ LET reusable == {revision \in revisions : Reusable(revision)} IN
       \/ \E revision \in reusable : Answer(revision) /\ run' = NoImport
       \/ reusable = {} /\ run' = [run EXCEPT !.pc = "import"] /\ UNCHANGED prepared
    /\ UNCHANGED <<source, rows, revisions, efforts>>

ImportImage(f) ==
    LET content == run.seen[f].content IN
    /\ run.pc = "import"
    /\ f \notin DOMAIN run.images
    /\ Decodes(content)
    /\ \A g \in Files : g < f /\ Decodes(run.seen[g].content) => g \in DOMAIN run.images
    /\ Unchanged(f)
    /\ run' = [run EXCEPT !.images = [g \in DOMAIN @ \cup {f} |-> IF g = f THEN content ELSE @[g]]]
    /\ UNCHANGED <<source, rows, revisions, prepared, efforts>>

\* write_manifest, the check of the stage, and publication under the name of the content
PublishRevision ==
    LET images == run.images
        mapping == EffectiveMapping(run.mapping)
        revision == Revision(images, mapping) IN
    /\ run.pc = "import"
    /\ \A f \in Files \ DOMAIN images : ~Decodes(run.seen[f].content)
    /\ Groupable(images, mapping)
    /\ Valid(revision)
    /\ revisions' = revisions \cup {revision}
    /\ Answer(revision)
    /\ run' = NoImport
    /\ UNCHANGED <<source, rows, efforts>>

\* a changed file, conflicting splits, nothing to train on, no space, a crash: the stage goes
PreparationFails ==
    /\ run.pc # "none" /\ run' = NoImport
    /\ UNCHANGED <<source, rows, revisions, prepared, efforts>>

\* the user replaces a file, with the same content or another
EditSource(f, content) ==
    /\ efforts.edits < MaxEdits /\ efforts' = [efforts EXCEPT !.edits = @ + 1]
    /\ source' = [source EXCEPT ![f] = [content |-> content, age |-> @.age + 1]]
    /\ UNCHANGED <<rows, revisions, prepared, run>>

-----------------------------------------------------------------------------
Folders == [Files -> [content : Pictures \cup {Unreadable}, age : {0}]]

\* an identity is the file's own, unless the metadata names one that several files share
Metadata == {r \in [Files -> [label : UpstreamLabels, identity : {0} \cup Files]] :
                 \A f \in Files : r[f].identity \in {0, f}}

PreparationInit ==
    /\ source \in Folders
    /\ rows \in {NoRows} \cup Metadata
    /\ revisions = {} /\ prepared = NoAnswer /\ run = NoImport
    /\ efforts = [edits |-> 0, runs |-> 0]

PreparationNext ==
    \/ \E mapping \in Mappings : InventoryDataset(mapping)
    \/ ReuseRevision \/ PublishRevision \/ PreparationFails
    \/ \E f \in Files : ImportImage(f) \/ \E c \in Pictures : EditSource(f, c)

PreparationSpec == PreparationInit /\ [][PreparationNext]_preparationVars

-----------------------------------------------------------------------------
(* Properties *)

Linked(images, f, g) ==
    \/ images[f] = images[g]
    \/ rows # NoRows /\ rows[f].identity = rows[g].identity

\* the chains of links, without union-find
Connected(images, f) ==
    LET reach[n \in 0..Cardinality(Files)] ==
            IF n = 0 THEN {f}
            ELSE {h \in DOMAIN images : \E g \in reach[n - 1] : Linked(images, g, h)}
    IN reach[Cardinality(Files)]

\* "Use union-find so linked identities and RGB duplicates cannot leak" (dataset_groups.py):
\* in every revision two images that a chain of equal pixels and equal identities connects
\* are in one group and one split, others are not in one group; a declared split is kept;
\* and all images are from one look at the source, although they were read twice.
SplitsDoNotLeak ==
    \A revision \in revisions :
        /\ \A f, g \in DOMAIN revision.images :
               /\ (revision.records[f].group = revision.records[g].group)
                      <=> g \in Connected(revision.images, f)
               /\ g \in Connected(revision.images, f) =>
                      revision.records[f].split = revision.records[g].split
        /\ \A f \in DOMAIN revision.images :
               /\ rows # NoRows => revision.records[f].split = revision.mapping[rows[f].label]
               /\ revision.images[f] = revision.seen[f].content
        /\ DOMAIN revision.images = {f \in Files : Decodes(revision.seen[f].content)}

\* "Verify exact inputs before reusing an existing completed dataset revision."
\* (dataset_reuse.py): a preparation answers with a revision of the source it saw, whose
\* images have the splits that the mapping it was asked for gives their labels.
PreparedAsRequested ==
    \A answer \in prepared :
        /\ Contents(answer.revision.seen) = Contents(answer.seen)
        /\ rows # NoRows =>
               \A f \in DOMAIN answer.revision.records :
                   answer.revision.records[f].split = answer.mapping[rows[f].label]
=============================================================================
