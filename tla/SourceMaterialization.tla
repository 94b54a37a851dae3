------------------------ MODULE SourceMaterialization ------------------------
(***************************************************************************)
(* From downloaded files to a source folder: extraction of archives, rows  *)
(* of parquet files and loose files, the limits on images and members, the *)
(* metadata with the declared splits, the marker, and what the inventory   *)
(* of dataset_inventory.py makes of that folder.  One run of materialize;  *)
(* the files hold whatever the environment picks when they are read.       *)
(***************************************************************************)
EXTENDS Integers, Sequences, FiniteSets, SequencesExt, FiniteSetsExt

CONSTANTS
    Paths,             \* of members and loose files: folders and a file name
    RowNames,          \* file names of rows: a checksum of the content
    AssetNames,        \* basenames of archives and shards
    UpstreamLabel,     \* upstream_label, from keys (paths, mostly of one part) to labels
    ImageCaps,         \* values of maximum_images
    MaximumMembers,    \* maximum_members of the policy
    MaxAssets, MaxRead \* bounds: assets, and members and rows read of them

VARIABLES
    plan,       \* MaterializationPlan
    staged,     \* the files in the stage of the writer
    tally,      \* MaterializationLedger
    asset,      \* the asset that is open, or none
    progress,   \* text shards put aside, and the bounded counts
    published   \* the published folder, or none

materializationVars == <<plan, staged, tally, asset, progress, published>>

NoLabel == "none"
NoAsset == [kind |-> "none"]
RunOver == [kind |-> "ended"]    \* the run has returned
NoFolder == {}

ASSUME MaterializationAssumption ==
    /\ \A p \in Paths : p \in Seq(STRING) /\ p # <<>>
    \* a label is a simplified name, which simplifies to itself
    /\ \A key \in DOMAIN UpstreamLabel :
           LET label == UpstreamLabel[key] IN
           label # NoLabel /\ (<<label>> \in DOMAIN UpstreamLabel => UpstreamLabel[<<label>>] = label)
    /\ ImageCaps \subseteq Nat \ {0} /\ {MaximumMembers, MaxAssets, MaxRead} \subseteq Nat

-----------------------------------------------------------------------------
(* Labels, by keys: a folder, an archive, a shard or file by its name or its path *)

\* split_labels: every label has a split
LabelFor(key) == IF key \in plan.labelled THEN UpstreamLabel[key] ELSE NoLabel

\* member_key: the first folder, or the archive or file itself
MemberKey(path, basename) == IF Len(path) > 1 THEN <<Head(path)>> ELSE <<basename>>

\* asset_label: of a shard or a loose file, by its own name or path, else by its folder
ByItself(path) == <<Last(path)>> \in plan.labelled \/ path \in plan.labelled
AssetLabel(path) ==
    IF ByItself(path)
    THEN LabelFor(IF <<Last(path)>> \in plan.labelled THEN <<Last(path)>> ELSE path)
    ELSE LabelFor(MemberKey(path, Last(path)))

-----------------------------------------------------------------------------
(* The ledger and the stage *)

PathsOf(files) == {file.path : file \in files}
ImageAllowed == Cardinality(tally.images) < plan.cap

\* _check_members, after each entry
Admitted(entries) ==
    Cardinality(entries.images) + entries.texts + entries.rejected <= MaximumMembers

Reject == [tally EXCEPT !.rejected = @ + 1]
Reads == progress.read < MaxRead /\ progress' = [progress EXCEPT !.read = @ + 1]
Ledgers(entries) == Admitted(entries) /\ tally' = entries

\* the images that are kept, as many as are allowed; the code goes by the order of the paths,
\* any choice will do
Selections(images) ==
    kSubset(Min({Cardinality(images), Max({0, plan.cap - Cardinality(tally.images)})}), images)

Accounted(members, images, kept, basename) ==
    [tally EXCEPT
        !.images = @ \cup {[path |-> member.path, label |-> LabelFor(MemberKey(member.path, basename))]
                              : member \in kept},
        !.texts = @ + Cardinality(members \ images),
        !.rejected = @ + asset.rejected + Cardinality(images \ kept)]

\* _keep, for all members of an archive: images past the limit leave the stage
Keep(members, basename) ==
    LET images == {member \in members : member.kind = "image"} IN
    \E kept \in Selections(images) :
        /\ Ledgers(Accounted(members, images, kept, basename))
        /\ staged' = staged \ (images \ kept)

-----------------------------------------------------------------------------
(* Assets: archives, parquet files, loose files *)

\* _materialize_asset: only Hugging Face has other files than one archive
NextAsset ==
    /\ asset = NoAsset /\ progress.assets < MaxAssets
    /\ plan.source = "hugging_face" \/ progress.assets = 0
    /\ UNCHANGED <<plan, published>>
OtherFiles == plan.source = "hugging_face"
Opened == progress' = [progress EXCEPT !.assets = @ + 1]

\* classify_member: what its name says, and bytes that agree
Accepted(kind) == kind \in {"image", "text"}

OpenArchive(name) ==
    /\ NextAsset
    /\ asset' = [kind |-> "archive", name |-> name, seen |-> {}, kept |-> {}, rejected |-> 0]
    /\ Opened /\ UNCHANGED <<staged, tally>>

\* a shard of images: the schema has the column; of texts: it is put aside
OpenRows(name, folder) ==
    /\ NextAsset /\ OtherFiles /\ plan.content = "images"
    /\ asset' = [kind |-> "rows", label |-> AssetLabel(<<folder, name>>)]
    /\ Opened /\ UNCHANGED <<staged, tally>>

PutAside(name, folder) ==
    /\ NextAsset /\ OtherFiles /\ plan.content = "text"
    /\ progress' = [progress EXCEPT !.assets = @ + 1,
                                    !.shards = @ \cup {<<folder, AssetLabel(<<folder, name>>)>>}]
    /\ UNCHANGED <<asset, staged, tally>>

\* what the entries of a zip or tar file are; "special" for links and encrypted ones,
\* "refused" for the others that are not accepted
MemberKinds == {"image", "text", "refused", "special"}

\* handle: a link or an encrypted member, a name seen before, a name or content that is not
\* accepted; a name already in the stage is a storage failure of the run
ReadMember(path, kind) ==
    /\ asset.kind = "archive" /\ UNCHANGED <<plan, published>> /\ Reads /\ UNCHANGED tally
    /\ IF kind = "special" \/ path \in asset.seen
       THEN asset' = [asset EXCEPT !.rejected = @ + 1] /\ UNCHANGED staged
       ELSE \/ ~Accepted(kind)
               /\ asset' = [asset EXCEPT !.rejected = @ + 1, !.seen = @ \cup {path}]
               /\ UNCHANGED staged
            \/ Accepted(kind) /\ path \notin PathsOf(staged)
               /\ asset' = [asset EXCEPT !.seen = @ \cup {path},
                                         !.kept = @ \cup {[path |-> path, kind |-> kind]}]
               /\ staged' = staged \cup {[path |-> path, kind |-> kind]}

EndArchive ==
    /\ asset.kind = "archive" /\ UNCHANGED <<plan, published>>
    /\ Keep(asset.kept, asset.name)
    /\ asset' = NoAsset /\ UNCHANGED progress

\* _parquet_images: a row is saved under its label and the checksum of its bytes
ReadRow(name, usable) ==
    LET image == [path |-> <<IF asset.label = NoLabel THEN "images" ELSE asset.label, name>>,
                  label |-> asset.label]
    IN  /\ asset.kind = "rows" /\ UNCHANGED <<plan, published>> /\ Reads /\ UNCHANGED asset
        /\ IF ~usable \/ ~ImageAllowed \/ image.path \in PathsOf(tally.images)
           THEN Ledgers(Reject) /\ UNCHANGED staged
           ELSE /\ image.path \notin PathsOf(staged)
                /\ staged' = staged \cup {[path |-> image.path, kind |-> "image"]}
                /\ Ledgers([tally EXCEPT !.images = @ \cup {image}])

EndRows == asset.kind = "rows" /\ UNCHANGED <<plan, published>> /\ asset' = NoAsset
           /\ UNCHANGED <<staged, tally, progress>>

\* _copy_loose: written first, then kept or, past the limit, removed and rejected
CopyLoose(path, kind) ==
    /\ NextAsset /\ OtherFiles /\ Opened /\ UNCHANGED asset
    /\ \/ ~Accepted(kind) /\ Ledgers(Reject) /\ UNCHANGED staged
       \/ /\ Accepted(kind) /\ path \notin PathsOf(staged)
          /\ IF kind = "image" /\ ~ImageAllowed
             THEN Ledgers(Reject) /\ UNCHANGED staged
             ELSE /\ staged' = staged \cup {[path |-> path, kind |-> kind]}
                  /\ Ledgers(IF kind = "text" THEN [tally EXCEPT !.texts = @ + 1]
                             ELSE [tally EXCEPT !.images =
                                       @ \cup {[path |-> path, label |-> AssetLabel(path)]}])

\* _text_corpus: the rows of all shards of a folder and label become one file
WriteCorpus ==
    LET corpora == {<<shard[1], IF shard[2] = NoLabel THEN "text" ELSE shard[2]>>
                        : shard \in progress.shards}
    IN  /\ asset = NoAsset /\ corpora # {}
        /\ corpora \cap PathsOf(staged) = {}
        /\ staged' = staged \cup {[path |-> path, kind |-> "text"] : path \in corpora}
        /\ Ledgers([tally EXCEPT !.texts = @ + Cardinality(corpora)])
        /\ progress' = [progress EXCEPT !.shards = {}, !.assets = MaxAssets]
        /\ UNCHANGED <<plan, asset, published>>

-----------------------------------------------------------------------------
(* Metadata, marker, publication *)

Row(image) == [name |-> Last(image.path), label |-> image.label]

\* a fault: the names of the images are not compared
FaultyMetadataRows ==
    IF tally.images # {} /\ \A image \in tally.images : image.label # NoLabel
    THEN {Row(image) : image \in tally.images} ELSE {}

\* metadata_csv: only when every image has a label, and a file name of its own
MetadataRows ==
    IF /\ tally.images # {}
       /\ \A image \in tally.images : image.label # NoLabel
       /\ Cardinality({Last(path) : path \in PathsOf(tally.images)}) = Cardinality(tally.images)
    THEN {Row(image) : image \in tally.images} ELSE {}

\* build_marker, with the metadata that preparation_document will name
Marker == [members |-> Cardinality(tally.images) + tally.texts,
           rejected |-> tally.rejected, metadata |-> MetadataRows]

PublishSource ==
    /\ asset = NoAsset
    /\ progress.assets > 0 /\ progress.shards = {}
    /\ published' = {[files |-> staged, marker |-> Marker]}
    /\ asset' = RunOver
    /\ UNCHANGED <<plan, staged, tally, progress>>

\* a limit, a damaged file, no space, a stop: the stage is removed, nothing is published
MaterializationFails ==
    /\ asset # RunOver /\ progress.assets > 0
    /\ staged' = {} /\ tally' = [images |-> {}, texts |-> 0, rejected |-> 0]
    /\ asset' = RunOver
    /\ UNCHANGED <<plan, progress, published>>

-----------------------------------------------------------------------------
\* the keys with a label: the shards of a requested split, and what the request maps
Labelings == SUBSET DOMAIN UpstreamLabel

\* plan_for
MaterializationInit ==
    /\ plan \in [source : {"hugging_face", "archive"}, content : {"images", "text"},
                 labelled : Labelings, cap : ImageCaps]
    /\ plan.source = "archive" => plan.content = "images"
    /\ staged = {} /\ tally = [images |-> {}, texts |-> 0, rejected |-> 0]
    /\ asset = NoAsset
    /\ progress = [assets |-> 0, read |-> 0, shards |-> {}]
    /\ published = NoFolder

MaterializationNext ==
    \/ \E name \in AssetNames :
           OpenArchive(name) \/ \E folder \in {Head(path) : path \in Paths} :
                                    OpenRows(name, folder) \/ PutAside(name, folder)
    \/ EndArchive \/ EndRows \/ WriteCorpus \/ PublishSource \/ MaterializationFails
    \/ \E path \in Paths, kind \in MemberKinds :
           ReadMember(path, kind) \/ (kind # "special" /\ CopyLoose(path, kind))
    \/ \E name \in RowNames, usable \in BOOLEAN : ReadRow(name, usable)

MaterializationSpec == MaterializationInit /\ [][MaterializationNext]_materializationVars

-----------------------------------------------------------------------------
(* Properties *)

\* preparation_document: the metadata is named when splits are declared
HasMetadata(folder) == folder.marker.metadata # {}

\* inventory_dataset: image files by name against the rows, and no folder of an image may be
\* the label of others
JoinAccepts(folder) ==
    LET images == {file.path : file \in {f \in folder.files : f.kind = "image"}}
        rows == folder.marker.metadata
        labels == {row.label : row \in rows}
        LabelsOf(path) == {row.label : row \in {r \in rows : r.name = Last(path)}}
    IN  /\ Cardinality({Last(path) : path \in images}) = Cardinality(images)
        /\ Cardinality({row.name : row \in rows}) = Cardinality(rows)
        /\ {Last(path) : path \in images} = {row.name : row \in rows}
        /\ \A path \in images : \A part \in Range(Front(path)) :
               part \in labels => part \in LabelsOf(path)

\* below one folder, which no label of its own overrides
LabelledByFolder(path) == Len(path) = 2 /\ ~ByItself(path)

\* "Write the split CSV when it can be trusted" (materialization.py): a published folder holds
\* the images of its account and no others, within the limit, and counts them right; when
\* its marker declares splits the inventory of the preparation accepts them, provided that
\* every image in a folder lies directly in the one that labels it (one that lies deeper, or
\* a loose one labelled by its own name, may be in a folder named like the label of another
\* image: that source is published and never prepared).
PublishedSourcePrepares ==
    \A folder \in published :
        LET images == {f \in folder.files : f.kind = "image"} IN
        /\ PathsOf(images) = PathsOf(tally.images)
        /\ Cardinality(images) <= plan.cap
        /\ folder.marker.members = Cardinality(folder.files)
        /\ HasMetadata(folder)
           /\ (\A file \in images : Len(file.path) = 1 \/ LabelledByFolder(file.path))
               => JoinAccepts(folder)
=============================================================================
