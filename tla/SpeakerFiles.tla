----------------------------- MODULE SpeakerFiles -----------------------------
(***************************************************************************)
(* Files a speaker hands in: versions of what a task asks for, and the     *)
(* photo of the profile, which a task may ask for too                      *)
(* (src/src/lib/speakers/complete-task.ts, src/src/lib/speakers/headshot.ts).*)
(*                                                                         *)
(* A file is an object of R2 and rows of D1, with no transaction over      *)
(* both: the object is stored first, and taken away again when the rows    *)
(* could not be written.  The speaker and whoever acts for them may upload *)
(* at once.                                                                *)
(***************************************************************************)
EXTENDS Integers, Sequences, FiniteSets

CONSTANT Uploads    \* requests; each has the id of one asset, and its R2 key

VARIABLES
    objects,    \* keys in R2
    assets,     \* the table assets
    taskAsset,  \* speaker_tasks.asset_id of a task whose template is 'headshot'
    versions,   \* deliverable_versions of the task: version number -> asset
    photo,      \* speaker_profiles.headshot_asset_id
    upload,     \* the requests
    unsure      \* history: requests whose batch was applied and yet threw

filesVars == <<objects, assets, taskAsset, versions, photo, upload, unsure>>

NoAsset == "none"

ASSUME SpeakerFilesAssumption == NoAsset \notin Uploads

UploadRecords ==
    [at : {"idle", "count", "put", "batch", "clean", "over"},
     kind : {"task", "profile"},
     superseded : Uploads \cup {NoAsset},
     number : Nat]

FilesTypeOK ==
    /\ objects \subseteq Uploads /\ assets \subseteq Uploads /\ unsure \subseteq Uploads
    /\ taskAsset \in Uploads \cup {NoAsset} /\ photo \in Uploads \cup {NoAsset}
    /\ versions \subseteq [number : Nat, asset : Uploads]
    /\ upload \in [Uploads -> UploadRecords]

FilesInit ==
    /\ objects = {} /\ assets = {} /\ unsure = {}
    /\ taskAsset = NoAsset /\ photo = NoAsset
    /\ versions = {}
    /\ upload = [u \in Uploads |->
                    [at |-> "idle", kind |-> "task", superseded |-> NoAsset, number |-> 0]]

Upload(u, stage) == upload' = [upload EXCEPT ![u].at = stage]

-----------------------------------------------------------------------------

\* completeFileTask reads the task ...
ReadTask(u) ==
    /\ upload[u].at = "idle"
    /\ upload' = [upload EXCEPT ![u].at = "count", ![u].superseded = taskAsset]
    /\ UNCHANGED <<objects, assets, taskAsset, versions, photo, unsure>>

Highest == IF versions = {} THEN 0
           ELSE CHOOSE n \in {v.number : v \in versions} :
                    \A v \in versions : v.number <= n

\* ... and the number of its latest version.
ReadVersion(u) ==
    /\ upload[u].at = "count"
    /\ upload' = [upload EXCEPT ![u].at = "put", ![u].number = Highest + 1]
    /\ UNCHANGED <<objects, assets, taskAsset, versions, photo, unsure>>

\* uploadSpeakerHeadshot, on the profile.
StartProfilePhoto(u) ==
    /\ upload[u].at = "idle"
    /\ upload' = [upload EXCEPT ![u].at = "put", ![u].kind = "profile"]
    /\ UNCHANGED <<objects, assets, taskAsset, versions, photo, unsure>>

PutObject(u) ==
    /\ upload[u].at = "put"
    /\ objects' = objects \cup {u}
    /\ Upload(u, "batch")
    /\ UNCHANGED <<assets, taskAsset, versions, photo, unsure>>

\* files.put throws.
PutFails(u) ==
    /\ upload[u].at = "put"
    /\ Upload(u, "over")
    /\ UNCHANGED <<objects, assets, taskAsset, versions, photo, unsure>>

\* Mutant: what was read at the start is relied on.
TaskAsRead(u) == TRUE

\* WHERE ... asset_id IS ?: nobody has replaced the file since it was read.
TaskUnchanged(u) == taskAsset = upload[u].superseded

\* Mutant: the row of the asset is inserted in any case.
KeepsRowAnyway(u) == TRUE

KeepsRow(u) == upload[u].kind = "profile" \/ TaskUnchanged(u)

\* The statements of one batch.
BatchRows(u) ==
    /\ assets' = IF KeepsRow(u) THEN assets \cup {u} ELSE assets
    /\ IF upload[u].kind = "task" /\ TaskUnchanged(u)
       THEN /\ taskAsset' = u
            /\ versions' = versions \cup {[number |-> upload[u].number, asset |-> u]}
       ELSE UNCHANGED <<taskAsset, versions>>
    /\ photo' = IF upload[u].kind = "profile" \/ TaskUnchanged(u) THEN u ELSE photo

\* No task was updated: the object is taken away and the answer is a 409.
Batch(u) ==
    /\ upload[u].at = "batch"
    /\ BatchRows(u)
    /\ Upload(u, IF upload[u].kind = "profile" \/ TaskUnchanged(u) THEN "over" ELSE "clean")
    /\ UNCHANGED <<objects, unsure>>

\* The batch throws: not applied, or applied with its answer lost.
BatchThrows(u) ==
    /\ upload[u].at = "batch"
    /\ Upload(u, "clean")
    /\ \/ UNCHANGED <<assets, taskAsset, versions, photo, unsure>>
       \/ BatchRows(u) /\ unsure' = unsure \cup {u}
    /\ UNCHANGED objects

\* Best-effort compensation: it may fail as well.
CleanUp(u) ==
    /\ upload[u].at = "clean"
    /\ \/ objects' = objects \ {u}
       \/ UNCHANGED objects
    /\ Upload(u, "over")
    /\ UNCHANGED <<assets, taskAsset, versions, photo, unsure>>

\* The Worker dies.
UploadDies(u) ==
    /\ upload[u].at \in {"count", "put", "batch", "clean"}
    /\ Upload(u, "over")
    /\ UNCHANGED <<objects, assets, taskAsset, versions, photo, unsure>>

FilesNext ==
    \E u \in Uploads :
        \/ ReadTask(u) \/ ReadVersion(u) \/ StartProfilePhoto(u)
        \/ PutObject(u) \/ PutFails(u)
        \/ Batch(u) \/ BatchThrows(u) \/ CleanUp(u)
        \/ UploadDies(u)

FilesSpec == FilesInit /\ [][FilesNext]_filesVars

-----------------------------------------------------------------------------
(* Properties *)

\* Every file the database knows of is there to be downloaded, whatever
\* uploads have met, failed or been taken back: except those of a batch that
\* was applied although it threw, whose object the compensation of
\* complete-task.ts:231-234 removes.
KnownFilesExist == assets \ unsure \subseteq objects

\* The versions of a task are numbered from 1 without a gap or a number twice,
\* and the task holds the last of them, however uploads overlap
\* ("Task was updated by another upload", complete-task.ts:228).
VersionsAreALine ==
    /\ {v.number : v \in versions} = 1..Cardinality(versions)
    /\ taskAsset = NoAsset <=> versions = {}
    /\ \A v \in versions : v.number = Highest => v.asset = taskAsset

\* Rows, versions and objects agree though they are written by separate calls.
FilesAreKept == KnownFilesExist /\ VersionsAreALine
==============================================================================
