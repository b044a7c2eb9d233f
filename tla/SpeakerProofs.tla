---------------------------- MODULE SpeakerProofs ---------------------------
(***************************************************************************)
(* What speakers hand in (module SpeakerFiles), for any number of uploads, *)
(* what they and those who stand in for them answer (SpeakerStandIns), for *)
(* any number of handoffs, requests and moves, the tasks they are given    *)
(* (Onboarding), for any number of speakers, templates and requests, and   *)
(* the invitations their calendars show (CalendarMail), for any number of  *)
(* letters.                                                                *)
(***************************************************************************)
EXTENDS SpeakerFiles, SpeakerStandIns, Onboarding, CalendarMail,
        FiniteSetTheorems, WellFoundedInduction, TLAPS

(***************************************************************************)
(* Files.  An upload knows, until its batch, which file it replaces, and   *)
(* as long as nobody has replaced it since, the number it read is the next *)
(* one.  An object is taken away only where no row speaks of it.           *)
(***************************************************************************)

\* A file the task holds or held was handed in by an upload that has written.
Written(a) == a \in Uploads => upload[a].at \in {"clean", "over"}

FileSound(u) ==
    /\ Written(upload[u].superseded)
    /\ upload[u].at \in {"put", "batch"} /\ upload[u].kind = "task"
         /\ upload[u].superseded = taskAsset
       => upload[u].number = Cardinality(versions) + 1
    /\ upload[u].at = "batch" => u \in objects
    /\ upload[u].at \in {"idle", "count", "put", "batch"} => u \notin assets
    /\ upload[u].at = "clean" => u \notin assets \ unsure

LineSound ==
    /\ IsFiniteSet(versions)
    /\ Written(taskAsset)
    /\ VersionsAreALine

FilesInv ==
    /\ FilesTypeOK
    /\ LineSound
    /\ KnownFilesExist
    /\ \A u \in Uploads : FileSound(u)

\* The highest number of versions counted from 1 is how many there are.
HighestIn(V) == IF V = {} THEN 0
                ELSE CHOOSE n \in {v.number : v \in V} : \A v \in V : v.number <= n

LEMMA HighestIsCount ==
    ASSUME NEW V, IsFiniteSet(V), {v.number : v \in V} = 1..Cardinality(V)
    PROVE  HighestIn(V) = Cardinality(V) /\ HighestIn(V) \in Nat
<1> DEFINE N == {v.number : v \in V}
           c == Cardinality(V)
<1>1. c \in Nat
  BY FS_CardinalityType
<1>2. CASE V = {}
  BY <1>2, FS_EmptySet DEF HighestIn
<1>3. CASE V # {}
  <2>1. c # 0
    BY <1>3, FS_EmptySet
  <2>2. c \in N /\ \A n \in N : n \in Nat /\ n <= c
    <3>1. N = 1..c
      OBVIOUS
    <3> HIDE DEF N, c
    <3> QED
      BY <1>1, <2>1, <3>1
  <2>3. \A v \in V : v.number \in N
    OBVIOUS
  <2>4. PICK w \in V : w.number = c
    BY <2>2
  <2>5. \A n \in N : (\A v \in V : v.number <= n) => n = c
    BY <1>1, <2>2, <2>4
  <2>6. \A v \in V : v.number <= c
    BY <2>2, <2>3
  <2>7. HighestIn(V) = CHOOSE n \in N : \A v \in V : v.number <= n
    BY <1>3 DEF HighestIn
  <2> HIDE DEF N, c
  <2>8. HighestIn(V) = c
    BY <2>2, <2>5, <2>6, <2>7
  <2> QED
    BY <1>1, <2>8 DEF c
<1> QED
  BY <1>2, <1>3

\* One more version with the next number keeps the line.
LEMMA LineGrows ==
    ASSUME LineSound, FilesTypeOK, NEW u \in Uploads,
           upload[u].number = Cardinality(versions) + 1,
           versions' = versions \cup {[number |-> upload[u].number, asset |-> u]},
           taskAsset' = u
    PROVE  IsFiniteSet(versions)' /\ VersionsAreALine'
<1> DEFINE new == [number |-> upload[u].number, asset |-> u]
           c == Cardinality(versions)
<1>1. c \in Nat /\ IsFiniteSet(versions)
  BY FS_CardinalityType DEF LineSound
<1>2. \A v \in versions : v.number \in 1..c
  BY DEF LineSound, VersionsAreALine
<1>3. new \notin versions
  BY <1>1, <1>2
<1>4. IsFiniteSet(versions') /\ Cardinality(versions') = c + 1
  BY <1>1, <1>3, FS_AddElement
<1>5. {v.number : v \in versions'} = 1..(c + 1)
  <2>1. {v.number : v \in versions'} = {v.number : v \in versions} \cup {c + 1}
    <3>1. new.number = c + 1
      OBVIOUS
    <3>2. versions' = versions \cup {new}
      OBVIOUS
    <3> HIDE DEF new
    <3> QED
      BY <3>1, <3>2
  <2>2. {v.number : v \in versions} = 1..c
    BY DEF LineSound, VersionsAreALine
  <2> QED
    BY <1>1, <2>1, <2>2
<1>6. Highest' = c + 1
  <2>1. HighestIn(versions') = c + 1
    BY <1>4, <1>5, HighestIsCount
  <2> QED
    BY <2>1 DEF Highest, HighestIn
<1>7. \A v \in versions' : v.number = c + 1 => v.asset = u
  BY <1>1, <1>2
<1> QED
  BY <1>4, <1>5, <1>6, <1>7, SpeakerFilesAssumption DEF VersionsAreALine

LEMMA FilesInitInv == FilesInit => FilesInv
<1> SUFFICES ASSUME FilesInit PROVE FilesInv
  OBVIOUS
<1>1. IsFiniteSet(versions) /\ Cardinality(versions) = 0
  BY FS_EmptySet DEF FilesInit
<1>2. VersionsAreALine
  BY <1>1, SpeakerFilesAssumption DEF FilesInit, VersionsAreALine
<1> QED
  BY <1>1, <1>2, SpeakerFilesAssumption
  DEF FilesInit, FilesInv, FilesTypeOK, UploadRecords, LineSound, KnownFilesExist,
      FileSound, Written, NoAsset

\* What a batch with rows does, whether its answer arrives or not.
LEMMA BatchWrites ==
    ASSUME FilesInv, NEW u \in Uploads, upload[u].at = "batch", BatchRows(u),
           upload' \in [Uploads -> UploadRecords],
           upload' = [upload EXCEPT ![u].at = upload'[u].at],
           upload'[u].at \in {"clean", "over"},
           objects' = objects, unsure' = unsure \/ unsure' = unsure \cup {u},
           upload'[u].at = "clean" => ~KeepsRow(u) \/ u \in unsure'
    PROVE  FilesInv'
<1> DEFINE wins == upload[u].kind = "task" /\ TaskUnchanged(u)
<1>1. /\ FilesTypeOK /\ LineSound /\ KnownFilesExist
      /\ u \in objects /\ u \notin assets
      /\ upload[u].number \in Nat
  BY DEF FilesInv, FilesTypeOK, UploadRecords, FileSound
<1>2. \A w \in Uploads : w # u => upload'[w] = upload[w]
  BY <1>1 DEF FilesTypeOK
<1>3. /\ upload'[u].superseded = upload[u].superseded
      /\ upload'[u].at \in {"clean", "over"}
  BY <1>1 DEF FilesTypeOK, UploadRecords
<1>4. /\ wins => /\ taskAsset' = u
                  /\ versions' = versions \cup {[number |-> upload[u].number, asset |-> u]}
      /\ ~wins => taskAsset' = taskAsset /\ versions' = versions
  BY DEF BatchRows
<1>5. assets' = assets \/ assets' = assets \cup {u}
  BY DEF BatchRows
<1>6. wins => upload[u].number = Cardinality(versions) + 1
  BY DEF FilesInv, FileSound, TaskUnchanged
<1>7. FilesTypeOK'
  BY <1>1, <1>4, <1>5 DEF FilesTypeOK, BatchRows
<1>8. LineSound'
  <2>1. IsFiniteSet(versions)' /\ VersionsAreALine'
    <3>1. CASE wins
      BY <1>1, <1>4, <1>6, <3>1, LineGrows
    <3>2. CASE ~wins
      BY <1>1, <1>4, <3>2 DEF LineSound, VersionsAreALine, Highest
    <3> QED
      BY <3>1, <3>2
  <2>2. Written(taskAsset)'
    BY <1>1, <1>2, <1>3, <1>4 DEF LineSound, Written
  <2> QED
    BY <2>1, <2>2 DEF LineSound
<1>9. KnownFilesExist'
  BY <1>1, <1>5 DEF KnownFilesExist
<1>10. ASSUME NEW w \in Uploads PROVE FileSound(w)'
  <2>1. CASE w = u
    <3>1. Written(upload[u].superseded)'
      BY <1>2, <1>3 DEF FilesInv, FileSound, Written
    <3>2. upload'[u].at = "clean" => u \notin assets' \ unsure'
      BY <1>1 DEF BatchRows
    <3> QED
      BY <1>3, <2>1, <3>1, <3>2 DEF FileSound
  <2>2. CASE w # u
    <3>1. upload'[w] = upload[w] /\ FileSound(w)
      BY <1>2, <2>2 DEF FilesInv
    <3>2. Written(upload[w].superseded)'
      BY <1>2, <1>3, <3>1 DEF FileSound, Written
    <3>3. upload[w].superseded # u
      BY <3>1 DEF FileSound, Written
    <3> QED
      BY <1>4, <1>5, <2>2, <3>1, <3>2, <3>3 DEF FileSound
  <2> QED
    BY <2>1, <2>2
<1> QED
  BY <1>7, <1>8, <1>9, <1>10 DEF FilesInv

LEMMA FilesStepInv == FilesInv /\ [FilesNext]_filesVars => FilesInv'
<1> SUFFICES ASSUME FilesInv, [FilesNext]_filesVars PROVE FilesInv'
  OBVIOUS
<1>1. /\ FilesTypeOK /\ LineSound /\ KnownFilesExist
      /\ \A u \in Uploads : FileSound(u)
  BY DEF FilesInv
<1>2. CASE UNCHANGED filesVars
  BY <1>1, <1>2
  DEF filesVars, FilesInv, FilesTypeOK, LineSound, KnownFilesExist, FileSound, Written,
      VersionsAreALine, Highest
\* A step of one upload that touches neither rows nor objects of others.
<1>3. ASSUME NEW u \in Uploads,
             UNCHANGED <<assets, taskAsset, versions, unsure>>,
             photo' = photo,
             upload' \in [Uploads -> UploadRecords],
             \A w \in Uploads : w # u => upload'[w] = upload[w],
             upload[u].at \in {"clean", "over"} => upload'[u].at \in {"clean", "over"},
             objects' \subseteq Uploads,
             \A w \in Uploads : w # u => (w \in objects' <=> w \in objects),
             u \in assets \ unsure => u \in objects',
             FileSound(u)'
      PROVE  FilesInv'
  <2>1. \A a : Written(a) => Written(a)'
    BY <1>3 DEF Written
  <2>2. LineSound'
    BY <1>1, <1>3, <2>1 DEF LineSound, VersionsAreALine, Highest
  <2>3. \A w \in Uploads : FileSound(w)'
    BY <1>1, <1>3, <2>1 DEF FileSound
  <2>4. KnownFilesExist'
    BY <1>1, <1>3 DEF KnownFilesExist, FilesTypeOK
  <2>5. FilesTypeOK'
    BY <1>1, <1>3 DEF FilesTypeOK
  <2> QED
    BY <2>2, <2>3, <2>4, <2>5 DEF FilesInv
<1>4. ASSUME NEW u \in Uploads, ReadTask(u) PROVE FilesInv'
  <2>1. FileSound(u)'
    BY <1>1, <1>4 DEF ReadTask, FileSound, Written, LineSound, FilesTypeOK
  <2>2. upload' \in [Uploads -> UploadRecords]
    BY <1>1, <1>4, ZenonT(60) DEF ReadTask, FilesTypeOK, UploadRecords
  <2> QED
    BY <1>1, <1>3, <1>4, <2>1, <2>2 DEF ReadTask, FilesTypeOK, KnownFilesExist
<1>5. ASSUME NEW u \in Uploads, ReadVersion(u) PROVE FilesInv'
  <2>1. Highest = Cardinality(versions) /\ Highest \in Nat
    BY <1>1, HighestIsCount DEF LineSound, VersionsAreALine, Highest, HighestIn
  <2>2. FileSound(u)'
    BY <1>1, <1>5, <2>1 DEF ReadVersion, FileSound, Written, LineSound, FilesTypeOK
  <2>3. upload' \in [Uploads -> UploadRecords]
    <3>1. [upload[u] EXCEPT !.at = "put", !.number = Highest + 1] \in UploadRecords
      <4>1. upload[u] \in UploadRecords /\ Highest + 1 \in Nat
        BY <1>1, <2>1 DEF FilesTypeOK
      <4> QED
        BY <4>1 DEF UploadRecords
    <3> QED
      BY <1>1, <1>5, <3>1 DEF ReadVersion, FilesTypeOK
  <2> QED
    BY <1>1, <1>3, <1>5, <2>2, <2>3 DEF ReadVersion, FilesTypeOK, KnownFilesExist
<1>6. ASSUME NEW u \in Uploads, StartProfilePhoto(u) PROVE FilesInv'
  <2>1. FileSound(u)'
    BY <1>1, <1>6 DEF StartProfilePhoto, FileSound, Written, FilesTypeOK
  <2>2. upload' \in [Uploads -> UploadRecords]
    BY <1>1, <1>6, ZenonT(60) DEF StartProfilePhoto, FilesTypeOK, UploadRecords
  <2> QED
    BY <1>1, <1>3, <1>6, <2>1, <2>2 DEF StartProfilePhoto, FilesTypeOK, KnownFilesExist
<1>7. ASSUME NEW u \in Uploads, PutObject(u) PROVE FilesInv'
  <2>1. FileSound(u)'
    BY <1>1, <1>7 DEF PutObject, Upload, FileSound, Written, FilesTypeOK
  <2> QED
    BY <1>1, <1>3, <1>7, <2>1 DEF PutObject, Upload, FilesTypeOK, UploadRecords
<1>8. ASSUME NEW u \in Uploads, PutFails(u) \/ UploadDies(u) PROVE FilesInv'
  <2>1. FileSound(u)'
    <3>1. /\ upload' = [upload EXCEPT ![u].at = "over"]
          /\ UNCHANGED <<objects, assets, taskAsset, versions, unsure>>
      BY <1>8 DEF PutFails, UploadDies, Upload
    <3> QED
      BY <1>1, <3>1 DEF FileSound, Written, FilesTypeOK
  <2> QED
    BY <1>1, <1>3, <1>8, <2>1
    DEF PutFails, UploadDies, Upload, FilesTypeOK, UploadRecords, KnownFilesExist
<1>9. ASSUME NEW u \in Uploads, CleanUp(u) PROVE FilesInv'
  <2>1. FileSound(u)'
    BY <1>1, <1>9 DEF CleanUp, Upload, FileSound, Written, FilesTypeOK
  <2>2. u \notin assets \ unsure
    BY <1>1, <1>9 DEF CleanUp, FileSound
  <2> QED
    BY <1>1, <1>3, <1>9, <2>1, <2>2 DEF CleanUp, Upload, FilesTypeOK, UploadRecords
<1>10. ASSUME NEW u \in Uploads, Batch(u) PROVE FilesInv'
  <2>1. /\ upload' \in [Uploads -> UploadRecords]
        /\ upload'[u].at \in {"clean", "over"}
        /\ upload' = [upload EXCEPT ![u].at = upload'[u].at]
        /\ upload'[u].at = "clean" => ~KeepsRow(u)
    BY <1>1, <1>10 DEF Batch, Upload, KeepsRow, FilesTypeOK, UploadRecords
  <2> QED
    BY <1>10, <2>1, BatchWrites DEF Batch
<1>11. ASSUME NEW u \in Uploads, BatchThrows(u) PROVE FilesInv'
  <2>1. /\ upload' \in [Uploads -> UploadRecords]
        /\ upload'[u].at = "clean"
        /\ upload' = [upload EXCEPT ![u].at = upload'[u].at]
    BY <1>1, <1>11 DEF BatchThrows, Upload, FilesTypeOK, UploadRecords
  <2>2. CASE UNCHANGED <<assets, taskAsset, versions, photo, unsure>>
    <3>1. FileSound(u)'
      <4>1. /\ upload[u].at = "batch" /\ objects' = objects
            /\ upload' = [upload EXCEPT ![u].at = "clean"]
        BY <1>11 DEF BatchThrows, Upload
      <4> QED
        BY <1>1, <2>2, <4>1 DEF FileSound, Written, FilesTypeOK
    <3> QED
      BY <1>1, <1>3, <1>11, <2>1, <2>2, <3>1 DEF BatchThrows, FilesTypeOK, KnownFilesExist
  <2>3. CASE BatchRows(u) /\ unsure' = unsure \cup {u}
    BY <1>11, <2>1, <2>3, BatchWrites DEF BatchThrows
  <2> QED
    BY <1>11, <2>2, <2>3 DEF BatchThrows
<1> QED
  BY <1>2, <1>4, <1>5, <1>6, <1>7, <1>8, <1>9, <1>10, <1>11 DEF FilesNext

\* However uploads overlap, fail or lose their answer, the versions of a task
\* are a line whose last one the task holds, and the files of all rows exist.
THEOREM FilesHold == FilesSpec => []FilesAreKept
<1>1. FilesInv => FilesAreKept
  BY DEF FilesInv, LineSound, FilesAreKept
<1> QED
  BY <1>1, FilesInitInv, FilesStepInv, PTL DEF FilesSpec

\* However uploads overlap, fail or die, the objects and the rows that name
\* them keep their types.
THEOREM FilesTypes == FilesSpec => []FilesTypeOK
<1>1. FilesInv => FilesTypeOK
  BY DEF FilesInv
<1> QED
  BY <1>1, FilesInitInv, FilesStepInv, PTL DEF FilesSpec

(***************************************************************************)
(* Handoffs and acknowledgements.  A row that is about to be inserted is   *)
(* nobody else's; an acknowledgement on its way carries the sequence it    *)
(* read, which no longer counts once the slot has moved.                   *)
(***************************************************************************)

Tap == [at : {"idle", "insert", "accept", "decline", "page", "read", "record"},
        for : Handoffs \cup {IdleTap.for}, sequence : Int, moves : Int]

StandInTypes ==
    /\ handoff \in [Handoffs -> HandoffStates]
    /\ DOMAIN slot = {"there", "required", "sequence", "moves"}
    /\ slot.sequence \in Int /\ slot.moves \in Int
    /\ ack \in [sequence : Int, moves : Int]
    /\ tap \in [Taps -> Tap]

\* What a step of the request q leaves to the others.
OthersWait(q) == \A r \in Taps : r # q => tap'[r] = tap[r]

HandoffsInv ==
    /\ \A q \in Taps : tap[q].at = "insert" =>
          tap[q].for \in Handoffs /\ handoff[tap[q].for] = "none"
    /\ \A q, r \in Taps :
          tap[q].at = "insert" /\ tap[r].at = "insert" /\ q # r => tap[q].for # tap[r].for

AckInv ==
    /\ ack.sequence <= slot.sequence
    /\ slot.there /\ ack.sequence = slot.sequence => ack.moves = slot.moves
    /\ \A q \in Taps : tap[q].at = "record" =>
          /\ tap[q].sequence <= slot.sequence
          /\ slot.there /\ tap[q].sequence = slot.sequence => tap[q].moves = slot.moves

StandInInv == StandInTypes /\ HandoffsInv /\ AckInv

LEMMA IdleIsATap == IdleTap \in Tap /\ IdleTap.at = "idle"
  BY DEF IdleTap, Tap

LEMMA StandInInitInv == StandInInit => StandInInv
  BY IdleIsATap
  DEF StandInInit, StandInInv, StandInTypes, HandoffsInv, AckInv, HandoffStates, NoAck

LEMMA OrganizerStep ==
    ASSUME StandInInv,
           \/ \E moved \in BOOLEAN : PlaceOrMove(moved)
           \/ Unplace \/ DropSpeaker \/ UNCHANGED standInVars
    PROVE  StandInInv' /\ handoff' = handoff
<1>1. handoff' = handoff /\ tap' = tap /\ ack' = ack
  BY DEF standInVars, PlaceOrMove, Unplace, DropSpeaker
<1>2. \/ slot' = slot
      \/ /\ DOMAIN slot' = {"there", "required", "sequence", "moves"}
         /\ slot'.sequence = slot.sequence + 1 /\ slot'.moves \in Int
  <2>1. /\ DOMAIN slot = {"there", "required", "sequence", "moves"}
        /\ slot.sequence \in Int /\ slot.moves \in Int
    BY DEF StandInInv, StandInTypes
  <2>2. ASSUME NEW moved \in BOOLEAN, PlaceOrMove(moved)
        PROVE  /\ DOMAIN slot' = {"there", "required", "sequence", "moves"}
               /\ slot'.sequence = slot.sequence + 1 /\ slot'.moves \in Int
    <3>1. CASE slot.there
      <4> DEFINE again == slot.required \/ moved
                 count == IF moved THEN slot.moves + 1 ELSE slot.moves
      <4>1. slot' = [slot EXCEPT !.sequence = slot.sequence + 1, !.required = again,
                                 !.moves = count]
        BY <2>2, <3>1 DEF PlaceOrMove
      <4>2. count \in Int
        BY <2>1
      <4> HIDE DEF again, count
      <4> QED
        BY <2>1, <4>1, <4>2
    <3>2. CASE ~slot.there
      BY <2>1, <2>2, <3>2 DEF PlaceOrMove
    <3> QED
      BY <3>1, <3>2
  <2>3. CASE Unplace
    BY <2>1, <2>3 DEF Unplace
  <2> QED
    BY <2>2, <2>3 DEF standInVars, DropSpeaker
<1>3. StandInTypes' /\ HandoffsInv'
  BY <1>1, <1>2 DEF StandInInv, StandInTypes, HandoffsInv
<1>4. AckInv'
  BY <1>1, <1>2 DEF StandInInv, StandInTypes, AckInv, Tap
<1> QED
  BY <1>1, <1>3, <1>4 DEF StandInInv

LEMMA RequestStep ==
    ASSUME StandInInv, NEW q \in Taps, StandInStep(q)
    PROVE  /\ StandInInv'
           /\ \A h \in Handoffs : handoff[h] \in Ended => handoff'[h] = handoff[h]
<1>1. StandInTypes /\ HandoffsInv /\ AckInv /\ tap[q] \in Tap
  BY DEF StandInInv, StandInTypes
<1>2. CASE \E h \in Handoffs : RequestHandoff(q, h)
  <2>1. PICK h \in Handoffs : RequestHandoff(q, h)
    BY <1>2
  <2>2. [tap[q] EXCEPT !.at = "insert", !.for = h] \in Tap
    BY <1>1 DEF Tap
  <2>3. /\ tap' \in [Taps -> Tap] /\ OthersWait(q)
        /\ tap'[q].at = "insert" /\ tap'[q].for = h
    BY <1>1, <2>1, <2>2 DEF RequestHandoff, StandInTypes, OthersWait, Tap
  <2>4. /\ handoff' \in [Handoffs -> HandoffStates]
        /\ \A g \in Handoffs :
              handoff[g] = "none" \/ handoff[g] \in Ended => handoff'[g] = handoff[g]
    BY <1>1, <2>1 DEF RequestHandoff, StandInTypes, HandoffStates, Ended
  <2>5. /\ handoff[h] = "none"
        /\ \A r \in Taps : tap[r].at = "insert" => tap[r].for # h
        /\ slot' = slot /\ ack' = ack
    BY <2>1 DEF RequestHandoff
  <2>6. HandoffsInv'
    BY <1>1, <2>3, <2>4, <2>5 DEF HandoffsInv, OthersWait
  <2>7. AckInv'
    BY <1>1, <2>3, <2>5 DEF AckInv, OthersWait
  <2> QED
    BY <1>1, <2>3, <2>4, <2>5, <2>6, <2>7 DEF StandInInv, StandInTypes
<1>3. CASE InsertHandoff(q) \/ AnswerHandoff(q)
  <2>1. /\ tap' \in [Taps -> Tap] /\ OthersWait(q) /\ tap'[q].at = "idle"
        /\ slot' = slot /\ ack' = ack
    BY <1>1, <1>3, IdleIsATap
    DEF InsertHandoff, AnswerHandoff, TapOver, StandInTypes, OthersWait
  <2>2. CASE InsertHandoff(q)
    <3>1. /\ handoff' = [handoff EXCEPT ![tap[q].for] = "pending"]
          /\ tap[q].for \in Handoffs /\ handoff[tap[q].for] = "none"
          /\ tap[q].at = "insert"
      BY <1>1, <2>2 DEF InsertHandoff, HandoffsInv
    <3>2. /\ handoff' \in [Handoffs -> HandoffStates]
          /\ \A g \in Handoffs : handoff[g] \in Ended => handoff'[g] = handoff[g]
      BY <1>1, <3>1 DEF StandInTypes, HandoffStates, Ended
    <3>3. \A r \in Taps : r # q /\ tap[r].at = "insert" => handoff'[tap[r].for] = "none"
      BY <1>1, <3>1 DEF StandInTypes, HandoffsInv
    <3> QED
      BY <1>1, <2>1, <3>2, <3>3 DEF StandInInv, StandInTypes, HandoffsInv, AckInv, OthersWait
  <2>3. CASE AnswerHandoff(q)
    <3>1. /\ handoff' \in [Handoffs -> HandoffStates]
          /\ \A g \in Handoffs :
                handoff[g] = "none" \/ handoff[g] \in Ended => handoff'[g] = handoff[g]
      BY <1>1, <2>3 DEF AnswerHandoff, Waits, StandInTypes, HandoffStates, Ended
    <3> QED
      BY <1>1, <2>1, <3>1 DEF StandInInv, StandInTypes, HandoffsInv, AckInv, OthersWait
  <2> QED
    BY <1>3, <2>2, <2>3
<1>4. CASE \/ \E h \in Handoffs, verdict \in {"accept", "decline"} : OpenHandoff(q, h, verdict)
           \/ OpenPortal(q) \/ StartAck(q)
  <2>1. /\ handoff' = handoff /\ slot' = slot /\ ack' = ack
        /\ OthersWait(q) /\ tap' \in [Taps -> Tap]
        /\ tap'[q].at \in {"idle", "accept", "decline", "page", "read"}
    <3>1. CASE StartAck(q)
      BY <1>1, <3>1, IdleIsATap
      DEF StartAck, TapAt, TapOver, StandInTypes, Tap, OthersWait
    <3>3. CASE OpenPortal(q)
      <4> DEFINE page == [tap[q] EXCEPT !.at = "page"]
      <4>1. page \in Tap /\ page.at = "page"
        BY <1>1 DEF Tap, StandInTypes
      <4>2. tap' = [tap EXCEPT ![q] = page] /\ UNCHANGED <<handoff, slot, ack>>
        BY <3>3 DEF OpenPortal
      <4> HIDE DEF page
      <4> QED
        BY <1>1, <4>1, <4>2 DEF StandInTypes, OthersWait
    <3>2. ASSUME NEW h \in Handoffs, NEW verdict \in {"accept", "decline"}, OpenHandoff(q, h, verdict)
          PROVE  /\ handoff' = handoff /\ slot' = slot /\ ack' = ack
                 /\ OthersWait(q) /\ tap' \in [Taps -> Tap]
                 /\ tap'[q].at \in {"idle", "accept", "decline", "page", "read"}
      <4>1. [tap[q] EXCEPT !.at = verdict, !.for = h] \in Tap
        BY <1>1 DEF Tap
      <4> QED
        BY <1>1, <3>2, <4>1 DEF OpenHandoff, StandInTypes, OthersWait, Tap
    <3> QED
      BY <1>4, <3>1, <3>2, <3>3
  <2> QED
    BY <1>1, <2>1 DEF StandInInv, StandInTypes, HandoffsInv, AckInv, OthersWait
<1>5. CASE ReadSequence(q) \/ RecordAck(q)
  <2>1. handoff' = handoff /\ slot' = slot /\ OthersWait(q)
    BY <1>1, <1>5 DEF ReadSequence, RecordAck, TapOver, StandInTypes, OthersWait
  <2>2. /\ tap' \in [Taps -> Tap]
        /\ \/ tap'[q].at = "idle"
           \/ /\ tap'[q].at = "record"
              /\ tap'[q].sequence = slot.sequence /\ tap'[q].moves = slot.moves
    <3> DEFINE noted == [tap[q] EXCEPT !.at = "record", !.sequence = slot.sequence,
                                       !.moves = slot.moves]
    <3>1. /\ noted \in Tap /\ noted.at = "record"
          /\ noted.sequence = slot.sequence /\ noted.moves = slot.moves
      BY <1>1 DEF Tap, StandInTypes
    <3>2. tap' = [tap EXCEPT ![q] = noted] \/ tap' = [tap EXCEPT ![q] = IdleTap]
      BY <1>5 DEF ReadSequence, RecordAck, TapOver
    <3> HIDE DEF noted
    <3> QED
      BY <1>1, <3>1, <3>2, IdleIsATap DEF StandInTypes
  <2>3. \/ ack' = ack
        \/ /\ tap[q].at = "record"
           /\ ack' = [sequence |-> tap[q].sequence, moves |-> tap[q].moves]
    BY <1>5 DEF ReadSequence, RecordAck, SequenceRead
  <2>4. ack' \in [sequence : Int, moves : Int]
    BY <1>1, <2>3 DEF StandInTypes, Tap
  <2>5. AckInv'
    BY <1>1, <2>1, <2>2, <2>3 DEF AckInv, OthersWait, StandInTypes, Tap
  <2> QED
    BY <1>1, <2>1, <2>2, <2>4, <2>5 DEF StandInInv, StandInTypes, HandoffsInv, OthersWait
<1> QED
  BY <1>2, <1>3, <1>4, <1>5 DEF StandInStep

LEMMA StandInNextInv ==
    ASSUME StandInInv, [StandInNext]_standInVars
    PROVE  /\ StandInInv'
           /\ \A h \in Handoffs : handoff[h] \in Ended => handoff'[h] = handoff[h]
  BY OrganizerStep, RequestStep DEF StandInNext

\* Whoever answers a handoff, from whatever tab, what was answered or
\* cancelled before stays as it is, for any number of handoffs.
THEOREM HandoffsStay == StandInSpec => AnsweredHandoffsStay
<1>1. StandInInv /\ [StandInNext]_standInVars
        => /\ StandInInv'
           /\ [\A h \in Handoffs : handoff[h] \in Ended => handoff'[h] = handoff[h]]_standInVars
  BY StandInNextInv
<1> QED
  BY <1>1, StandInInitInv, PTL DEF StandInSpec, AnsweredHandoffsStay

\* An acknowledgement that counts was recorded for the slot the server found
\* when it read the sequence, however the slot moves before the write lands.
\* What the page showed may be an earlier place: AcksAreOfTheTimeShown fails.
THEOREM AcksHold == StandInSpec => []AcksAreOfThisSlot
<1>1. StandInInv /\ [StandInNext]_standInVars => StandInInv'
  BY StandInNextInv
<1>2. StandInInv => AcksAreOfThisSlot
  BY DEF StandInInv, StandInTypes, AckInv, AcksAreOfThisSlot, NeedsAck, Acknowledged
<1> QED
  BY <1>1, <1>2, StandInInitInv, PTL DEF StandInSpec

\* The types, with the bounds of the model. Every move of the slot comes with a
\* change of its sequence, which is bounded.

StandInBounds == StandInTypeOK /\ slot.moves <= slot.sequence + 1

TapRecords == [at : {"idle", "insert", "accept", "decline", "page", "read", "record"},
               for : Handoffs,
               sequence : -1..LastSequence, moves : Moves]

LEMMA IdleTapIsBounded == IdleTap \in TapRecords
<1> DEFINE h == CHOOSE h \in Handoffs : TRUE
<1>1. h \in Handoffs
  BY StandInAssumption
<1>2. IdleTap = [at |-> "idle", for |-> h, sequence |-> 0, moves |-> 0]
  BY DEF IdleTap
<1> HIDE DEF h
<1> QED
  BY <1>1, <1>2, StandInAssumption DEF TapRecords, Moves

LEMMA StandInsStartBounded == StandInInit => StandInBounds
BY IdleTapIsBounded, StandInAssumption
   DEF StandInInit, StandInBounds, StandInTypeOK, HandoffStates, NoAck, TapRecords, Moves

SlotRecords == [there : BOOLEAN, required : BOOLEAN, sequence : Int, moves : Int]

LEMMA SlotIsGone ==
    ASSUME NEW s \in SlotRecords, NEW n \in Int
    PROVE  LET new == [s EXCEPT !.there = FALSE, !.required = FALSE, !.sequence = n]
           IN  new \in SlotRecords /\ new.sequence = n /\ new.moves = s.moves
BY DEF SlotRecords

LEMMA SlotsStayBounded ==
    ASSUME StandInBounds, Unplace \/ \E moved \in BOOLEAN : PlaceOrMove(moved)
    PROVE  StandInBounds'
<1> DEFINE Changed == /\ slot' \in SlotRecords
                      /\ slot'.sequence = slot.sequence + 1
                      /\ slot'.moves = slot.moves \/ slot'.moves = slot.moves + 1
<1>1. /\ slot \in SlotRecords /\ slot.required \in BOOLEAN
      /\ slot.sequence \in -1..LastSequence /\ slot.moves \in 0..LastSequence + 1
      /\ slot.moves <= slot.sequence + 1
  BY StandInAssumption DEF StandInBounds, StandInTypeOK, SlotRecords, Moves
<1>0. slot.sequence + 1 \in Int /\ slot.moves + 1 \in Int /\ slot.moves \in Int
  BY <1>1, StandInAssumption
<1>2. Changed
  <2>1. ASSUME NEW moved \in BOOLEAN, PlaceOrMove(moved)
        PROVE  Changed
    <3>1. CASE slot.there
      <4> DEFINE again == slot.required \/ moved
                 count == IF moved THEN slot.moves + 1 ELSE slot.moves
      <4>1. slot' = [slot EXCEPT !.sequence = slot.sequence + 1, !.required = again,
                                 !.moves = count]
        BY <2>1, <3>1 DEF PlaceOrMove
      <4>2. again \in BOOLEAN /\ count \in Int /\ (count = slot.moves \/ count = slot.moves + 1)
        BY <1>0, <1>1
      <4> HIDE DEF again, count
      <4>3. slot' \in SlotRecords /\ slot'.sequence = slot.sequence + 1 /\ slot'.moves = count
        <5> DEFINE next == slot.sequence + 1
        <5>1. LET new == [slot EXCEPT !.sequence = next, !.required = again, !.moves = count]
              IN  new \in SlotRecords /\ new.sequence = next /\ new.moves = count
          <6>1. next \in Int
            BY <1>0
          <6> HIDE DEF next
          <6> QED
            BY <1>1, <4>2, <6>1 DEF SlotRecords
        <5> QED
          BY <4>1, <5>1, Zenon
      <4> QED
        BY <4>2, <4>3
    <3>2. CASE ~slot.there
      <4>1. slot' = [slot EXCEPT !.there = TRUE, !.required = FALSE,
                                 !.sequence = slot.sequence + 1, !.moves = slot.moves + 1]
        BY <2>1, <3>2 DEF PlaceOrMove
      <4>2. slot' \in SlotRecords /\ slot'.sequence = slot.sequence + 1 /\ slot'.moves = slot.moves + 1
        <5> DEFINE next == slot.sequence + 1
                   count == slot.moves + 1
        <5>1. LET new == [slot EXCEPT !.there = TRUE, !.required = FALSE, !.sequence = next,
                                      !.moves = count]
              IN  new \in SlotRecords /\ new.sequence = next /\ new.moves = count
          <6>1. next \in Int /\ count \in Int
            BY <1>0
          <6> HIDE DEF next, count
          <6> QED
            BY <1>1, <6>1 DEF SlotRecords
        <5> QED
          BY <4>1, <5>1, Zenon
      <4> QED
        BY <4>2
    <3> QED
      BY <3>1, <3>2
  <2>2. CASE Unplace
    <3>1. slot' = [slot EXCEPT !.there = FALSE, !.required = FALSE, !.sequence = slot.sequence + 1]
      BY <2>2 DEF Unplace
    <3>2. slot' \in SlotRecords /\ slot'.sequence = slot.sequence + 1 /\ slot'.moves = slot.moves
      BY <1>0, <1>1, <3>1, SlotIsGone, Zenon
    <3> QED
      BY <3>2
  <2> QED
    BY <2>1, <2>2
<1>3. /\ slot'.sequence \in -1..LastSequence /\ slot'.moves \in 0..LastSequence + 1
      /\ slot'.moves <= slot'.sequence + 1
  <2>1. slot.sequence < LastSequence
    BY DEF PlaceOrMove, Unplace
  <2> QED
    BY <1>1, <1>2, <2>1, StandInAssumption
<1>4. UNCHANGED <<handoff, listed, ack, tap>>
  BY DEF PlaceOrMove, Unplace
<1> QED
  BY <1>2, <1>3, <1>4 DEF StandInBounds, StandInTypeOK, SlotRecords, Moves

LEMMA StandInsStayBounded == StandInBounds /\ [StandInNext]_standInVars => StandInBounds'
<1> SUFFICES ASSUME StandInBounds, [StandInNext]_standInVars
             PROVE  StandInBounds'
  OBVIOUS
<1> USE StandInAssumption DEF StandInBounds, StandInTypeOK
<1>3. CASE DropSpeaker
  BY <1>3 DEF DropSpeaker
<1>4. ASSUME NEW q \in Taps, StandInStep(q)
      PROVE  StandInBounds'
  <2> USE DEF TapOver, TapAt, HandoffStates
  <2>1. ASSUME NEW h \in Handoffs, RequestHandoff(q, h)
        PROVE  StandInBounds'
    <3>1. handoff' \in [Handoffs -> HandoffStates]
      BY <2>1 DEF RequestHandoff
    <3>2. [tap[q] EXCEPT !.at = "insert", !.for = h] \in TapRecords
      BY DEF TapRecords
    <3> QED
      BY <2>1, <3>1, <3>2 DEF RequestHandoff, TapRecords
  <2>2. ASSUME NEW h \in Handoffs, NEW a \in {"accept", "decline"}, OpenHandoff(q, h, a)
        PROVE  StandInBounds'
    <3>1. [tap[q] EXCEPT !.at = a, !.for = h] \in TapRecords
      BY DEF TapRecords
    <3> QED
      BY <2>2, <3>1 DEF OpenHandoff, TapRecords
  <2>3. CASE InsertHandoff(q)
    BY <2>3, IdleTapIsBounded DEF InsertHandoff, TapRecords
  <2>4. CASE AnswerHandoff(q)
    BY <2>4, IdleTapIsBounded DEF AnswerHandoff, TapRecords
  <2>5. CASE OpenPortal(q) \/ StartAck(q)
    BY <2>5, IdleTapIsBounded DEF OpenPortal, StartAck, TapRecords
  <2>6. CASE ReadSequence(q)
    BY <2>6, IdleTapIsBounded DEF ReadSequence, TapRecords
  <2>7. CASE RecordAck(q)
    BY <2>7, IdleTapIsBounded DEF RecordAck, TapRecords, SequenceRead
  <2> QED
    BY <1>4, <2>1, <2>2, <2>3, <2>4, <2>5, <2>6, <2>7 DEF StandInStep
<1>5. CASE UNCHANGED standInVars
  BY <1>5 DEF standInVars
<1> QED
  BY <1>3, <1>4, <1>5, SlotsStayBounded DEF StandInNext

\* However often the slot moves, what is remembered of it stays in bounds.
THEOREM HandoffTypes == StandInSpec => []StandInTypeOK
BY StandInsStartBounded, StandInsStayBounded, PTL DEF StandInSpec, StandInBounds

-----------------------------------------------------------------------------

(***************************************************************************)
(* Tasks. TasksInv strengthens what is to be shown with what a request     *)
(* knows that is still going through its list: the keys it read are all    *)
(* the templates that were live when it began, and those of its list that  *)
(* it is past have their tasks. The list is taken in the order of the      *)
(* numbers of its members, so the argument needs that a set of them has a  *)
(* least one.                                                              *)
(***************************************************************************)

Deeds ==
    [at : {"free", "lineup", "templates", "mark", "link", "spawn", "row", "paper",
           "confirm", "decline", "revive", "audience", "ask", "implied"},
     kind : {"none", "accept", "confirm", "decline"},
     who : Bill, key : Templates, saw : BOOLEAN, list : SUBSET Bill, keys : SUBSET Templates]

DeedTables ==
    /\ accepted \in BOOLEAN
    /\ answer \in [Bill -> Answers]
    /\ linked \in SUBSET Bill
    /\ catalogue \in [Templates -> {"none", "live", "retired"}]
    /\ deed \in [Helpers -> Deeds]

\* A request that will give its list the tasks it has read; and one that will,
\* once it has written an answer.
Coming(d) == d.at \in {"mark", "link", "spawn"}
Carrying(d) == Coming(d) \/ (d.at = "confirm" /\ d.saw)

\* An acceptance that has its list and has still to write the status.
Accepting(d) == d.kind = "accept" /\ d.at \in {"templates", "mark"}

SoundDeed(d, past) ==
    /\ d.saw => past
    /\ d.at \in {"lineup", "mark"} => d.kind = "accept"
    /\ d.at \in {"implied", "row", "paper", "confirm"} => d.kind # "accept"
    /\ d.at = "templates" /\ d.kind # "accept" => d.saw
    /\ d.at = "confirm" \/ (d.at = "templates" /\ d.kind = "confirm") => d.list = {d.who}
    /\ Carrying(d) => d.keys # {}
    /\ Coming(d) \/ d.at = "templates" => d.list # {}

\* Templates that came after a request had read them are seen to.
KeysAreAll ==
    \A q \in Helpers : Carrying(deed[q]) =>
        \A s \in deed[q].list, t \in LiveTemplates \ deed[q].keys :
            <<s, t>> \in todo \cup unasked

\* Nobody is confirmed unseen between a list and its status.
ListsAreFull ==
    ~accepted => \A q \in Helpers : Accepting(deed[q]) =>
        \A s \in Bill \ deed[q].list : answer[s] = "confirmed" => s \in overtaken

TasksInv ==
    /\ DeedTables
    /\ LiveTemplates # {}
    /\ \A q \in Helpers : SoundDeed(deed[q], accepted)
    /\ KeysAreAll
    /\ ListsAreFull
    /\ EveryoneHasTheirTasks

LEMMA LeadIsBilled == Lead \in Bill
<1>1. Len(Billed) \in Nat /\ Billed # <<>> /\ Billed \in Seq(Bill)
  BY OnboardingAssumption
<1>2. 1 \in 1..Len(Billed)
  BY <1>1
<1> QED
  BY <1>2 DEF Lead, Bill

LEMMA LeastOfASet ==
    ASSUME NEW T \in SUBSET Nat, T # {}
    PROVE  \E i \in T : \A j \in T : i <= j
<1> DEFINE R == OpToRel(<, Nat)
<1>1. IsWellFoundedOn(R, Nat)
  BY NatLessThanWellFounded
<1>2. \A x, y \in Nat : <<y, x>> \in R <=> y < x
  BY DEF OpToRel
<1> HIDE DEF R
<1>3. PICK x \in T : \A y \in T : <<y, x>> \notin R
  BY <1>1, WFMin
<1>4. \A y \in T : ~(y < x)
  BY <1>2, <1>3, Zenon
<1>5. \A y \in T : x <= y
  BY <1>4
<1> QED
  BY <1>5

LEMMA FirstIsListed ==
    ASSUME NEW S \in SUBSET Bill, S # {}
    PROVE  FirstOf(S) \in S
<1> DEFINE T == {i \in 1..Len(Billed) : Billed[i] \in S}
<1>5. T # {} /\ T \in SUBSET Nat
  BY OnboardingAssumption DEF Bill
<1>6. PICK i \in T : \A j \in T : i <= j
  BY <1>5, LeastOfASet
<1>3. Len(Billed) \in Nat
  BY OnboardingAssumption
<1>4. i \in 1..Len(Billed) /\ Billed[i] \in S /\ \A j \in 1..i - 1 : Billed[j] \notin S
  BY <1>6, <1>3
<1> QED
  BY <1>4 DEF FirstOf
LEMMA IdleDeedIsSound ==
    ASSUME NEW past
    PROVE  IdleDeed \in Deeds /\ SoundDeed(IdleDeed, past) /\ ~Carrying(IdleDeed) /\ ~Accepting(IdleDeed)
           /\ ~Coming(IdleDeed)
<1> DEFINE key == CHOOSE t \in Standard : TRUE
<1>1. key \in Templates
  BY OnboardingAssumption DEF Templates
<1>2. IdleDeed = [at |-> "free", kind |-> "none", who |-> Lead, key |-> key,
                  saw |-> FALSE, list |-> {}, keys |-> {}]
  BY DEF IdleDeed
<1> HIDE DEF key
<1> QED
  BY <1>1, <1>2, LeadIsBilled DEF Deeds, SoundDeed, Carrying, Accepting, Coming

LEMMA TasksStart == OnboardingInit => TasksInv
<1> SUFFICES ASSUME OnboardingInit PROVE TasksInv
  OBVIOUS
<1>1. DeedTables
  BY IdleDeedIsSound DEF OnboardingInit, DeedTables, Answers
<1>2. LiveTemplates # {}
  BY OnboardingAssumption DEF OnboardingInit, LiveTemplates, Templates
<1>3. \A q \in Helpers : deed[q] = IdleDeed
  BY DEF OnboardingInit
<1> QED
  BY <1>1, <1>2, <1>3, IdleDeedIsSound DEF OnboardingInit, TasksInv, KeysAreAll, ListsAreFull,
     EveryoneHasTheirTasks, HasOrGets

\* A request reads, and what it was going to give it still gives.
LEMMA ReadingStep ==
    ASSUME TasksInv, NEW q \in Helpers, NEW d \in Deeds, SoundDeed(d, accepted),
           deed' = [deed EXCEPT ![q] = d],
           UNCHANGED <<accepted, answer, catalogue, todo, abandoned, overtaken, unasked>>,
           linked' \in SUBSET Bill,
           Coming(deed[q]) => Coming(d) /\ d.list = deed[q].list,
           Carrying(d) => \/ LiveTemplates \subseteq d.keys
                          \/ Carrying(deed[q]) /\ d.list = deed[q].list /\ d.keys = deed[q].keys,
           Accepting(d) => \/ \A s \in Bill \ d.list : answer[s] # "confirmed"
                           \/ Accepting(deed[q]) /\ d.list = deed[q].list
    PROVE  TasksInv'
<1>1. \A r \in Helpers : deed'[r] = IF r = q THEN d ELSE deed[r]
  BY DEF TasksInv, DeedTables
<1>2. DeedTables' /\ LiveTemplates' = LiveTemplates
  BY DEF TasksInv, DeedTables, LiveTemplates
<1>3. (\A r \in Helpers : SoundDeed(deed[r], accepted))'
  BY <1>1 DEF TasksInv
<1>4. KeysAreAll'
  BY <1>1, <1>2 DEF TasksInv, KeysAreAll
<1>5. ListsAreFull'
  BY <1>1 DEF TasksInv, ListsAreFull
<1>6. \A s \in Bill : IsComing(s) => IsComing(s)'
  BY <1>1 DEF IsComing, Coming
<1>7. EveryoneHasTheirTasks'
  BY <1>2, <1>6 DEF TasksInv, EveryoneHasTheirTasks, HasOrGets
<1> QED
  BY <1>2, <1>3, <1>4, <1>5, <1>7 DEF TasksInv

LEMMA StartsKeep ==
    ASSUME TasksInv, NEW q \in Helpers, StartHelper(q)
    PROVE  TasksInv'
<1> DEFINE Named(s, place) == [IdleDeed EXCEPT !.at = place, !.who = s]
           Opens(d) ==
             /\ Takes(q, d)
             /\ d.at \in {"lineup", "row", "decline", "revive", "implied", "audience"}
             /\ d.saw => accepted
             /\ d.kind = IF d.at = "lineup" THEN "accept" ELSE "none"
<1>0. Lead \in Bill /\ IdleDeed \in Deeds /\ accepted \in BOOLEAN
  BY LeadIsBilled, IdleDeedIsSound DEF TasksInv, DeedTables
<1>1. PICK d \in Deeds : Opens(d)
  <2> DEFINE Wanted == \E d \in Deeds : Opens(d)
  <2> SUFFICES Wanted
    OBVIOUS
  <2>1. ASSUME StartAccept(q) PROVE Wanted
    <3> DEFINE d == [IdleDeed EXCEPT !.at = "lineup", !.kind = "accept", !.saw = accepted]
    <3>1. d \in Deeds /\ d.at = "lineup" /\ d.kind = "accept" /\ (d.saw => accepted)
      BY <1>0 DEF Deeds
    <3>2. Takes(q, d)
      BY <2>1 DEF StartAccept
    <3> HIDE DEF d
    <3> QED
      BY <3>1, <3>2
  <2>2. ASSUME NEW s \in Bill, NEW place \in {"row", "decline", "revive", "implied"},
               Takes(q, Named(s, place))
        PROVE  Wanted
    <3> DEFINE d == [IdleDeed EXCEPT !.at = place, !.who = s]
    <3>1. d \in Deeds /\ d.at = place
      BY <1>0 DEF Deeds
    <3>2. d.saw = FALSE /\ d.kind = "none"
      BY DEF IdleDeed
    <3>3. Takes(q, d)
      BY <2>2
    <3> HIDE DEF d
    <3> QED
      BY <3>1, <3>2, <3>3
  <2>3. ASSUME NEW t \in Requested, StartAsk(q, t)
        PROVE  Wanted
    <3> DEFINE d == [IdleDeed EXCEPT !.at = "audience", !.key = t]
    <3>1. d \in Deeds /\ d.at = "audience"
      BY <1>0 DEF Deeds, Templates
    <3>2. d.saw = FALSE /\ d.kind = "none"
      BY DEF IdleDeed
    <3>3. Takes(q, d)
      BY <2>3 DEF StartAsk
    <3> HIDE DEF d
    <3> QED
      BY <3>1, <3>2, <3>3
  <2>4. ASSUME NEW s \in Bill, StartConfirm(q, s) \/ StartDecline(q, s) \/ StartRevive(q, s) \/ StartTask(q, s)
        PROVE  Wanted
    <3>1. \E place \in {"row", "decline", "revive", "implied"} : Takes(q, Named(s, place))
      BY <2>4 DEF StartConfirm, StartDecline, StartRevive, StartTask
    <3> HIDE DEF Named, Wanted
    <3> QED
      BY <2>2, <3>1
  <2> HIDE DEF Wanted
  <2> QED
    BY <2>1, <2>3, <2>4 DEF StartHelper
<1>2. /\ deed' = [deed EXCEPT ![q] = d] /\ deed[q].at = "free"
      /\ UNCHANGED <<accepted, answer, linked, catalogue, todo, abandoned, overtaken, unasked>> /\ linked \in SUBSET Bill
  BY <1>1 DEF Takes, IsAt, rest, history, TasksInv, DeedTables
<1>3. SoundDeed(d, accepted) /\ ~Carrying(d) /\ ~Accepting(d) /\ ~Coming(deed[q])
  BY <1>1, <1>2 DEF SoundDeed, Carrying, Accepting, Coming
<1> QED
  BY <1>2, <1>3, ReadingStep

\* A request that was not going to give anything ends.
LEMMA EndingStep ==
    ASSUME TasksInv, NEW q \in Helpers, ~Coming(deed[q]), Over(q),
           UNCHANGED <<accepted, answer, linked, catalogue, todo, abandoned, overtaken, unasked>>
    PROVE  TasksInv'
BY ReadingStep, IdleDeedIsSound DEF Over, TasksInv, DeedTables

LEMMA ReadsKeep ==
    ASSUME TasksInv, NEW q \in Helpers,
           \/ ReadLineup(q) \/ ReadTemplates(q) \/ ReadRow(q) \/ ReadPaper(q)
           \/ ReadAudience(q) \/ ConfirmByTask(q)
    PROVE  TasksInv'
<1>1. deed[q] \in Deeds /\ SoundDeed(deed[q], accepted) /\ deed \in [Helpers -> Deeds]
      /\ accepted \in BOOLEAN
  BY DEF TasksInv, DeedTables
<1>2. UNCHANGED <<accepted, answer, linked, catalogue, todo, abandoned, overtaken, unasked>> /\ linked \in SUBSET Bill
  BY DEF TasksInv, DeedTables, ReadLineup, ReadTemplates, ReadRow, ReadPaper, ReadAudience, ConfirmByTask, rest, history
<1>3. ~Coming(deed[q]) /\ ~Carrying(deed[q])
  BY DEF ReadLineup, ReadTemplates, ReadRow, ReadPaper, ReadAudience, ConfirmByTask, IsAt,
     Coming, Carrying
<1>4. CASE Over(q)
  BY <1>2, <1>3, <1>4, EndingStep
<1>5. CASE ReadLineup(q) /\ ~Over(q)
  <2> DEFINE confirmed == {s \in Bill : answer[s] = "confirmed"}
             d == [deed[q] EXCEPT !.list = confirmed, !.at = "templates"]
  <2>1. deed' = [deed EXCEPT ![q].list = confirmed, ![q].at = "templates"] /\ deed[q].at = "lineup"
       /\ confirmed # {}
    BY <1>5 DEF ReadLineup, IsAt
  <2>2. d \in Deeds /\ deed' = [deed EXCEPT ![q] = d] /\ d.at = "templates" /\ d.list = confirmed
        /\ d.kind = deed[q].kind /\ d.saw = deed[q].saw
    BY <1>1, <2>1 DEF Deeds
  <2>3. \A s \in Bill \ confirmed : answer[s] # "confirmed"
    OBVIOUS
  <2> HIDE DEF d, confirmed
  <2>4. SoundDeed(d, accepted) /\ ~Coming(d) /\ ~Carrying(d)
    BY <1>1, <2>1, <2>2 DEF SoundDeed, Coming, Carrying
  <2> QED
    BY <1>2, <1>3, <2>2, <2>3, <2>4, ReadingStep
<1>6. CASE ReadTemplates(q)
  <2> DEFINE place == AfterTemplates(deed[q])
             d == [deed[q] EXCEPT !.keys = LiveTemplates, !.at = place]
  <2>1. deed' = [deed EXCEPT ![q].keys = LiveTemplates, ![q].at = place] /\ deed[q].at = "templates"
    BY <1>6 DEF ReadTemplates, IsAt
  <2>2. /\ place \in {"confirm", "link", "mark"}
        /\ place = "confirm" => deed[q].kind = "confirm"
        /\ place = "mark" => ~deed[q].saw
    BY DEF AfterTemplates
  <2> HIDE DEF place
  <2>3. d \in Deeds /\ deed' = [deed EXCEPT ![q] = d] /\ d.at = place /\ d.list = deed[q].list
        /\ d.kind = deed[q].kind /\ d.saw = deed[q].saw /\ d.keys = LiveTemplates /\ d.who = deed[q].who
    BY <1>1, <2>1, <2>2 DEF Deeds, LiveTemplates
  <2> HIDE DEF d
  <2>4. LiveTemplates # {}
    BY DEF TasksInv
  <2>5. SoundDeed(d, accepted)
    BY <1>1, <2>1, <2>2, <2>3, <2>4 DEF SoundDeed
  <2>6. Accepting(d) => Accepting(deed[q]) /\ d.list = deed[q].list
    BY <2>1, <2>3 DEF Accepting
  <2> QED
    BY <1>2, <1>3, <2>3, <2>5, <2>6, ReadingStep
<1>7. CASE (ReadRow(q) \/ ReadPaper(q) \/ ReadAudience(q) \/ ConfirmByTask(q)) /\ ~Over(q)
  <2>1. PICK place \in {"paper", "templates", "confirm", "ask", "row"},
             kind \in {deed[q].kind, "confirm"}, saw \in {deed[q].saw, accepted}, list \in SUBSET Bill :
           /\ deed' = [deed EXCEPT ![q].at = place, ![q].kind = kind, ![q].saw = saw, ![q].list = list]
           /\ deed[q].at \in {"row", "paper", "audience", "implied"}
           /\ place # "ask" => deed[q].at # "audience"
           /\ place \in {"templates", "confirm"} => list = {deed[q].who}
           /\ place = "templates" => saw
           /\ place = "confirm" => ~saw
    <3>1. CASE ReadRow(q)
      <4>1. \/ deed' = [deed EXCEPT ![q].at = "paper"]
            \/ deed' = [deed EXCEPT ![q].kind = "confirm", ![q].at = "paper"]
        BY <1>7, <3>1 DEF ReadRow, MoveOn
      <4>2. [deed EXCEPT ![q].at = "paper"] = [deed EXCEPT ![q].at = "paper", ![q].kind = deed[q].kind,
                                                  ![q].saw = deed[q].saw, ![q].list = deed[q].list]
        BY <1>1 DEF Deeds
      <4>3. [deed EXCEPT ![q].kind = "confirm", ![q].at = "paper"]
              = [deed EXCEPT ![q].at = "paper", ![q].kind = "confirm",
                             ![q].saw = deed[q].saw, ![q].list = deed[q].list]
        BY <1>1 DEF Deeds
      <4>4. deed[q].at = "row" /\ deed[q].list \in SUBSET Bill
        BY <1>1, <3>1 DEF ReadRow, IsAt, Deeds
      <4>5. CASE deed' = [deed EXCEPT ![q].at = "paper"]
        BY <4>2, <4>4, <4>5
      <4>6. CASE deed' = [deed EXCEPT ![q].kind = "confirm", ![q].at = "paper"]
        BY <4>3, <4>4, <4>6
      <4> QED
        BY <4>1, <4>5, <4>6
    <3>2. CASE ReadPaper(q)
      <4> DEFINE p == IF accepted THEN "templates" ELSE "confirm"
      <4>1. deed' = [deed EXCEPT ![q].saw = accepted, ![q].list = {deed[q].who}, ![q].at = p]
        BY <1>7, <3>2 DEF ReadPaper
      <4>2. [deed EXCEPT ![q].saw = accepted, ![q].list = {deed[q].who}, ![q].at = p]
              = [deed EXCEPT ![q].at = p, ![q].kind = deed[q].kind, ![q].saw = accepted,
                             ![q].list = {deed[q].who}]
        BY <1>1, ZenonT(60) DEF Deeds
      <4>3. deed[q].at = "paper" /\ {deed[q].who} \in SUBSET Bill
        BY <1>1, <3>2 DEF ReadPaper, IsAt, Deeds
      <4> QED
        BY <4>1, <4>2, <4>3
    <3>3. CASE ReadAudience(q)
      <4> DEFINE l == {s \in linked : accepted /\ answer[s] \in {"pending", "confirmed"}}
      <4>1. deed' = [deed EXCEPT ![q].at = "ask", ![q].list = l] /\ deed[q].at = "audience"
        BY <3>3 DEF ReadAudience, IsAt
      <4>2. l \in SUBSET Bill
        BY <1>2
      <4> HIDE DEF l
      <4>3. [deed EXCEPT ![q].at = "ask", ![q].list = l]
              = [deed EXCEPT ![q].at = "ask", ![q].kind = deed[q].kind, ![q].saw = deed[q].saw,
                             ![q].list = l]
        BY <1>1 DEF Deeds
      <4> QED
        BY <4>1, <4>2, <4>3
    <3>4. CASE ConfirmByTask(q)
      <4>1. deed' = [deed EXCEPT ![q].at = "row"] /\ deed[q].at = "implied"
        BY <1>7, <3>4 DEF ConfirmByTask, MoveOn, IsAt
      <4>2. [deed EXCEPT ![q].at = "row"] = [deed EXCEPT ![q].at = "row", ![q].kind = deed[q].kind,
                                                  ![q].saw = deed[q].saw, ![q].list = deed[q].list]
        BY <1>1 DEF Deeds
      <4>3. deed[q].list \in SUBSET Bill
        BY <1>1 DEF Deeds
      <4> QED
        BY <4>1, <4>2, <4>3
    <3> QED
      BY <1>7, <3>1, <3>2, <3>3, <3>4
  <2> DEFINE d == [deed[q] EXCEPT !.at = place, !.kind = kind, !.saw = saw, !.list = list]
  <2>2. d \in Deeds /\ deed' = [deed EXCEPT ![q] = d] /\ d.at = place /\ d.kind = kind /\ d.saw = saw
        /\ d.list = list /\ d.who = deed[q].who
    BY <1>1, <2>1 DEF Deeds
  <2> HIDE DEF d
  <2>3. deed[q].at \in {"row", "paper", "implied"} => kind # "accept"
    BY <1>1, <2>1 DEF SoundDeed
  <2>4. SoundDeed(d, accepted) /\ ~Carrying(d)
    BY <1>1, <2>1, <2>2, <2>3 DEF SoundDeed, Carrying, Coming
  <2>5. ~Accepting(d)
    BY <2>1, <2>2, <2>3 DEF Accepting
  <2> QED
    BY <1>2, <1>3, <2>2, <2>4, <2>5, ReadingStep
<1> QED
  BY <1>4, <1>5, <1>6, <1>7

\* What becomes of the requests when one of them moves to d.
Becomes(q, d) ==
    /\ deed' = [deed EXCEPT ![q] = d]
    /\ d \in Deeds

LEMMA OneMoves ==
    ASSUME TasksInv, NEW q \in Helpers, NEW d, Becomes(q, d)
    PROVE  /\ \A r \in Helpers : deed'[r] = IF r = q THEN d ELSE deed[r]
           /\ deed' \in [Helpers -> Deeds]
BY DEF TasksInv, DeedTables, Becomes

LEMMA OverIsIdle ==
    ASSUME NEW q \in Helpers, Over(q)
    PROVE  Becomes(q, IdleDeed)
BY IdleDeedIsSound DEF Over, Becomes

LEMMA WriteAcceptedKeeps ==
    ASSUME TasksInv, NEW q \in Helpers, WriteAccepted(q)
    PROVE  TasksInv'
<1> DEFINE d == [deed[q] EXCEPT !.at = "link"]
<1>1. deed[q] \in Deeds /\ deed[q].at = "mark" /\ SoundDeed(deed[q], accepted)
  BY DEF TasksInv, DeedTables, WriteAccepted, IsAt
<1>2. /\ Becomes(q, d) /\ d.at = "link" /\ d.list = deed[q].list /\ d.keys = deed[q].keys
      /\ d.kind = deed[q].kind
  BY <1>1 DEF WriteAccepted, MoveOn, Becomes, Deeds
<1> HIDE DEF d
<1>3. accepted' = TRUE /\ UNCHANGED <<answer, linked, catalogue, todo, abandoned, overtaken, unasked>>
  BY DEF WriteAccepted, history
<1>4. /\ \A r \in Helpers : deed'[r] = IF r = q THEN d ELSE deed[r]
      /\ deed' \in [Helpers -> Deeds]
  BY <1>2, OneMoves
<1>5. DeedTables' /\ LiveTemplates' = LiveTemplates /\ LiveTemplates \subseteq Templates
  BY <1>3, <1>4 DEF TasksInv, DeedTables, LiveTemplates
<1>6. \A r \in Helpers : SoundDeed(deed'[r], TRUE)
  <2>1. SoundDeed(d, TRUE)
    BY <1>1, <1>2 DEF SoundDeed, Carrying, Coming
  <2>2. \A r \in Helpers : SoundDeed(deed[r], TRUE)
    BY DEF TasksInv, SoundDeed
  <2> QED
    BY <1>4, <2>1, <2>2
<1>7. Carrying(deed[q]) /\ Coming(deed[q]) /\ Coming(d) /\ Accepting(deed[q])
  BY <1>1, <1>2 DEF Carrying, Coming, Accepting, SoundDeed
<1>8. KeysAreAll'
  BY <1>2, <1>3, <1>4, <1>5, <1>7 DEF TasksInv, KeysAreAll
<1>9. EveryoneHasTheirTasks'
  <2>1. \A s \in Bill : IsComing(s) => IsComing(s)'
    BY <1>2, <1>4, <1>7 DEF IsComing, Coming
  <2>2. \A s \in deed[q].list : IsComing(s)'
    BY <1>2, <1>4 DEF IsComing
  <2>3. ~accepted => \A s \in Bill \ deed[q].list : answer[s] = "confirmed" => s \in overtaken
    BY <1>7 DEF TasksInv, ListsAreFull
  <2> QED
    BY <1>3, <1>5, <2>1, <2>2, <2>3 DEF TasksInv, EveryoneHasTheirTasks, HasOrGets
<1> QED
  BY <1>3, <1>5, <1>6, <1>8, <1>9 DEF TasksInv, ListsAreFull

LEMMA LinkPersonKeeps ==
    ASSUME TasksInv, NEW q \in Helpers, LinkPerson(q)
    PROVE  TasksInv'
<1> DEFINE d == [deed[q] EXCEPT !.at = "spawn"]
<1>1. deed[q] \in Deeds /\ deed[q].at = "link" /\ SoundDeed(deed[q], accepted) /\ linked \in SUBSET Bill
  BY DEF TasksInv, DeedTables, LinkPerson, IsAt
<1>2. /\ deed' = [deed EXCEPT ![q] = d] /\ d \in Deeds
      /\ d.at = "spawn" /\ d.list = deed[q].list /\ d.keys = deed[q].keys
      /\ d.kind = deed[q].kind /\ d.saw = deed[q].saw
  BY <1>1 DEF LinkPerson, MoveOn, Deeds
<1> HIDE DEF d
<1>3. Coming(deed[q]) /\ Carrying(deed[q]) /\ Coming(d) /\ ~Accepting(d)
  BY <1>1, <1>2 DEF Coming, Carrying, Accepting
<1>4. SoundDeed(d, accepted)
  BY <1>1, <1>2, <1>3 DEF SoundDeed, Carrying, Coming
<1>5. deed[q].list \in SUBSET Bill /\ deed[q].list # {}
  BY <1>1, <1>3 DEF Deeds, SoundDeed
<1>6. linked' \in SUBSET Bill
  BY <1>1, <1>5, FirstIsListed DEF LinkPerson
<1>7. UNCHANGED <<accepted, answer, catalogue, todo, abandoned, overtaken, unasked>>
  BY DEF LinkPerson, history
<1> QED
  BY <1>2, <1>3, <1>4, <1>6, <1>7, ReadingStep

LEMMA SpawnTasksKeeps ==
    ASSUME TasksInv, NEW q \in Helpers, SpawnTasks(q)
    PROVE  TasksInv'
<1> DEFINE s == FirstOf(deed[q].list)
           left == [deed[q] EXCEPT !.list = @ \ {s}, !.at = "link"]
<1>1. deed[q] \in Deeds /\ deed[q].at = "spawn" /\ SoundDeed(deed[q], accepted)
  BY DEF TasksInv, DeedTables, SpawnTasks, IsAt
<1>2. Coming(deed[q]) /\ Carrying(deed[q]) /\ deed[q].list \in SUBSET Bill /\ deed[q].list # {}
  BY <1>1 DEF Coming, Carrying, Deeds, SoundDeed
<1>3. s \in deed[q].list
  BY <1>2, FirstIsListed
<1>4. /\ todo' = todo \cup {s} \X deed[q].keys
      /\ UNCHANGED <<accepted, answer, linked, catalogue, abandoned, overtaken, unasked>>
  BY DEF SpawnTasks, history
<1>5. PICK d \in Deeds :
        /\ Becomes(q, d)
        /\ d.list = deed[q].list \ {s} /\ SoundDeed(d, accepted) /\ ~Accepting(d)
        /\ Carrying(d) => d.keys = deed[q].keys
        /\ d.list # {} => Coming(d)
  <2>1. CASE deed[q].list = {s}
    <3>1. Becomes(q, IdleDeed)
      BY <2>1, OverIsIdle DEF SpawnTasks
    <3>2. IdleDeed.list = {}
      BY DEF IdleDeed
    <3> QED
      BY <2>1, <3>1, <3>2, IdleDeedIsSound
  <2>2. CASE deed[q].list # {s}
    <3> HIDE DEF s
    <3>1. left \in Deeds /\ left.list = deed[q].list \ {s} /\ left.at = "link" /\ left.keys = deed[q].keys
          /\ left.saw = deed[q].saw /\ left.kind = deed[q].kind
      BY <1>1 DEF Deeds
    <3>2. deed' = [deed EXCEPT ![q].list = @ \ {s}, ![q].at = "link"]
      BY <2>2 DEF SpawnTasks, s
    <3>3. deed' = [deed EXCEPT ![q] = left]
      BY <1>1, <3>2 DEF TasksInv, DeedTables, Deeds
    <3> HIDE DEF left
    <3>4. left.list # {}
      BY <1>3, <2>2, <3>1
    <3>5. SoundDeed(left, accepted) /\ ~Accepting(left) /\ Coming(left)
      BY <1>1, <1>2, <3>1, <3>4 DEF SoundDeed, Carrying, Coming, Accepting
    <3> QED
      BY <3>1, <3>3, <3>5 DEF Becomes
  <2> QED
    BY <2>1, <2>2
<1> HIDE DEF s, left
<1>6. /\ \A r \in Helpers : deed'[r] = IF r = q THEN d ELSE deed[r]
      /\ deed' \in [Helpers -> Deeds]
  BY <1>5, OneMoves
<1>7. DeedTables' /\ LiveTemplates' = LiveTemplates
  BY <1>4, <1>6 DEF TasksInv, DeedTables, LiveTemplates
<1>8. (\A r \in Helpers : SoundDeed(deed[r], accepted))'
  BY <1>4, <1>5, <1>6 DEF TasksInv
<1>9. KeysAreAll'
  BY <1>2, <1>4, <1>5, <1>6, <1>7 DEF TasksInv, KeysAreAll
<1>10. ListsAreFull'
  BY <1>4, <1>5, <1>6 DEF TasksInv, ListsAreFull
<1>11. EveryoneHasTheirTasks'
  <2> SUFFICES ASSUME accepted, NEW p \in Bill, NEW t \in LiveTemplates,
                      answer[p] = "confirmed", <<p, t>> \notin todo', <<p, t>> \notin unasked
               PROVE  IsComing(p)' \/ p \in abandoned \cup overtaken
    BY <1>4, <1>7 DEF EveryoneHasTheirTasks, HasOrGets
  <2>1. <<p, t>> \notin todo /\ (p = s => t \notin deed[q].keys)
    BY <1>4
  <2>2. CASE p = s
    <3>1. <<p, t>> \in todo \cup unasked
      BY <1>2, <1>3, <2>1, <2>2 DEF TasksInv, KeysAreAll
    <3> QED
      BY <2>1, <3>1
  <2>3. CASE p # s /\ IsComing(p)
    <3>1. PICK r \in Helpers : Coming(deed[r]) /\ p \in deed[r].list
      BY <2>3 DEF IsComing, Coming
    <3>2. Coming(deed'[r]) /\ p \in deed'[r].list
      BY <1>5, <1>6, <2>3, <3>1
    <3> QED
      BY <3>2 DEF IsComing, Coming
  <2> QED
    BY <2>1, <2>2, <2>3 DEF TasksInv, EveryoneHasTheirTasks, HasOrGets
<1> QED
  BY <1>4, <1>7, <1>8, <1>9, <1>10, <1>11 DEF TasksInv

LEMMA WriteConfirmedKeeps ==
    ASSUME TasksInv, NEW q \in Helpers, WriteConfirmed(q)
    PROVE  TasksInv'
<1> DEFINE s == deed[q].who
           on == [deed[q] EXCEPT !.at = "link"]
<1>1. deed[q] \in Deeds /\ deed[q].at = "confirm" /\ SoundDeed(deed[q], accepted) /\ s \in Bill
      /\ accepted \in BOOLEAN /\ deed[q].saw \in BOOLEAN
  BY DEF TasksInv, DeedTables, WriteConfirmed, IsAt, Deeds
<1>2. deed[q].list = {s} /\ ~Coming(deed[q]) /\ ~Accepting(deed[q])
  BY <1>1 DEF Coming, Accepting, SoundDeed
<1>3. /\ answer' = [answer EXCEPT ![s] = "confirmed"]
      /\ Overtakes(q, s) => overtaken' = overtaken \cup {s}
      /\ ~Overtakes(q, s) => overtaken' = overtaken
      /\ UNCHANGED <<accepted, linked, catalogue, todo, abandoned, unasked>>
  BY DEF WriteConfirmed
<1>4. PICK d \in Deeds :
        /\ Becomes(q, d)
        /\ SoundDeed(d, accepted) /\ ~Accepting(d)
        /\ Carrying(d) => deed[q].saw /\ d.keys = deed[q].keys /\ d.list = {s}
        /\ deed[q].saw => Coming(d) /\ d.list = {s}
  <2>1. CASE ~deed[q].saw
    <3>1. Becomes(q, IdleDeed)
      BY <2>1, OverIsIdle DEF WriteConfirmed, GoesOnToTasks
    <3> QED
      BY <2>1, <3>1, IdleDeedIsSound
  <2>2. CASE deed[q].saw
    <3>1. on \in Deeds /\ on.list = deed[q].list /\ on.at = "link" /\ on.keys = deed[q].keys
          /\ on.saw = deed[q].saw /\ on.kind = deed[q].kind /\ deed' = [deed EXCEPT ![q] = on]
      BY <1>1, <2>2 DEF Deeds, WriteConfirmed, GoesOnToTasks, MoveOn
    <3> HIDE DEF on
    <3>2. SoundDeed(on, accepted) /\ ~Accepting(on) /\ Coming(on)
      BY <1>1, <1>2, <2>2, <3>1 DEF SoundDeed, Carrying, Coming, Accepting
    <3> QED
      BY <1>2, <2>2, <3>1, <3>2 DEF Becomes
  <2> QED
    BY <1>1, <2>1, <2>2
<1> HIDE DEF s, on
<1>5. /\ \A r \in Helpers : deed'[r] = IF r = q THEN d ELSE deed[r]
      /\ deed' \in [Helpers -> Deeds]
  BY <1>4, OneMoves
<1>6. answer \in [Bill -> Answers] /\ \A p \in Bill : answer'[p] = IF p = s THEN "confirmed" ELSE answer[p]
  BY <1>1, <1>3 DEF TasksInv, DeedTables
<1>7. DeedTables' /\ LiveTemplates' = LiveTemplates /\ overtaken \subseteq overtaken'
      /\ LiveTemplates \subseteq Templates
  BY <1>1, <1>3, <1>5, <1>6 DEF TasksInv, DeedTables, LiveTemplates, Answers
<1>8. (\A r \in Helpers : SoundDeed(deed[r], accepted))'
  BY <1>3, <1>4, <1>5 DEF TasksInv
<1>9. KeysAreAll'
  <2>1. Carrying(d) => Carrying(deed[q]) /\ d.keys = deed[q].keys /\ d.list = deed[q].list
    BY <1>1, <1>2, <1>4 DEF Carrying
  <2> QED
    BY <1>3, <1>5, <1>7, <2>1 DEF TasksInv, KeysAreAll
<1>10. ListsAreFull'
  <2> SUFFICES ASSUME ~accepted, NEW r \in Helpers, Accepting(deed'[r]),
                      NEW p \in Bill \ deed'[r].list, answer'[p] = "confirmed"
               PROVE  p \in overtaken'
    BY <1>3 DEF ListsAreFull
  <2>1. deed'[r] = deed[r] /\ Accepting(deed[r])
    BY <1>4, <1>5
  <2>2. CASE p = s
    <3>1. ~deed[q].saw
      BY <1>1 DEF SoundDeed
    <3>2. Overtakes(q, s)
      BY <2>1, <2>2, <3>1 DEF Overtakes, Accepting
    <3> QED
      BY <1>3, <2>2, <3>2
  <2>3. CASE p # s
    BY <1>6, <1>7, <2>1, <2>3 DEF TasksInv, ListsAreFull
  <2> QED
    BY <2>2, <2>3
<1>11. EveryoneHasTheirTasks'
  <2> SUFFICES ASSUME accepted, NEW p \in Bill, NEW t \in LiveTemplates,
                      answer'[p] = "confirmed", <<p, t>> \notin todo, <<p, t>> \notin unasked
               PROVE  IsComing(p)' \/ p \in abandoned \cup overtaken'
    BY <1>3, <1>7 DEF EveryoneHasTheirTasks, HasOrGets
  <2>1. CASE p = s /\ deed[q].saw
    BY <1>4, <1>5, <2>1 DEF IsComing, Coming
  <2>2. CASE p = s /\ ~deed[q].saw
    <3>1. Overtakes(q, s)
      BY <2>2 DEF Overtakes
    <3> QED
      BY <1>3, <1>7, <2>2, <3>1
  <2>3. CASE p # s
    <3>1. IsComing(p) => IsComing(p)'
      BY <1>2, <1>5 DEF IsComing, Coming
    <3> QED
      BY <1>6, <1>7, <2>3, <3>1 DEF TasksInv, EveryoneHasTheirTasks, HasOrGets
  <2> QED
    BY <2>1, <2>2, <2>3
<1> QED
  BY <1>3, <1>7, <1>8, <1>9, <1>10, <1>11 DEF TasksInv

\* Answers other than a confirmation, and requests that end by them.
LEMMA OtherAnswersKeep ==
    ASSUME TasksInv,
           \/ \E q \in Helpers : WriteDeclined(q) \/ WriteRevived(q)
           \/ \E s \in Bill : RemoveSpeaker(s)
    PROVE  TasksInv'
<1>1. /\ answer' \in [Bill -> Answers]
      /\ \A p \in Bill : answer'[p] = "confirmed" => answer[p] = "confirmed"
      /\ UNCHANGED <<accepted, linked, catalogue, todo, abandoned, overtaken, unasked>>
  BY DEF TasksInv, DeedTables, WriteDeclined, WriteRevived, RemoveSpeaker, Answers, history
<1>2. /\ deed' \in [Helpers -> Deeds]
      /\ \A r \in Helpers : deed'[r] = deed[r] \/ (deed'[r] = IdleDeed /\ ~Coming(deed[r]))
  <2>1. CASE \E q \in Helpers : WriteDeclined(q) \/ WriteRevived(q)
    <3>1. PICK q \in Helpers : Over(q) /\ ~Coming(deed[q])
      BY <2>1 DEF WriteDeclined, WriteRevived, IsAt, Coming
    <3> QED
      BY <3>1, OverIsIdle, OneMoves
  <2>2. CASE \E s \in Bill : RemoveSpeaker(s)
    BY <2>2 DEF RemoveSpeaker, TasksInv, DeedTables
  <2> QED
    BY <2>1, <2>2
<1>3. DeedTables' /\ LiveTemplates' = LiveTemplates
  BY <1>1, <1>2 DEF TasksInv, DeedTables, LiveTemplates
<1>4. (\A r \in Helpers : SoundDeed(deed[r], accepted))'
  BY <1>1, <1>2, IdleDeedIsSound DEF TasksInv
<1>5. KeysAreAll' /\ ListsAreFull'
  BY <1>1, <1>2, <1>3, IdleDeedIsSound DEF TasksInv, KeysAreAll, ListsAreFull
<1>6. \A p \in Bill : IsComing(p) => IsComing(p)'
  BY <1>2 DEF IsComing, Coming
<1>7. EveryoneHasTheirTasks'
  BY <1>1, <1>3, <1>6 DEF TasksInv, EveryoneHasTheirTasks, HasOrGets
<1> QED
  BY <1>1, <1>3, <1>4, <1>5, <1>7 DEF TasksInv

\* A template comes, and those of list have its task at once. Everybody else
\* who is past being given tasks is noted.
LEMMA TemplateComes ==
    ASSUME TasksInv, NEW t \in Templates, NEW list,
           catalogue' = [catalogue EXCEPT ![t] = "live"],
           todo' = todo \cup list \X {t},
           unasked' = unasked \cup (GivenBefore \ list) \X {t},
           UNCHANGED <<accepted, answer, linked, abandoned, overtaken>>,
           deed' \in [Helpers -> Deeds],
           \A r \in Helpers : deed'[r] = deed[r] \/ (deed'[r] = IdleDeed /\ ~Coming(deed[r]))
    PROVE  TasksInv'
<1>1. DeedTables' /\ LiveTemplates' = LiveTemplates \cup {t}
  BY DEF TasksInv, DeedTables, LiveTemplates
<1>2. (\A r \in Helpers : SoundDeed(deed[r], accepted))'
  BY IdleDeedIsSound DEF TasksInv
<1>3. KeysAreAll'
  <2> SUFFICES ASSUME NEW r \in Helpers, Carrying(deed'[r]), NEW p \in deed'[r].list,
                      NEW u \in LiveTemplates' \ deed'[r].keys
               PROVE  <<p, u>> \in todo' \cup unasked'
    BY DEF KeysAreAll
  <2>1. deed'[r] = deed[r] /\ Carrying(deed[r])
    BY IdleDeedIsSound
  <2>2. CASE u # t
    BY <1>1, <2>1, <2>2 DEF TasksInv, KeysAreAll
  <2>3. CASE u = t /\ p \notin list
    <3>1. p \in Bill /\ deed[r].keys # {}
      BY <2>1 DEF TasksInv, DeedTables, Deeds, SoundDeed
    <3>2. p \in GivenBefore
      BY <2>1, <2>3, <3>1 DEF GivenBefore
    <3> QED
      BY <2>3, <3>2
  <2> QED
    BY <2>2, <2>3
<1>4. ListsAreFull'
  BY IdleDeedIsSound DEF TasksInv, ListsAreFull
<1>5. EveryoneHasTheirTasks'
  <2> SUFFICES ASSUME accepted, NEW p \in Bill, NEW u \in LiveTemplates',
                      answer[p] = "confirmed", <<p, u>> \notin todo', <<p, u>> \notin unasked'
               PROVE  IsComing(p)' \/ p \in abandoned \cup overtaken
    BY DEF EveryoneHasTheirTasks, HasOrGets
  <2>1. u # t
    <3> SUFFICES ASSUME u = t PROVE FALSE
      OBVIOUS
    <3>1. p \notin list /\ p \in GivenBefore
      BY DEF GivenBefore
    <3> QED
      BY <3>1
  <2>2. IsComing(p) => IsComing(p)'
    BY DEF IsComing, Coming
  <2> QED
    BY <1>1, <2>1, <2>2 DEF TasksInv, EveryoneHasTheirTasks, HasOrGets
<1> QED
  BY <1>1, <1>2, <1>3, <1>4, <1>5 DEF TasksInv

LEMMA AskEverybodyKeeps ==
    ASSUME TasksInv, NEW q \in Helpers, AskEverybody(q)
    PROVE  TasksInv'
<1> DEFINE t == deed[q].key
           list == deed[q].list
<1>1. t \in Templates /\ ~Coming(deed[q])
  BY DEF TasksInv, DeedTables, Deeds, AskEverybody, IsAt, Coming
<1>2. /\ catalogue' = [catalogue EXCEPT ![t] = "live"]
      /\ todo' = todo \cup list \X {t}
      /\ unasked' = unasked \cup (GivenBefore \ list) \X {t}
      /\ UNCHANGED <<accepted, answer, linked, abandoned, overtaken>>
  BY DEF AskEverybody
<1> HIDE DEF t, list
<1>3. /\ \A r \in Helpers : deed'[r] = IF r = q THEN IdleDeed ELSE deed[r]
      /\ deed' \in [Helpers -> Deeds]
  BY OverIsIdle, OneMoves DEF AskEverybody
<1> QED
  BY <1>1, <1>2, <1>3, TemplateComes

LEMMA AddTemplateKeeps ==
    ASSUME TasksInv, NEW t \in Requested, AddTemplate(t)
    PROVE  TasksInv'
<1>1. t \in Templates /\ deed \in [Helpers -> Deeds]
  BY DEF Templates, TasksInv, DeedTables
<1>2. /\ catalogue' = [catalogue EXCEPT ![t] = "live"]
      /\ todo' = todo \cup {} \X {t}
      /\ unasked' = unasked \cup (GivenBefore \ {}) \X {t}
      /\ UNCHANGED <<accepted, answer, linked, abandoned, overtaken, deed>>
  BY DEF AddTemplate
<1> QED
  BY <1>1, <1>2, TemplateComes

LEMMA RetireTemplateKeeps ==
    ASSUME TasksInv, NEW t \in Templates, RetireTemplate(t)
    PROVE  TasksInv'
<1>1. /\ catalogue' = [catalogue EXCEPT ![t] = "retired"] /\ Cardinality(LiveTemplates) > 1
      /\ UNCHANGED <<accepted, answer, linked, todo, deed, abandoned, overtaken, unasked>>
  BY DEF RetireTemplate, history
<1>2. DeedTables' /\ LiveTemplates' = LiveTemplates \ {t}
  BY <1>1 DEF TasksInv, DeedTables, LiveTemplates
<1>3. LiveTemplates' # {}
  <2>1. Cardinality({t}) = 1
    BY FS_Singleton
  <2>2. LiveTemplates # {t}
    BY <1>1, <2>1
  <2> QED
    BY <1>2, <2>2 DEF TasksInv
<1>4. \A p \in Bill : IsComing(p)' = IsComing(p)
  BY <1>1 DEF IsComing
<1> QED
  BY <1>1, <1>2, <1>3, <1>4 DEF TasksInv, KeysAreAll, ListsAreFull, EveryoneHasTheirTasks,
     HasOrGets

LEMMA HelperDiesKeeps ==
    ASSUME TasksInv, NEW q \in Helpers, HelperDies(q)
    PROVE  TasksInv'
<1>1. /\ abandoned' = abandoned \cup deed[q].list
      /\ UNCHANGED <<accepted, answer, linked, catalogue, todo, overtaken, unasked>>
  BY DEF HelperDies
<1>2. /\ \A r \in Helpers : deed'[r] = IF r = q THEN IdleDeed ELSE deed[r]
      /\ deed' \in [Helpers -> Deeds]
  BY OverIsIdle, OneMoves DEF HelperDies
<1>3. DeedTables' /\ LiveTemplates' = LiveTemplates
  BY <1>1, <1>2 DEF TasksInv, DeedTables, LiveTemplates
<1>4. (\A r \in Helpers : SoundDeed(deed[r], accepted))'
  BY <1>1, <1>2, IdleDeedIsSound DEF TasksInv
<1>5. KeysAreAll' /\ ListsAreFull'
  BY <1>1, <1>2, <1>3, IdleDeedIsSound DEF TasksInv, KeysAreAll, ListsAreFull
<1>6. \A p \in Bill : IsComing(p) => IsComing(p)' \/ p \in abandoned'
  BY <1>1, <1>2 DEF IsComing
<1>7. EveryoneHasTheirTasks'
  BY <1>1, <1>3, <1>6 DEF TasksInv, EveryoneHasTheirTasks, HasOrGets
<1> QED
  BY <1>1, <1>3, <1>4, <1>5, <1>7 DEF TasksInv

LEMMA TasksGoOn ==
    ASSUME TasksInv, [OnboardingNext]_onboardingVars
    PROVE  TasksInv'
<1>1. ASSUME NEW q \in Helpers, StartHelper(q) \/ HelperStep(q)
      PROVE  TasksInv'
  BY <1>1, StartsKeep, ReadsKeep, WriteAcceptedKeeps, LinkPersonKeeps, SpawnTasksKeeps,
     WriteConfirmedKeeps, OtherAnswersKeep, AskEverybodyKeeps, HelperDiesKeeps DEF HelperStep
<1>2. ASSUME UNCHANGED onboardingVars
      PROVE  TasksInv'
  BY <1>2 DEF onboardingVars, TasksInv, DeedTables, KeysAreAll, ListsAreFull,
     EveryoneHasTheirTasks, HasOrGets, LiveTemplates, IsComing
<1> QED
  BY <1>1, <1>2, OtherAnswersKeep, RetireTemplateKeeps, AddTemplateKeeps DEF OnboardingNext

\* For any line-up, templates and requests that overlap, a confirmed speaker of
\* an accepted session has every task there is, or a request is about to give
\* it (accept.ts:66-127, co-speakers.ts:352-417). Excepted are those whose
\* request died, templates that came when the speaker had been given theirs
\* (configuration.ts:233), and the confirmation that an acceptance overtook.
THEOREM NobodyGoesWithoutTasks == OnboardingSpec => []EveryoneHasTheirTasks
<1>1. TasksInv => EveryoneHasTheirTasks
  BY DEF TasksInv
<1> QED
  BY <1>1, TasksStart, TasksGoOn, PTL DEF OnboardingSpec

\* What the requests made, left behind or overtook.
DeedHistory ==
    /\ begun \in 0..LastDeed
    /\ abandoned \subseteq Bill
    /\ todo \subseteq Bill \X Templates
    /\ overtaken \subseteq Bill /\ unasked \subseteq Bill \X Templates

LEMMA DeedsAreTyped == DeedTables /\ DeedHistory => OnboardingTypeOK
BY DEF DeedTables, DeedHistory, Deeds, OnboardingTypeOK

LEMMA HistoryStarts == OnboardingInit => DeedHistory
BY OnboardingAssumption DEF OnboardingInit, DeedHistory

LEMMA HistoryGrows ==
    ASSUME TasksInv, DeedHistory, [OnboardingNext]_onboardingVars
    PROVE  DeedHistory'
<1> USE DEF DeedHistory
<1>1. ASSUME NEW q \in Helpers, StartHelper(q)
      PROVE  DeedHistory'
  <2>1. begun' = begun + 1 /\ begun < LastDeed /\ UNCHANGED <<abandoned, todo, overtaken, unasked>>
    BY <1>1 DEF StartHelper, StartAccept, StartConfirm, StartDecline, StartRevive, StartTask,
       StartAsk, Takes, rest, history
  <2> QED
    BY <2>1, OnboardingAssumption
<1>2. ASSUME NEW q \in Helpers, HelperStep(q)
      PROVE  DeedHistory'
  <2>0. deed[q] \in Deeds /\ SoundDeed(deed[q], accepted)
    BY DEF TasksInv, DeedTables
  <2>1. CASE SpawnTasks(q)
    <3> DEFINE s == FirstOf(deed[q].list)
    <3>1. s \in Bill /\ deed[q].keys \subseteq Templates
      BY <2>0, <2>1, FirstIsListed DEF SpawnTasks, IsAt, SoundDeed, Coming, Deeds
    <3>2. todo' = todo \cup {s} \X deed[q].keys /\ UNCHANGED <<begun, abandoned, overtaken, unasked>>
      BY <2>1 DEF SpawnTasks, history
    <3> HIDE DEF s
    <3> QED
      BY <3>1, <3>2
  <2>2. CASE WriteConfirmed(q)
    <3>1. deed[q].who \in Bill /\ UNCHANGED <<begun, abandoned, todo, unasked>>
      BY <2>0, <2>2 DEF WriteConfirmed, Deeds
    <3>2. overtaken' = overtaken \/ overtaken' = overtaken \cup {deed[q].who}
      BY <2>2 DEF WriteConfirmed
    <3> QED
      BY <3>1, <3>2
  <2>3. CASE AskEverybody(q)
    <3> DEFINE t == deed[q].key
    <3>1. t \in Templates /\ deed[q].list \subseteq Bill /\ GivenBefore \subseteq Bill
      BY <2>0 DEF Deeds, GivenBefore
    <3>2. /\ todo' = todo \cup deed[q].list \X {t}
          /\ unasked' = unasked \cup (GivenBefore \ deed[q].list) \X {t}
          /\ UNCHANGED <<begun, abandoned, overtaken>>
      BY <2>3 DEF AskEverybody
    <3> QED
      BY <3>1, <3>2
  <2>4. CASE HelperDies(q)
    <3>1. deed[q].list \subseteq Bill
      BY <2>0 DEF Deeds
    <3> QED
      BY <2>4, <3>1 DEF HelperDies
  <2>5. ASSUME ~SpawnTasks(q), ~WriteConfirmed(q), ~AskEverybody(q), ~HelperDies(q)
        PROVE  DeedHistory'
    <3>1. UNCHANGED <<begun, abandoned, todo, overtaken, unasked>>
      BY <1>2, <2>5 DEF HelperStep, ReadLineup, ReadTemplates, WriteAccepted, LinkPerson,
         ReadRow, ReadPaper, WriteDeclined, WriteRevived, ReadAudience, ConfirmByTask, rest, history
    <3> QED
      BY <3>1
  <2> QED
    BY <2>1, <2>2, <2>3, <2>4, <2>5
<1>3. ASSUME \/ \E s \in Bill : RemoveSpeaker(s)
             \/ \E t \in Templates : RetireTemplate(t)
             \/ UNCHANGED onboardingVars
      PROVE  DeedHistory'
  BY <1>3 DEF RemoveSpeaker, RetireTemplate, onboardingVars, history
<1>4. ASSUME NEW t \in Requested, AddTemplate(t)
      PROVE  DeedHistory'
  <2>1. GivenBefore \subseteq Bill /\ t \in Templates
    BY DEF GivenBefore, Templates
  <2> QED
    BY <1>4, <2>1 DEF AddTemplate
<1> QED
  BY <1>1, <1>2, <1>3, <1>4 DEF OnboardingNext

\* Whatever requests overlap and die, the tasks, and what is remembered of the
\* deeds, keep their types.
THEOREM OnboardingTypes == OnboardingSpec => []OnboardingTypeOK
<1> DEFINE Both == TasksInv /\ DeedHistory
<1>1. OnboardingInit => Both
  BY TasksStart, HistoryStarts
<1>2. Both /\ [OnboardingNext]_onboardingVars => Both'
  BY TasksGoOn, HistoryGrows
<1>3. Both => OnboardingTypeOK
  BY DeedsAreTyped DEF TasksInv
<1> QED
  BY <1>1, <1>2, <1>3, PTL DEF OnboardingSpec

-----------------------------------------------------------------------------

(***************************************************************************)
(* Calendars. MailInv says of every letter, on its way or not, that it is  *)
(* no newer than the booking, and shows the booking's place if it is as    *)
(* new; and that an edition is mailed with one place only.                 *)
(***************************************************************************)

SpotsOrOff == Spots \cup {Off}

CalendarTables ==
    /\ booking \in [place : SpotsOrOff, edition : Int]
    /\ notifier \in [Notifiers -> [at : {"idle", "mail", "file"}, place : SpotsOrOff, edition : Int]]
    /\ post \subseteq [to : Inboxes, place : SpotsOrOff, edition : Int]
    /\ posted \subseteq [to : Inboxes, place : SpotsOrOff, edition : Int]
    /\ calendar \in [Inboxes -> [place : SpotsOrOff, edition : Int]]
    /\ told \subseteq Inboxes

\* What somebody has of the booking is older than it, or says what it says.
Follows(b, place, edition) == edition <= b.edition /\ (edition = b.edition => place = b.place)

NothingIsAhead ==
    /\ \A q \in Notifiers : notifier[q].at = "mail" =>
          Follows(booking, notifier[q].place, notifier[q].edition)
    /\ \A l \in post : Follows(booking, l.place, l.edition)
    /\ \A l \in posted : l.edition <= booking.edition
    /\ \A i \in Inboxes : calendar[i].edition <= booking.edition

\* Each edition is mailed by one request, once.
MailedOnce ==
    \A q \in Notifiers : notifier[q].at = "mail" =>
        /\ \A r \in Notifiers : r # q /\ notifier[r].at = "mail" =>
              notifier[r].edition # notifier[q].edition
        /\ \A l \in posted : l.edition # notifier[q].edition

\* Who was told has it in the calendar or a letter under way.
ToldHaveIt ==
    \A i \in told : \/ calendar[i].edition = booking.edition
                    \/ \E l \in post : l.to = i /\ l.edition = booking.edition

RightPlaces ==
    \A i \in Inboxes \ misled :
        calendar[i].edition = booking.edition => calendar[i].place = booking.place

MailInv == CalendarTables /\ NothingIsAhead /\ MailedOnce /\ ToldHaveIt /\ RightPlaces

LEMMA MailFollows == MailInv => CalendarsFollow
BY DEF MailInv, ToldHaveIt, RightPlaces, CalendarsFollow, CalendarTables

LEMMA MailStarts == CalendarInit => MailInv
BY DEF CalendarInit, MailInv, CalendarTables, NothingIsAhead, MailedOnce, ToldHaveIt, RightPlaces,
   NoEntry, IdleNotifier, SpotsOrOff

LEMMA BookingMoves ==
    ASSUME MailInv, NEW q \in Notifiers,
           RemoveSession(q) \/ \E p \in Spots : PlaceSession(q, p)
    PROVE  MailInv'
<1> DEFINE new == [at |-> "mail", place |-> booking'.place, edition |-> booking'.edition]
<1>1. /\ booking \in [place : SpotsOrOff, edition : Int]
      /\ booking' \in [place : SpotsOrOff, edition : Int]
      /\ booking'.edition = booking.edition + 1
  BY DEF MailInv, CalendarTables, RemoveSession, PlaceSession, EditionOfRemoval, SpotsOrOff
<1>2. /\ notifier' = [notifier EXCEPT ![q] = new] /\ told' = {}
      /\ UNCHANGED <<attending, post, posted, calendar, misled>>
  BY DEF RemoveSession, PlaceSession, RoomAnswered
<1>3. \A r \in Notifiers : notifier'[r] = IF r = q THEN new ELSE notifier[r]
  BY <1>2 DEF MailInv, CalendarTables
<1>4. new.at = "mail" /\ new.place = booking'.place /\ new.edition = booking.edition + 1
  BY <1>1
<1>5. new \in [at : {"idle", "mail", "file"}, place : SpotsOrOff, edition : Int]
  BY <1>1
<1> HIDE DEF new
<1>6. CalendarTables'
  BY <1>1, <1>2, <1>5 DEF MailInv, CalendarTables
<1>7. /\ \A r \in Notifiers : notifier[r].at = "mail" =>
              notifier[r].edition \in Int /\ notifier[r].edition < booking'.edition
      /\ \A l \in post : l.edition \in Int /\ l.edition < booking'.edition
      /\ \A l \in posted : l.edition \in Int /\ l.edition < booking'.edition
      /\ \A i \in Inboxes : calendar[i].edition \in Int /\ calendar[i].edition < booking'.edition
  BY <1>1 DEF MailInv, CalendarTables, NothingIsAhead, Follows
<1>8. NothingIsAhead'
  BY <1>1, <1>2, <1>3, <1>4, <1>7 DEF MailInv, CalendarTables, NothingIsAhead, Follows
<1>9. MailedOnce'
  BY <1>1, <1>2, <1>3, <1>4, <1>7 DEF MailInv, MailedOnce
<1>10. ToldHaveIt' /\ RightPlaces'
  BY <1>1, <1>2, <1>7 DEF ToldHaveIt, RightPlaces
<1> QED
  BY <1>6, <1>8, <1>9, <1>10 DEF MailInv

\* The booking stays, and so does what follows it.
LEMMA NotifierRests ==
    ASSUME MailInv, NEW q \in Notifiers, NEW n,
           n \in [at : {"idle", "mail", "file"}, place : SpotsOrOff, edition : Int], n.at # "mail",
           notifier' = [notifier EXCEPT ![q] = n],
           UNCHANGED <<booking, post, posted, calendar, told, misled>>
    PROVE  MailInv'
<1>1. \A r \in Notifiers : notifier'[r] = IF r = q THEN n ELSE notifier[r]
  BY DEF MailInv, CalendarTables
<1>2. CalendarTables'
  BY DEF MailInv, CalendarTables
<1>3. NothingIsAhead' /\ MailedOnce'
  BY <1>1 DEF MailInv, NothingIsAhead, MailedOnce
<1> QED
  BY <1>2, <1>3 DEF MailInv, ToldHaveIt, RightPlaces

LEMMA LettersAreSent ==
    ASSUME MailInv, NEW q \in Notifiers, SendLetters(q)
    PROVE  MailInv'
<1> DEFINE n == notifier[q]
           written == {[to |-> i, place |-> n.place, edition |-> n.edition] :
                          i \in Recipients \cap Inboxes}
           fresh == {l \in written : l \notin posted}
<1>1. /\ n \in [at : {"idle", "mail", "file"}, place : SpotsOrOff, edition : Int]
      /\ n.at = "mail" /\ Follows(booking, n.place, n.edition)
      /\ \A l \in posted : l.edition # n.edition
  BY DEF MailInv, CalendarTables, NothingIsAhead, MailedOnce, SendLetters
<1>2. \A l \in written : /\ l \in [to : Inboxes, place : SpotsOrOff, edition : Int]
                         /\ l.place = n.place /\ l.edition = n.edition
  BY <1>1
<1>3. \A i \in Recipients \cap Inboxes : \E l \in written : l.to = i
  <2> SUFFICES ASSUME NEW i \in Recipients \cap Inboxes PROVE \E l \in written : l.to = i
    OBVIOUS
  <2> DEFINE l == [to |-> i, place |-> n.place, edition |-> n.edition]
  <2>1. l \in written /\ l.to = i
    OBVIOUS
  <2> HIDE DEF l, written
  <2> QED
    BY <2>1
<1>4. fresh = written
  BY <1>1, <1>2
<1>5. /\ post' = post \cup written
      /\ posted' = posted \cup written
      /\ told' = IF n.edition = booking.edition THEN told \cup (Recipients \cap Inboxes) ELSE told
      /\ notifier' = [notifier EXCEPT ![q] = IdleNotifier]
      /\ UNCHANGED <<booking, attending, calendar, misled>>
  BY <1>4 DEF SendLetters, EditionOfMail, DeliveryKey
<1>6. \A r \in Notifiers : notifier'[r] = IF r = q THEN IdleNotifier ELSE notifier[r]
  BY <1>5 DEF MailInv, CalendarTables
<1>7. IdleNotifier \in [at : {"idle", "mail", "file"}, place : SpotsOrOff, edition : Int]
      /\ IdleNotifier.at = "idle"
  BY DEF IdleNotifier, SpotsOrOff
<1> HIDE DEF written
<1>8. CalendarTables'
  BY <1>2, <1>5, <1>7 DEF MailInv, CalendarTables
<1>9. NothingIsAhead'
  BY <1>1, <1>2, <1>5, <1>6, <1>7 DEF MailInv, NothingIsAhead, Follows
<1>10. MailedOnce'
  BY <1>1, <1>2, <1>5, <1>6, <1>7 DEF MailInv, MailedOnce
<1>11. ToldHaveIt'
  <2> SUFFICES ASSUME NEW i \in told'
               PROVE  \/ calendar[i].edition = booking.edition
                      \/ \E l \in post' : l.to = i /\ l.edition = booking.edition
    BY <1>5 DEF ToldHaveIt
  <2>1. CASE i \in told
    BY <1>5, <2>1 DEF MailInv, ToldHaveIt
  <2>2. CASE i \notin told
    BY <1>2, <1>3, <1>5, <2>2
  <2> QED
    BY <2>1, <2>2
<1>12. RightPlaces'
  BY <1>5 DEF MailInv, RightPlaces
<1> QED
  BY <1>8, <1>9, <1>10, <1>11, <1>12 DEF MailInv

\* A calendar takes in what follows the booking, or a file of its edition.
LEMMA CalendarsTakeIn ==
    ASSUME MailInv, NEW i \in Inboxes, NEW place \in SpotsOrOff, NEW edition \in Int,
           edition <= booking.edition, TakesIn(i, place, edition), UNCHANGED booking
    PROVE  /\ calendar' \in [Inboxes -> [place : SpotsOrOff, edition : Int]]
           /\ (\A j \in Inboxes : calendar[j].edition <= booking.edition)'
           /\ \A j \in Inboxes : calendar[j].edition = booking.edition
                                    => calendar'[j].edition = booking.edition
           /\ edition = booking.edition => calendar'[i].edition = booking.edition
           /\ \A j \in Inboxes : calendar'[j] = calendar[j]
                  \/ (/\ j = i /\ edition > calendar[i].edition
                      /\ calendar'[j].place = place /\ calendar'[j].edition = edition)
<1> DEFINE new == [place |-> place, edition |-> edition]
<1>1. calendar \in [Inboxes -> [place : SpotsOrOff, edition : Int]]
      /\ booking.edition \in Int
      /\ \A j \in Inboxes : calendar[j].edition \in Int /\ calendar[j].edition <= booking.edition
  BY DEF MailInv, CalendarTables, NothingIsAhead
<1>2. new \in [place : SpotsOrOff, edition : Int] /\ new.place = place /\ new.edition = edition
  OBVIOUS
<1>3. calendar' = IF edition > calendar[i].edition THEN [calendar EXCEPT ![i] = new] ELSE calendar
  BY DEF TakesIn
<1> HIDE DEF new
<1>4. CASE edition > calendar[i].edition
  <2>1. \A j \in Inboxes : calendar'[j] = IF j = i THEN new ELSE calendar[j]
    BY <1>1, <1>3, <1>4
  <2>2. calendar' \in [Inboxes -> [place : SpotsOrOff, edition : Int]]
    BY <1>1, <1>2, <1>3, <1>4
  <2>3. calendar[i].edition # booking.edition
    BY <1>1, <1>4
  <2> QED
    BY <1>1, <1>2, <1>4, <2>1, <2>2, <2>3
<1>5. CASE ~(edition > calendar[i].edition)
  BY <1>1, <1>3, <1>5
<1> QED
  BY <1>4, <1>5

LEMMA LettersArrive ==
    ASSUME MailInv, NEW l \in post, LetterArrives(l)
    PROVE  MailInv'
<1>1. /\ l.to \in Inboxes /\ l.place \in SpotsOrOff /\ l.edition \in Int
      /\ Follows(booking, l.place, l.edition)
  BY DEF MailInv, CalendarTables, NothingIsAhead
<1>2. /\ post' = post \ {l} /\ TakesIn(l.to, l.place, l.edition)
      /\ misled' = IF l.edition > calendar[l.to].edition THEN misled \ {l.to} ELSE misled
      /\ UNCHANGED <<booking, attending, notifier, posted, told>>
  BY DEF LetterArrives
<1>3. /\ calendar' \in [Inboxes -> [place : SpotsOrOff, edition : Int]]
      /\ (\A j \in Inboxes : calendar[j].edition <= booking.edition)'
      /\ \A j \in Inboxes : calendar[j].edition = booking.edition
                                => calendar'[j].edition = booking.edition
      /\ l.edition = booking.edition => calendar'[l.to].edition = booking.edition
      /\ \A j \in Inboxes : calendar'[j] = calendar[j]
             \/ (/\ j = l.to /\ l.edition > calendar[l.to].edition
                 /\ calendar'[j].place = l.place /\ calendar'[j].edition = l.edition)
  BY <1>1, <1>2, CalendarsTakeIn DEF Follows
<1>4. CalendarTables'
  BY <1>2, <1>3 DEF MailInv, CalendarTables
<1>5. NothingIsAhead' /\ MailedOnce'
  BY <1>2, <1>3 DEF MailInv, NothingIsAhead, MailedOnce
<1>6. ToldHaveIt'
  <2> SUFFICES ASSUME NEW i \in told
               PROVE  \/ calendar'[i].edition = booking.edition
                      \/ \E m \in post \ {l} : m.to = i /\ m.edition = booking.edition
    BY <1>2 DEF ToldHaveIt
  <2>1. i \in Inboxes
    BY DEF MailInv, CalendarTables
  <2> QED
    BY <1>3, <2>1 DEF MailInv, ToldHaveIt
<1>7. RightPlaces'
  <2> SUFFICES ASSUME NEW i \in Inboxes \ misled', calendar'[i].edition = booking.edition
               PROVE  calendar'[i].place = booking.place
    BY <1>2 DEF RightPlaces
  <2>1. CASE calendar'[i] = calendar[i] /\ i \notin misled
    BY <2>1 DEF MailInv, RightPlaces
  <2>2. CASE l.edition > calendar[l.to].edition /\ calendar'[i].place = l.place /\ calendar'[i].edition = l.edition
    BY <1>1, <2>2 DEF Follows
  <2>3. CASE calendar'[i] = calendar[i] /\ i \in misled
    <3>1. i = l.to /\ l.edition > calendar[i].edition
      BY <1>2, <2>3
    <3>2. calendar[i].edition # booking.edition
      BY <1>1, <3>1 DEF Follows, MailInv, CalendarTables
    <3> QED
      BY <2>3, <3>2
  <2> QED
    BY <1>3, <2>1, <2>2, <2>3
<1> QED
  BY <1>4, <1>5, <1>6, <1>7 DEF MailInv

LEMMA FilesAreTaken ==
    ASSUME MailInv, NEW q \in Notifiers, NEW i \in Inboxes, TakeFile(q, i)
    PROVE  MailInv'
<1> DEFINE p == notifier[q].place
<1>1. p \in SpotsOrOff /\ booking.edition \in Int /\ booking.edition <= booking.edition
  BY DEF MailInv, CalendarTables
<1>2. /\ TakesIn(i, p, booking.edition)
      /\ misled' = IF calendar' = calendar THEN misled
                   ELSE IF p = booking.place THEN misled \ {i} ELSE misled \cup {i}
      /\ notifier' = [notifier EXCEPT ![q] = IdleNotifier]
      /\ UNCHANGED <<booking, attending, post, posted, told>>
  BY DEF TakeFile
<1> HIDE DEF p
<1> DEFINE e == booking.edition
<1>3. e \in Int /\ e <= booking.edition /\ TakesIn(i, p, e) /\ e = booking.edition
  BY <1>1, <1>2
<1> HIDE DEF e
<1>4. /\ calendar' \in [Inboxes -> [place : SpotsOrOff, edition : Int]]
      /\ (\A j \in Inboxes : calendar[j].edition <= booking.edition)'
      /\ \A j \in Inboxes : calendar[j].edition = booking.edition
                                => calendar'[j].edition = booking.edition
      /\ \A j \in Inboxes : calendar'[j] = calendar[j]
             \/ (/\ j = i /\ e > calendar[i].edition
                 /\ calendar'[j].place = p /\ calendar'[j].edition = e)
  BY <1>1, <1>2, <1>3, CalendarsTakeIn
<1>5. \A r \in Notifiers : notifier'[r] = IF r = q THEN IdleNotifier ELSE notifier[r]
  BY <1>2 DEF MailInv, CalendarTables
<1>6. IdleNotifier \in [at : {"idle", "mail", "file"}, place : SpotsOrOff, edition : Int]
      /\ IdleNotifier.at = "idle"
  BY DEF IdleNotifier, SpotsOrOff
<1>7. CalendarTables'
  BY <1>2, <1>4, <1>6 DEF MailInv, CalendarTables
<1>8. NothingIsAhead' /\ MailedOnce'
  BY <1>2, <1>4, <1>5, <1>6 DEF MailInv, NothingIsAhead, MailedOnce
<1>9. ToldHaveIt'
  BY <1>2, <1>4 DEF MailInv, ToldHaveIt, CalendarTables
<1>10. RightPlaces'
  <2> SUFFICES ASSUME NEW j \in Inboxes \ misled', calendar'[j].edition = booking.edition
               PROVE  calendar'[j].place = booking.place
    BY <1>2 DEF RightPlaces
  <2>1. calendar \in [Inboxes -> [place : SpotsOrOff, edition : Int]]
    BY DEF MailInv, CalendarTables
  <2>2. CASE calendar' = calendar
    BY <1>2, <2>2 DEF MailInv, RightPlaces
  <2>3. CASE calendar' # calendar /\ j = i
    <3>1. p = booking.place
      BY <1>2, <2>3
    <3>2. calendar'[i] # calendar[i]
      BY <1>4, <2>1, <2>3
    <3> QED
      BY <1>4, <2>3, <3>1, <3>2
  <2>4. CASE j # i
    BY <1>2, <1>4, <2>4 DEF MailInv, RightPlaces
  <2> QED
    BY <2>2, <2>3, <2>4
<1> QED
  BY <1>7, <1>8, <1>9, <1>10 DEF MailInv

LEMMA LettersAreLost ==
    ASSUME MailInv, NEW l \in post, LetterIsLost(l)
    PROVE  MailInv'
BY DEF LetterIsLost, MailInv, CalendarTables, NothingIsAhead, MailedOnce, ToldHaveIt, RightPlaces

LEMMA MailGoesOn == MailInv /\ [CalendarNext]_calendarVars => MailInv'
<1> SUFFICES ASSUME MailInv, [CalendarNext]_calendarVars PROVE MailInv'
  OBVIOUS
<1>1. CASE UNCHANGED calendarVars
  BY <1>1 DEF calendarVars, MailInv, CalendarTables, NothingIsAhead, MailedOnce, ToldHaveIt, RightPlaces
<1>2. ASSUME NEW q \in Notifiers, NotifierDies(q) PROVE MailInv'
  <2>1. IdleNotifier \in [at : {"idle", "mail", "file"}, place : SpotsOrOff, edition : Int]
        /\ IdleNotifier.at # "mail"
    BY DEF IdleNotifier, SpotsOrOff
  <2> QED
    BY <1>2, <2>1, NotifierRests DEF NotifierDies
<1>3. ASSUME NEW q \in Notifiers, OpenFile(q) PROVE MailInv'
  <2> DEFINE n == [at |-> "file", place |-> booking.place, edition |-> booking.edition]
  <2>1. n \in [at : {"idle", "mail", "file"}, place : SpotsOrOff, edition : Int] /\ n.at # "mail"
    BY DEF MailInv, CalendarTables
  <2>2. notifier' = [notifier EXCEPT ![q] = n]
        /\ UNCHANGED <<booking, post, posted, calendar, told, misled>>
    BY <1>3 DEF OpenFile
  <2> HIDE DEF n
  <2> QED
    BY <2>1, <2>2, NotifierRests
<1>4. ASSUME NEW i \in Invitees, SpeakerConfirms(i) \/ SpeakerLeaves(i) PROVE MailInv'
  BY <1>4 DEF SpeakerConfirms, SpeakerLeaves, MailInv, CalendarTables, NothingIsAhead, MailedOnce,
     ToldHaveIt, RightPlaces
<1> QED
  BY <1>1, <1>2, <1>3, <1>4, BookingMoves, LettersAreSent, LettersArrive, LettersAreLost,
     FilesAreTaken DEF CalendarNext

\* However letters are overtaken, lost and sent again under one key, a calendar
\* as new as the booking shows the booking, and who was told ends up there
\* (notify.ts, ics.ts, public-ics.ts).
THEOREM CalendarsShowTheBooking == CalendarSpec => []CalendarsFollow
BY MailStarts, MailGoesOn, MailFollows, PTL DEF CalendarSpec

LEMMA CalendarsStartTyped == CalendarInit => CalendarTypeOK
BY SubmitterIsSpeaker, EditionsAreCounted
   DEF CalendarInit, CalendarTypeOK, Entries, Letters, NoEntry, IdleNotifier

LEMMA TakingInIsTyped ==
    ASSUME CalendarTypeOK, NEW i \in Inboxes, NEW p \in Spots \cup {Off},
           NEW n \in -1..LastEdition, TakesIn(i, p, n)
    PROVE  calendar' \in [Inboxes -> Entries]
BY DEF CalendarTypeOK, TakesIn, Entries

LEMMA CalendarsStayTyped == CalendarTypeOK /\ [CalendarNext]_calendarVars => CalendarTypeOK'
<1> SUFFICES ASSUME CalendarTypeOK, [CalendarNext]_calendarVars
             PROVE  CalendarTypeOK'
  OBVIOUS
<1> USE SubmitterIsSpeaker, EditionsAreCounted DEF CalendarTypeOK
<1>0. IdleNotifier \in [at : {"idle", "mail", "file"}, place : Spots \cup {Off},
                        edition : -1..LastEdition]
  BY DEF IdleNotifier
<1>1. ASSUME NEW q \in Notifiers, NEW p \in Spots, PlaceSession(q, p)
      PROVE  CalendarTypeOK'
  BY <1>1 DEF PlaceSession, RoomAnswered, Entries
<1>2. ASSUME NEW q \in Notifiers, RemoveSession(q)
      PROVE  CalendarTypeOK'
  BY <1>2 DEF RemoveSession, EditionOfRemoval, RoomAnswered, Entries
<1>3. ASSUME NEW q \in Notifiers, NotifierDies(q)
      PROVE  CalendarTypeOK'
  BY <1>0, <1>3 DEF NotifierDies
<1>4. ASSUME NEW q \in Notifiers, SendLetters(q)
      PROVE  CalendarTypeOK'
  <2> DEFINE written == {[to |-> i, place |-> notifier[q].place, edition |-> EditionOfMail(q)] :
                            i \in Recipients \cap Inboxes}
             fresh == {l \in written : DeliveryKey(l) \notin posted}
  <2>1. written \subseteq Letters
    BY DEF Letters, EditionOfMail
  <2>2. fresh \subseteq Letters /\ {DeliveryKey(l) : l \in fresh} \subseteq Letters
    BY <2>1 DEF DeliveryKey
  <2>3. /\ post' = post \cup fresh /\ posted' = posted \cup {DeliveryKey(l) : l \in fresh}
        /\ told' \subseteq Inboxes
        /\ notifier' = [notifier EXCEPT ![q] = IdleNotifier]
        /\ UNCHANGED <<booking, attending, calendar, misled>>
    BY <1>4 DEF SendLetters
  <2> HIDE DEF fresh
  <2> QED
    BY <1>0, <2>2, <2>3
<1>5. ASSUME NEW l \in post, LetterArrives(l)
      PROVE  CalendarTypeOK'
  BY <1>5, TakingInIsTyped DEF LetterArrives, Letters
<1>6. ASSUME NEW l \in post, LetterIsLost(l)
      PROVE  CalendarTypeOK'
  BY <1>6 DEF LetterIsLost
<1>7. ASSUME NEW i \in Invitees, SpeakerConfirms(i) \/ SpeakerLeaves(i)
      PROVE  CalendarTypeOK'
  BY <1>7 DEF SpeakerConfirms, SpeakerLeaves
<1>8. ASSUME NEW q \in Notifiers, OpenFile(q)
      PROVE  CalendarTypeOK'
  BY <1>8 DEF OpenFile, Entries
<1>9. ASSUME NEW q \in Notifiers, NEW i \in Inboxes, TakeFile(q, i)
      PROVE  CalendarTypeOK'
  <2>1. calendar' \in [Inboxes -> Entries]
    BY <1>9, TakingInIsTyped DEF TakeFile, Entries
  <2> QED
    BY <1>0, <1>9, <2>1 DEF TakeFile
<1>10. CASE UNCHANGED calendarVars
  BY <1>10 DEF calendarVars
<1> QED
  BY <1>1, <1>2, <1>3, <1>4, <1>5, <1>6, <1>7, <1>8, <1>9, <1>10 DEF CalendarNext

\* However letters are lost and overtaken, the booking, the letters and the
\* calendars keep their types.
THEOREM CalendarTypes == CalendarSpec => []CalendarTypeOK
BY CalendarsStartTyped, CalendarsStayTyped, PTL DEF CalendarSpec

=============================================================================
