--------------------------- MODULE AcceleventsSync ---------------------------
(***************************************************************************)
(* Pushing an event's speakers and sessions to Accelevents                 *)
(* (src/src/lib/integrations/accelevents/sync.ts, repository.ts, api.ts).  *)
(*                                                                         *)
(* A run is started by an organizer or by the daily cron, and two may      *)
(* overlap.  It reads what the last runs recorded, plans, and then takes   *)
(* one item after the other.  The provider has no idempotency key: before  *)
(* the one POST that creates an item the run claims it with a row          *)
(* 'creating', which only a later reconciliation removes.                  *)
(*                                                                         *)
(* What an item says is a version, which stands for its fingerprint; the   *)
(* version of a session covers the list of its speakers.                   *)
(*                                                                         *)
(* A connection lasts until the mappings are deleted: with the integration,*)
(* or because another event or another URL of it was saved.  The next one  *)
(* may be to an event that was connected before, which holds what was      *)
(* pushed to it then.                                                      *)
(***************************************************************************)
EXTENDS Integers, Sequences

CONSTANTS
    Talks, Faces,       \* the sessions and the speakers that are pushed
    OnStage,            \* the speakers of each session
    Runs,
    LastVersion,        \* bound on edits of each item
    Platforms,          \* the external events that may be connected
    LastConnection      \* bound on connections that follow one another

ASSUME OnStageIsOfFaces ==
    /\ Talks \cap Faces = {}
    /\ OnStage \in [Talks -> SUBSET Faces]

\* There is something to push, and the bounds are numbers.
ASSUME SyncBounds ==
    /\ Talks \cup Faces # {} /\ Platforms # {}
    /\ LastVersion \in Nat /\ LastConnection \in Nat

VARIABLES
    source,     \* what each item says now
    connected,  \* a row of accelevents_integrations exists
    connection, \* how often the mappings were deleted: the number of the connection
    names,      \* the external event each connection names
    mappings,   \* accelevents_sync_mappings
    outside,    \* what the provider holds; the id of a record is its place
    run         \* the runs

syncVars == <<source, connected, connection, names, mappings, outside, run>>

Items == Talks \cup Faces
NoId == 0

\* Fingerprints: a version, or the empty text of a session that waits for its
\* speakers to be assigned.
Unassigned == -1
Prints == {Unassigned} \cup 0..LastVersion

Mappings == [state : {"none", "creating", "synced"}, id : Nat, print : Prints]
NoMapping == [state |-> "none", id |-> NoId, print |-> Unassigned]
Claimed(v) == [state |-> "creating", id |-> NoId, print |-> v]
Synced(id, v) == [state |-> "synced", id |-> id, print |-> v]

SyncPlaces == {"off", "planned", "pick", "post", "pending", "put", "find",
               "reput", "assign", "save", "over"}

SyncRuns ==
    [at : SyncPlaces,
     mapped : [Items -> Mappings],      \* the mappings read, then those it saved
     says : [Items -> 0..LastVersion],  \* the payloads of its plan
     to : 0..LastConnection,            \* the connection whose configuration it loaded
     left : SUBSET Items,
     item : Items]

NoRun(place) ==
    [at |-> place, mapped |-> [x \in Items |-> NoMapping],
     says |-> [x \in Items |-> 0], to |-> 0, left |-> {},
     item |-> CHOOSE x \in Items : TRUE]

SyncTypeOK ==
    /\ source \in [Items -> 0..LastVersion]
    /\ connected \in BOOLEAN /\ connection \in 0..LastConnection
    /\ names \in [0..LastConnection -> Platforms]
    /\ mappings \in [Items -> Mappings]
    /\ \A i \in DOMAIN outside :
          outside[i] \in [item : Items, via : 0..LastConnection,
                          print : 0..LastVersion, assigned : SUBSET (1..Len(outside))]
    /\ run \in [Runs -> SyncRuns]

SyncInit ==
    /\ source = [x \in Items |-> 0]
    /\ connected = TRUE /\ connection = 0
    /\ names = [c \in 0..LastConnection |-> CHOOSE e \in Platforms : TRUE]
    /\ mappings = [x \in Items |-> NoMapping]
    /\ outside = <<>>
    /\ run = [r \in Runs |-> NoRun("off")]

InSync(r, place) == run[r].at = place
SyncAt(r, place) == run' = [run EXCEPT ![r].at = place]
Mine(r) == run[r].item
KnownId(r, x) == run[r].mapped[x].id

RunOver(r) == run' = [run EXCEPT ![r] = NoRun("over")]

\* The catch of the loop notes the failure, and the loop goes on.
ItemFails(r) == SyncAt(r, "pick")

-----------------------------------------------------------------------------
(* The organizers *)

EditItem(x) ==
    /\ source[x] < LastVersion
    /\ source' = [source EXCEPT ![x] = @ + 1]
    /\ UNCHANGED <<connected, connection, names, mappings, outside, run>>

\* Nothing is deleted when there is no row, or the row names what is saved.
KeepsMappings(event, url) == ~connected \/ (event = names[connection] /\ url = "kept")

\* saveAcceleventsIntegration: the mappings go when the row names another
\* event, or the event under another URL.
ConnectTo(event, url) ==
    LET number == IF KeepsMappings(event, url) THEN connection ELSE connection + 1
    IN  /\ number <= LastConnection
        /\ connected' = TRUE
        /\ connection' = number
        /\ names' = [names EXCEPT ![number] = event]
        /\ mappings' = IF number = connection THEN mappings ELSE [x \in Items |-> NoMapping]
        /\ UNCHANGED <<source, outside, run>>

\* deleteAcceleventsIntegration: the row and the mappings.
DisconnectEvent ==
    /\ connected /\ connection < LastConnection
    /\ connected' = FALSE
    /\ connection' = connection + 1
    /\ mappings' = [x \in Items |-> NoMapping]
    /\ UNCHANGED <<source, names, outside, run>>

-----------------------------------------------------------------------------
(* One run *)

\* The mappings, the sources, and whether there is a connection at all.
ReadAndPlan(r) ==
    /\ InSync(r, "off")
    /\ IF connected
       THEN run' = [run EXCEPT ![r].at = "planned",
                               ![r].mapped = mappings, ![r].says = source]
       ELSE RunOver(r)
    /\ UNCHANGED <<source, connected, connection, names, mappings, outside>>

\* Items that say what was pushed last are skipped.
Skipped(r) ==
    {x \in Items : /\ run[r].mapped[x].state = "synced"
                   /\ run[r].mapped[x].print = run[r].says[x]}

\* loadAcceleventsIntegrationConfig.
LoadConfig(r) ==
    /\ InSync(r, "planned")
    /\ IF connected
       THEN run' = [run EXCEPT ![r].at = "pick", ![r].to = connection,
                               ![r].left = Items \ Skipped(r)]
       ELSE RunOver(r)
    /\ UNCHANGED <<source, connected, connection, names, mappings, outside>>

\* Speakers come before sessions in the plan.
NextOf(r) == IF run[r].left \cap Faces # {} THEN run[r].left \cap Faces ELSE run[r].left

\* A session is passed over, without a failure of its own, when a speaker of
\* it has no external id yet.
LacksSpeaker(r, x) == x \in Talks /\ \E p \in OnStage[x] : KnownId(r, p) = NoId

\* Mutant: whoever comes second takes the claim over.
ClaimableAnyway(x) == TRUE

\* claimAcceleventsCreate: INSERT ... ON CONFLICT DO NOTHING.
ClaimableCreate(x) == mappings[x].state = "none"

\* The head of the loop up to the first call of the provider; with a create,
\* the claim.
TakeItem(r, x) ==
    LET before == run[r].mapped[x].state
        next == [run EXCEPT ![r].left = @ \ {x}, ![r].item = x]
    IN  /\ InSync(r, "pick") /\ x \in NextOf(r)
        /\ IF before = "none" /\ ~LacksSpeaker(r, x) /\ ClaimableCreate(x)
           THEN mappings' = [mappings EXCEPT ![x] = Claimed(run[r].says[x])]
           ELSE UNCHANGED mappings
        /\ \/ /\ before # "creating" /\ LacksSpeaker(r, x)
              /\ run' = [next EXCEPT ![r].at = "pick"]
           \/ /\ before = "none" /\ ~LacksSpeaker(r, x)
              /\ run' = IF ClaimableCreate(x) THEN [next EXCEPT ![r].at = "post"]
                        ELSE next
           \/ /\ before = "synced" /\ ~LacksSpeaker(r, x)
              /\ run' = [next EXCEPT ![r].at = "put"]
           \/ /\ before = "creating" /\ x \in Faces
              /\ run' = [next EXCEPT ![r].at = "find"]
           \* A session of unknown outcome is never tried again.
           \/ /\ before = "creating" /\ x \in Talks
              /\ run' = next
        /\ UNCHANGED <<source, connected, connection, names, outside>>

\* createSpeaker, createSession: one attempt.  A session goes on to the
\* mapping that waits for its speakers.
Post(r) ==
    /\ InSync(r, "post")
    /\ outside' = Append(outside, [item |-> Mine(r), via |-> run[r].to,
                                   print |-> run[r].says[Mine(r)], assigned |-> {}])
    /\ \/ run' = [run EXCEPT ![r].at = IF Mine(r) \in Talks THEN "pending" ELSE "save",
                             ![r].mapped[Mine(r)].id = Len(outside) + 1]
       \/ ItemFails(r)          \* the answer is lost
    /\ UNCHANGED <<source, connected, connection, names, mappings>>

\* Mutant: the mapping says at once what it will say when all is done.
PrintOfPendingFull(r) == run[r].says[Mine(r)]

PrintOfPending(r) == Unassigned

\* pendingAssignmentMapping.
SavePending(r) ==
    /\ InSync(r, "pending")
    /\ mappings' = [mappings EXCEPT ![Mine(r)] =
                       Synced(KnownId(r, Mine(r)), PrintOfPending(r))]
    /\ SyncAt(r, IF OnStage[Mine(r)] = {} THEN "save" ELSE "assign")
    /\ UNCHANGED <<source, connected, connection, names, outside>>

\* The records of the event a run is for, whichever connection made them.
OfEvent(r) == {i \in DOMAIN outside : names[outside[i].via] = names[run[r].to]}

\* updateSpeaker, updateSession: refused for an id of another event.
Put(r) ==
    LET id == KnownId(r, Mine(r))
    IN  /\ run[r].at \in {"put", "reput"}
        /\ IF id \in OfEvent(r)
           THEN /\ outside' = [outside EXCEPT ![id].print = run[r].says[Mine(r)]]
                /\ \/ SyncAt(r, IF Mine(r) \in Talks /\ OnStage[Mine(r)] # {}
                                THEN "assign" ELSE "save")
                   \/ ItemFails(r)
           ELSE ItemFails(r) /\ UNCHANGED outside
        /\ UNCHANGED <<source, connected, connection, names, mappings>>

\* findSpeakerByEmail; an update follows only when the claim said something else.
Find(r) ==
    /\ InSync(r, "find")
    /\ LET found == {i \in OfEvent(r) : outside[i].item = Mine(r)}
       IN  \/ \E i \in found :
                 run' = [run EXCEPT ![r].mapped[Mine(r)].id = i,
                                    ![r].at = IF run[r].mapped[Mine(r)].print
                                                    = run[r].says[Mine(r)]
                                              THEN "save" ELSE "reput"]
           \/ found = {} /\ ItemFails(r)
    /\ UNCHANGED <<source, connected, connection, names, mappings, outside>>

\* assignSpeakersToSession: the session is read and written back with them.
AssignSpeakers(r) ==
    LET id == KnownId(r, Mine(r))
        speakers == {KnownId(r, p) : p \in OnStage[Mine(r)]}
    IN  /\ InSync(r, "assign")
        /\ outside' = [outside EXCEPT ![id].print = run[r].says[Mine(r)],
                                      ![id].assigned = speakers]
        /\ SyncAt(r, "save")
        /\ UNCHANGED <<source, connected, connection, names, mappings>>

\* A call of the provider has no effect and throws.
CallFails(r) ==
    /\ run[r].at \in {"post", "put", "find", "reput", "assign"}
    /\ ItemFails(r)
    /\ UNCHANGED <<source, connected, connection, names, mappings, outside>>

\* saveAcceleventsSyncMapping writes over whatever row is there.
SaveMapping(r) ==
    LET saved == Synced(KnownId(r, Mine(r)), run[r].says[Mine(r)])
    IN  /\ InSync(r, "save")
        /\ mappings' = [mappings EXCEPT ![Mine(r)] = saved]
        /\ run' = [run EXCEPT ![r].at = "pick", ![r].mapped[Mine(r)] = saved]
        /\ UNCHANGED <<source, connected, connection, names, outside>>

\* recordAcceleventsSyncResult tells the organizer.
RecordResult(r) ==
    /\ InSync(r, "pick") /\ run[r].left = {}
    /\ RunOver(r)
    /\ UNCHANGED <<source, connected, connection, names, mappings, outside>>

\* The Worker dies.
RunDies(r) ==
    /\ run[r].at \notin {"off", "over"}
    /\ RunOver(r)
    /\ UNCHANGED <<source, connected, connection, names, mappings, outside>>

SyncStep(r) ==
    \/ ReadAndPlan(r) \/ LoadConfig(r)
    \/ \E x \in Items : TakeItem(r, x)
    \/ Post(r) \/ SavePending(r) \/ Put(r) \/ Find(r) \/ AssignSpeakers(r)
    \/ CallFails(r) \/ SaveMapping(r) \/ RecordResult(r) \/ RunDies(r)

SyncNext ==
    \/ \E x \in Items : EditItem(x)
    \/ \E event \in Platforms, url \in {"kept", "other"} : ConnectTo(event, url)
    \/ DisconnectEvent
    \/ \E r \in Runs : SyncStep(r)

SyncSpec == SyncInit /\ [][SyncNext]_syncVars

-----------------------------------------------------------------------------
(* Properties *)

\* However runs overlap, fail and die, one connection never makes an item
\* twice: the comment of claimAcceleventsCreate (repository.ts:231-235), "only
\* its winner may make the request".  Not so the external event: when it is
\* connected again its mappings are gone (repository.ts:141, 172), and what it
\* got through an earlier connection is made in it once more.
CreatedOnceOutside ==
    \A i, j \in DOMAIN outside :
        /\ outside[i].item = outside[j].item
        /\ outside[i].via = connection
        /\ outside[j].via = connection
        => i = j

\* A session whose mapping carries a fingerprint, and which a later run will
\* therefore skip, has been given its speakers: a run that dies between the
\* POST and the assignment leaves the empty fingerprint behind.
SyncedSessionsHaveSpeakers ==
    \A s \in Talks :
        mappings[s].state = "synced" /\ mappings[s].print # Unassigned =>
            \A p \in OnStage[s] :
                \E i \in outside[mappings[s].id].assigned : outside[i].item = p

\* What mappings say of the other side is so: nothing twice, nobody left out.
OutsideIsInStep == CreatedOnceOutside /\ SyncedSessionsHaveSpeakers
==============================================================================
