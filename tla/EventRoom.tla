------------------------------ MODULE EventRoom ------------------------------
(***************************************************************************)
(* The per-event Durable Object that owns the agenda                       *)
(* (src/src/durable-objects/EventRoom.ts).  Every call that touches slots, *)
(* publication, session content or the schedule's settings goes through    *)
(* the object's promise queue, reads what it needs from the database,      *)
(* decides, and sends its writes as ONE database batch.  A call is two     *)
(* steps here: Begin... reads and decides, Commit... is the batch, which   *)
(* writes what was computed at the reads whatever the rows hold by then.   *)
(* The queue itself is module SerialQueue; here it is the guard RoomIsFree *)
(* of every Begin.  RoomFails is a batch the database rejects, or the      *)
(* object going away in between.                                           *)
(*                                                                         *)
(* Rooms and tracks can be created, and tracks retired, by plain Worker    *)
(* handlers that do not pass through the queue.                            *)
(***************************************************************************)
EXTENDS Integers, FiniteSets, SubmissionStatus

CONSTANTS
    Submissions,    \* the sessions of one event
    Private,        \* those that are private service blocks
    Windows,        \* the time windows a session may be asked to take
    HoursChoices,   \* the sets of windows the event's settings can admit
    Rooms,          \* configured rooms, by id
    Tracks,         \* configured tracks, by id
    People,         \* speakers, by normalised e-mail
    Calls,          \* calls that may be inside the Durable Object
    MaxSequence,    \* bound of the model: last calendar sequence to place at
    NoSlot,         \* a session without an agenda slot
    NoTrack         \* a slot without a track

Slots == [room : Rooms, track : Tracks \cup {NoTrack}, window : Windows,
          ack : BOOLEAN]

ASSUME PrivateAssumption == Private \subseteq Submissions

ASSUME WindowsAssumption ==
    /\ Windows \subseteq [from : Int, to : Int]
    /\ HoursChoices \subseteq SUBSET Windows

ASSUME BoundAssumption == MaxSequence \in Nat

ASSUME NullAssumption ==
    /\ NoSlot \notin Slots
    /\ NoSlot \notin [room : Rooms, window : Windows]
    /\ NoTrack \notin Tracks

VARIABLES
    status,     \* submissions.status
    slots,      \* the agenda_slots row of each session, or NoSlot
    sequence,   \* agenda_calendar_lifecycles.sequence, NoRow if no row
    content,    \* the state of the session's public snapshot
    hours,      \* the windows the event's settings admit
    policy,     \* events.track_conflict_policy
    rooms,      \* the life of each event_rooms row
    tracks,     \* the life of each agenda_tracks row
    roster,     \* pending and confirmed speakers of each session
    call        \* what each call read and will write

vars == <<status, slots, sequence, content, hours, policy, rooms, tracks,
          roster, call>>

NoRow == -1

\* "unpinned": no approved revision; "older": approved, then edited;
\* "approved": the current revision is the approved one.
ContentStates == {"unpinned", "older", "approved"}
ContentChanges == {"edit", "approve", "unapprove"}
Policies == {"hard", "allow"}
RowLife == {"unborn", "active", "retired"}

\* What a call carries from its reads to its batch.
Idle == [op |-> "idle"]
ScheduleCalls ==
    [op : {"schedule"}, sub : Submissions, slot : Slots,
     status : PlacedStatuses, sequence : Nat]
UnplaceCalls == [op : {"unplace"}, sub : Submissions, sequence : Nat]
PublicationCalls ==
    [op : {"publication"}, subs : SUBSET Submissions,
     target : PlacedStatuses, approve : BOOLEAN]
SettingsCalls ==
    [op : {"settings"}, hours : HoursChoices, policy : Policies]
RetireCalls == [op : {"retire"}, room : Rooms]
ContentCalls ==
    [op : {"content"}, sub : Submissions, change : ContentChanges]
RoomCalls == ScheduleCalls \cup UnplaceCalls \cup PublicationCalls
                \cup SettingsCalls \cup RetireCalls \cup ContentCalls

TypeOK ==
    /\ status \in [Submissions -> Statuses]
    /\ slots \in [Submissions -> Slots \cup {NoSlot}]
    /\ sequence \in [Submissions -> Nat \cup {NoRow}]
    /\ content \in [Submissions -> ContentStates]
    /\ hours \in HoursChoices
    /\ policy \in Policies
    /\ rooms \in [Rooms -> RowLife]
    /\ tracks \in [Tracks -> RowLife]
    /\ roster \in [Submissions -> SUBSET People]
    /\ call \in [Calls -> RoomCalls \cup {Idle}]

\* An event as its organizers find it before the agenda is built: the
\* migration and the event factory leave at least one room and one track.
Init ==
    /\ status \in [Submissions -> {"submitted", "accepted"}]
    /\ slots = [s \in Submissions |-> NoSlot]
    /\ sequence = [s \in Submissions |-> NoRow]
    /\ content = [s \in Submissions |-> "unpinned"]
    /\ hours \in HoursChoices
    /\ policy \in Policies
    /\ rooms \in [Rooms -> {"unborn", "active"}]
    /\ \E r \in Rooms : rooms[r] = "active"
    /\ tracks \in [Tracks -> {"unborn", "active"}]
    /\ roster \in [Submissions -> SUBSET People]
    /\ call = [c \in Calls |-> Idle]

-----------------------------------------------------------------------------
(* What the calls read. *)

Placed == {s \in Submissions : slots[s] # NoSlot}

ActiveRooms == {r \in Rooms : rooms[r] = "active"}
ActiveTracks == {t \in Tracks : tracks[t] = "active"}

\* Mutant: misses two windows that start together.
OverlapAfterStart(v, w) == v.from < w.from /\ w.from < v.to

Overlap(v, w) == v.from < w.to /\ w.from < v.to

\* Mutant: overlooks a slot whose session is no longer on the agenda.
PlacedDuringOnAgenda(s, w) ==
    {o \in Placed \ {s} : /\ status[o] \in PlacedStatuses
                          /\ Overlap(w, slots[o].window)}

\* The other sessions with a slot at the time of w, whatever their status.
PlacedDuring(s, w) == {o \in Placed \ {s} : Overlap(w, slots[o].window)}

RoomTaken(s, r, w) == \E o \in PlacedDuring(s, w) : slots[o].room = r

SpeakersTaken(s, w) ==
    \E o \in PlacedDuring(s, w) : roster[s] \cap roster[o] # {}

TrackTaken(s, t, w) == \E o \in PlacedDuring(s, w) : slots[o].track = t

\* The track a request that names none leaves the session on.
KeptTrack(s) == IF s \in Placed THEN slots[s].track ELSE NoTrack

\* Mutant: only a track the request names is checked.
HardTrackClashWhenNamed(s, t, w) ==
    policy = "hard" /\ t \in ActiveTracks \ {KeptTrack(s)} /\ TrackTaken(s, t, w)

\* Under the hard policy an active track carries one session at a time.
HardTrackClash(s, t, w) ==
    policy = "hard" /\ t \in ActiveTracks /\ TrackTaken(s, t, w)

\* A move that changes the room or the time asks the speakers to acknowledge.
AckAfter(s, r, w) ==
    /\ s \in Placed
    /\ \/ slots[s].room # r
       \/ slots[s].window # w
       \/ slots[s].ack

\* Mutant: no queue.
RoomIsAlwaysFree == TRUE

\* The promise queue lets one call in at a time.
RoomIsFree == \A c \in Calls : call[c] = Idle

Enter(c, record) ==
    /\ RoomIsFree
    /\ call' = [call EXCEPT ![c] = record]
    /\ UNCHANGED <<status, slots, sequence, content, hours, policy, rooms,
                   tracks, roster>>

\* Mutant: the promise of a call is never resolved.
LeaveLocked(c) == UNCHANGED call

Leave(c) == call' = [call EXCEPT ![c] = Idle]

-----------------------------------------------------------------------------
(* POST /schedule: place or move a session. *)

\* What the handler requires of session s for room r, window w, track t.
MaySchedule(s, r, w, t) ==
    /\ w \in hours
    /\ r \in ActiveRooms
    /\ t \in ActiveTracks \cup {NoTrack, KeptTrack(s)}
    /\ ~HardTrackClash(s, t, w)
    /\ ~RoomTaken(s, r, w)
    /\ ~SpeakersTaken(s, w)
    /\ status[s] \in PlacedStatuses \/ CanTransition(status[s], "scheduled")

\* Mutant: the status read is written back as it was.
ScheduledStatusAsRead(s) == status[s]

\* Public sessions stay public when they are moved.
ScheduledStatus(s) ==
    IF status[s] \in PlacedStatuses THEN status[s] ELSE "scheduled"

\* Mutant: the sequence restarts with the slot.
NextSequenceOfSlot(s) == IF s \in Placed THEN sequence[s] + 1 ELSE 0

NextSequence(s) == sequence[s] + 1

BeginSchedule(c, s, r, w, t) ==
    /\ sequence[s] < MaxSequence
    /\ MaySchedule(s, r, w, t)
    /\ Enter(c, [op       |-> "schedule",
                 sub      |-> s,
                 slot     |-> [room |-> r, track |-> t, window |-> w,
                               ack  |-> AckAfter(s, r, w)],
                 status   |-> ScheduledStatus(s),
                 sequence |-> NextSequence(s)])

CommitSchedule(c) ==
    /\ call[c].op = "schedule"
    /\ LET s == call[c].sub IN
          /\ status' = [status EXCEPT ![s] = call[c].status]
          /\ slots' = [slots EXCEPT ![s] = call[c].slot]
          /\ sequence' = [sequence EXCEPT ![s] = call[c].sequence]
    /\ Leave(c)
    /\ UNCHANGED <<content, hours, policy, rooms, tracks, roster>>

-----------------------------------------------------------------------------
(* DELETE /schedule: take a session off the agenda. *)

MayUnplace(s) == status[s] \in PlacedStatuses /\ s \in Placed

\* Mutant: a removal is not a new edition.
CancelSequenceUnchanged(s) == sequence[s]

\* A missing lifecycle row counts as sequence 0 here, not as -1.
CancelSequence(s) == (IF sequence[s] = NoRow THEN 0 ELSE sequence[s]) + 1

BeginUnplace(c, s) ==
    /\ MayUnplace(s)
    /\ Enter(c, [op |-> "unplace", sub |-> s,
                 sequence |-> CancelSequence(s)])

\* Mutant: the batch forgets the status.
CommitUnplaceKeepsStatus(c) ==
    /\ call[c].op = "unplace"
    /\ LET s == call[c].sub IN
          /\ slots' = [slots EXCEPT ![s] = NoSlot]
          /\ sequence' = [sequence EXCEPT ![s] = call[c].sequence]
    /\ Leave(c)
    /\ UNCHANGED <<status, content, hours, policy, rooms, tracks, roster>>

CommitUnplace(c) ==
    /\ call[c].op = "unplace"
    /\ LET s == call[c].sub IN
          /\ status' = [status EXCEPT ![s] = "accepted"]
          /\ slots' = [slots EXCEPT ![s] = NoSlot]
          /\ sequence' = [sequence EXCEPT ![s] = call[c].sequence]
    /\ Leave(c)
    /\ UNCHANGED <<content, hours, policy, rooms, tracks, roster>>

-----------------------------------------------------------------------------
(* PATCH /schedule (one session) and POST /bulk-publication (several).      *)
(* Both require the same of each session; the bulk call is all or nothing.  *)

\* Mutant: any approved revision will do, also one that is not current.
MayPublishOlderText(S, approve) ==
    /\ S \cap Private = {}
    /\ \A s \in S : status[s] = "scheduled" /\ s \in Placed
    /\ approve \/ \A s \in S : content[s] # "unpinned"

MayPublish(S, approve) ==
    /\ S \cap Private = {}
    /\ \A s \in S : status[s] = "scheduled" /\ s \in Placed
    /\ approve \/ \A s \in S : content[s] = "approved"

BeginPublish(c, S, approve) ==
    /\ S # {}
    /\ MayPublish(S, approve)
    /\ Enter(c, [op |-> "publication", subs |-> S, target |-> "published",
                 approve |-> approve])

BeginUnpublish(c, S) ==
    /\ S # {}
    /\ \A s \in S : status[s] = "published"
    /\ Enter(c, [op |-> "publication", subs |-> S, target |-> "scheduled",
                 approve |-> FALSE])

\* The approvals and the status writes are one batch.
CommitPublication(c) ==
    /\ call[c].op = "publication"
    /\ status' = [s \in Submissions |->
                     IF s \in call[c].subs THEN call[c].target ELSE status[s]]
    /\ content' = [s \in Submissions |->
                     IF call[c].approve /\ s \in call[c].subs
                     THEN "approved" ELSE content[s]]
    /\ Leave(c)
    /\ UNCHANGED <<slots, sequence, hours, policy, rooms, tracks, roster>>

-----------------------------------------------------------------------------
(* POST /configuration: event settings, and retiring a room. *)

\* Mutant: hours are shortened over existing slots.
BeginSettingsUnchecked(c, h, p) ==
    Enter(c, [op |-> "settings", hours |-> h, policy |-> p])

BeginSettings(c, h, p) ==
    /\ \A s \in Placed : slots[s].window \in h
    /\ Enter(c, [op |-> "settings", hours |-> h, policy |-> p])

CommitSettings(c) ==
    /\ call[c].op = "settings"
    /\ hours' = call[c].hours
    /\ policy' = call[c].policy
    /\ Leave(c)
    /\ UNCHANGED <<status, slots, sequence, content, rooms, tracks, roster>>

\* Mutant: a room with sessions that are not public yet is free to retire.
RoomInUseByPublished(r) ==
    \E s \in Placed : slots[s].room = r /\ status[s] = "published"

RoomInUse(r) ==
    \E s \in Placed : slots[s].room = r /\ status[s] \in PlacedStatuses

BeginRetireRoom(c, r) ==
    /\ r \in ActiveRooms
    /\ ~RoomInUse(r)
    /\ Enter(c, [op |-> "retire", room |-> r])

\* The UPDATE repeats the guard that one active room remains.
CommitRetireRoom(c) ==
    /\ call[c].op = "retire"
    /\ rooms' = IF Cardinality(ActiveRooms) > 1
                THEN [rooms EXCEPT ![call[c].room] = "retired"]
                ELSE rooms
    /\ Leave(c)
    /\ UNCHANGED <<status, slots, sequence, content, hours, policy, tracks,
                   roster>>

-----------------------------------------------------------------------------
(* POST /session-content: an edit or a restored revision makes the current *)
(* text a draft and leaves the approved revision where it was; a status    *)
(* change pins the current revision or takes the pin away.                 *)

BeginContent(c, s, change) ==
    Enter(c, [op |-> "content", sub |-> s, change |-> change])

ContentAfter(state, change) ==
    CASE change = "approve"   -> "approved"
      [] change = "unapprove" -> "unpinned"
      [] change = "edit"      -> IF state = "approved" THEN "older" ELSE state

CommitContent(c) ==
    /\ call[c].op = "content"
    /\ content' = [content EXCEPT ![call[c].sub] =
                       ContentAfter(@, call[c].change)]
    /\ Leave(c)
    /\ UNCHANGED <<status, slots, sequence, hours, policy, rooms, tracks,
                   roster>>

-----------------------------------------------------------------------------
Begin(c) ==
    \/ \E s \in Submissions, r \in Rooms, w \in Windows,
          t \in Tracks \cup {NoTrack} : BeginSchedule(c, s, r, w, t)
    \/ \E s \in Submissions : BeginUnplace(c, s)
    \/ \E S \in SUBSET Submissions, a \in BOOLEAN : BeginPublish(c, S, a)
    \/ \E S \in SUBSET Submissions : BeginUnpublish(c, S)
    \/ \E h \in HoursChoices, p \in Policies : BeginSettings(c, h, p)
    \/ \E r \in Rooms : BeginRetireRoom(c, r)
    \/ \E s \in Submissions, ch \in ContentChanges : BeginContent(c, s, ch)

Commit(c) ==
    \/ CommitSchedule(c)
    \/ CommitUnplace(c)
    \/ CommitPublication(c)
    \/ CommitSettings(c)
    \/ CommitRetireRoom(c)
    \/ CommitContent(c)

\* The batch is rejected, or the object is evicted before it is sent.  The
\* promise of the call is released all the same.
RoomFails(c) ==
    /\ call[c] # Idle
    /\ Leave(c)
    /\ UNCHANGED <<status, slots, sequence, content, hours, policy, rooms,
                   tracks, roster>>

\* Configuration handlers that do not pass through the queue.
CreateRoom(r) ==
    /\ rooms[r] = "unborn"
    /\ rooms' = [rooms EXCEPT ![r] = "active"]
    /\ UNCHANGED <<status, slots, sequence, content, hours, policy, tracks,
                   roster, call>>

CreateTrack(t) ==
    /\ tracks[t] = "unborn"
    /\ tracks' = [tracks EXCEPT ![t] = "active"]
    /\ UNCHANGED <<status, slots, sequence, content, hours, policy, rooms,
                   roster, call>>

RetireTrack(t) ==
    /\ t \in ActiveTracks
    /\ Cardinality(ActiveTracks) > 1
    /\ tracks' = [tracks EXCEPT ![t] = "retired"]
    /\ UNCHANGED <<status, slots, sequence, content, hours, policy, rooms,
                   roster, call>>

Configure ==
    \/ \E r \in Rooms : CreateRoom(r)
    \/ \E t \in Tracks : CreateTrack(t) \/ RetireTrack(t)

Next ==
    \/ \E c \in Calls : Begin(c) \/ Commit(c) \/ RoomFails(c)
    \/ Configure

Spec == Init /\ [][Next]_vars

-----------------------------------------------------------------------------
(* Safety of the agenda. *)

\* Two windows with no instant in common; windows are half-open.
Apart(v, w) == v.to <= w.from \/ w.to <= v.from

\* Scheduled and published sessions have a slot: publication, unpublication
\* and moves never leave a session "on the agenda" with nowhere to be
\* (the guards of scheduleAction and bulkPublication read the slot first).
PlacedHasSlot ==
    \A s \in Submissions : status[s] \in PlacedStatuses => s \in Placed

\* With nobody but the event room writing, a slot and a scheduled or
\* published status come and go together: no session holds a slot its status
\* does not admit to (schedule, unplace and their batches).
SlotIffOnAgenda ==
    \A s \in Submissions : s \in Placed <=> status[s] \in PlacedStatuses

\* No room holds two sessions at one time, whatever their status says
\* (detectConflicts against every slot of the event, behind the queue).
RoomsNotDoubleBooked ==
    \A s, o \in Placed :
        s # o /\ slots[s].room = slots[o].room
            => Apart(slots[s].window, slots[o].window)

\* While rosters do not change, no speaker is in two places at one time.
SpeakersNotDoubleBooked ==
    \A s, o \in Placed :
        s # o /\ roster[s] \cap roster[o] # {}
            => Apart(slots[s].window, slots[o].window)

\* Settings and slots agree: a slot is inside the hours the settings admit
\* now, whichever of the two was changed last.
SlotsWithinHours == \A s \in Placed : slots[s].window \in hours

\* A session on the agenda is in a room that has not been retired, although
\* retiring a room and placing a session in it are separate calls.
RoomsInService ==
    \A s \in Placed :
        status[s] \in PlacedStatuses => rooms[slots[s].room] = "active"

\* Slots and configuration agree though they are changed by separate calls:
\* every slot lies within the hours and in a room that is in service.
SlotsFitTheEvent == SlotsWithinHours /\ RoomsInService

(* Why the agenda stays safe although a batch is sent after other handlers  *)
(* have written: what each call concluded at its reads is still true when   *)
(* its batch is sent, because what it concluded it from is written only     *)
(* behind the same queue.                                                   *)

ScheduleSound(k) ==
    /\ k.slot.window \in hours
    /\ rooms[k.slot.room] = "active"
    /\ \A o \in Placed \ {k.sub} :
          slots[o].room = k.slot.room => Apart(slots[o].window, k.slot.window)
    /\ k.sequence > sequence[k.sub]

UnplaceSound(k) == k.sub \in Placed /\ k.sequence > sequence[k.sub]

PublicationSound(k) ==
    \A s \in k.subs : s \in Placed /\ rooms[slots[s].room] = "active"

SettingsSound(k) == \A s \in Placed : slots[s].window \in k.hours

RetireSound(k) ==
    \A s \in Placed :
        status[s] \in PlacedStatuses => slots[s].room # k.room

PendingCallsAreSound ==
    \A c \in Calls :
        /\ call[c].op = "schedule"    => ScheduleSound(call[c])
        /\ call[c].op = "unplace"     => UnplaceSound(call[c])
        /\ call[c].op = "publication" => PublicationSound(call[c])
        /\ call[c].op = "settings"    => SettingsSound(call[c])
        /\ call[c].op = "retire"      => RetireSound(call[c])

OneCallAtATime ==
    \A c, d \in Calls : call[c] # Idle /\ call[d] # Idle => c = d

\* The inductive invariant of the agenda, which every handler of the
\* programme preserves (module EventRoomProofs, module ProgrammeProofs).
AgendaInv ==
    /\ TypeOK
    /\ PlacedHasSlot
    /\ RoomsNotDoubleBooked
    /\ SlotsWithinHours
    /\ RoomsInService
    /\ OneCallAtATime
    /\ PendingCallsAreSound

(* What a step of the event room may never do. *)

\* Any change to a slot, its removal included, gives the session a higher
\* calendar sequence, so that calendars never ignore the update: also when a
\* session is unplaced and placed again (agenda_calendar_lifecycles outlives
\* the slot).
SlotChangesBumpSequence ==
    [][\A s \in Submissions :
          slots'[s] # slots[s] => sequence'[s] > sequence[s]]_vars

\* Under the hard policy a session is never moved onto an active track at a
\* time the track is in use, also when the request named no track and the
\* session keeps its own.
HardTracksHold ==
    [][\A s \in Submissions :
          /\ slots'[s] \notin {slots[s], NoSlot}
          /\ policy = "hard"
          /\ slots'[s].track \in ActiveTracks
          => \A o \in Placed \ {s} :
                slots[o].track = slots'[s].track
                    => Apart(slots[o].window, slots'[s].window)]_vars

\* A session becomes public only with its current text approved and pinned,
\* although the text is edited by calls of its own.
PublishedTextIsApproved ==
    [][\A s \in Submissions :
          status[s] # "published" /\ status'[s] = "published"
              => content'[s] = "approved"]_vars

(* The event room implements the abstract agenda. *)

Placement(s) ==
    IF s \in Placed
    THEN [room |-> slots[s].room, window |-> slots[s].window]
    ELSE NoSlot

A == INSTANCE Agenda
        WITH Unplaced  <- NoSlot,
             placement <- [s \in Submissions |-> Placement(s)],
             public    <- {s \in Submissions : status[s] = "published"},
             edition   <- sequence

\* Seen from outside, every batch is one place, move, removal, publication or
\* retraction of the abstract agenda (module Agenda), or changes nothing.
ImplementsAgenda == A!Spec
=============================================================================
