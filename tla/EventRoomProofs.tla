--------------------------- MODULE EventRoomProofs ---------------------------
(***************************************************************************)
(* The agenda invariant of the event room, for any number of sessions,     *)
(* rooms, windows, speakers and concurrent calls.  The lemmas speak of     *)
(* single actions, so that module ProgrammeProofs can use them where the   *)
(* same actions interleave with the Worker's handlers.                     *)
(***************************************************************************)
EXTENDS EventRoom, TLAPS

(* The record a call holds is the one its op names. *)

LEMMA CallTypes ==
    ASSUME TypeOK, NEW c \in Calls
    PROVE  /\ call[c].op = "schedule"    => call[c] \in ScheduleCalls
           /\ call[c].op = "unplace"     => call[c] \in UnplaceCalls
           /\ call[c].op = "publication" => call[c] \in PublicationCalls
           /\ call[c].op = "settings"    => call[c] \in SettingsCalls
           /\ call[c].op = "retire"      => call[c] \in RetireCalls
           /\ call[c].op = "content"     => call[c] \in ContentCalls
BY DEF TypeOK, RoomCalls, ScheduleCalls, UnplaceCalls, PublicationCalls,
       SettingsCalls, RetireCalls, ContentCalls, Idle

LEMMA WindowTypes ==
    ASSUME NEW v \in Windows, NEW w \in Windows
    PROVE  /\ v.from \in Int /\ v.to \in Int
           /\ ~Overlap(v, w) => Apart(w, v)
BY WindowsAssumption DEF Overlap, Apart

(* Entering and leaving the queue. *)

\* A call that enters with sound conclusions keeps the invariant.
LEMMA EnterSound ==
    ASSUME AgendaInv, NEW c \in Calls, NEW k \in RoomCalls, Enter(c, k),
           k.op = "schedule"    => ScheduleSound(k),
           k.op = "unplace"     => UnplaceSound(k),
           k.op = "publication" => PublicationSound(k),
           k.op = "settings"    => SettingsSound(k),
           k.op = "retire"      => RetireSound(k)
    PROVE  AgendaInv'
<1>1. /\ call' = [call EXCEPT ![c] = k]
      /\ call'[c] = k
      /\ \A d \in Calls \ {c} : call'[d] = Idle /\ call'[d].op = "idle"
      /\ UNCHANGED <<status, slots, sequence, content, hours, policy, rooms,
                     tracks, roster>>
  BY DEF Enter, RoomIsFree, Idle, AgendaInv, TypeOK
<1>2. TypeOK'
  BY <1>1 DEF AgendaInv, TypeOK
<1>3. OneCallAtATime'
  BY <1>1 DEF OneCallAtATime
<1>4. PendingCallsAreSound'
  <2> SUFFICES ASSUME NEW d \in Calls
               PROVE  /\ call'[d].op = "schedule" => ScheduleSound(call[d])'
                      /\ call'[d].op = "unplace" => UnplaceSound(call[d])'
                      /\ call'[d].op = "publication"
                            => PublicationSound(call[d])'
                      /\ call'[d].op = "settings" => SettingsSound(call[d])'
                      /\ call'[d].op = "retire" => RetireSound(call[d])'
    BY DEF PendingCallsAreSound
  <2>1. CASE d = c
    BY <1>1, <2>1 DEF ScheduleSound, UnplaceSound, PublicationSound,
                      SettingsSound, RetireSound, Placed
  <2>2. CASE d # c
    BY <1>1, <2>2
  <2> QED
    BY <2>1, <2>2
<1>5. (PlacedHasSlot /\ RoomsNotDoubleBooked /\ SlotsWithinHours
         /\ RoomsInService)'
  BY <1>1 DEF AgendaInv, PlacedHasSlot, RoomsNotDoubleBooked,
              SlotsWithinHours, RoomsInService, Placed
<1> QED
  BY <1>2, <1>3, <1>4, <1>5 DEF AgendaInv

\* After a call leaves, the queue is empty of active calls.
LEMMA LeaveEmpties ==
    ASSUME TypeOK, OneCallAtATime, NEW c \in Calls, call[c] # Idle, Leave(c)
    PROVE  /\ \A d \in Calls : call'[d] = Idle
           /\ call' \in [Calls -> RoomCalls \cup {Idle}]
           /\ OneCallAtATime'
           /\ PendingCallsAreSound'
<1>1. /\ \A d \in Calls : call'[d] = Idle
      /\ call' \in [Calls -> RoomCalls \cup {Idle}]
  BY DEF Leave, TypeOK, OneCallAtATime
<1>2. OneCallAtATime'
  BY <1>1 DEF OneCallAtATime
<1>3. PendingCallsAreSound'
  BY <1>1 DEF PendingCallsAreSound, Idle
<1> QED
  BY <1>1, <1>2, <1>3

-----------------------------------------------------------------------------
(* Each call, from its reads to its batch. *)

LEMMA BeginSchedulePreserves ==
    ASSUME AgendaInv, NEW c \in Calls, NEW s \in Submissions, NEW r \in Rooms,
           NEW w \in Windows, NEW t \in Tracks \cup {NoTrack},
           BeginSchedule(c, s, r, w, t)
    PROVE  AgendaInv'
<1> DEFINE slot == [room |-> r, track |-> t, window |-> w,
                    ack |-> AckAfter(s, r, w)]
           k == [op |-> "schedule", sub |-> s, slot |-> slot,
                 status |-> ScheduledStatus(s), sequence |-> NextSequence(s)]
<1>1. slot \in Slots
  BY DEF Slots, AckAfter
<1>2. ScheduledStatus(s) \in PlacedStatuses
  BY DEF ScheduledStatus, PlacedStatuses
<1>3. NextSequence(s) \in Nat /\ NextSequence(s) > sequence[s]
  BY DEF NextSequence, AgendaInv, TypeOK, NoRow
<1>4. k \in RoomCalls
  BY <1>1, <1>2, <1>3 DEF RoomCalls, ScheduleCalls
<1>5. \A o \in Placed \ {s} : slots[o].room = r => Apart(slots[o].window, w)
  <2> SUFFICES ASSUME NEW o \in Placed \ {s}, slots[o].room = r
               PROVE  Apart(slots[o].window, w)
    OBVIOUS
  <2>1. slots[o] \in Slots
    BY DEF AgendaInv, TypeOK, Placed
  <2>2. slots[o].window \in Windows
    BY <2>1 DEF Slots
  <2>3. ~Overlap(w, slots[o].window)
    BY DEF BeginSchedule, MaySchedule, RoomTaken, PlacedDuring
  <2> QED
    BY <2>2, <2>3, WindowTypes
<1>6. ScheduleSound(k)
  BY <1>3, <1>5 DEF ScheduleSound, BeginSchedule, MaySchedule, ActiveRooms
<1>7. Enter(c, k)
  BY DEF BeginSchedule
<1> HIDE DEF k
<1>8. k.op = "schedule"
  BY DEF k
<1> QED
  BY <1>4, <1>6, <1>7, <1>8, EnterSound

LEMMA BeginUnplacePreserves ==
    ASSUME AgendaInv, NEW c \in Calls, NEW s \in Submissions,
           BeginUnplace(c, s)
    PROVE  AgendaInv'
<1> DEFINE k == [op |-> "unplace", sub |-> s, sequence |-> CancelSequence(s)]
<1>1. CancelSequence(s) \in Nat /\ CancelSequence(s) > sequence[s]
  BY DEF CancelSequence, AgendaInv, TypeOK, NoRow
<1>2. k \in RoomCalls /\ UnplaceSound(k) /\ k.op = "unplace"
  BY <1>1 DEF RoomCalls, UnplaceCalls, UnplaceSound, BeginUnplace, MayUnplace
<1>3. Enter(c, k)
  BY DEF BeginUnplace
<1> HIDE DEF k
<1> QED
  BY <1>2, <1>3, EnterSound

LEMMA BeginPublicationPreserves ==
    ASSUME AgendaInv, NEW c \in Calls, NEW S \in SUBSET Submissions,
           NEW a \in BOOLEAN, BeginPublish(c, S, a) \/ BeginUnpublish(c, S)
    PROVE  AgendaInv'
<1>1. ASSUME NEW st \in PlacedStatuses, NEW b \in BOOLEAN,
             \A s \in S : status[s] \in PlacedStatuses,
             Enter(c, [op |-> "publication", subs |-> S, target |-> st,
                       approve |-> b])
      PROVE  AgendaInv'
  <2> DEFINE k == [op |-> "publication", subs |-> S, target |-> st,
                   approve |-> b]
  <2>1. k \in RoomCalls /\ k.op = "publication"
    BY DEF RoomCalls, PublicationCalls
  <2>2. PublicationSound(k)
    BY <1>1 DEF PublicationSound, AgendaInv, PlacedHasSlot, RoomsInService
  <2>3. Enter(c, k)
    BY <1>1
  <2> HIDE DEF k
  <2> QED
    BY <2>1, <2>2, <2>3, EnterSound
<1>2. CASE BeginPublish(c, S, a)
  BY <1>1, <1>2 DEF BeginPublish, MayPublish, PlacedStatuses
<1>3. CASE BeginUnpublish(c, S)
  BY <1>1, <1>3 DEF BeginUnpublish, PlacedStatuses
<1> QED
  BY <1>2, <1>3

LEMMA BeginConfigurationPreserves ==
    ASSUME AgendaInv, NEW c \in Calls,
           \/ \E h \in HoursChoices, p \in Policies : BeginSettings(c, h, p)
           \/ \E r \in Rooms : BeginRetireRoom(c, r)
           \/ \E s \in Submissions, ch \in ContentChanges :
                 BeginContent(c, s, ch)
    PROVE  AgendaInv'
<1>1. ASSUME NEW h \in HoursChoices, NEW p \in Policies, BeginSettings(c, h, p)
      PROVE  AgendaInv'
  <2> DEFINE k == [op |-> "settings", hours |-> h, policy |-> p]
  <2>1. k \in RoomCalls /\ k.op = "settings" /\ SettingsSound(k) /\ Enter(c, k)
    BY <1>1 DEF RoomCalls, SettingsCalls, SettingsSound, BeginSettings
  <2> HIDE DEF k
  <2> QED
    BY <2>1, EnterSound
<1>2. ASSUME NEW r \in Rooms, BeginRetireRoom(c, r)
      PROVE  AgendaInv'
  <2> DEFINE k == [op |-> "retire", room |-> r]
  <2>1. k \in RoomCalls /\ k.op = "retire" /\ RetireSound(k) /\ Enter(c, k)
    BY <1>2 DEF RoomCalls, RetireCalls, RetireSound, BeginRetireRoom, RoomInUse
  <2> HIDE DEF k
  <2> QED
    BY <2>1, EnterSound
<1>3. ASSUME NEW s \in Submissions, NEW ch \in ContentChanges,
             BeginContent(c, s, ch)
      PROVE  AgendaInv'
  <2> DEFINE k == [op |-> "content", sub |-> s, change |-> ch]
  <2>1. k \in RoomCalls /\ k.op = "content" /\ Enter(c, k)
    BY <1>3 DEF RoomCalls, ContentCalls, BeginContent
  <2> HIDE DEF k
  <2> QED
    BY <2>1, EnterSound
<1> QED
  BY <1>1, <1>2, <1>3

\* Whatever a call read, its reads being over leaves the agenda alone.
LEMMA BeginPreserves ==
    ASSUME AgendaInv, NEW c \in Calls, Begin(c)
    PROVE  AgendaInv'
BY BeginSchedulePreserves, BeginUnplacePreserves, BeginPublicationPreserves,
   BeginConfigurationPreserves DEF Begin

LEMMA CommitSchedulePreserves ==
    ASSUME AgendaInv, NEW c \in Calls, CommitSchedule(c)
    PROVE  AgendaInv'
<1> DEFINE k == call[c]
           s == call[c].sub
<1>1. k \in ScheduleCalls /\ k # Idle
  BY CallTypes DEF CommitSchedule, AgendaInv, Idle
<1>2. ScheduleSound(k)
  BY DEF CommitSchedule, AgendaInv, PendingCallsAreSound
<1>3. /\ s \in Submissions
      /\ k.slot \in Slots /\ k.slot # NoSlot
      /\ k.status \in PlacedStatuses /\ k.status \in Statuses
      /\ k.sequence \in Nat
  BY <1>1, NullAssumption DEF ScheduleCalls, PlacedStatuses, Statuses
<1>4. /\ \A d \in Calls : call'[d] = Idle
      /\ call' \in [Calls -> RoomCalls \cup {Idle}]
      /\ OneCallAtATime' /\ PendingCallsAreSound'
  BY <1>1, LeaveEmpties DEF CommitSchedule, AgendaInv
<1>5. TypeOK'
  BY <1>3, <1>4 DEF CommitSchedule, AgendaInv, TypeOK
<1>6. /\ slots'[s] = k.slot
      /\ status'[s] = k.status
      /\ \A o \in Submissions \ {s} : /\ slots'[o] = slots[o]
                                      /\ status'[o] = status[o]
      /\ Placed' = Placed \cup {s}
      /\ UNCHANGED <<hours, rooms>>
  BY <1>3 DEF CommitSchedule, AgendaInv, TypeOK, Placed
<1> HIDE DEF k, s
<1>7. PlacedHasSlot'
  BY <1>6 DEF AgendaInv, PlacedHasSlot
<1>8. RoomsNotDoubleBooked'
  <2> SUFFICES ASSUME NEW a \in Placed', NEW b \in Placed', a # b,
                      slots'[a].room = slots'[b].room
               PROVE  Apart(slots'[a].window, slots'[b].window)
    BY DEF RoomsNotDoubleBooked
  <2>1. a \in Submissions /\ b \in Submissions
    BY DEF Placed
  <2>2. CASE a # s /\ b # s
    BY <2>1, <2>2, <1>6 DEF AgendaInv, RoomsNotDoubleBooked
  <2>3. CASE b = s
    BY <2>1, <2>3, <1>2, <1>6 DEF ScheduleSound, k, s
  <2>4. CASE a = s
    BY <2>1, <2>4, <1>2, <1>6 DEF ScheduleSound, Apart, k, s
  <2> QED
    BY <2>2, <2>3, <2>4
<1>9. SlotsWithinHours' /\ RoomsInService'
  <2> SUFFICES ASSUME NEW o \in Placed'
               PROVE  /\ slots'[o].window \in hours
                      /\ status'[o] \in PlacedStatuses
                            => rooms[slots'[o].room] = "active"
    BY <1>6 DEF SlotsWithinHours, RoomsInService
  <2>1. CASE o = s
    BY <2>1, <1>2, <1>6 DEF ScheduleSound, k, s
  <2>2. CASE o # s
    BY <2>2, <1>6 DEF AgendaInv, SlotsWithinHours, RoomsInService, Placed
  <2> QED
    BY <2>1, <2>2
<1> QED
  BY <1>4, <1>5, <1>7, <1>8, <1>9 DEF AgendaInv

LEMMA CommitUnplacePreserves ==
    ASSUME AgendaInv, NEW c \in Calls, CommitUnplace(c)
    PROVE  AgendaInv'
<1> DEFINE s == call[c].sub
<1>1. call[c] \in UnplaceCalls /\ call[c] # Idle
  BY CallTypes DEF CommitUnplace, AgendaInv, Idle
<1>2. s \in Submissions /\ call[c].sequence \in Nat
  BY <1>1 DEF UnplaceCalls
<1>3. /\ call' \in [Calls -> RoomCalls \cup {Idle}]
      /\ OneCallAtATime' /\ PendingCallsAreSound'
  BY <1>1, LeaveEmpties DEF CommitUnplace, AgendaInv
<1>4. TypeOK'
  BY <1>2, <1>3 DEF CommitUnplace, AgendaInv, TypeOK, Statuses
<1>5. /\ status'[s] = "accepted"
      /\ \A o \in Submissions \ {s} : /\ slots'[o] = slots[o]
                                      /\ status'[o] = status[o]
      /\ Placed' = Placed \ {s}
      /\ UNCHANGED <<hours, rooms>>
  BY <1>2 DEF CommitUnplace, AgendaInv, TypeOK, Placed
<1> HIDE DEF s
<1>6. PlacedHasSlot'
  BY <1>5 DEF AgendaInv, PlacedHasSlot, PlacedStatuses
<1>7. (RoomsNotDoubleBooked /\ SlotsWithinHours)'
  BY <1>5 DEF AgendaInv, RoomsNotDoubleBooked, SlotsWithinHours, Placed
<1>8. RoomsInService'
  BY <1>5 DEF AgendaInv, RoomsInService, Placed
<1> QED
  BY <1>3, <1>4, <1>6, <1>7, <1>8 DEF AgendaInv

LEMMA CommitPublicationPreserves ==
    ASSUME AgendaInv, NEW c \in Calls, CommitPublication(c)
    PROVE  AgendaInv'
<1>1. call[c] \in PublicationCalls /\ call[c] # Idle
  BY CallTypes DEF CommitPublication, AgendaInv, Idle
<1>2. PublicationSound(call[c])
  BY DEF CommitPublication, AgendaInv, PendingCallsAreSound
<1>3. /\ call' \in [Calls -> RoomCalls \cup {Idle}]
      /\ OneCallAtATime' /\ PendingCallsAreSound'
  BY <1>1, LeaveEmpties DEF CommitPublication, AgendaInv
<1>4. call[c].target \in Statuses
  BY <1>1 DEF PublicationCalls, PlacedStatuses, Statuses
<1>5. TypeOK'
  BY <1>3, <1>4 DEF CommitPublication, AgendaInv, TypeOK, ContentStates
<1>6. /\ \A s \in Submissions :
            status'[s] # status[s] => s \in Placed
                                       /\ rooms[slots[s].room] = "active"
      /\ Placed' = Placed
      /\ UNCHANGED <<slots, hours, rooms>>
  BY <1>2 DEF CommitPublication, PublicationSound, Placed
<1>7. PlacedHasSlot' /\ RoomsInService'
  <2> SUFFICES ASSUME NEW s \in Submissions, status'[s] \in PlacedStatuses
               PROVE  s \in Placed /\ rooms[slots[s].room] = "active"
    BY <1>6 DEF PlacedHasSlot, RoomsInService, Placed
  <2> QED
    BY <1>6 DEF AgendaInv, PlacedHasSlot, RoomsInService
<1>8. RoomsNotDoubleBooked' /\ SlotsWithinHours'
  BY <1>6 DEF AgendaInv, RoomsNotDoubleBooked, SlotsWithinHours
<1> QED
  BY <1>3, <1>5, <1>7, <1>8 DEF AgendaInv

LEMMA CommitConfigurationPreserves ==
    ASSUME AgendaInv, NEW c \in Calls,
           CommitSettings(c) \/ CommitRetireRoom(c) \/ CommitContent(c)
    PROVE  AgendaInv'
<1>1. call[c] # Idle /\ Leave(c)
  BY DEF CommitSettings, CommitRetireRoom, CommitContent, Idle
<1>2. /\ call' \in [Calls -> RoomCalls \cup {Idle}]
      /\ OneCallAtATime' /\ PendingCallsAreSound'
  BY <1>1, LeaveEmpties DEF AgendaInv
<1>3. UNCHANGED <<status, slots, sequence, tracks, roster>> /\ Placed' = Placed
  BY DEF CommitSettings, CommitRetireRoom, CommitContent, Placed
<1>4. CASE CommitSettings(c)
  <2>1. call[c] \in SettingsCalls /\ SettingsSound(call[c])
    BY <1>4, CallTypes DEF CommitSettings, AgendaInv, PendingCallsAreSound
  <2>2. TypeOK'
    BY <1>2, <1>4, <2>1 DEF CommitSettings, SettingsCalls, AgendaInv, TypeOK
  <2> QED
    BY <1>2, <1>3, <1>4, <2>1, <2>2
       DEF CommitSettings, SettingsSound, AgendaInv, PlacedHasSlot,
           RoomsNotDoubleBooked, SlotsWithinHours, RoomsInService
<1>5. CASE CommitRetireRoom(c)
  <2>1. call[c] \in RetireCalls /\ RetireSound(call[c])
    BY <1>5, CallTypes DEF CommitRetireRoom, AgendaInv, PendingCallsAreSound
  <2>2. TypeOK'
    BY <1>2, <1>5, <2>1
       DEF CommitRetireRoom, RetireCalls, AgendaInv, TypeOK, RowLife
  <2>3. \A r \in Rooms : r # call[c].room => rooms'[r] = rooms[r]
    BY <1>5 DEF CommitRetireRoom, AgendaInv, TypeOK
  <2>4. \A s \in Placed : slots[s].room \in Rooms
    BY DEF Placed, AgendaInv, TypeOK, Slots
  <2>5. RoomsInService'
    BY <1>3, <2>1, <2>3, <2>4 DEF AgendaInv, RoomsInService, RetireSound
  <2> QED
    BY <1>2, <1>3, <1>5, <2>2, <2>5
       DEF CommitRetireRoom, AgendaInv, PlacedHasSlot, RoomsNotDoubleBooked,
           SlotsWithinHours
<1>6. CASE CommitContent(c)
  <2>1. call[c] \in ContentCalls
    BY <1>6, CallTypes DEF CommitContent, AgendaInv
  <2>2. ASSUME NEW x \in ContentStates, NEW ch \in ContentChanges
        PROVE  ContentAfter(x, ch) \in ContentStates
    BY DEF ContentAfter, ContentStates, ContentChanges
  <2>3. TypeOK'
    BY <1>2, <1>6, <2>1, <2>2
       DEF CommitContent, ContentCalls, AgendaInv, TypeOK
  <2> QED
    BY <1>2, <1>3, <1>6, <2>3
       DEF CommitContent, AgendaInv, PlacedHasSlot, RoomsNotDoubleBooked,
           SlotsWithinHours, RoomsInService
<1> QED
  BY <1>4, <1>5, <1>6

LEMMA CommitPreserves ==
    ASSUME AgendaInv, NEW c \in Calls, Commit(c)
    PROVE  AgendaInv'
BY CommitSchedulePreserves, CommitUnplacePreserves, CommitPublicationPreserves,
   CommitConfigurationPreserves DEF Commit

LEMMA RoomFailsPreserves ==
    ASSUME AgendaInv, NEW c \in Calls, RoomFails(c)
    PROVE  AgendaInv'
<1>1. /\ call' \in [Calls -> RoomCalls \cup {Idle}]
      /\ OneCallAtATime' /\ PendingCallsAreSound'
  BY LeaveEmpties DEF RoomFails, AgendaInv
<1> QED
  BY <1>1 DEF RoomFails, AgendaInv, TypeOK, PlacedHasSlot,
              RoomsNotDoubleBooked, SlotsWithinHours, RoomsInService, Placed

\* Rooms and tracks come, and tracks go, past the queue: harmless, because a
\* placed session only needs its room to stay.
LEMMA ConfigurePreserves ==
    ASSUME AgendaInv, Configure
    PROVE  AgendaInv'
<1>1. /\ UNCHANGED <<status, slots, sequence, content, hours, policy, roster,
                     call>>
      /\ Placed' = Placed
  BY DEF Configure, CreateRoom, CreateTrack, RetireTrack, Placed
<1>2. \A r \in Rooms : rooms[r] = "active" => rooms'[r] = "active"
  BY DEF Configure, CreateRoom, CreateTrack, RetireTrack, AgendaInv, TypeOK
<1>3. TypeOK'
  BY <1>1 DEF Configure, CreateRoom, CreateTrack, RetireTrack, AgendaInv,
              TypeOK, RowLife
<1>4. \A s \in Placed : slots[s].room \in Rooms
  BY DEF Placed, AgendaInv, TypeOK, Slots
<1>5. RoomsInService'
  BY <1>1, <1>2, <1>4 DEF AgendaInv, RoomsInService
<1>6. PendingCallsAreSound'
  <2> SUFFICES ASSUME NEW c \in Calls
               PROVE  /\ call[c].op = "schedule" => ScheduleSound(call[c])'
                      /\ call[c].op = "unplace" => UnplaceSound(call[c])'
                      /\ call[c].op = "publication"
                            => PublicationSound(call[c])'
                      /\ call[c].op = "settings" => SettingsSound(call[c])'
                      /\ call[c].op = "retire" => RetireSound(call[c])'
    BY <1>1 DEF PendingCallsAreSound
  <2>1. call[c].op = "schedule" => ScheduleSound(call[c])'
    <3> SUFFICES ASSUME call[c].op = "schedule" PROVE ScheduleSound(call[c])'
      OBVIOUS
    <3>1. call[c].slot.room \in Rooms
      BY CallTypes DEF AgendaInv, ScheduleCalls, Slots
    <3> QED
      BY <1>1, <1>2, <3>1 DEF AgendaInv, PendingCallsAreSound, ScheduleSound
  <2>2. call[c].op = "publication" => PublicationSound(call[c])'
    BY <1>1, <1>2, <1>4 DEF AgendaInv, PendingCallsAreSound, PublicationSound
  <2> QED
    BY <1>1, <2>1, <2>2 DEF AgendaInv, PendingCallsAreSound, UnplaceSound,
                            SettingsSound, RetireSound
<1>7. (PlacedHasSlot /\ RoomsNotDoubleBooked /\ SlotsWithinHours
         /\ OneCallAtATime)'
  BY <1>1 DEF AgendaInv, PlacedHasSlot, RoomsNotDoubleBooked,
              SlotsWithinHours, OneCallAtATime
<1> QED
  BY <1>3, <1>5, <1>6, <1>7 DEF AgendaInv

-----------------------------------------------------------------------------
LEMMA InitAgenda == Init => AgendaInv
<1> SUFFICES ASSUME Init PROVE AgendaInv
  OBVIOUS
<1>1. TypeOK
  BY DEF Init, TypeOK, Statuses, ContentStates, RowLife, NoRow
<1>2. Placed = {}
  BY DEF Init, Placed
<1>3. PlacedHasSlot
  BY DEF Init, PlacedHasSlot, PlacedStatuses
<1>4. OneCallAtATime /\ PendingCallsAreSound
  BY DEF Init, OneCallAtATime, PendingCallsAreSound, Idle
<1> QED
  BY <1>1, <1>2, <1>3, <1>4 DEF AgendaInv, RoomsNotDoubleBooked,
                                SlotsWithinHours, RoomsInService

\* One lemma for every step of the room.
LEMMA NextPreserves == AgendaInv /\ [Next]_vars => AgendaInv'
<1> SUFFICES ASSUME AgendaInv, [Next]_vars
             PROVE  AgendaInv'
  OBVIOUS
<1>1. CASE UNCHANGED vars
  BY <1>1 DEF vars, AgendaInv, TypeOK, PlacedHasSlot, RoomsNotDoubleBooked,
              SlotsWithinHours, RoomsInService, OneCallAtATime,
              PendingCallsAreSound, ScheduleSound, UnplaceSound,
              PublicationSound, SettingsSound, RetireSound, Placed
<1> QED
  BY <1>1, BeginPreserves, CommitPreserves, RoomFailsPreserves,
     ConfigurePreserves DEF Next

\* The event room on its own keeps the agenda sound: types, slots for what is
\* on the agenda, no double booking, hours and rooms.
THEOREM AgendaHolds == Spec => []AgendaInv
BY InitAgenda, NextPreserves, PTL DEF Spec

\* No room is booked twice, and slots lie within the hours and in rooms that are
\* in service, although hours, rooms and slots are changed by separate calls
\* (EventRoom.ts:161-230, configuration.ts:150, 209).
THEOREM RoomSafety == Spec => [](RoomsNotDoubleBooked /\ SlotsFitTheEvent)
<1>1. AgendaInv => RoomsNotDoubleBooked /\ SlotsFitTheEvent
  BY DEF AgendaInv, SlotsFitTheEvent
<1> QED
  BY <1>1, AgendaHolds, PTL

-----------------------------------------------------------------------------
(* The steps of the room are steps of the abstract agenda. *)

\* The batch of a placement is a placement.
LEMMA CommitScheduleRefines ==
    ASSUME AgendaInv, NEW c \in Calls, CommitSchedule(c)
    PROVE  \E s \in Submissions, p \in A!Placements : A!Place(s, p)
<1>1. call[c] \in ScheduleCalls
  BY CallTypes DEF CommitSchedule, AgendaInv
<1> PICK k \in ScheduleCalls : k = call[c]
  BY <1>1
<1> DEFINE s == k.sub
           p == [room |-> k.slot.room, window |-> k.slot.window]
<1>2. ScheduleSound(k)
  BY DEF CommitSchedule, AgendaInv, PendingCallsAreSound
<1>3. /\ s \in Submissions
      /\ k.slot \in Slots /\ k.slot # NoSlot
      /\ k.sequence \in Nat
  BY NullAssumption DEF ScheduleCalls
<1>4. /\ status' = [status EXCEPT ![s] = k.status]
      /\ slots' = [slots EXCEPT ![s] = k.slot]
      /\ sequence' = [sequence EXCEPT ![s] = k.sequence]
  BY DEF CommitSchedule
<1>5. /\ slots'[s] = k.slot
      /\ \A o \in Submissions \ {s} : slots'[o] = slots[o]
      /\ s \in Placed'
      /\ \A o \in Submissions \ {s} : o \in Placed' <=> o \in Placed
  BY <1>3, <1>4 DEF AgendaInv, TypeOK, Placed
<1>6. p \in A!Placements
  BY <1>3 DEF A!Placements, Slots
<1>7. \A o \in A!Placed \ {s} : ~A!Clash(p, Placement(o))
  <2> SUFFICES ASSUME NEW o \in A!Placed \ {s}
               PROVE  ~A!Clash(p, Placement(o))
    OBVIOUS
  <2>1. o \in Placed /\ o \in Submissions
    BY DEF A!Placed, Placement, Placed
  <2>2. Placement(o) = [room |-> slots[o].room, window |-> slots[o].window]
    BY <2>1 DEF Placement
  <2>3. slots[o].window \in Windows /\ k.slot.window \in Windows
    BY <1>3, <2>1 DEF Placed, AgendaInv, TypeOK, Slots
  <2>4. k.slot.room = slots[o].room => Apart(slots[o].window, k.slot.window)
    BY <1>2, <2>1 DEF ScheduleSound
  <2>5. Apart(slots[o].window, k.slot.window)
          => ~A!Overlap(k.slot.window, slots[o].window)
    BY <2>3, WindowTypes DEF Apart, A!Overlap
  <2> QED
    BY <2>2, <2>4, <2>5 DEF A!Clash
<1>8. [o \in Submissions |-> Placement(o)]'
        = [[o \in Submissions |-> Placement(o)] EXCEPT ![s] = p]
  BY <1>3, <1>5 DEF Placement
<1>9. A!NewEdition(s)
  <2>1. sequence'[s] = k.sequence
    BY <1>3, <1>4 DEF AgendaInv, TypeOK
  <2>2. sequence'[s] \in Int /\ sequence'[s] > sequence[s]
    BY <1>2, <1>3, <2>1 DEF ScheduleSound
  <2>3. sequence' = [sequence EXCEPT ![s] = sequence'[s]]
    BY <1>4, <2>1
  <2> QED
    BY <2>2, <2>3 DEF A!NewEdition
<1>10. LET pub == {o \in Submissions : status[o] = "published"}
       IN  pub' \in {pub, pub \cup {s}, pub \ {s}}
  <2>1. \A o \in Submissions \ {s} : status'[o] = status[o]
    BY <1>3, <1>4 DEF AgendaInv, TypeOK
  <2>2. CASE status'[s] = "published"
    BY <1>3, <2>1, <2>2
  <2>3. CASE status'[s] # "published"
    BY <1>3, <2>1, <2>3
  <2> QED
    BY <2>2, <2>3
<1>11. A!Place(s, p)
  BY <1>3, <1>7, <1>8, <1>9, <1>10 DEF A!Place, A!Placed
<1> HIDE DEF s, p
<1> QED
  BY <1>3, <1>6, <1>11

LEMMA CommitUnplaceRefines ==
    ASSUME AgendaInv, NEW c \in Calls, CommitUnplace(c)
    PROVE  \E s \in Submissions : A!Unplace(s)
<1>1. call[c] \in UnplaceCalls /\ UnplaceSound(call[c])
  BY CallTypes DEF CommitUnplace, AgendaInv, PendingCallsAreSound
<1> PICK k \in UnplaceCalls : k = call[c]
  BY <1>1
<1> PICK s \in Submissions : s = k.sub
  BY DEF UnplaceCalls
<1>2. /\ status' = [status EXCEPT ![s] = "accepted"]
      /\ slots' = [slots EXCEPT ![s] = NoSlot]
      /\ sequence' = [sequence EXCEPT ![s] = k.sequence]
      /\ k.sequence \in Nat
      /\ k.sequence > sequence[s]
      /\ s \in Placed
  BY <1>1 DEF CommitUnplace, UnplaceCalls, UnplaceSound
<1>3. /\ slots'[s] = NoSlot
      /\ \A o \in Submissions \ {s} : slots'[o] = slots[o]
      /\ s \notin Placed'
      /\ \A o \in Submissions \ {s} : o \in Placed' <=> o \in Placed
  BY <1>2 DEF AgendaInv, TypeOK, Placed
<1>4. s \in A!Placed
  <2>1. slots[s] \in Slots
    BY <1>2 DEF Placed, AgendaInv, TypeOK
  <2>2. [room |-> slots[s].room, window |-> slots[s].window] # NoSlot
    BY <2>1, NullAssumption DEF Slots
  <2> QED
    BY <1>2, <2>2 DEF A!Placed, Placement
<1>5. [o \in Submissions |-> Placement(o)]'
        = [[o \in Submissions |-> Placement(o)] EXCEPT ![s] = NoSlot]
  BY <1>3 DEF Placement
<1>6. A!NewEdition(s)
  <2>1. sequence'[s] = k.sequence
    BY <1>2 DEF AgendaInv, TypeOK
  <2>2. sequence' = [sequence EXCEPT ![s] = sequence'[s]]
    BY <1>2, <2>1
  <2> QED
    BY <1>2, <2>1, <2>2 DEF A!NewEdition
<1>7. {o \in Submissions : status[o] = "published"}'
        = {o \in Submissions : status[o] = "published"} \ {s}
  BY <1>2 DEF AgendaInv, TypeOK
<1> QED
  BY <1>4, <1>5, <1>6, <1>7 DEF A!Unplace

\* Publication makes sessions public together, from the agenda.
LEMMA CommitPublicationRefines ==
    ASSUME AgendaInv, NEW c \in Calls, CommitPublication(c)
    PROVE  \E S \in SUBSET Submissions : A!Publish(S) \/ A!Retract(S)
<1>1. call[c] \in PublicationCalls /\ PublicationSound(call[c])
  BY CallTypes DEF CommitPublication, AgendaInv, PendingCallsAreSound
<1> PICK k \in PublicationCalls : k = call[c]
  BY <1>1
<1> PICK S \in SUBSET Submissions : S = k.subs
  BY DEF PublicationCalls
<1> DEFINE pub == {o \in Submissions : status[o] = "published"}
<1>2. /\ status' = [s \in Submissions |->
                       IF s \in S THEN k.target ELSE status[s]]
      /\ UNCHANGED <<slots, sequence>>
      /\ k.target \in {"scheduled", "published"}
  BY DEF CommitPublication, PublicationCalls, PlacedStatuses
<1>3. UNCHANGED <<[o \in Submissions |-> Placement(o)], sequence>>
  BY <1>2 DEF Placement, Placed
<1>4. CASE k.target = "published"
  <2>1. S \subseteq A!Placed
    <3> SUFFICES ASSUME NEW s \in S PROVE s \in A!Placed
      OBVIOUS
    <3>1. s \in Placed
      BY <1>1 DEF PublicationSound
    <3>2. slots[s] \in Slots
      BY <3>1 DEF Placed, AgendaInv, TypeOK
    <3>3. [room |-> slots[s].room, window |-> slots[s].window] # NoSlot
      BY <3>2, NullAssumption DEF Slots
    <3> QED
      BY <3>1, <3>3 DEF A!Placed, Placement
  <2>2. pub' = pub \cup S
    BY <1>2, <1>4
  <2>3. A!Publish(S)
    BY <1>3, <2>1, <2>2 DEF A!Publish
  <2> QED
    BY <2>3
<1>5. CASE k.target = "scheduled"
  <2>1. pub' = pub \ S
    BY <1>2, <1>5
  <2>2. A!Retract(S)
    BY <1>3, <2>1 DEF A!Retract
  <2> QED
    BY <2>2
<1> QED
  BY <1>2, <1>4, <1>5

\* Reads, refused batches, settings, texts, rooms and tracks change nothing
\* that the abstract agenda shows.
LEMMA OthersStutter ==
    ASSUME UNCHANGED <<status, slots, sequence>>
    PROVE  UNCHANGED A!vars
BY DEF A!vars, Placement, Placed

LEMMA BeginKeepsSlots ==
    ASSUME NEW c \in Calls, Begin(c) \/ RoomFails(c)
    PROVE  UNCHANGED <<status, slots, sequence>>
BY DEF Begin, BeginSchedule, BeginUnplace, BeginPublish, BeginUnpublish,
       BeginSettings, BeginRetireRoom, BeginContent, Enter, RoomFails

LEMMA RoomStepRefines ==
    ASSUME AgendaInv, NEW c \in Calls, Begin(c) \/ Commit(c) \/ RoomFails(c)
    PROVE  [A!Next]_(A!vars)
<1>1. CASE Begin(c) \/ RoomFails(c)
  <2>1. UNCHANGED <<status, slots, sequence>>
    BY <1>1, BeginKeepsSlots
  <2> QED
    BY <2>1, OthersStutter
<1>2. CASE CommitSchedule(c)
  BY <1>2, CommitScheduleRefines DEF A!Next
<1>3. CASE CommitUnplace(c)
  BY <1>3, CommitUnplaceRefines DEF A!Next
<1>4. CASE CommitPublication(c)
  BY <1>4, CommitPublicationRefines DEF A!Next
<1>5. CASE CommitSettings(c) \/ CommitRetireRoom(c) \/ CommitContent(c)
  <2>1. UNCHANGED <<status, slots, sequence>>
    BY <1>5 DEF CommitSettings, CommitRetireRoom, CommitContent
  <2> QED
    BY <2>1, OthersStutter
<1> QED
  BY <1>1, <1>2, <1>3, <1>4, <1>5 DEF Commit

LEMMA InitRefines == Init => A!Init
BY DEF Init, A!Init, Placement, Placed, NoRow

\* The event room implements the abstract agenda.
THEOREM RoomImplementsAgenda == Spec => ImplementsAgenda
<1>1. AgendaInv /\ [Next]_vars => [A!Next]_(A!vars)
  <2> SUFFICES ASSUME AgendaInv, [Next]_vars
               PROVE  [A!Next]_(A!vars)
    OBVIOUS
  <2>1. ASSUME NEW c \in Calls, Begin(c) \/ Commit(c) \/ RoomFails(c)
        PROVE  [A!Next]_(A!vars)
    BY <2>1, RoomStepRefines
  <2>2. CASE Configure \/ UNCHANGED vars
    <3>1. UNCHANGED <<status, slots, sequence>>
      BY <2>2 DEF Configure, CreateRoom, CreateTrack, RetireTrack, vars
    <3> QED
      BY <3>1, OthersStutter
  <2> QED
    BY <2>1, <2>2 DEF Next
<1> QED
  BY InitRefines, AgendaHolds, <1>1, PTL DEF Spec, ImplementsAgenda, A!Spec

LEMMA CommitBumps ==
    ASSUME AgendaInv, NEW c \in Calls, Commit(c), NEW s \in Submissions,
           slots'[s] # slots[s]
    PROVE  sequence'[s] > sequence[s]
<1>1. CASE CommitSchedule(c)
  <2>1. call[c] \in ScheduleCalls /\ ScheduleSound(call[c])
    BY <1>1, CallTypes DEF CommitSchedule, AgendaInv, PendingCallsAreSound
  <2>2. s = call[c].sub /\ sequence'[s] = call[c].sequence
    BY <1>1, <2>1 DEF CommitSchedule, ScheduleCalls, AgendaInv, TypeOK
  <2> QED
    BY <2>1, <2>2 DEF ScheduleSound
<1>2. CASE CommitUnplace(c)
  <2>1. call[c] \in UnplaceCalls /\ UnplaceSound(call[c])
    BY <1>2, CallTypes DEF CommitUnplace, AgendaInv, PendingCallsAreSound
  <2>2. s = call[c].sub /\ sequence'[s] = call[c].sequence
    BY <1>2, <2>1 DEF CommitUnplace, UnplaceCalls, AgendaInv, TypeOK
  <2> QED
    BY <2>1, <2>2 DEF UnplaceSound
<1> QED
  BY <1>1, <1>2 DEF Commit, CommitPublication, CommitSettings,
                    CommitRetireRoom, CommitContent

\* No step of the room changes a slot without a new calendar sequence.
THEOREM SlotChangesHold == Spec => SlotChangesBumpSequence
<1>1. AgendaInv /\ [Next]_vars =>
        [\A s \in Submissions :
            slots'[s] # slots[s] => sequence'[s] > sequence[s]]_vars
  <2> SUFFICES ASSUME AgendaInv, Next, NEW s \in Submissions,
                      slots'[s] # slots[s]
               PROVE  sequence'[s] > sequence[s]
    OBVIOUS
  <2>1. ~Configure
    BY DEF Configure, CreateRoom, CreateTrack, RetireTrack
  <2> QED
    BY <2>1, CommitBumps, BeginKeepsSlots DEF Next
<1> QED
  BY AgendaHolds, <1>1, PTL DEF Spec, SlotChangesBumpSequence

-----------------------------------------------------------------------------
(* What else the room promises while nobody but the room writes: each of    *)
(* the three has a conclusion of its own that a call carries to its batch.  *)

\* Types of the room's state, whatever calls are under way.
THEOREM RoomTypes == Spec => []TypeOK
<1>1. AgendaInv => TypeOK
  BY DEF AgendaInv
<1> QED
  BY <1>1, AgendaHolds, PTL

\* What a placement concluded of the speakers is true at its batch.
SpeakersSound(k) ==
    \A o \in Placed \ {k.sub} :
        roster[k.sub] \cap roster[o] # {}
            => Apart(slots[o].window, k.slot.window)

SpeakersInv ==
    /\ SpeakersNotDoubleBooked
    /\ \A c \in Calls : call[c].op = "schedule" => SpeakersSound(call[c])

\* The only call that enters with something to conclude of the speakers is a
\* placement, and it has looked at every slot that overlaps its own.
LEMMA BeginKeepsSpeakers ==
    ASSUME AgendaInv, SpeakersInv, NEW c \in Calls, Begin(c)
    PROVE  SpeakersInv'
<1>1. UNCHANGED <<slots, roster>> /\ Placed' = Placed
  BY DEF Begin, BeginSchedule, BeginUnplace, BeginPublish, BeginUnpublish,
         BeginSettings, BeginRetireRoom, BeginContent, Enter, Placed
<1>2. SpeakersNotDoubleBooked'
  BY <1>1 DEF SpeakersInv, SpeakersNotDoubleBooked
<1>3. \A d \in Calls \ {c} : call'[d].op # "schedule"
  BY DEF Begin, BeginSchedule, BeginUnplace, BeginPublish, BeginUnpublish,
         BeginSettings, BeginRetireRoom, BeginContent, Enter, RoomIsFree, Idle,
         AgendaInv, TypeOK
<1>4. call'[c].op = "schedule" => SpeakersSound(call[c])'
  <2>1. ASSUME NEW s \in Submissions, NEW r \in Rooms, NEW w \in Windows,
               NEW t \in Tracks \cup {NoTrack}, BeginSchedule(c, s, r, w, t)
        PROVE  SpeakersSound(call[c])'
    <3>1. call'[c].sub = s /\ call'[c].slot.window = w
      BY <2>1 DEF BeginSchedule, Enter, AgendaInv, TypeOK
    <3>2. ASSUME NEW o \in Placed \ {s}, roster[s] \cap roster[o] # {}
          PROVE  Apart(slots[o].window, w)
      <4>1. slots[o].window \in Windows
        BY DEF Placed, AgendaInv, TypeOK, Slots
      <4>2. ~Overlap(w, slots[o].window)
        BY <2>1, <3>2 DEF BeginSchedule, MaySchedule, SpeakersTaken, PlacedDuring
      <4> QED
        BY <4>1, <4>2, WindowTypes
    <3> QED
      BY <1>1, <3>1, <3>2 DEF SpeakersSound
  <2>2. ASSUME \A s \in Submissions, r \in Rooms, w \in Windows,
                  t \in Tracks \cup {NoTrack} : ~BeginSchedule(c, s, r, w, t)
        PROVE  call'[c].op # "schedule"
    BY <2>2 DEF Begin, BeginUnplace, BeginPublish, BeginUnpublish,
                BeginSettings, BeginRetireRoom, BeginContent, Enter, AgendaInv, TypeOK
  <2> QED
    BY <2>1, <2>2
<1> QED
  BY <1>2, <1>3, <1>4 DEF SpeakersInv

LEMMA CommitKeepsSpeakers ==
    ASSUME AgendaInv, SpeakersInv, NEW c \in Calls, Commit(c) \/ RoomFails(c)
    PROVE  SpeakersInv'
<1>1. call[c] # Idle /\ Leave(c) /\ UNCHANGED roster
  BY DEF Commit, CommitSchedule, CommitUnplace, CommitPublication,
         CommitSettings, CommitRetireRoom, CommitContent, RoomFails, Idle
<1>2. \A d \in Calls : call'[d] = Idle
  BY <1>1, LeaveEmpties DEF AgendaInv
<1>3. \A d \in Calls : call'[d].op # "schedule"
  BY <1>2 DEF Idle
<1>4. SpeakersNotDoubleBooked'
  <2>1. CASE CommitSchedule(c)
    <3>1. call[c] \in ScheduleCalls /\ SpeakersSound(call[c])
      BY <2>1, CallTypes DEF CommitSchedule, AgendaInv, SpeakersInv
    <3> PICK k \in ScheduleCalls : k = call[c]
      BY <3>1
    <3>2. /\ k.sub \in Submissions
          /\ slots'[k.sub] = k.slot
          /\ \A o \in Submissions \ {k.sub} : slots'[o] = slots[o]
      BY <2>1, <3>1 DEF CommitSchedule, ScheduleCalls, AgendaInv, TypeOK
    <3> SUFFICES ASSUME NEW a \in Placed', NEW b \in Placed', a # b,
                        roster[a] \cap roster[b] # {}
                 PROVE  Apart(slots'[a].window, slots'[b].window)
      BY <1>1 DEF SpeakersNotDoubleBooked
    <3>3. a \in Submissions /\ b \in Submissions
      BY DEF Placed
    <3>4. CASE a # k.sub /\ b # k.sub
      BY <3>2, <3>3, <3>4 DEF SpeakersInv, SpeakersNotDoubleBooked, Placed
    <3>5. CASE b = k.sub
      BY <3>1, <3>2, <3>3, <3>5 DEF SpeakersSound, Placed
    <3>6. CASE a = k.sub
      <4>1. roster[k.sub] \cap roster[b] # {} /\ b \in Placed \ {k.sub}
        BY <3>2, <3>3, <3>6 DEF Placed
      <4> QED
        BY <3>1, <3>2, <3>3, <3>6, <4>1 DEF SpeakersSound, Apart
    <3> QED
      BY <3>4, <3>5, <3>6
  <2>2. CASE CommitUnplace(c)
    <3>1. /\ call[c].sub \in Submissions
          /\ \A o \in Placed' : o \in Placed /\ slots'[o] = slots[o]
      BY <2>2, CallTypes DEF CommitUnplace, UnplaceCalls, AgendaInv, TypeOK, Placed
    <3> QED
      BY <1>1, <3>1 DEF SpeakersInv, SpeakersNotDoubleBooked
  <2>3. CASE UNCHANGED slots
    BY <1>1, <2>3 DEF SpeakersInv, SpeakersNotDoubleBooked, Placed
  <2> QED
    BY <2>1, <2>2, <2>3 DEF Commit, CommitPublication, CommitSettings,
                            CommitRetireRoom, CommitContent, RoomFails
<1> QED
  BY <1>3, <1>4 DEF SpeakersInv

\* As long as rosters stay as they are, and no step of the room changes them, no
\* speaker is in two places at one time, however its calls overlap
\* (detectConflicts, EventRoom.ts:161-190).
THEOREM SpeakersHold == Spec => []SpeakersNotDoubleBooked
<1>1. Init => SpeakersInv
  BY DEF Init, SpeakersInv, SpeakersNotDoubleBooked, Placed, Idle
<1>2. AgendaInv /\ SpeakersInv /\ [Next]_vars => SpeakersInv'
  <2> SUFFICES ASSUME AgendaInv, SpeakersInv, [Next]_vars
               PROVE  SpeakersInv'
    OBVIOUS
  <2>1. CASE Configure \/ UNCHANGED vars
    <3>1. UNCHANGED <<slots, roster, call>>
      BY <2>1 DEF Configure, CreateRoom, CreateTrack, RetireTrack, vars
    <3> QED
      BY <3>1 DEF SpeakersInv, SpeakersNotDoubleBooked, SpeakersSound, Placed
  <2> QED
    BY <2>1, BeginKeepsSpeakers, CommitKeepsSpeakers DEF Next
<1>3. SpeakersInv => SpeakersNotDoubleBooked
  BY DEF SpeakersInv
<1> QED
  BY <1>1, <1>2, <1>3, AgendaHolds, PTL DEF Spec

-----------------------------------------------------------------------------
\* What a publication concluded of the texts, and a move of the status, is
\* true at its batch.
TextsSound(k) ==
    /\ k.op = "publication" /\ k.target = "published" /\ ~k.approve
         => \A s \in k.subs : content[s] = "approved"
    /\ k.op = "schedule" /\ k.status = "published" => status[k.sub] = "published"

TextsInv == \A c \in Calls : TextsSound(call[c])

LEMMA BeginKeepsTexts ==
    ASSUME AgendaInv, TextsInv, NEW c \in Calls, Begin(c)
    PROVE  TextsInv'
<1>1. UNCHANGED <<status, content>>
  BY DEF Begin, BeginSchedule, BeginUnplace, BeginPublish, BeginUnpublish,
         BeginSettings, BeginRetireRoom, BeginContent, Enter
<1>2. ASSUME NEW d \in Calls \ {c} PROVE TextsSound(call[d])'
  BY DEF Begin, BeginSchedule, BeginUnplace, BeginPublish, BeginUnpublish,
         BeginSettings, BeginRetireRoom, BeginContent, Enter, RoomIsFree, Idle,
         AgendaInv, TypeOK, TextsSound
<1>3. ASSUME NEW k, Enter(c, k), TextsSound(k) PROVE TextsSound(call[c])'
  <2>1. call'[c] = k
    BY <1>3 DEF Enter, AgendaInv, TypeOK
  <2> QED
    BY <1>1, <1>3, <2>1 DEF TextsSound
<1>4. TextsSound(call[c])'
  <2>1. ASSUME NEW s \in Submissions, NEW r \in Rooms, NEW w \in Windows,
               NEW t \in Tracks \cup {NoTrack}, BeginSchedule(c, s, r, w, t)
        PROVE  TextsSound(call[c])'
    BY <2>1, <1>3 DEF BeginSchedule, ScheduledStatus, TextsSound
  <2>2. ASSUME NEW S \in SUBSET Submissions, NEW a \in BOOLEAN,
               BeginPublish(c, S, a)
        PROVE  TextsSound(call[c])'
    BY <2>2, <1>3 DEF BeginPublish, MayPublish, TextsSound
  <2>3. ASSUME NEW S \in SUBSET Submissions, BeginUnpublish(c, S)
        PROVE  TextsSound(call[c])'
    BY <2>3, <1>3 DEF BeginUnpublish, TextsSound
  <2>4. ASSUME \/ \E s \in Submissions : BeginUnplace(c, s)
               \/ \E h \in HoursChoices, p \in Policies : BeginSettings(c, h, p)
               \/ \E r \in Rooms : BeginRetireRoom(c, r)
               \/ \E s \in Submissions, ch \in ContentChanges : BeginContent(c, s, ch)
        PROVE  TextsSound(call[c])'
    BY <2>4, <1>3 DEF BeginUnplace, BeginSettings, BeginRetireRoom,
                      BeginContent, TextsSound
  <2> QED
    BY <2>1, <2>2, <2>3, <2>4 DEF Begin
<1> QED
  BY <1>2, <1>4 DEF TextsInv

LEMMA EndKeepsTexts ==
    ASSUME AgendaInv, NEW c \in Calls, Commit(c) \/ RoomFails(c)
    PROVE  TextsInv'
<1>1. call[c] # Idle /\ Leave(c)
  BY DEF Commit, CommitSchedule, CommitUnplace, CommitPublication,
         CommitSettings, CommitRetireRoom, CommitContent, RoomFails, Idle
<1>2. \A d \in Calls : call'[d] = Idle
  BY <1>1, LeaveEmpties DEF AgendaInv
<1> QED
  BY <1>2 DEF TextsInv, TextsSound, Idle

LEMMA CommitPublishesApproved ==
    ASSUME AgendaInv, TextsInv, NEW c \in Calls, Commit(c),
           NEW s \in Submissions,
           status[s] # "published", status'[s] = "published"
    PROVE  content'[s] = "approved"
<1>1. CASE CommitSchedule(c)
  <2>1. call[c] \in ScheduleCalls /\ call[c].op = "schedule"
    BY <1>1, CallTypes DEF CommitSchedule, AgendaInv
  <2>2. s = call[c].sub /\ call[c].status = "published"
    BY <1>1, <2>1 DEF CommitSchedule, ScheduleCalls, AgendaInv, TypeOK
  <2> QED
    BY <2>1, <2>2 DEF TextsInv, TextsSound
<1>2. CASE CommitPublication(c)
  <2>1. call[c] \in PublicationCalls /\ call[c].op = "publication"
    BY <1>2, CallTypes DEF CommitPublication, AgendaInv
  <2>2. s \in call[c].subs /\ call[c].target = "published"
    BY <1>2 DEF CommitPublication
  <2>3. call[c].approve \/ content[s] = "approved"
    BY <2>1, <2>2 DEF TextsInv, TextsSound, PublicationCalls
  <2> QED
    BY <1>2, <2>2, <2>3 DEF CommitPublication
<1>3. CASE CommitUnplace(c)
  <2>1. call[c].sub \in Submissions
    BY <1>3, CallTypes DEF CommitUnplace, AgendaInv, UnplaceCalls
  <2> QED
    BY <1>3, <2>1 DEF CommitUnplace, AgendaInv, TypeOK
<1> QED
  BY <1>1, <1>2, <1>3 DEF Commit, CommitSettings, CommitRetireRoom, CommitContent

\* A session becomes public only at a moment when its current text is the
\* approved one, although texts are edited by calls of their own
\* (prepareContentApprovals, EventRoom.ts:355-382).  Of what happens to the text
\* of a session that is public already nothing is said.
THEOREM TextsHold == Spec => PublishedTextIsApproved
<1>1. Init => TextsInv
  BY DEF Init, TextsInv, TextsSound, Idle
<1>2. AgendaInv /\ TextsInv /\ [Next]_vars => TextsInv'
  <2> SUFFICES ASSUME AgendaInv, TextsInv, [Next]_vars
               PROVE  TextsInv'
    OBVIOUS
  <2>1. CASE Configure \/ UNCHANGED vars
    <3>1. UNCHANGED <<status, content, call>>
      BY <2>1 DEF Configure, CreateRoom, CreateTrack, RetireTrack, vars
    <3> QED
      BY <3>1 DEF TextsInv, TextsSound
  <2> QED
    BY <2>1, BeginKeepsTexts, EndKeepsTexts DEF Next
<1>3. AgendaInv /\ TextsInv /\ [Next]_vars =>
        [\A s \in Submissions :
            status[s] # "published" /\ status'[s] = "published"
                => content'[s] = "approved"]_vars
  <2> SUFFICES ASSUME AgendaInv, TextsInv, Next, NEW s \in Submissions,
                      status[s] # "published", status'[s] = "published"
               PROVE  content'[s] = "approved"
    OBVIOUS
  <2>1. \E c \in Calls : Commit(c)
    BY BeginKeepsSlots DEF Next, Configure, CreateRoom, CreateTrack, RetireTrack
  <2> QED
    BY <2>1, CommitPublishesApproved
<1> QED
  BY <1>1, <1>2, <1>3, AgendaHolds, PTL DEF Spec, PublishedTextIsApproved

-----------------------------------------------------------------------------
\* What a placement concluded of its track is true at its batch, although
\* tracks come and go past the queue: a track on a slot has been created, so
\* that it cannot become active again.
TrackSound(k) ==
    /\ k.slot.track \in Tracks => tracks[k.slot.track] # "unborn"
    /\ policy = "hard" /\ k.slot.track \in ActiveTracks
         => \A o \in Placed \ {k.sub} :
               slots[o].track = k.slot.track
                   => Apart(slots[o].window, k.slot.window)

TracksInv ==
    /\ \A s \in Placed :
          slots[s].track \in Tracks => tracks[slots[s].track] # "unborn"
    /\ \A c \in Calls : call[c].op = "schedule" => TrackSound(call[c])

LEMMA BeginKeepsTracks ==
    ASSUME AgendaInv, TracksInv, NEW c \in Calls, Begin(c)
    PROVE  TracksInv'
<1>1. UNCHANGED <<slots, tracks, policy>> /\ Placed' = Placed
  BY DEF Begin, BeginSchedule, BeginUnplace, BeginPublish, BeginUnpublish,
         BeginSettings, BeginRetireRoom, BeginContent, Enter, Placed
<1>2. \A d \in Calls \ {c} : call'[d].op # "schedule"
  BY DEF Begin, BeginSchedule, BeginUnplace, BeginPublish, BeginUnpublish,
         BeginSettings, BeginRetireRoom, BeginContent, Enter, RoomIsFree, Idle,
         AgendaInv, TypeOK
<1>3. call'[c].op = "schedule" => TrackSound(call[c])'
  <2>1. ASSUME NEW s \in Submissions, NEW r \in Rooms, NEW w \in Windows,
               NEW t \in Tracks \cup {NoTrack}, BeginSchedule(c, s, r, w, t)
        PROVE  TrackSound(call[c])'
    <3>1. call'[c].sub = s /\ call'[c].slot.window = w /\ call'[c].slot.track = t
      BY <2>1 DEF BeginSchedule, Enter, AgendaInv, TypeOK
    <3>2. t \in Tracks => tracks[t] # "unborn"
      BY <2>1, NullAssumption
         DEF BeginSchedule, MaySchedule, ActiveTracks, KeptTrack, TracksInv
    <3>3. ASSUME policy = "hard", t \in ActiveTracks,
                 NEW o \in Placed \ {s}, slots[o].track = t
          PROVE  Apart(slots[o].window, w)
      <4>1. slots[o].window \in Windows
        BY DEF Placed, AgendaInv, TypeOK, Slots
      <4>2. ~Overlap(w, slots[o].window)
        BY <2>1, <3>3 DEF BeginSchedule, MaySchedule, HardTrackClash, TrackTaken,
                          PlacedDuring
      <4> QED
        BY <4>1, <4>2, WindowTypes
    <3> QED
      BY <1>1, <3>1, <3>2, <3>3 DEF TrackSound, ActiveTracks
  <2>2. ASSUME \A s \in Submissions, r \in Rooms, w \in Windows,
                  t \in Tracks \cup {NoTrack} : ~BeginSchedule(c, s, r, w, t)
        PROVE  call'[c].op # "schedule"
    BY <2>2 DEF Begin, BeginUnplace, BeginPublish, BeginUnpublish,
                BeginSettings, BeginRetireRoom, BeginContent, Enter, AgendaInv, TypeOK
  <2> QED
    BY <2>1, <2>2
<1> QED
  BY <1>1, <1>2, <1>3 DEF TracksInv

LEMMA EndKeepsTracks ==
    ASSUME AgendaInv, TracksInv, NEW c \in Calls, Commit(c) \/ RoomFails(c)
    PROVE  TracksInv'
<1>1. call[c] # Idle /\ Leave(c) /\ UNCHANGED tracks
  BY DEF Commit, CommitSchedule, CommitUnplace, CommitPublication,
         CommitSettings, CommitRetireRoom, CommitContent, RoomFails, Idle
<1>2. \A d \in Calls : call'[d].op # "schedule"
  BY <1>1, LeaveEmpties DEF AgendaInv, Idle
<1>3. ASSUME NEW s \in Placed', slots'[s].track \in Tracks
      PROVE  tracks[slots'[s].track] # "unborn"
  <2>1. CASE CommitSchedule(c)
    <3>1. call[c] \in ScheduleCalls /\ TrackSound(call[c])
      BY <2>1, CallTypes DEF CommitSchedule, AgendaInv, TracksInv
    <3> QED
      BY <1>3, <2>1, <3>1 DEF CommitSchedule, ScheduleCalls, TrackSound, Placed,
                              AgendaInv, TypeOK, TracksInv
  <2>2. CASE CommitUnplace(c)
    <3>1. call[c].sub \in Submissions
      BY <2>2, CallTypes DEF CommitUnplace, AgendaInv, UnplaceCalls
    <3> QED
      BY <1>3, <2>2, <3>1 DEF CommitUnplace, Placed, AgendaInv, TypeOK, TracksInv
  <2>3. CASE UNCHANGED slots
    BY <1>3, <2>3 DEF TracksInv, Placed
  <2> QED
    BY <2>1, <2>2, <2>3 DEF Commit, CommitPublication, CommitSettings,
                            CommitRetireRoom, CommitContent, RoomFails
<1> QED
  BY <1>1, <1>2, <1>3 DEF TracksInv

LEMMA ConfigureKeepsTracks ==
    ASSUME AgendaInv, TracksInv, Configure
    PROVE  TracksInv'
<1>1. UNCHANGED <<slots, policy, call>> /\ Placed' = Placed
  BY DEF Configure, CreateRoom, CreateTrack, RetireTrack, Placed
<1>2. \A t \in Tracks : /\ tracks[t] # "unborn" => tracks'[t] # "unborn"
                        /\ tracks[t] # "unborn" /\ t \in ActiveTracks'
                              => t \in ActiveTracks
  BY DEF Configure, CreateRoom, CreateTrack, RetireTrack, ActiveTracks,
         AgendaInv, TypeOK
<1>3. ActiveTracks' \subseteq Tracks
  BY DEF ActiveTracks
<1>4. ASSUME NEW c \in Calls, call[c].op = "schedule"
      PROVE  TrackSound(call[c])'
  <2>1. TrackSound(call[c])
    BY <1>4 DEF TracksInv
  <2> QED
    BY <1>1, <1>2, <1>3, <2>1 DEF TrackSound
<1> QED
  BY <1>1, <1>2, <1>4 DEF TracksInv

LEMMA CommitKeepsTracksApart ==
    ASSUME AgendaInv, TracksInv, NEW c \in Calls, Commit(c),
           NEW s \in Submissions, slots'[s] \notin {slots[s], NoSlot},
           policy = "hard", slots'[s].track \in ActiveTracks,
           NEW o \in Placed \ {s}, slots[o].track = slots'[s].track
    PROVE  Apart(slots[o].window, slots'[s].window)
<1>1. CASE CommitSchedule(c)
  <2>1. call[c] \in ScheduleCalls /\ TrackSound(call[c])
    BY <1>1, CallTypes DEF CommitSchedule, AgendaInv, TracksInv
  <2>2. s = call[c].sub /\ slots'[s] = call[c].slot
    BY <1>1, <2>1 DEF CommitSchedule, ScheduleCalls, AgendaInv, TypeOK
  <2> QED
    BY <2>1, <2>2 DEF TrackSound
<1>2. CASE CommitUnplace(c)
  BY <1>2 DEF CommitUnplace, AgendaInv, TypeOK
<1> QED
  BY <1>1, <1>2 DEF Commit, CommitPublication, CommitSettings,
                    CommitRetireRoom, CommitContent

\* No step that places or moves a session under the hard policy has it on an active
\* track, new or kept, at a time the track is in use, although tracks come and go past
\* the queue (EventRoom.ts:178-190, configuration.ts:185-231).  What was placed under
\* another policy, or while the track was retired, may overlap.
THEOREM TracksHold == Spec => HardTracksHold
<1>1. Init => TracksInv
  BY DEF Init, TracksInv, Placed, Idle
<1>2. AgendaInv /\ TracksInv /\ [Next]_vars => TracksInv'
  <2> SUFFICES ASSUME AgendaInv, TracksInv, [Next]_vars
               PROVE  TracksInv'
    OBVIOUS
  <2>1. CASE UNCHANGED vars
    BY <2>1 DEF vars, TracksInv, TrackSound, Placed, ActiveTracks
  <2> QED
    BY <2>1, BeginKeepsTracks, EndKeepsTracks, ConfigureKeepsTracks DEF Next
<1>3. AgendaInv /\ TracksInv /\ [Next]_vars =>
        [\A s \in Submissions :
            /\ slots'[s] \notin {slots[s], NoSlot}
            /\ policy = "hard"
            /\ slots'[s].track \in ActiveTracks
            => \A o \in Placed \ {s} :
                  slots[o].track = slots'[s].track
                      => Apart(slots[o].window, slots'[s].window)]_vars
  <2> SUFFICES ASSUME AgendaInv, TracksInv, Next, NEW s \in Submissions,
                      slots'[s] \notin {slots[s], NoSlot}, policy = "hard",
                      slots'[s].track \in ActiveTracks,
                      NEW o \in Placed \ {s}, slots[o].track = slots'[s].track
               PROVE  Apart(slots[o].window, slots'[s].window)
    OBVIOUS
  <2>1. \E c \in Calls : Commit(c)
    BY BeginKeepsSlots DEF Next, Configure, CreateRoom, CreateTrack, RetireTrack
  <2> QED
    BY <2>1, CommitKeepsTracksApart
<1> QED
  BY <1>1, <1>2, <1>3, AgendaHolds, PTL DEF Spec, HardTracksHold
=============================================================================
