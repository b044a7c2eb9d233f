----------------------------- MODULE MCEventRoom -----------------------------
(***************************************************************************)
(* Two small instances of EventRoom for TLC in one: "placing" with three   *)
(* windows and two callers, and "operating" with every call and every      *)
(* configuration handler, tracks and settings that change, and one caller. *)
(***************************************************************************)
EXTENDS EventRoom, TLC

CONSTANTS s1, s2, r1, r2, t1, t2, p1, c1, c2

VARIABLE asked      \* which of the two this behaviour is

roomVars == <<vars, asked>>

Morning == [from |-> 0, to |-> 2]
Midday  == [from |-> 1, to |-> 3]   \* overlaps both others
Evening == [from |-> 2, to |-> 4]   \* starts when Morning ends

TwoWindows == {Morning, Midday}
ThreeWindows == {Morning, Midday, Evening}

\* Settings that admit every window, and settings an organizer may shorten.
ShiftingHours == {TwoWindows, {Morning}}
HoursOfBoth == ShiftingHours \cup {ThreeWindows}

OnePrivate == {s2}

Symmetry == Permutations(Calls) \cup Permutations(Rooms) \cup Permutations(Tracks)

-----------------------------------------------------------------------------
(* Placing: all rooms are open, nothing is configured or edited meanwhile,  *)
(* and the two sessions have one speaker in common or none at all.          *)

PlacingInit ==
    /\ Init
    /\ asked = "placing"
    /\ roster[s1] = roster[s2]
    /\ ActiveRooms = Rooms
    /\ ActiveTracks = {}
    /\ hours = ThreeWindows
    /\ policy = "allow"

PlacingCall(c) ==
    \/ \E s \in Submissions, r \in Rooms, w \in Windows :
          BeginSchedule(c, s, r, w, NoTrack)
    \/ \E s \in Submissions : BeginUnplace(c, s)
    \/ \E S \in SUBSET Submissions : BeginPublish(c, S, TRUE)
    \/ \E S \in SUBSET Submissions : BeginUnpublish(c, S)
    \/ BeginSettings(c, hours, policy)  \* saving them unchanged
    \/ Commit(c)
    \/ RoomFails(c)

-----------------------------------------------------------------------------
(* Operating: every call and every configuration handler, with sessions     *)
(* that have no speakers, start accepted and are placed once at a time.     *)

OperatingInit ==
    /\ Init
    /\ asked = "operating"
    /\ roster = [s \in Submissions |-> {}]
    /\ status = [s \in Submissions |-> "accepted"]
    /\ hours \in ShiftingHours

FirstPlacing(record) ==
    /\ record.op = "schedule" => record.sequence <= 1
    /\ record.op = "settings" => record.hours \in ShiftingHours

OperatingNext ==
    /\ \/ Begin(c1) \/ Commit(c1) \/ RoomFails(c1)
       \/ Configure
    /\ FirstPlacing(call'[c1])

-----------------------------------------------------------------------------
RoomInit == PlacingInit \/ OperatingInit

RoomNext ==
    /\ \/ asked = "placing" /\ \E c \in Calls : PlacingCall(c)
       \/ asked = "operating" /\ OperatingNext
    /\ UNCHANGED asked

RoomSpec == RoomInit /\ [][RoomNext]_roomVars
=============================================================================
