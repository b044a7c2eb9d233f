----------------------------- MODULE MCProgramme -----------------------------
(* Small instances of Programme for TLC. *)
EXTENDS Programme, TLC

CONSTANTS s1, s2, r1, r2, t1, p1, c1, q1, q2

Morning == [from |-> 0, to |-> 2]
Midday  == [from |-> 1, to |-> 3]   \* overlaps Morning

OneWindow == {Morning}
TwoWindows == {Morning, Midday}
AllHours == {Windows}

Symmetry == Permutations(Submissions) \cup Permutations(Rooms)

-----------------------------------------------------------------------------
(* No tracks, every room open at first, and the hours and the texts left     *)
(* alone: what remains is who writes the status, and when.                   *)

QuietInit ==
    /\ ProgrammeInit
    /\ ActiveRooms = Rooms
    /\ policy = "allow"

QuietCall(c) ==
    \/ \E s \in Submissions, r \in Rooms, w \in Windows :
          BeginSchedule(c, s, r, w, NoTrack)
    \/ \E s \in Submissions : BeginUnplace(c, s)
    \/ \E S \in SUBSET Submissions : BeginPublish(c, S, TRUE)
    \/ \E S \in SUBSET Submissions : BeginUnpublish(c, S)
    \/ \E r \in Rooms : BeginRetireRoom(c, r)
    \/ Commit(c)
    \/ RoomFails(c)

QuietNext ==
    \/ \E q \in Requests : StartRequest(q) \/ Proceed(q) \/ Abort(q)
    \/ \E q \in Requests : TakeUnplace(q) \/ FinishUnplace(q)
    \/ \E c \in Calls \ Requests : QuietCall(c) /\ UNCHANGED req
    \/ \E s \in Submissions, people \in SUBSET People : ChangeRoster(s, people)

QuietSpec == QuietInit /\ [][QuietNext]_allVars

FairQuietSpec == QuietSpec /\ Fairness
=============================================================================
