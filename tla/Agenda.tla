------------------------------- MODULE Agenda -------------------------------
(***************************************************************************)
(* What the agenda promises to the people who look at it, with no queue,   *)
(* no database reads and no handlers: sessions are placed in a room for a  *)
(* window of time or not placed, some placed sessions are public, and      *)
(* every change of a session's placement is a new calendar edition of it.  *)
(*                                                                         *)
(* The event room (module EventRoom) and the whole programme with its      *)
(* unsynchronised decision handlers (module Programme) implement this      *)
(* specification.                                                          *)
(***************************************************************************)
EXTENDS Integers

CONSTANTS
    Submissions,    \* the sessions that may be placed
    Rooms,          \* the rooms of the venue
    Windows,        \* the intervals of time a session may take
    Unplaced        \* the placement of a session that is not on the agenda

VARIABLES
    placement,      \* [Submissions -> room and window, or Unplaced]
    public,         \* the sessions the public schedule may show
    edition         \* the calendar edition of each session, -1 for none

vars == <<placement, public, edition>>

Placements == [room : Rooms, window : Windows]

\* What the theorems about this module assume of its constants.
UnplacedIsNoPlacement == Unplaced \notin Placements

Overlap(v, w) == v.from < w.to /\ w.from < v.to

Clash(p, q) == p.room = q.room /\ Overlap(p.window, q.window)

Placed == {s \in Submissions : placement[s] # Unplaced}

-----------------------------------------------------------------------------
Init ==
    /\ placement = [s \in Submissions |-> Unplaced]
    /\ public = {}
    /\ edition = [s \in Submissions |-> -1]

\* Only the calendar edition of s changes, and it grows.
NewEdition(s) ==
    /\ edition'[s] \in Int
    /\ edition'[s] > edition[s]
    /\ edition' = [edition EXCEPT ![s] = edition'[s]]

\* A session is placed or moved.  Placing may change whether it is public,
\* because the status of a session is written together with its slot.
Place(s, p) ==
    /\ \A o \in Placed \ {s} : ~Clash(p, placement[o])
    /\ placement' = [placement EXCEPT ![s] = p]
    /\ NewEdition(s)
    /\ public' \in {public, public \cup {s}, public \ {s}}

Unplace(s) ==
    /\ s \in Placed
    /\ placement' = [placement EXCEPT ![s] = Unplaced]
    /\ NewEdition(s)
    /\ public' = public \ {s}

\* Sessions go public together, and only from the agenda.
Publish(S) ==
    /\ S \subseteq Placed
    /\ public' = public \cup S
    /\ UNCHANGED <<placement, edition>>

Retract(S) ==
    /\ public' = public \ S
    /\ UNCHANGED <<placement, edition>>

Next ==
    \/ \E s \in Submissions :
          \/ \E p \in Placements : Place(s, p)
          \/ Unplace(s)
    \/ \E S \in SUBSET Submissions : Publish(S) \/ Retract(S)

Spec == Init /\ [][Next]_vars

-----------------------------------------------------------------------------
TypeOK ==
    /\ placement \in [Submissions -> Placements \cup {Unplaced}]
    /\ public \subseteq Submissions
    /\ edition \in [Submissions -> Int]

\* Nothing public is off the agenda.
PublicIsPlaced == public \subseteq Placed

\* No room holds two sessions at once.
NoDoubleBooking ==
    \A s, o \in Placed : s # o => ~Clash(placement[s], placement[o])
=============================================================================
