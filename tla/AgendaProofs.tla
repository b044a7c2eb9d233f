---------------------------- MODULE AgendaProofs ----------------------------
(***************************************************************************)
(* What those who look at the agenda rely on. The promises of the abstract *)
(* agenda are inductive as they stand; the event room and the programme    *)
(* implement it (modules EventRoomProofs and ProgrammeProofs).             *)
(***************************************************************************)
EXTENDS Agenda, TLAPS

Promises == TypeOK /\ PublicIsPlaced /\ NoDoubleBooking

LEMMA ClashIsSymmetric ==
    ASSUME NEW p, NEW q, Clash(p, q)
    PROVE  Clash(q, p)
BY DEF Clash, Overlap

LEMMA PlaceKeepsPromises ==
    ASSUME UnplacedIsNoPlacement, Promises,
           NEW s \in Submissions, NEW p \in Placements, Place(s, p)
    PROVE  Promises'
<1>1. /\ placement'[s] = p
      /\ \A o \in Submissions \ {s} : placement'[o] = placement[o]
      /\ Placed' = Placed \cup {s}
  BY DEF UnplacedIsNoPlacement, Promises, TypeOK, Place, Placed
<1>2. TypeOK'
  BY DEF Promises, TypeOK, Place, NewEdition
<1>3. PublicIsPlaced'
  BY <1>1 DEF Promises, PublicIsPlaced, Place
<1>4. NoDoubleBooking'
  <2> SUFFICES ASSUME NEW a \in Placed', NEW b \in Placed', a # b
               PROVE  ~Clash(placement'[a], placement'[b])
    BY DEF NoDoubleBooking
  <2>1. a \in Submissions /\ b \in Submissions
    BY DEF Placed
  <2>2. CASE a # s /\ b # s
    BY <1>1, <2>1, <2>2 DEF Promises, NoDoubleBooking
  <2>3. CASE a = s
    BY <1>1, <2>1, <2>3 DEF Place
  <2>4. CASE b = s
    BY <1>1, <2>1, <2>4, ClashIsSymmetric DEF Place
  <2> QED
    BY <2>2, <2>3, <2>4
<1> QED
  BY <1>2, <1>3, <1>4 DEF Promises

LEMMA UnplaceKeepsPromises ==
    ASSUME Promises, NEW s \in Submissions, Unplace(s)
    PROVE  Promises'
<1>1. /\ \A o \in Submissions \ {s} : placement'[o] = placement[o]
      /\ Placed' = Placed \ {s}
  BY DEF Promises, TypeOK, Unplace, Placed
<1>2. TypeOK'
  BY DEF Promises, TypeOK, Unplace, NewEdition
<1>3. PublicIsPlaced'
  BY <1>1 DEF Promises, PublicIsPlaced, Unplace
<1>4. NoDoubleBooking'
  BY <1>1 DEF Promises, NoDoubleBooking, Placed
<1> QED
  BY <1>2, <1>3, <1>4 DEF Promises

\* Nothing public is off the agenda, and no room holds two sessions at once.
THEOREM PromisesKept ==
    ASSUME UnplacedIsNoPlacement
    PROVE  Spec => [](PublicIsPlaced /\ NoDoubleBooking)
<1>1. Init => Promises
  BY DEF Init, Promises, TypeOK, PublicIsPlaced, NoDoubleBooking, Placed
<1>2. Promises /\ [Next]_vars => Promises'
  <2> SUFFICES ASSUME Promises, [Next]_vars PROVE Promises'
    OBVIOUS
  <2>1. ASSUME NEW S \in SUBSET Submissions, Publish(S) \/ Retract(S)
        PROVE  Promises'
    BY <2>1 DEF Promises, TypeOK, PublicIsPlaced, NoDoubleBooking, Placed,
                Publish, Retract
  <2>2. CASE UNCHANGED vars
    BY <2>2 DEF vars, Promises, TypeOK, PublicIsPlaced, NoDoubleBooking, Placed
  <2> QED
    BY <2>1, <2>2, PlaceKeepsPromises, UnplaceKeepsPromises DEF Next
<1>3. Promises => PublicIsPlaced /\ NoDoubleBooking
  BY DEF Promises
<1> QED
  BY <1>1, <1>2, <1>3, PTL DEF Spec

=============================================================================
