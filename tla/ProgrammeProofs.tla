--------------------------- MODULE ProgrammeProofs ---------------------------
(***************************************************************************)
(* What no interleaving of the Worker's handlers with the event room can   *)
(* break, for any number of requests and calls; the queue that the room's  *)
(* calls wait in (module SerialQueue) and the connection of a page that    *)
(* follows it (LiveCockpit); and the three side by side (MCLiveDesks).     *)
(***************************************************************************)
EXTENDS MCLiveDesks, EventRoomProofs

\* The room's invariant does not read the status, except that what holds a
\* place must have one: a write that gives no place preserves it.
LEMMA StatusWritePreserves ==
    ASSUME AgendaInv, UNCHANGED room,
           status' \in [Submissions -> Statuses],
           \A s \in Submissions :
              status'[s] \in PlacedStatuses => status'[s] = status[s]
    PROVE  AgendaInv'
<1>1. /\ UNCHANGED <<slots, sequence, content, hours, policy, rooms, tracks,
                     roster, call>>
      /\ Placed' = Placed
  BY DEF room, Placed
<1>2. TypeOK'
  BY <1>1 DEF AgendaInv, TypeOK
<1>3. PlacedHasSlot'
  BY <1>1 DEF AgendaInv, PlacedHasSlot
<1>4. RoomsInService'
  <2> SUFFICES ASSUME NEW s \in Placed, status'[s] \in PlacedStatuses
               PROVE  rooms[slots[s].room] = "active"
    BY <1>1 DEF RoomsInService
  <2>1. status[s] \in PlacedStatuses
    BY DEF Placed
  <2> QED
    BY <2>1 DEF AgendaInv, RoomsInService
<1>5. PendingCallsAreSound'
  <2> SUFFICES ASSUME NEW c \in Calls
               PROVE  /\ call[c].op = "schedule" => ScheduleSound(call[c])'
                      /\ call[c].op = "unplace" => UnplaceSound(call[c])'
                      /\ call[c].op = "publication"
                            => PublicationSound(call[c])'
                      /\ call[c].op = "settings" => SettingsSound(call[c])'
                      /\ call[c].op = "retire" => RetireSound(call[c])'
    BY <1>1 DEF PendingCallsAreSound
  <2>1. call[c].op = "retire" => RetireSound(call[c])'
    <3> SUFFICES ASSUME call[c].op = "retire", NEW s \in Placed,
                        status'[s] \in PlacedStatuses
                 PROVE  slots[s].room # call[c].room
      BY <1>1 DEF RetireSound
    <3>1. status[s] \in PlacedStatuses
      BY DEF Placed
    <3> QED
      BY <3>1 DEF AgendaInv, PendingCallsAreSound, RetireSound
  <2> QED
    BY <1>1, <2>1 DEF AgendaInv, PendingCallsAreSound, ScheduleSound,
                      UnplaceSound, PublicationSound, SettingsSound
<1>6. (RoomsNotDoubleBooked /\ SlotsWithinHours /\ OneCallAtATime)'
  BY <1>1 DEF AgendaInv, RoomsNotDoubleBooked, SlotsWithinHours,
              OneCallAtATime
<1> QED
  BY <1>2, <1>3, <1>4, <1>5, <1>6 DEF AgendaInv

LEMMA RosterPreserves ==
    ASSUME AgendaInv, NEW s \in Submissions, NEW people \in SUBSET People,
           ChangeRoster(s, people)
    PROVE  AgendaInv'
<1>1. /\ UNCHANGED <<status, slots, sequence, content, hours, policy, rooms,
                     tracks, call>>
      /\ Placed' = Placed
  BY DEF ChangeRoster, Placed
<1>2. TypeOK'
  BY <1>1 DEF ChangeRoster, AgendaInv, TypeOK
<1> QED
  BY <1>1, <1>2
     DEF AgendaInv, PlacedHasSlot, RoomsNotDoubleBooked, SlotsWithinHours,
         RoomsInService, OneCallAtATime, PendingCallsAreSound, ScheduleSound,
         UnplaceSound, PublicationSound, SettingsSound, RetireSound

(* The steps of the programme, sorted by what they do to the agenda. *)

\* A step of a Worker handler either leaves the database alone, or writes a
\* status that gives no place.
LEMMA WorkerSteps ==
    ASSUME ProgrammeInv, NEW q \in Requests,
           StartRequest(q) \/ Proceed(q) \/ Abort(q) \/ UnplaceRefused(q)
    PROVE  /\ UNCHANGED room
           /\ status' \in [Submissions -> Statuses]
           /\ \A s \in Submissions :
                status'[s] \in PlacedStatuses => status'[s] = status[s]
<1>1. status \in [Submissions -> Statuses]
  BY DEF ProgrammeInv, AgendaInv, TypeOK
<1>2. CASE StartRequest(q) \/ DecideRead(q) \/ FindSlot(q) \/ Reread(q)
             \/ Abort(q) \/ UnplaceRefused(q)
  BY <1>1, <1>2 DEF StartRequest, StartDecide, StartNotify, StartWithdraw,
                    StartRestore, StartScore, Start, DecideRead, FindSlot,
                    Reread, Abort, UnplaceRefused, Goto, Answer
<1>3. CASE WriteStatus(q)
  <2>1. req[q] \in ActiveRequests
    BY <1>3 DEF WriteStatus, ProgrammeInv, ProgrammeTypeOK, NoRequest
  <2>2. /\ req[q].sub \in Submissions
        /\ req[q].target \in Statuses
        /\ req[q].target \notin PlacedStatuses
    BY <1>3, <2>1 DEF WriteStatus, NoRequest, ActiveRequests, ProgrammeInv,
                      WorkersNeverPlace
  <2> QED
    BY <1>1, <1>3, <2>2 DEF WriteStatus
<1> QED
  BY <1>2, <1>3 DEF Proceed

\* A decision never targets a place in the programme.
LEMMA DecisionTargets ==
    \A verdict \in DecisionActions :
        TargetStatus[verdict] \in Statuses \ PlacedStatuses
<1> SUFFICES ASSUME NEW verdict \in DecisionActions
             PROVE  TargetStatus[verdict] \in Statuses \ PlacedStatuses
  OBVIOUS
<1>1. /\ TargetStatus["accept"] = "accepted"
      /\ TargetStatus["waitlist"] = "waitlisted"
      /\ TargetStatus["reject"] = "rejected"
  BY DEF TargetStatus
<1>2. verdict \in {"accept", "waitlist", "reject"}
  BY DEF DecisionActions
<1>3. {"accepted", "waitlisted", "rejected"} \subseteq Statuses \ PlacedStatuses
  BY DEF Statuses, PlacedStatuses
<1> QED
  BY <1>1, <1>2, <1>3

\* The decision whose e-mail belongs to an outcome leads to that outcome.
LEMMA NotifyTargets ==
    \A outcome \in DecisionOutcomes :
        TargetStatus[ActionForOutcome(outcome)] = outcome
<1> SUFFICES ASSUME NEW outcome \in DecisionOutcomes
             PROVE  TargetStatus[ActionForOutcome(outcome)] = outcome
  OBVIOUS
<1>1. \E verdict \in DecisionActions : TargetStatus[verdict] = outcome
  <2>1. outcome \in {"accepted", "rejected", "waitlisted"}
    BY DEF DecisionOutcomes
  <2>2. /\ TargetStatus["accept"] = "accepted"
        /\ TargetStatus["waitlist"] = "waitlisted"
        /\ TargetStatus["reject"] = "rejected"
    BY DEF TargetStatus
  <2>3. {"accept", "waitlist", "reject"} = DecisionActions
    BY DEF DecisionActions
  <2> QED
    BY <2>1, <2>2, <2>3
<1> QED
  BY <1>1 DEF ActionForOutcome

LEMMA StartKeepsRequests ==
    ASSUME ProgrammeInv, NEW q \in Requests, StartRequest(q)
    PROVE  /\ req' \in [Requests -> ActiveRequests \cup {NoRequest}]
           /\ WorkersNeverPlace'
<1>1. ASSUME NEW s \in Submissions, NEW kind \in RequestKinds,
             NEW point \in RequestPoints,
             NEW target \in Statuses \ PlacedStatuses,
             Start(q, kind, point, s, target)
      PROVE  /\ req' \in [Requests -> ActiveRequests \cup {NoRequest}]
             /\ WorkersNeverPlace'
  <2> DEFINE r == [kind |-> kind, pc |-> point, sub |-> s, target |-> target]
  <2>1. r \in ActiveRequests /\ r.target = target
    BY DEF ActiveRequests
  <2>2. req' = [req EXCEPT ![q] = r]
    BY <1>1 DEF Start
  <2> HIDE DEF r
  <2> QED
    BY <2>1, <2>2 DEF ProgrammeInv, ProgrammeTypeOK, WorkersNeverPlace
<1>2. PICK s \in Submissions :
        \/ \E verdict \in DecisionActions : StartDecide(q, s, verdict)
        \/ StartNotify(q, s)
        \/ StartWithdraw(q, s)
        \/ StartRestore(q, s)
        \/ StartScore(q, s)
  BY DEF StartRequest
<1> USE DEF RequestKinds, RequestPoints
<1>3. {"withdrawn", "under_review"} \subseteq Statuses \ PlacedStatuses
  BY DEF Statuses, PlacedStatuses
<1>4. ASSUME NEW verdict \in DecisionActions, StartDecide(q, s, verdict)
      PROVE  /\ req' \in [Requests -> ActiveRequests \cup {NoRequest}]
             /\ WorkersNeverPlace'
  BY <1>1, <1>4, DecisionTargets DEF StartDecide
<1>5. CASE StartNotify(q, s)
  <2>1. status[s] \in Statuses \ PlacedStatuses
    BY <1>5 DEF StartNotify, DecisionOutcomes, Statuses, PlacedStatuses
  <2>2. Start(q, "notify", "decide", s, status[s])
    BY <1>5, NotifyTargets DEF StartNotify
  <2> QED
    BY <1>1, <2>1, <2>2
<1>6. CASE StartWithdraw(q, s)
  <2>1. \/ Start(q, "withdraw", "findslot", s, "withdrawn")
        \/ Start(q, "withdraw", "write", s, "withdrawn")
    BY <1>6 DEF StartWithdraw
  <2> QED
    BY <1>1, <1>3, <2>1
<1>7. CASE StartRestore(q, s)
  BY <1>1, <1>3, <1>7 DEF StartRestore, RestoreStatus
<1>8. CASE StartScore(q, s)
  BY <1>1, <1>3, <1>8 DEF StartScore
<1> QED
  BY <1>2, <1>4, <1>5, <1>6, <1>7, <1>8

\* Every other step moves a request along its handler, or ends it.
LEMMA OthersKeepRequests ==
    ASSUME ProgrammeInv, NEW q \in Requests,
           \/ UNCHANGED req
           \/ req' = [req EXCEPT ![q] = NoRequest]
           \/ /\ req[q] # NoRequest
              /\ \E point \in RequestPoints : req' = [req EXCEPT ![q].pc = point]
    PROVE  /\ req' \in [Requests -> ActiveRequests \cup {NoRequest}]
           /\ WorkersNeverPlace'
<1>1. CASE UNCHANGED req
  BY <1>1 DEF ProgrammeInv, ProgrammeTypeOK, WorkersNeverPlace
<1>2. CASE req' = [req EXCEPT ![q] = NoRequest]
  BY <1>2 DEF ProgrammeInv, ProgrammeTypeOK, WorkersNeverPlace
<1>3. ASSUME req[q] # NoRequest,
             NEW point \in RequestPoints, req' = [req EXCEPT ![q].pc = point]
      PROVE  /\ req' \in [Requests -> ActiveRequests \cup {NoRequest}]
             /\ WorkersNeverPlace'
  <2>1. req[q] \in ActiveRequests
    BY <1>3 DEF ProgrammeInv, ProgrammeTypeOK
  <2>2. [req[q] EXCEPT !.pc = point] \in ActiveRequests
    BY <2>1 DEF ActiveRequests
  <2>3. [req[q] EXCEPT !.pc = point].target = req[q].target
    BY <2>1 DEF ActiveRequests
  <2> DEFINE r == [req[q] EXCEPT !.pc = point]
  <2>4. req' = [req EXCEPT ![q] = r]
    BY <1>3
  <2> HIDE DEF r
  <2>5. r \in ActiveRequests /\ r.target = req[q].target
    BY <2>2, <2>3 DEF r
  <2> QED
    BY <1>3, <2>4, <2>5 DEF ProgrammeInv, ProgrammeTypeOK, WorkersNeverPlace
<1> QED
  BY <1>1, <1>2, <1>3

LEMMA StepPreserves == ProgrammeInv /\ [ProgrammeNext]_allVars => ProgrammeInv'
<1> SUFFICES ASSUME ProgrammeInv, [ProgrammeNext]_allVars
             PROVE  ProgrammeInv'
  OBVIOUS
<1>0. AgendaInv /\ Requests \subseteq Calls
  BY RequestsAssumption DEF ProgrammeInv
<1>1. SUFFICES /\ AgendaInv'
               /\ req' \in [Requests -> ActiveRequests \cup {NoRequest}]
               /\ WorkersNeverPlace'
  BY DEF ProgrammeInv, ProgrammeTypeOK, AgendaInv
<1>2. ASSUME NEW q \in Requests,
             StartRequest(q) \/ Proceed(q) \/ Abort(q) \/ UnplaceRefused(q)
      PROVE  /\ AgendaInv'
             /\ req' \in [Requests -> ActiveRequests \cup {NoRequest}]
             /\ WorkersNeverPlace'
  <2>1. AgendaInv'
    BY <1>0, <1>2, WorkerSteps, StatusWritePreserves
  <2>2. CASE StartRequest(q)
    BY <2>1, <2>2, StartKeepsRequests
  <2>3. CASE Proceed(q) \/ Abort(q) \/ UnplaceRefused(q)
    <3>1. \/ req' = [req EXCEPT ![q] = NoRequest]
          \/ /\ req[q] # NoRequest
             /\ \E point \in RequestPoints : req' = [req EXCEPT ![q].pc = point]
      BY <2>3 DEF Proceed, Abort, UnplaceRefused, DecideRead, FindSlot,
                  Reread, WriteStatus, Goto, Answer, NoRequest, RequestPoints
    <3> QED
      BY <2>1, <3>1, OthersKeepRequests
  <2> QED
    BY <1>2, <2>2, <2>3
<1>3. ASSUME NEW q \in Requests, AskUnplace(q) \/ FinishUnplace(q)
      PROVE  /\ AgendaInv'
             /\ req' \in [Requests -> ActiveRequests \cup {NoRequest}]
             /\ WorkersNeverPlace'
  <2>1. q \in Calls
    BY <1>0
  <2>2. CASE AskUnplace(q)
    <3>1. req[q] \in ActiveRequests /\ req[q].sub \in Submissions
      BY <2>2 DEF AskUnplace, ProgrammeInv, ProgrammeTypeOK, NoRequest,
                  ActiveRequests
    <3>2. AgendaInv'
      BY <1>0, <2>1, <2>2, <3>1, BeginUnplacePreserves DEF AskUnplace
    <3> QED
      BY <2>2, <3>2, OthersKeepRequests DEF AskUnplace
  <2>3. CASE UnplaceDone(q)
    <3>1. AgendaInv'
      BY <1>0, <2>1, <2>3, CommitUnplacePreserves DEF UnplaceDone
    <3>2. \/ UNCHANGED req
          \/ /\ req[q] # NoRequest
             /\ \E point \in RequestPoints : req' = [req EXCEPT ![q].pc = point]
      BY <2>3 DEF UnplaceDone, RequestPoints
    <3> QED
      BY <3>1, <3>2, OthersKeepRequests
  <2>4. CASE UnplaceFailed(q)
    <3>1. AgendaInv'
      BY <1>0, <2>1, <2>4, RoomFailsPreserves DEF UnplaceFailed
    <3> QED
      BY <2>4, <3>1, OthersKeepRequests DEF UnplaceFailed
  <2> QED
    BY <1>3, <2>2, <2>3, <2>4 DEF FinishUnplace
<1>4. ASSUME UNCHANGED req, AgendaInv'
      PROVE  /\ AgendaInv'
             /\ req' \in [Requests -> ActiveRequests \cup {NoRequest}]
             /\ WorkersNeverPlace'
  BY <1>4 DEF ProgrammeInv, ProgrammeTypeOK, WorkersNeverPlace
<1>5. ASSUME NEW c \in Calls, OrganizerCall(c), UNCHANGED req
      PROVE  /\ AgendaInv'
             /\ req' \in [Requests -> ActiveRequests \cup {NoRequest}]
             /\ WorkersNeverPlace'
  BY <1>0, <1>4, <1>5, BeginPreserves, CommitPreserves, RoomFailsPreserves
     DEF OrganizerCall
<1>6. ASSUME Configure, UNCHANGED req
      PROVE  /\ AgendaInv'
             /\ req' \in [Requests -> ActiveRequests \cup {NoRequest}]
             /\ WorkersNeverPlace'
  BY <1>0, <1>4, <1>6, ConfigurePreserves
<1>7. ASSUME NEW s \in Submissions, NEW people \in SUBSET People,
             ChangeRoster(s, people)
      PROVE  /\ AgendaInv'
             /\ req' \in [Requests -> ActiveRequests \cup {NoRequest}]
             /\ WorkersNeverPlace'
  <2>1. AgendaInv' /\ UNCHANGED req
    BY <1>0, <1>7, RosterPreserves DEF ChangeRoster
  <2> QED
    BY <2>1, <1>4
<1>8. CASE UNCHANGED allVars
  <2>1. UNCHANGED vars /\ UNCHANGED req
    BY <1>8 DEF allVars, vars
  <2>2. AgendaInv'
    BY <1>0, <2>1, NextPreserves
  <2> QED
    BY <2>1, <2>2, <1>4
<1> QED
  BY <1>2, <1>3, <1>5, <1>6, <1>7, <1>8 DEF ProgrammeNext, TakeUnplace

LEMMA InitProgramme == ProgrammeInit => ProgrammeInv
<1> SUFFICES ASSUME ProgrammeInit PROVE ProgrammeInv
  OBVIOUS
<1>1. AgendaInv
  BY InitAgenda DEF ProgrammeInit
<1>2. \A q \in Requests : req[q] = NoRequest
  BY DEF ProgrammeInit
<1> QED
  BY <1>1, <1>2 DEF ProgrammeInit, ProgrammeInv, ProgrammeTypeOK,
                    WorkersNeverPlace, AgendaInv

\* No interleaving of decisions, withdrawals, restores, scores, roster changes
\* and room calls breaks the agenda's invariant.
THEOREM ProgrammeHolds == ProgrammeSpec => []ProgrammeInv
BY InitProgramme, StepPreserves, PTL DEF ProgrammeSpec

\* In particular: types, slots, rooms and hours, each as the runs check it.
THEOREM ProgrammeSafety ==
    ProgrammeSpec => [](/\ ProgrammeTypeOK
                        /\ PlacedHasSlot
                        /\ RoomsNotDoubleBooked
                        /\ SlotsWithinHours
                        /\ RoomsInService)
<1>1. ProgrammeInv => /\ ProgrammeTypeOK
                      /\ PlacedHasSlot
                      /\ RoomsNotDoubleBooked
                      /\ SlotsWithinHours
                      /\ RoomsInService
  BY DEF ProgrammeInv, AgendaInv
<1> QED
  BY ProgrammeHolds, <1>1, PTL

-----------------------------------------------------------------------------
(* With its handlers outside the room, the programme still implements the   *)
(* abstract agenda: what they write can only take a session off the public  *)
(* schedule.                                                                 *)

LEMMA WorkerRefines ==
    ASSUME ProgrammeInv, NEW q \in Requests,
           StartRequest(q) \/ Proceed(q) \/ Abort(q) \/ UnplaceRefused(q)
    PROVE  [A!Next]_(A!vars)
<1> DEFINE pub == {s \in Submissions : status[s] = "published"}
           gone == pub \ pub'
<1>1. UNCHANGED <<slots, sequence>>
  BY WorkerSteps DEF room
<1>2. UNCHANGED <<[s \in Submissions |-> Placement(s)], sequence>>
  BY <1>1 DEF Placement, Placed
<1>3. pub' \subseteq pub
  BY WorkerSteps DEF PlacedStatuses
<1>4. \E S \in SUBSET Submissions : pub' = pub \ S
  <2>1. pub' = pub \ gone /\ gone \in SUBSET Submissions
    BY <1>3
  <2> QED
    BY <2>1
<1>5. PICK S \in SUBSET Submissions : pub' = pub \ S
  BY <1>4
<1>6. A!Retract(S)
  BY <1>2, <1>5 DEF A!Retract
<1> QED
  BY <1>6 DEF A!Next

\* The whole programme implements the abstract agenda.
THEOREM ProgrammeImplementsAgenda == ProgrammeSpec => ImplementsAgenda
<1>1. ProgrammeInv /\ [ProgrammeNext]_allVars => [A!Next]_(A!vars)
  <2> SUFFICES ASSUME ProgrammeInv, [ProgrammeNext]_allVars
               PROVE  [A!Next]_(A!vars)
    OBVIOUS
  <2>0. AgendaInv /\ Requests \subseteq Calls
    BY RequestsAssumption DEF ProgrammeInv
  <2>1. ASSUME NEW q \in Requests,
               StartRequest(q) \/ Proceed(q) \/ Abort(q) \/ UnplaceRefused(q)
        PROVE  [A!Next]_(A!vars)
    BY <2>1, WorkerRefines
  <2>2. ASSUME NEW q \in Requests, AskUnplace(q) \/ FinishUnplace(q)
        PROVE  [A!Next]_(A!vars)
    <3>1. CASE AskUnplace(q)
      <4>1. UNCHANGED <<status, slots, sequence>>
        BY <3>1 DEF AskUnplace, BeginUnplace, Enter
      <4> QED
        BY <4>1, OthersStutter
    <3>2. CASE UnplaceDone(q)
      BY <2>0, <3>2, CommitUnplaceRefines DEF UnplaceDone, A!Next
    <3>3. CASE UnplaceFailed(q)
      BY <2>0, <3>3, RoomStepRefines DEF UnplaceFailed
    <3> QED
      BY <2>2, <3>1, <3>2, <3>3 DEF FinishUnplace
  <2>3. ASSUME NEW c \in Calls, OrganizerCall(c)
        PROVE  [A!Next]_(A!vars)
    BY <2>0, <2>3, RoomStepRefines DEF OrganizerCall
  <2>4. ASSUME \/ Configure
               \/ \E s \in Submissions, people \in SUBSET People :
                     ChangeRoster(s, people)
               \/ UNCHANGED allVars
        PROVE  [A!Next]_(A!vars)
    <3>1. UNCHANGED <<status, slots, sequence>>
      BY <2>4 DEF Configure, CreateRoom, CreateTrack, RetireTrack,
                  ChangeRoster, allVars
    <3> QED
      BY <3>1, OthersStutter
  <2> QED
    BY <2>1, <2>2, <2>3, <2>4 DEF ProgrammeNext, TakeUnplace
<1> QED
  BY InitRefines, ProgrammeHolds, <1>1, PTL
     DEF ProgrammeSpec, ProgrammeInit, ImplementsAgenda, A!Spec

-----------------------------------------------------------------------------

(***************************************************************************)
(* What the abstract agenda promises (module AgendaProofs) the programme   *)
(* keeps, because it implements it.                                        *)
(***************************************************************************)

Kept == INSTANCE AgendaProofs
        WITH Unplaced  <- NoSlot,
             placement <- [s \in Submissions |-> Placement(s)],
             public    <- {s \in Submissions : status[s] = "published"},
             edition   <- sequence

LEMMA KeptIsTheAgenda ==
    /\ A!Init <=> Kept!Init
    /\ [A!Next]_(A!vars) <=> [Kept!Next]_(Kept!vars)
    /\ A!PublicIsPlaced <=> Kept!PublicIsPlaced
    /\ A!NoDoubleBooking <=> Kept!NoDoubleBooking
<1> USE DEF A!Placed, A!Placements, A!Clash, A!Overlap,
            Kept!Placed, Kept!Placements, Kept!Clash, Kept!Overlap
<1>1. A!Init <=> Kept!Init
  BY DEF A!Init, Kept!Init
<1>2. [A!Next]_(A!vars) <=> [Kept!Next]_(Kept!vars)
  BY DEF A!Next, A!Place, A!Unplace, A!Publish, A!Retract, A!NewEdition, A!vars,
         Kept!Next, Kept!Place, Kept!Unplace, Kept!Publish, Kept!Retract, Kept!NewEdition,
         Kept!vars
<1>3. A!PublicIsPlaced <=> Kept!PublicIsPlaced
  BY DEF A!PublicIsPlaced, Kept!PublicIsPlaced
<1>4. A!NoDoubleBooking <=> Kept!NoDoubleBooking
  BY DEF A!NoDoubleBooking, Kept!NoDoubleBooking
<1> QED
  BY <1>1, <1>2, <1>3, <1>4

\* However the handlers interleave with the room, nothing the public schedule
\* shows is off the agenda and no room holds two sessions at once: the promises
\* are proved of the abstract agenda alone, and its refinement carries them over.
THEOREM ProgrammeKeepsThePromises == ProgrammeSpec => [](A!PublicIsPlaced /\ A!NoDoubleBooking)
<1>1. Kept!UnplacedIsNoPlacement
  BY NullAssumption DEF Kept!UnplacedIsNoPlacement, Kept!Placements
<1>2. Kept!Spec => [](Kept!PublicIsPlaced /\ Kept!NoDoubleBooking)
  BY <1>1, Kept!PromisesKept
<1> QED
  BY <1>2, KeptIsTheAgenda, ProgrammeImplementsAgenda, PTL DEF ImplementsAgenda, A!Spec, Kept!Spec

-----------------------------------------------------------------------------

(***************************************************************************)
(* The queue. ChainInv, the strengthening, is defined beside the queue in  *)
(* module SerialQueue: the calls that came form one chain, each waiting    *)
(* for the one before it.                                                  *)
(***************************************************************************)

LEMMA InitChain == QueueInit => ChainInv
BY DEF QueueInit, ChainInv, QueueTypeOK, Come, QueuePoints

LEMMA ArriveChain ==
    ASSUME ChainInv, NEW c \in Operations, Arrive(c)
    PROVE  ChainInv'
<1> USE DEF Arrive, Come, QueuePoints
<1>1. QueueTypeOK'
  BY DEF ChainInv, QueueTypeOK
<1>2. /\ Come' = Come \cup {c}
      /\ c \notin Come
      /\ \A d \in Come : arrival'[d] = arrival[d] /\ previous'[d] = previous[d]
                         /\ pc'[d] = pc[d]
      /\ arrival'[c] = arrived + 1
      /\ previous'[c] = queue
      /\ pc'[c] = "waiting"
      /\ arrived \in Nat
  BY DEF ChainInv, QueueTypeOK
<1>3. \A d \in Come : arrival[d] \in 1..arrived
  BY DEF ChainInv
<1>4. \A d \in Come' : arrival'[d] \in 1..arrived'
  BY <1>2, <1>3
<1>5. \A d, e \in Come' : arrival'[d] = arrival'[e] => d = e
  BY <1>2, <1>3 DEF ChainInv
<1>6. IF arrived' = 0 THEN queue' = AlreadyResolved
                      ELSE queue' \in Come' /\ arrival'[queue'] = arrived'
  BY <1>2
<1>7. \A d \in Come' :
        IF arrival'[d] = 1
        THEN previous'[d] = AlreadyResolved
        ELSE previous'[d] \in Come' /\ arrival'[previous'[d]] = arrival'[d] - 1
  <2> SUFFICES ASSUME NEW d \in Come'
               PROVE  IF arrival'[d] = 1
                      THEN previous'[d] = AlreadyResolved
                      ELSE /\ previous'[d] \in Come'
                           /\ arrival'[previous'[d]] = arrival'[d] - 1
    OBVIOUS
  <2>1. CASE d = c
    BY <2>1, <1>2 DEF ChainInv
  <2>2. CASE d \in Come
    BY <2>2, <1>2 DEF ChainInv
  <2> QED
    BY <2>1, <2>2, <1>2
<1>8. resolved' = {d \in Operations : pc'[d] = "done"}
  BY DEF ChainInv, QueueTypeOK
<1>9. \A d, e \in Come' :
        pc'[d] \in {"running", "done"} /\ arrival'[e] < arrival'[d]
            => pc'[e] = "done"
  BY <1>2, <1>3 DEF ChainInv
<1> QED
  BY <1>1, <1>4, <1>5, <1>6, <1>7, <1>8, <1>9 DEF ChainInv

\* The step that matters: leaving `await previous` is safe, because the
\* promise awaited is the one of the operation that came just before.
LEMMA StartChain ==
    ASSUME ChainInv, NEW c \in Operations, GoAhead(c)
    PROVE  ChainInv'
<1> USE DEF GoAhead, Come, QueuePoints
<1>1. QueueTypeOK'
  BY DEF ChainInv, QueueTypeOK
<1>2. /\ c \in Come
      /\ Come' = Come
      /\ pc'[c] = "running"
      /\ \A d \in Operations \ {c} : pc'[d] = pc[d]
  BY DEF ChainInv, QueueTypeOK
<1>3. \A d \in Come : arrival[d] < arrival[c] => pc[d] = "done"
  <2> SUFFICES ASSUME NEW d \in Come, arrival[d] < arrival[c]
               PROVE  pc[d] = "done"
    OBVIOUS
  <2>1. arrival[c] \in 1..arrived /\ arrival[d] \in 1..arrived /\ arrived \in Nat
    BY <1>2 DEF ChainInv, QueueTypeOK
  <2>2. arrival[c] # 1
    BY <2>1
  <2> DEFINE p == previous[c]
  <2>3. p \in Come /\ arrival[p] = arrival[c] - 1
    BY <1>2, <2>2 DEF ChainInv
  <2>4. pc[p] = "done"
    BY <2>3, ResolvedIsNoOperation DEF ChainInv
  <2>5. arrival[d] = arrival[p] \/ arrival[d] < arrival[p]
    BY <2>1, <2>3
  <2> QED
    BY <2>3, <2>4, <2>5 DEF ChainInv
<1>4. resolved' = {d \in Operations : pc'[d] = "done"}
  BY <1>2 DEF ChainInv, QueueTypeOK
<1>5. \A d, e \in Come' :
        pc'[d] \in {"running", "done"} /\ arrival'[e] < arrival'[d]
            => pc'[e] = "done"
  <2> SUFFICES ASSUME NEW d \in Come, NEW e \in Come,
                      pc'[d] \in {"running", "done"}, arrival[e] < arrival[d]
               PROVE  pc'[e] = "done"
    BY <1>2
  <2>1. pc[e] = "done"
    <3>1. CASE d = c
      BY <3>1, <1>3
    <3>2. CASE d # c
      BY <3>2, <1>2 DEF ChainInv
    <3> QED
      BY <3>1, <3>2
  <2> QED
    BY <2>1, <1>2
<1> QED
  BY <1>1, <1>2, <1>4, <1>5 DEF ChainInv

LEMMA FinishChain ==
    ASSUME ChainInv, NEW c \in Operations, Release(c)
    PROVE  ChainInv'
<1> USE DEF Release, Come, QueuePoints
<1>1. QueueTypeOK'
  BY DEF ChainInv, QueueTypeOK
<1>2. /\ c \in Come
      /\ Come' = Come
      /\ pc'[c] = "done"
      /\ \A d \in Operations \ {c} : pc'[d] = pc[d]
  BY DEF ChainInv, QueueTypeOK
<1>3. resolved' = {d \in Operations : pc'[d] = "done"}
  BY <1>2 DEF ChainInv, QueueTypeOK
<1>4. \A d, e \in Come' :
        pc'[d] \in {"running", "done"} /\ arrival'[e] < arrival'[d]
            => pc'[e] = "done"
  BY <1>2 DEF ChainInv, QueueTypeOK
<1> QED
  BY <1>1, <1>2, <1>3, <1>4 DEF ChainInv

\* Whatever the number of calls and the order in which promises settle, the
\* chain invariant holds (serialized, EventRoom.ts:44-50).
THEOREM ChainHolds == QueueSpec => []ChainInv
<1>1. ChainInv /\ [QueueNext]_queueVars => ChainInv'
  <2> SUFFICES ASSUME ChainInv, [QueueNext]_queueVars
               PROVE  ChainInv'
    OBVIOUS
  <2>1. ASSUME NEW c \in Operations, Arrive(c) PROVE ChainInv'
    BY <2>1, ArriveChain
  <2>2. ASSUME NEW c \in Operations, GoAhead(c) PROVE ChainInv'
    BY <2>2, StartChain
  <2>3. ASSUME NEW c \in Operations, Release(c) PROVE ChainInv'
    BY <2>3, FinishChain
  <2>4. CASE UNCHANGED queueVars
    BY <2>4 DEF queueVars, ChainInv, QueueTypeOK, Come
  <2> QED
    BY <2>1, <2>2, <2>3, <2>4 DEF QueueNext
<1> QED
  BY InitChain, <1>1, PTL DEF QueueSpec

\* Two operations of the event room never run together.
THEOREM Serialized == QueueSpec => []OneAtATime
<1>1. ChainInv => OneAtATime
  <2> SUFFICES ASSUME ChainInv, NEW c \in Operations, NEW d \in Operations,
                      pc[c] = "running", pc[d] = "running"
               PROVE  c = d
    BY DEF OneAtATime
  <2>1. c \in Come /\ d \in Come
    BY DEF Come
  <2>2. ~(arrival[d] < arrival[c]) /\ ~(arrival[c] < arrival[d])
    BY <2>1 DEF ChainInv
  <2>3. arrival[c] \in Nat /\ arrival[d] \in Nat
    BY DEF ChainInv, QueueTypeOK
  <2>4. arrival[c] = arrival[d]
    BY <2>2, <2>3
  <2> QED
    BY <2>1, <2>4 DEF ChainInv
<1> QED
  BY ChainHolds, <1>1, PTL

\* An operation runs only when everything that came before it is done.
THEOREM FirstComeFirstServed == QueueSpec => []InOrderOfArrival
<1>1. ChainInv => InOrderOfArrival
  BY DEF ChainInv, InOrderOfArrival, Come
<1> QED
  BY ChainHolds, <1>1, PTL

-----------------------------------------------------------------------------

(***************************************************************************)
(* The page that follows the programme.                                    *)
(***************************************************************************)

\* The two conditions of ConnectionsAreSound keep each other: a page that was
\* left has no timer that could fire, and one that waits to connect again has
\* no connection to stop polling for.
CockpitInv ==
    /\ polling \in BOOLEAN /\ reconnecting \in BOOLEAN /\ closed \in BOOLEAN
    /\ socket \in Sockets
    /\ ConnectionsAreSound

LEMMA CockpitKeepsItsConnections ==
    ASSUME CockpitInv, [CockpitNext]_cockpitVars
    PROVE  CockpitInv'
<1> USE DEF CockpitInv, ConnectionsAreSound, NeverDeaf, ClosedPageHoldsNothing, Sockets
<1>1. CASE UNCHANGED <<socket, polling, reconnecting, closed>>
  BY <1>1
<1>2. CASE AcceptSocket
  BY <1>2 DEF AcceptSocket
<1>3. CASE TicketComes
  BY <1>3 DEF TicketComes, GoesOn
<1>4. CASE TicketFails
  BY <1>4 DEF TicketFails, FallBack
<1>5. CASE SocketOpens
  BY <1>5 DEF SocketOpens
<1>6. CASE SocketCloses
  BY <1>6 DEF SocketCloses, FallBackOnClose, FallBack
<1>7. CASE Reconnect
  BY <1>7 DEF Reconnect
<1>8. CASE LeavePage
  BY <1>8 DEF LeavePage
<1>9. ASSUME \/ Change \/ Announce \/ ServeRefetch \/ ServeAction \/ Poll \/ Receive
             \/ RefetchFails \/ MessageComes \/ Act \/ ActionDone \/ ActionFails \/ ActionShown
             \/ UNCHANGED cockpitVars
      PROVE  UNCHANGED <<socket, polling, reconnecting, closed>>
  BY <1>9 DEF Change, Announce, ServeRefetch, ServeAction, Poll, Receive, RefetchFails,
     MessageComes, Act, ActionDone, ActionFails, ActionShown, cockpitVars
<1> QED
  BY <1>1, <1>2, <1>3, <1>4, <1>5, <1>6, <1>7, <1>8, <1>9 DEF CockpitNext

\* In every order of its callbacks (program-cockpit.tsx:91-211), a page that is
\* open polls or is connected, and never connects over a connection it has, and
\* a page that was left holds nothing.
THEOREM PagesHearOrHoldNothing == CockpitSpec => []ConnectionsAreSound
<1>1. CockpitInit => CockpitInv
  BY DEF CockpitInit, CockpitInv, ConnectionsAreSound, NeverDeaf, ClosedPageHoldsNothing, Sockets
<1>2. CockpitInv => ConnectionsAreSound
  BY DEF CockpitInv
<1> QED
  BY <1>1, <1>2, CockpitKeepsItsConnections, PTL DEF CockpitSpec

-----------------------------------------------------------------------------

(***************************************************************************)
(* The three in one model (module MCLiveDesks), and the instance of the    *)
(* programme that has the hours and the texts left alone (MCProgramme).    *)
(***************************************************************************)

LEMMA QuietStepIsAStep == [QuietNext]_allVars => [ProgrammeNext]_allVars
<1>1. ASSUME NEW c \in Calls, QuietCall(c) PROVE OrganizerCall(c)
  <2>1. CASE \E s \in Submissions, r \in Rooms, w \in Windows :
                BeginSchedule(c, s, r, w, NoTrack)
    BY <2>1 DEF Begin, OrganizerCall
  <2>2. CASE \E S \in SUBSET Submissions : BeginPublish(c, S, TRUE)
    BY <2>2 DEF Begin, OrganizerCall
  <2> QED
    BY <1>1, <2>1, <2>2 DEF QuietCall, Begin, OrganizerCall
<1> QED
  BY <1>1 DEF QuietNext, ProgrammeNext

\* A quiet programme is a programme: what is proved of every programme holds of
\* the instances that the runs check.
THEOREM QuietIsAProgramme == QuietSpec => ProgrammeSpec
BY QuietStepIsAStep, PTL DEF QuietSpec, QuietInit, ProgrammeSpec

\* A step of one desk is a step of its part, and the others stand still.
LEMMA EachLiveDeskByItself ==
    ASSUME [LiveNext]_liveVars
    PROVE  /\ [QuietNext]_allVars
           /\ [QueueNext]_queueVars
           /\ [CockpitNext]_cockpitVars
BY DEF LiveNext, liveVars

\* Programme, queue and cockpit in one model are the three of them.
THEOREM LiveDesksRunTheirParts == LiveSpec => QuietSpec /\ QueueSpec /\ CockpitSpec
BY EachLiveDeskByItself, PTL DEF LiveSpec, LiveInit, QuietSpec, QueueSpec, CockpitSpec

\* Whatever ends or does not end there: operations of the room run one at a time
\* and as they came, a page polls or listens and one that was left holds nothing,
\* and the programme keeps what no race may break.
THEOREM LiveDesksAreSafe ==
    LiveSpec => [](OneAtATime /\ InOrderOfArrival /\ ConnectionsAreSound /\ ProgrammeInv)
BY LiveDesksRunTheirParts, QuietIsAProgramme, ProgrammeHolds, Serialized, FirstComeFirstServed,
   PagesHearOrHoldNothing, PTL

=============================================================================
