------------------------------ MODULE Programme ------------------------------
(***************************************************************************)
(* The event room together with the Worker handlers that change a          *)
(* submission's status without passing through it: decisions               *)
(* (speakers/decide.ts, accept.ts), decision e-mails                       *)
(* (notify-decided.ts), withdrawal (withdraw.ts), restore                  *)
(* (restore-withdrawn.ts) and the first score of a review                  *)
(* (evaluation/score.ts).  Each of them reads the status, awaits, and then *)
(* runs UPDATE submissions SET status = ? WHERE id = ?, with no condition  *)
(* on the status the row has by then.                                      *)
(*                                                                         *)
(* A request is a record that remembers what the handler read.  Only a     *)
(* withdrawal of a placed session calls the event room; its call is        *)
(* call[q] for the request q itself.                                       *)
(***************************************************************************)
EXTENDS EventRoom

CONSTANT Requests   \* Worker requests; each may also be a call of the room

ASSUME RequestsAssumption == Requests \subseteq Calls

VARIABLE req        \* the handler each request is in, and what it has read

allVars == <<status, slots, sequence, content, hours, policy, rooms, tracks,
             roster, call, req>>

RequestKinds == {"decide", "notify", "withdraw", "restore", "score"}

\* "decide":   decideSubmission has not read the status yet
\* "findslot": a withdrawal read a placed status and looks for the slot
\* "unplace":  the unplace call is queued or running in the event room
\* "reread":   the session was unplaced; the status is read again
\* "write":    the status to write is fixed, the UPDATE is still to come
RequestPoints == {"decide", "findslot", "unplace", "reread", "write"}

NoRequest == [pc |-> "none"]
ActiveRequests ==
    [kind : RequestKinds, pc : RequestPoints, sub : Submissions,
     target : Statuses]

ProgrammeTypeOK ==
    /\ TypeOK
    /\ req \in [Requests -> ActiveRequests \cup {NoRequest}]

ProgrammeInit ==
    /\ Init
    /\ req = [q \in Requests |-> NoRequest]

room == <<slots, sequence, content, hours, policy, rooms, tracks, roster, call>>

\* A handler starts when its request is not in the room for an earlier one.
Start(q, kind, pc, s, target) ==
    /\ req[q] = NoRequest
    /\ call[q] = Idle
    /\ req' = [req EXCEPT ![q] = [kind |-> kind, pc |-> pc, sub |-> s,
                                  target |-> target]]
    /\ UNCHANGED <<status, room>>

Goto(q, pc) ==
    /\ req' = [req EXCEPT ![q].pc = pc]
    /\ UNCHANGED <<status, room>>

\* The handler answers without writing.
Answer(q) ==
    /\ req' = [req EXCEPT ![q] = NoRequest]
    /\ UNCHANGED <<status, room>>

-----------------------------------------------------------------------------
(* Decisions. *)

\* An organizer decides one submission, or several one after the other.
StartDecide(q, s, action) ==
    Start(q, "decide", "decide", s, TargetStatus[action])

\* An organizer sends the e-mail of a decision already taken: the status is
\* read to choose the decision whose e-mail it is, and then decideSubmission
\* is called with that decision.
StartNotify(q, s) ==
    /\ status[s] \in DecisionOutcomes
    /\ Start(q, "notify", "decide", s,
             TargetStatus[ActionForOutcome(status[s])])

\* decideSubmission reads the status: nothing to write if the decision is
\* already the status, a refusal if the table forbids the move.
DecideRead(q) ==
    /\ req[q].pc = "decide"
    /\ LET from == status[req[q].sub] IN
         IF from # req[q].target /\ CanTransition(from, req[q].target)
         THEN Goto(q, "write")
         ELSE Answer(q)

-----------------------------------------------------------------------------
(* Withdrawal by a speaker. *)

\* An already withdrawn submission is answered at once, and so is one whose
\* status cannot be withdrawn: neither starts anything.
StartWithdraw(q, s) ==
    /\ CanTransition(status[s], "withdrawn")
    /\ Start(q, "withdraw",
             IF status[s] \in PlacedStatuses THEN "findslot" ELSE "write",
             s, "withdrawn")

FindSlot(q) ==
    /\ req[q].pc = "findslot"
    /\ Goto(q, IF req[q].sub \in Placed THEN "unplace" ELSE "write")

\* The room takes up the unplace call of the withdrawal, or refuses it.
AskUnplace(q) ==
    /\ req[q].pc = "unplace"
    /\ BeginUnplace(q, req[q].sub)
    /\ UNCHANGED req

UnplaceRefused(q) ==
    /\ req[q].pc = "unplace"
    /\ RoomIsFree
    /\ ~MayUnplace(req[q].sub)
    /\ Answer(q)

\* The batch of the unplace call is done and the withdrawal goes on.  If its
\* Worker is gone, the call completes all the same.
UnplaceDone(q) ==
    /\ CommitUnplace(q)
    /\ req' = IF req[q] = NoRequest THEN req
              ELSE [req EXCEPT ![q].pc = "reread"]

UnplaceFailed(q) ==
    /\ RoomFails(q)
    /\ req' = [req EXCEPT ![q] = NoRequest]

Reread(q) ==
    /\ req[q].pc = "reread"
    /\ IF CanTransition(status[req[q].sub], "withdrawn")
       THEN Goto(q, "write")
       ELSE Answer(q)

-----------------------------------------------------------------------------
(* Restore by an organizer, and the first score of a submitted proposal. *)

StartRestore(q, s) ==
    /\ status[s] = "withdrawn"
    /\ Start(q, "restore", "write", s, RestoreStatus)

StartScore(q, s) ==
    /\ status[s] = "submitted"
    /\ Start(q, "score", "write", s, "under_review")

-----------------------------------------------------------------------------
\* Mutant: the withdrawal removes the slot itself instead of asking the room.
WriteStatusDropsSlot(q) ==
    /\ req[q].pc = "write"
    /\ status' = [status EXCEPT ![req[q].sub] = req[q].target]
    /\ slots' = IF req[q].target = "withdrawn"
                THEN [slots EXCEPT ![req[q].sub] = NoSlot]
                ELSE slots
    /\ req' = [req EXCEPT ![q] = NoRequest]
    /\ UNCHANGED <<sequence, content, hours, policy, rooms, tracks, roster,
                   call>>

\* UPDATE submissions SET status = ? WHERE id = ?
WriteStatus(q) ==
    /\ req[q].pc = "write"
    /\ status' = [status EXCEPT ![req[q].sub] = req[q].target]
    /\ req' = [req EXCEPT ![q] = NoRequest]
    /\ UNCHANGED room

\* The Worker dies, or a statement fails, at any point; the calendar
\* cancellation that follows an unplace call may fail too.
Abort(q) ==
    /\ req[q] # NoRequest
    /\ Answer(q)

\* Speakers are invited, confirm, decline and are removed by handlers that do
\* not pass through the room either.
ChangeRoster(s, people) ==
    /\ roster' = [roster EXCEPT ![s] = people]
    /\ UNCHANGED <<status, slots, sequence, content, hours, policy, rooms,
                   tracks, call, req>>

StartRequest(q) ==
    \E s \in Submissions :
       \/ \E action \in DecisionActions : StartDecide(q, s, action)
       \/ StartNotify(q, s)
       \/ StartWithdraw(q, s)
       \/ StartRestore(q, s)
       \/ StartScore(q, s)

\* One step of the handler a request is in.
Proceed(q) == DecideRead(q) \/ FindSlot(q) \/ Reread(q) \/ WriteStatus(q)

\* The room at work for the withdrawal q.
TakeUnplace(q) == AskUnplace(q) \/ UnplaceRefused(q)
FinishUnplace(q) == UnplaceDone(q) \/ UnplaceFailed(q)

\* The room at work for an organizer.
OrganizerCall(c) == Begin(c) \/ Commit(c) \/ RoomFails(c)

ProgrammeNext ==
    \/ \E q \in Requests : StartRequest(q) \/ Proceed(q) \/ Abort(q)
    \/ \E q \in Requests : TakeUnplace(q) \/ FinishUnplace(q)
    \/ \E c \in Calls \ Requests : OrganizerCall(c) /\ UNCHANGED req
    \/ Configure /\ UNCHANGED req
    \/ \E s \in Submissions, people \in SUBSET People :
          ChangeRoster(s, people)

ProgrammeSpec == ProgrammeInit /\ [][ProgrammeNext]_allVars

\* Workers run their handlers, the database answers, and the promise queue
\* of the room lets in every call in its turn (module SerialQueue): a
\* withdrawal that keeps finding the room free is taken up in the end.
Fairness ==
    /\ \A q \in Requests : /\ WF_allVars(Proceed(q))
                           /\ SF_allVars(TakeUnplace(q))
                           /\ WF_allVars(FinishUnplace(q))
    /\ \A c \in Calls \ Requests :
          WF_allVars((Commit(c) \/ RoomFails(c)) /\ UNCHANGED req)

FairProgrammeSpec == ProgrammeSpec /\ Fairness

-----------------------------------------------------------------------------
(* What survives the races. *)

\* No handler outside the room ever puts a session on the agenda; this and
\* the room's own invariant are what no interleaving of the handlers breaks.
WorkersNeverPlace ==
    \A q \in Requests :
        req[q] # NoRequest => req[q].target \notin PlacedStatuses

ProgrammeInv ==
    /\ ProgrammeTypeOK
    /\ AgendaInv
    /\ WorkersNeverPlace

\* A handler that has started comes to an end: a withdrawal in particular is
\* not left waiting for the room for ever.
RequestsEnd ==
    \A q \in Requests : req[q] # NoRequest ~> req[q] = NoRequest

-----------------------------------------------------------------------------
(* What the repository says and the races break. *)

\* README.md:84: "Speakers can withdraw themselves, including after a talk is
\* placed - the slot clears and calendar invites cancel."
WithdrawnHoldsNoSlot ==
    \A s \in Submissions : status[s] = "withdrawn" => s \notin Placed

\* EventRoom.ts:307: "Validation and status writes therefore observe one
\* coherent agenda snapshot": what goes public was scheduled until then.
OnlyScheduledGoesPublic ==
    [][\A s \in Submissions :
          status[s] # "published" /\ status'[s] = "published"
              => status[s] = "scheduled"]_allVars
=============================================================================
