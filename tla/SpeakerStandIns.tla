--------------------------- MODULE SpeakerStandIns ---------------------------
(***************************************************************************)
(* A speaker of one session, those who stand in for them, and what they    *)
(* confirm of its slot (src/src/lib/speakers/handoff.ts,                   *)
(* src/src/lib/schedule/slot-ack.ts).                                      *)
(*                                                                         *)
(* A handoff is a row that waits for the manager to answer the link in an  *)
(* e-mail; a new one cancels those that wait.  A slot that is moved asks to*)
(* be acknowledged, by the speaker or by an accepted manager, on a page    *)
(* that shows where it is; the request that follows does not say what was  *)
(* shown.  Meanwhile the event room moves the slot and the organizer drops *)
(* the speaker.                                                            *)
(***************************************************************************)
EXTENDS Integers

CONSTANTS
    Handoffs,       \* rows of speaker_handoffs; each has a manager of its own
    Taps,           \* requests under way, and pages of the portal
    LastSequence    \* bound on changes of the slot

\* A request under way for no handoff names one of them all the same.
ASSUME StandInAssumption == Handoffs # {} /\ LastSequence \in Nat

VARIABLES
    handoff,    \* speaker_handoffs.status
    listed,     \* the speaker is in submission_speakers, pending or confirmed
    slot,       \* agenda_slots and agenda_calendar_lifecycles; moves is a history
    ack,        \* agenda_slot_acks of the speaker; moves is a history
    tap         \* the requests

standInVars == <<handoff, listed, slot, ack, tap>>

HandoffStates == {"none", "pending", "accepted", "declined", "cancelled"}
Ended == {"accepted", "declined", "cancelled"}
NoAck == [sequence |-> -1, moves |-> 0]
IdleTap == [at |-> "idle", for |-> CHOOSE h \in Handoffs : TRUE, sequence |-> 0, moves |-> 0]
Moves == 0..LastSequence + 1

StandInTypeOK ==
    /\ handoff \in [Handoffs -> HandoffStates]
    /\ listed \in BOOLEAN
    /\ slot \in [there : BOOLEAN, required : BOOLEAN,
                 sequence : -1..LastSequence, moves : Moves]
    /\ ack \in [sequence : -1..LastSequence, moves : Moves]
    /\ tap \in [Taps -> [at : {"idle", "insert", "accept", "decline", "page", "read", "record"},
                         for : Handoffs, sequence : -1..LastSequence, moves : Moves]]

StandInInit ==
    /\ handoff = [h \in Handoffs |-> "none"]
    /\ listed = TRUE
    /\ slot = [there |-> FALSE, required |-> FALSE, sequence |-> -1, moves |-> 0]
    /\ ack = NoAck
    /\ tap = [q \in Taps |-> IdleTap]

Idle(q) == tap[q].at = "idle"
TapAt(q, stage) == tap' = [tap EXCEPT ![q].at = stage]
TapOver(q) == tap' = [tap EXCEPT ![q] = IdleTap]

-----------------------------------------------------------------------------
(* The event room, and the organizer *)

\* schedule(): the sequence goes up with each call, a new slot asks nothing,
\* and one that is moved asks to be acknowledged.
PlaceOrMove(moved) ==
    /\ slot.sequence < LastSequence
    /\ slot' = IF slot.there
               THEN [slot EXCEPT !.sequence = @ + 1, !.required = @ \/ moved,
                                 !.moves = IF moved THEN @ + 1 ELSE @]
               ELSE [slot EXCEPT !.there = TRUE, !.required = FALSE,
                                 !.sequence = @ + 1, !.moves = @ + 1]
    /\ moved \/ slot.there
    /\ UNCHANGED <<handoff, listed, ack, tap>>

Unplace ==
    /\ slot.there /\ slot.sequence < LastSequence
    /\ slot' = [slot EXCEPT !.there = FALSE, !.required = FALSE, !.sequence = @ + 1]
    /\ UNCHANGED <<handoff, listed, ack, tap>>

DropSpeaker ==
    /\ listed
    /\ listed' = FALSE
    /\ UNCHANGED <<handoff, slot, ack, tap>>

-----------------------------------------------------------------------------
(* Handoffs *)

\* requestSpeakerHandoff cancels what waits ...
RequestHandoff(q, h) ==
    /\ Idle(q) /\ listed
    /\ handoff[h] = "none" /\ \A r \in Taps : tap[r].at = "insert" => tap[r].for # h
    /\ handoff' = [g \in Handoffs |-> IF handoff[g] = "pending" THEN "cancelled" ELSE handoff[g]]
    /\ tap' = [tap EXCEPT ![q].at = "insert", ![q].for = h]
    /\ UNCHANGED <<listed, slot, ack>>

\* ... and inserts its own in a statement of its own, then sends the e-mail.
InsertHandoff(q) ==
    /\ tap[q].at = "insert"
    /\ handoff' = [handoff EXCEPT ![tap[q].for] = "pending"]
    /\ TapOver(q)
    /\ UNCHANGED <<listed, slot, ack>>

\* respondToSpeakerHandoff reads the row: only one that waits is answered.
OpenHandoff(q, h, answer) ==
    /\ Idle(q) /\ handoff[h] = "pending"
    /\ tap' = [tap EXCEPT ![q].at = answer, ![q].for = h]
    /\ UNCHANGED <<handoff, listed, slot, ack>>

\* Mutant: the UPDATE trusts the row that was read.
WaitsAsRead(h) == TRUE

\* WHERE id = ? AND status = 'pending'.
Waits(h) == handoff[h] = "pending"

\* acceptSpeakerHandoff, declineSpeakerHandoff: the UPDATE.
AnswerHandoff(q) ==
    LET h == tap[q].for
    IN  /\ tap[q].at \in {"accept", "decline"}
        /\ handoff' = IF Waits(h)
                      THEN [handoff EXCEPT ![h] = IF tap[q].at = "accept" THEN "accepted"
                                                                         ELSE "declined"]
                      ELSE handoff
        /\ TapOver(q)
        /\ UNCHANGED <<listed, slot, ack>>

-----------------------------------------------------------------------------
(* Acknowledging the slot *)

Acknowledged == ack.sequence >= slot.sequence

\* needsSlotAcknowledgement.
NeedsAck == slot.there /\ slot.required /\ ~Acknowledged

\* speakerPersonIdsForActor names the speaker for a speaker of the session,
\* and for a manager with an accepted handoff.
MayAct == listed \/ \E h \in Handoffs : handoff[h] = "accepted"

\* PortalPage shows the slot, and the button where it is to be acknowledged.
OpenPortal(q) ==
    /\ Idle(q) /\ MayAct /\ NeedsAck
    /\ tap' = [tap EXCEPT ![q].at = "page"]
    /\ UNCHANGED <<handoff, listed, slot, ack>>

\* The button is pressed: acknowledgeAgendaSlotForActor asks who it is.
StartAck(q) ==
    /\ tap[q].at = "page"
    /\ IF MayAct THEN TapAt(q, "read") ELSE TapOver(q)
    /\ UNCHANGED <<handoff, listed, slot, ack>>

\* acknowledgeAgendaSlot reads the slot and its sequence ...
ReadSequence(q) ==
    /\ tap[q].at = "read"
    /\ IF slot.there
       THEN tap' = [tap EXCEPT ![q].at = "record", ![q].sequence = slot.sequence,
                               ![q].moves = slot.moves]
       ELSE TapOver(q)
    /\ UNCHANGED <<handoff, listed, slot, ack>>

\* Mutant: the INSERT ... SELECT takes the sequence of its own moment.
SequenceOfNow(q) == slot.sequence

SequenceRead(q) == tap[q].sequence

\* ... and writes the one it read over whatever is there.
RecordAck(q) ==
    /\ tap[q].at = "record"
    /\ ack' = [sequence |-> SequenceRead(q), moves |-> tap[q].moves]
    /\ TapOver(q)
    /\ UNCHANGED <<handoff, listed, slot>>

StandInStep(q) ==
    \/ \E h \in Handoffs : RequestHandoff(q, h)
    \/ \E h \in Handoffs, answer \in {"accept", "decline"} : OpenHandoff(q, h, answer)
    \/ InsertHandoff(q) \/ AnswerHandoff(q)
    \/ OpenPortal(q) \/ StartAck(q) \/ ReadSequence(q) \/ RecordAck(q)

StandInNext ==
    \/ \E moved \in BOOLEAN : PlaceOrMove(moved)
    \/ Unplace \/ DropSpeaker
    \/ \E q \in Taps : StandInStep(q)

StandInSpec == StandInInit /\ [][StandInNext]_standInVars

-----------------------------------------------------------------------------
(* Properties *)

\* A handoff that was accepted, declined or cancelled stays so, however many
\* tabs answer it while the speaker asks somebody else ("This handoff is no
\* longer pending", handoff.ts:173).
AnsweredHandoffsStay ==
    [][\A h \in Handoffs : handoff[h] \in Ended => handoff'[h] = handoff[h]]_standInVars

\* An acknowledgement that counts was recorded for the slot the server found
\* when it read the sequence: one that is moved, or removed and placed again,
\* between that and the write asks once more (needsSlotAcknowledgement,
\* slot-ack.ts:9).  It may be another slot than the page showed: when it moves
\* between the page and the server's read, the button "Confirm this time"
\* (session-ops.tsx:77) acknowledges where it moved to.
AcksAreOfThisSlot ==
    slot.there /\ slot.required /\ ~NeedsAck => ack.moves = slot.moves
==============================================================================
