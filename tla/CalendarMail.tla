----------------------------- MODULE CalendarMail -----------------------------
(***************************************************************************)
(* The calendar invitations of one session (src/src/lib/email/notify.ts,   *)
(* src/src/lib/email/ics.ts, src/src/lib/schedule/unplace.ts and the       *)
(* schedule route), and its public calendar file                           *)
(* (src/src/lib/sessions/public-ics.ts).                                   *)
(*                                                                         *)
(* The event room places and removes the session and counts SEQUENCE; the  *)
(* request that asked for it mails the new place, after its answer, to the *)
(* speakers who are confirmed by then.  Mail is lost and overtaken.  A     *)
(* calendar keeps the highest SEQUENCE it was given.                       *)
(***************************************************************************)
EXTENDS Integers

CONSTANTS
    Invitees,       \* the speakers of the session
    Submitter,      \* the one who is written to while nobody is confirmed
    Inboxes,        \* the speakers whose calendars are followed here
    Spots,         \* room and time
    Off,            \* no place; a letter that says it is a CANCEL
    Notifiers,      \* requests under way
    LastEdition     \* bound on SEQUENCE

ASSUME SubmitterIsSpeaker == Submitter \in Invitees /\ Inboxes \subseteq Invitees /\ Off \notin Spots
ASSUME EditionsAreCounted == LastEdition \in Nat

VARIABLES
    booking,    \* agenda_slots and agenda_calendar_lifecycles.sequence, -1 for no row
    attending,  \* submission_speakers that are confirmed
    notifier,   \* the requests
    post,       \* letters under way
    posted,     \* delivery keys the ledger knows
    calendar,   \* what the speakers' calendars show
    told,       \* history: whose letter about the booking as it is was not lost
    misled      \* history: who took in a file put together across a change

calendarVars == <<booking, attending, notifier, post, posted, calendar, told, misled>>

Entries == [place : Spots \cup {Off}, edition : -1..LastEdition]
Letters == [to : Inboxes, place : Spots \cup {Off}, edition : -1..LastEdition]
NoEntry == [place |-> Off, edition |-> -1]
IdleNotifier == [at |-> "idle", place |-> Off, edition |-> -1]

CalendarTypeOK ==
    /\ booking \in Entries
    /\ attending \subseteq Invitees
    /\ notifier \in [Notifiers -> [at : {"idle", "mail", "file"}, place : Spots \cup {Off},
                                   edition : -1..LastEdition]]
    /\ post \subseteq Letters /\ posted \subseteq Letters
    /\ calendar \in [Inboxes -> Entries]
    /\ told \subseteq Inboxes /\ misled \subseteq Inboxes

CalendarInit ==
    /\ booking = NoEntry
    /\ attending = {}
    /\ notifier = [q \in Notifiers |-> IdleNotifier]
    /\ post = {} /\ posted = {}
    /\ calendar = [i \in Inboxes |-> NoEntry]
    /\ told = {} /\ misled = {}

-----------------------------------------------------------------------------
(* The room changes the booking and answers with it *)

RoomAnswered(q) ==
    /\ notifier[q].at = "idle"
    /\ notifier' = [notifier EXCEPT ![q] = [at |-> "mail", place |-> booking'.place,
                                            edition |-> booking'.edition]]
    /\ told' = {}
    /\ UNCHANGED <<attending, post, posted, calendar, misled>>

\* POST of the schedule route, schedule() of the room: the first place is
\* edition 0, each later one the next.
PlaceSession(q, p) ==
    /\ booking.edition < LastEdition
    /\ booking' = [place |-> p, edition |-> booking.edition + 1]
    /\ RoomAnswered(q)

\* Mutant: a removal keeps the sequence.
EditionOfRemovalKept == booking.edition

EditionOfRemoval == booking.edition + 1

\* unplaceScheduledSubmission, for the organizer or for a withdrawal.
RemoveSession(q) ==
    /\ booking.place # Off /\ booking.edition < LastEdition
    /\ booking' = [place |-> Off, edition |-> EditionOfRemoval]
    /\ RoomAnswered(q)

\* The answer of the room, or the request with its after(), is lost.
NotifierDies(q) ==
    /\ notifier[q].at = "mail"
    /\ notifier' = [notifier EXCEPT ![q] = IdleNotifier]
    /\ UNCHANGED <<booking, attending, post, posted, calendar, told, misled>>

-----------------------------------------------------------------------------
(* Letters *)

\* confirmedRecipients.
Recipients == IF attending # {} THEN attending ELSE {Submitter}

\* Mutant: SEQUENCE is looked up when the mail is written.
EditionOfMailNow(q) == booking.edition

\* sequence: slot.calendar_sequence, as the room answered.
EditionOfMail(q) == notifier[q].edition

\* Mutant: the key leaves out the attachment.
DeliveryKeyOfText(l) == [l EXCEPT !.edition = 0]

\* deterministicDeliveryKey: the attachment is part of it, and so is SEQUENCE.
DeliveryKey(l) == l

\* notifyCalendarInvite, notifyCalendarCancellation: one letter for each
\* recipient of that moment, through the ledger, which knows a key once.
SendLetters(q) ==
    LET written == {[to |-> i, place |-> notifier[q].place, edition |-> EditionOfMail(q)] :
                       i \in Recipients \cap Inboxes}
        fresh == {l \in written : DeliveryKey(l) \notin posted}
    IN  /\ notifier[q].at = "mail"
        /\ post' = post \cup fresh
        /\ posted' = posted \cup {DeliveryKey(l) : l \in fresh}
        /\ told' = IF notifier[q].edition = booking.edition
                   THEN told \cup (Recipients \cap Inboxes) ELSE told
        /\ notifier' = [notifier EXCEPT ![q] = IdleNotifier]
        /\ UNCHANGED <<booking, attending, calendar, misled>>

\* A calendar passes over an entry whose SEQUENCE is not above its own.
TakesIn(i, place, edition) ==
    calendar' = IF edition > calendar[i].edition
                THEN [calendar EXCEPT ![i] = [place |-> place, edition |-> edition]]
                ELSE calendar

LetterArrives(l) ==
    /\ post' = post \ {l}
    /\ TakesIn(l.to, l.place, l.edition)
    /\ misled' = IF l.edition > calendar[l.to].edition THEN misled \ {l.to} ELSE misled
    /\ UNCHANGED <<booking, attending, notifier, posted, told>>

\* The send fails and nobody retries it, or the mail is never delivered.  A
\* letter that is retried is one that takes long to arrive.
LetterIsLost(l) ==
    /\ post' = post \ {l}
    /\ told' = IF l.edition = booking.edition THEN told \ {l.to} ELSE told
    /\ UNCHANGED <<booking, attending, notifier, posted, calendar, misled>>

-----------------------------------------------------------------------------
(* Speakers come and go, and fetch the public file *)

SpeakerConfirms(i) ==
    /\ i \notin attending
    /\ attending' = attending \cup {i}
    /\ UNCHANGED <<booking, notifier, post, posted, calendar, told, misled>>

SpeakerLeaves(i) ==
    /\ i \in attending
    /\ attending' = attending \ {i}
    /\ UNCHANGED <<booking, notifier, post, posted, calendar, told, misled>>

\* buildPublicSessionIcs reads the slot ...
OpenFile(q) ==
    /\ notifier[q].at = "idle"
    /\ booking.place # Off
    /\ notifier' = [notifier EXCEPT ![q] = [at |-> "file", place |-> booking.place,
                                            edition |-> booking.edition]]
    /\ UNCHANGED <<booking, attending, post, posted, calendar, told, misled>>

\* ... and then the lifecycle; a speaker adds the file to the calendar.
TakeFile(q, i) ==
    /\ notifier[q].at = "file"
    /\ TakesIn(i, notifier[q].place, booking.edition)
    /\ misled' = IF calendar' = calendar THEN misled
                 ELSE IF notifier[q].place = booking.place THEN misled \ {i}
                 ELSE misled \cup {i}
    /\ notifier' = [notifier EXCEPT ![q] = IdleNotifier]
    /\ UNCHANGED <<booking, attending, post, posted, told>>

CalendarNext ==
    \/ \E q \in Notifiers :
          \/ \E p \in Spots : PlaceSession(q, p)
          \/ RemoveSession(q) \/ NotifierDies(q) \/ SendLetters(q)
          \/ OpenFile(q)
          \/ \E i \in Inboxes : TakeFile(q, i)
    \/ \E l \in post : LetterArrives(l) \/ LetterIsLost(l)
    \/ \E i \in Invitees : SpeakerConfirms(i) \/ SpeakerLeaves(i)

CalendarSpec == CalendarInit /\ [][CalendarNext]_calendarVars

-----------------------------------------------------------------------------
(* Properties *)

\* However letters overtake each other, a calendar that is as new as the
\* booking shows the booking, and who was written to about it and lost no
\* letter ends up there: an older place never wins, and coming back to an
\* earlier place is not taken for a letter already sent ("SEQUENCE increases
\* when an existing meeting is revised", ics.ts:13).  Except after a file that
\* was put together across a change.
CalendarsFollow ==
    \A i \in Inboxes \ misled :
        /\ calendar[i].edition = booking.edition => calendar[i].place = booking.place
        /\ i \in told /\ {l \in post : l.to = i} = {} => calendar[i].edition = booking.edition
=============================================================================
