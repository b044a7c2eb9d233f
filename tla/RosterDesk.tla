------------------------------ MODULE RosterDesk ------------------------------
(***************************************************************************)
(* The speakers of an event as its organizers keep them: the page that     *)
(* previews and imports a CSV                                              *)
(* (src/src/app/admin/events/[eventSlug]/speakers/speaker-roster.tsx), and *)
(* the handlers that add, edit and import speakers                         *)
(* (src/src/lib/speakers/roster.ts).                                       *)
(*                                                                         *)
(* A row of the file is three or four statements, and a file is its rows   *)
(* one after the other: nothing is undone when one fails.  People are      *)
(* found by their address, which the handlers look up before they write;   *)
(* other requests write in between.                                        *)
(***************************************************************************)
EXTENDS Integers, Sequences

CONSTANTS
    People,         \* the identities that rows of people may get
    Mailboxes,      \* addresses
    NoOne,          \* no person, no address
    Sheets,         \* what the text field of the page may hold
    SheetRows,      \* the addresses of its rows
    Standings,      \* the workflow statuses of a speaker
    HeaderOnly,     \* the header alone, which is left there; no preview
    Assistants      \* requests under way

ASSUME RosterAssumption ==
    /\ SheetRows \in [Sheets -> Seq(Mailboxes) \ {<<>>}]
    /\ NoOne \notin People \cup Mailboxes
    /\ "none" \notin Standings
    /\ HeaderOnly \notin Sheets

VARIABLES
    mailbox,    \* people.email
    workflow,   \* event_speaker_profiles.workflow_status
    page,       \* the import panel of one organizer
    errand,     \* the requests
    counted     \* history: whom an import that answered ok has listed

rosterVars == <<mailbox, workflow, page, errand, counted>>

IdleErrand == [at |-> "idle", kind |-> "save", sheet |-> HeaderOnly, row |-> 0, box |-> NoOne,
               who |-> NoOne, want |-> "none", made |-> {}, heard |-> FALSE]

RosterTypeOK ==
    /\ mailbox \in [People -> Mailboxes \cup {NoOne}]
    /\ workflow \in [People -> Standings \cup {"none"}]
    /\ page \in [text : Sheets \cup {HeaderOnly}, preview : Sheets \cup {HeaderOnly}, pending : BOOLEAN,
                 crossed : BOOLEAN]
    /\ errand \in [Assistants ->
          [at : {"idle", "plan", "person", "insert", "clash", "readdress", "look",
                 "list", "update", "answer"},
           kind : {"save", "import", "preview"}, sheet : Sheets \cup {HeaderOnly}, row : Nat,
           box : Mailboxes \cup {NoOne}, who : People \cup {NoOne}, want : Standings \cup {"none"},
           made : SUBSET People, heard : BOOLEAN]]
    /\ counted \subseteq People

RosterInit ==
    /\ mailbox = [p \in People |-> NoOne]
    /\ workflow = [p \in People |-> "none"]
    /\ page = [text |-> HeaderOnly, preview |-> HeaderOnly, pending |-> FALSE, crossed |-> FALSE]
    /\ errand = [q \in Assistants |-> IdleErrand]
    /\ counted = {}

AtRest(q) == errand[q].at = "idle"
TurnTo(q, stage) == errand' = [errand EXCEPT ![q].at = stage]
SameRoster == UNCHANGED <<mailbox, workflow, counted>>

-----------------------------------------------------------------------------
(* The import panel *)

\* Mutant: the preview stays while the text is edited.
PreviewAfterEditKept == page.preview

PreviewAfterEdit == HeaderOnly

\* The text may be edited at any time, also while a preview of it is made.
EditSheet(t) ==
    /\ t # page.text
    /\ page' = [page EXCEPT !.text = t, !.preview = PreviewAfterEdit,
                   !.crossed = \E q \in Assistants : errand[q].heard /\ errand[q].kind = "preview"]
    /\ UNCHANGED errand /\ SameRoster

AskPreview(q) ==
    /\ ~page.pending /\ page.text # HeaderOnly /\ AtRest(q)
    /\ page' = [page EXCEPT !.pending = TRUE]
    /\ errand' = [errand EXCEPT ![q] = [IdleErrand EXCEPT !.at = "plan", !.kind = "preview",
                                            !.sheet = page.text, !.heard = TRUE]]
    /\ SameRoster

RowsToImport(t, want, listens) ==
    [IdleErrand EXCEPT !.at = "person", !.kind = "import", !.sheet = t, !.row = 1,
                       !.box = SheetRows[t][1], !.want = want, !.heard = listens]

\* Only what was previewed can be imported; the text of now is sent.
AskImport(q, want) ==
    /\ ~page.pending /\ page.preview # HeaderOnly /\ AtRest(q)
    /\ page' = [page EXCEPT !.pending = TRUE]
    /\ errand' = [errand EXCEPT ![q] = RowsToImport(page.text, want, TRUE)]
    /\ SameRoster

\* The answer: a preview is shown, an import clears it.
ShowAnswer(q) ==
    /\ errand[q].at = "answer"
    /\ page' = IF ~errand[q].heard THEN page
               ELSE [page EXCEPT !.pending = FALSE,
                        !.preview = IF errand[q].kind = "preview" THEN errand[q].sheet ELSE HeaderOnly]
    /\ errand' = [errand EXCEPT ![q] = IdleErrand]
    /\ SameRoster

\* An error, or the connection breaks: the page keeps its preview, and the
\* request may still be served.
StopListening(q) ==
    /\ errand[q].heard
    /\ page' = [page EXCEPT !.pending = FALSE]
    /\ \/ errand' = [errand EXCEPT ![q].heard = FALSE]
       \/ errand' = [errand EXCEPT ![q] = IdleErrand]
    /\ SameRoster

-----------------------------------------------------------------------------
(* Handlers *)

\* previewSpeakerRosterCsv reads, and writes nothing.
Plan(q) ==
    /\ errand[q].at = "plan"
    /\ TurnTo(q, "answer")
    /\ UNCHANGED page /\ SameRoster

\* Another organizer adds a speaker, edits one on the roster, or imports.
AddSpeaker(q, box, want) ==
    /\ AtRest(q)
    /\ errand' = [errand EXCEPT ![q] = [IdleErrand EXCEPT !.at = "person", !.box = box,
                                            !.want = want]]
    /\ UNCHANGED page /\ SameRoster

EditSpeaker(q, p, box, want) ==
    /\ AtRest(q) /\ workflow[p] # "none"
    /\ errand' = [errand EXCEPT ![q] = [IdleErrand EXCEPT !.at = "person", !.box = box,
                                            !.who = p, !.want = want]]
    /\ UNCHANGED page /\ SameRoster

ImportElsewhere(q, t, want) ==
    /\ AtRest(q)
    /\ errand' = [errand EXCEPT ![q] = RowsToImport(t, want, FALSE)]
    /\ UNCHANGED page /\ SameRoster

\* A statement fails, or a check: the request ends with an error.
Refused(q) ==
    /\ errand' = [errand EXCEPT ![q] = IdleErrand]
    /\ page' = IF errand[q].heard THEN [page EXCEPT !.pending = FALSE] ELSE page
    /\ SameRoster

\* ensurePerson, or the row of the person that is edited.
ReadPerson(q) ==
    LET e == errand[q]
        found == {p \in People : mailbox[p] = e.box}
    IN  /\ e.at = "person"
        /\ errand' = [errand EXCEPT
              ![q].who = IF e.who = NoOne /\ found # {} THEN CHOOSE p \in found : TRUE ELSE @,
              ![q].at = IF e.who # NoOne
                        THEN IF mailbox[e.who] = e.box THEN "look" ELSE "clash"
                        ELSE IF found = {} THEN "insert" ELSE "look"]
        /\ UNCHANGED page /\ SameRoster

\* Mutant: people.email is not unique.
MailboxFreeAnyway(box, who) == TRUE

\* The unique index of people.
MailboxFree(box, who) == \A p \in People \ {who} : mailbox[p] # box

InsertPerson(q) ==
    /\ errand[q].at = "insert"
    /\ \/ /\ MailboxFree(errand[q].box, NoOne)
          /\ \E p \in People :
                /\ mailbox[p] = NoOne
                /\ mailbox' = [mailbox EXCEPT ![p] = errand[q].box]
                /\ errand' = [errand EXCEPT ![q].at = "look", ![q].who = p]
          /\ UNCHANGED <<workflow, page, counted>>
       \/ ~MailboxFree(errand[q].box, NoOne) /\ Refused(q)

\* "Another person already uses that email".
CheckClash(q) ==
    /\ errand[q].at = "clash"
    /\ \/ /\ \A p \in People \ {errand[q].who} : mailbox[p] # errand[q].box
          /\ TurnTo(q, "readdress")
          /\ UNCHANGED page /\ SameRoster
       \/ /\ \E p \in People \ {errand[q].who} : mailbox[p] = errand[q].box
          /\ Refused(q)

Readdress(q) ==
    /\ errand[q].at = "readdress"
    /\ \/ /\ MailboxFree(errand[q].box, errand[q].who)
          /\ mailbox' = [mailbox EXCEPT ![errand[q].who] = errand[q].box]
          /\ TurnTo(q, "look")
          /\ UNCHANGED <<workflow, page, counted>>
       \/ ~MailboxFree(errand[q].box, errand[q].who) /\ Refused(q)

\* Is the person on the roster of the event?
LookProfile(q) ==
    /\ errand[q].at = "look"
    /\ TurnTo(q, IF workflow[errand[q].who] = "none" THEN "list" ELSE "update")
    /\ UNCHANGED page /\ SameRoster

\* upsertEventSpeakerProfile is done with a row: the next, or the answer.
RowDone(q) ==
    LET e == errand[q]
        more == e.kind = "import" /\ e.row < Len(SheetRows[e.sheet])
    IN  /\ errand' = [errand EXCEPT
              ![q].at = IF more THEN "person" ELSE "answer",
              ![q].row = IF more THEN @ + 1 ELSE 0,
              ![q].box = IF more THEN SheetRows[e.sheet][e.row + 1] ELSE NoOne,
              ![q].who = NoOne,
              ![q].made = IF more THEN @ \cup {e.who} ELSE {}]
        /\ counted' = IF e.kind = "import" /\ ~more
                       THEN counted \cup e.made \cup {e.who} ELSE counted

\* Mutant: a row that is refused is passed over.
RowRefusedPassed(q) == RowDone(q) /\ UNCHANGED <<mailbox, workflow, page>>

\* The import stops at a row that is refused.
RowRefused(q) == Refused(q)

\* INSERT INTO event_speaker_profiles; it is unique for the person.
ListSpeaker(q) ==
    /\ errand[q].at = "list"
    /\ \/ /\ workflow[errand[q].who] = "none"
          /\ \/ /\ workflow' = [workflow EXCEPT ![errand[q].who] = errand[q].want]
                /\ RowDone(q)
                /\ UNCHANGED <<mailbox, page>>
             \/ RowRefused(q)
       \/ workflow[errand[q].who] # "none" /\ RowRefused(q)

UpdateSpeaker(q) ==
    /\ errand[q].at = "update"
    /\ workflow' = [workflow EXCEPT ![errand[q].who] = errand[q].want]
    /\ RowDone(q)
    /\ UNCHANGED <<mailbox, page>>

RosterNext ==
    \/ \E t \in Sheets : EditSheet(t)
    \/ \E q \in Assistants :
          \/ AskPreview(q) \/ ShowAnswer(q) \/ StopListening(q) \/ Plan(q)
          \/ \E box \in Mailboxes, want \in Standings :
                \/ AddSpeaker(q, box, want)
                \/ \E p \in People : EditSpeaker(q, p, box, want)
          \/ \E want \in Standings :
                \/ AskImport(q, want)
                \/ \E t \in Sheets : ImportElsewhere(q, t, want)
          \/ ReadPerson(q) \/ InsertPerson(q) \/ CheckClash(q) \/ Readdress(q)
          \/ LookProfile(q) \/ ListSpeaker(q) \/ UpdateSpeaker(q)

RosterSpec == RosterInit /\ [][RosterNext]_rosterVars

-----------------------------------------------------------------------------
(* Properties *)

\* Two imports, additions and edits at once never make two people of one
\* address ("Another person already uses that email", roster.ts:546).
NoAddressTwice ==
    \A p, o \in People : p # o /\ mailbox[p] # NoOne => mailbox[p] # mailbox[o]

\* Whom an import that answered ok has counted is on the roster.
ReportedAreListed == \A p \in counted : workflow[p] # "none" /\ mailbox[p] # NoOne

\* The plan that unlocks the import is the plan of the text that is sent
\* ("Nothing is written until you import", speaker-roster.tsx:974); except when
\* the text was edited while its preview was on its way.
ImportsArePreviewed == page.preview # HeaderOnly /\ ~page.crossed => page.preview = page.text

\* What overlapping requests may not do to the roster and its import.
RosterIsSound == NoAddressTwice /\ ReportedAreListed /\ ImportsArePreviewed
=============================================================================
