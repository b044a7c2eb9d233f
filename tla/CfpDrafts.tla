------------------------------ MODULE CfpDrafts ------------------------------
(***************************************************************************)
(* A proposal from its first draft to the decision: the form in the        *)
(* submitter's browser, which saves by itself while they write             *)
(* (src/src/app/e/[eventSlug]/submit/[formSlug]/cfp-form.tsx), and the     *)
(* handlers of its requests (src/src/lib/cfp/drafts.ts), beside the daily  *)
(* job that reminds of unfinished drafts                                   *)
(* (src/src/lib/email/draft-reminders.ts).                                 *)
(*                                                                         *)
(* A private link holds a token.  Every save and every submission is       *)
(* answered with a new token; the one before lives on for a short grace.   *)
(* Each database call is a step; requests may be answered in any order or  *)
(* never, and the organizers may decide between any two steps.             *)
(*                                                                         *)
(* Answers are versions: what the submitter had typed at some moment.      *)
(***************************************************************************)
EXTENDS Integers, Sequences, FiniteSets

CONSTANTS
    Fetches,    \* requests that may be under way together
    Grace,      \* PREVIOUS_TOKEN_GRACE_MS, in ticks of the calendar
    Ttl,        \* TOKEN_TTL_MS
    LastEdit,   \* bound of the model: versions typed
    LastToken,  \* bound of the model: tokens given out
    LastHour    \* bound of the model: the end of its calendar

ASSUME CfpDraftsAssumption ==
    /\ Grace \in Nat /\ Ttl \in Nat /\ Grace <= Ttl
    /\ LastEdit \in Nat /\ LastToken \in Nat /\ LastHour \in Nat

VARIABLES
    draft,      \* the row of submission_drafts
    proposal,   \* the row of submissions, and its submission_speakers
    tokens,     \* submission_draft_tokens, in the order they were given out
    form,       \* the page in the browser
    fetch,      \* the requests under way
    cron,       \* the job, and whether the ledger has its reminder
    typed,      \* versions typed so far
    hour        \* Date.now()

draftVars == <<draft, proposal, tokens, form, fetch, cron, typed, hour>>

Versions == 0..LastEdit
NoToken == 0

NoDraft == [status |-> "none", answers |-> 0]
NoProposal == [status |-> "none", answers |-> 0, speakers |-> {}]
NoForm == [open |-> FALSE, token |-> NoToken, shows |-> 0, saved |-> 0, busy |-> FALSE]
NoFetch == [at |-> "free"]

Kinds == {"save", "submit", "open", "recover"}
FetchStages == {"read", "check", "write", "update", "create", "caught", "rotate", "answer"}
FetchRecords ==
    [at : FetchStages, kind : Kinds, token : Nat, answers : Versions,
     reply : Nat, heard : BOOLEAN]

DraftTypeOK ==
    /\ draft \in [status : {"none", "draft", "submitted"}, answers : Versions]
    /\ proposal \in [status : {"none", "submitted", "decided"},
                     answers : Versions, speakers : SUBSET Versions]
    /\ tokens \in Seq([state : {"current", "superseded"}, until : Nat])
    /\ form \in [open : BOOLEAN, token : Nat, shows : Versions,
                 saved : Versions, busy : BOOLEAN]
    /\ fetch \in [Fetches -> FetchRecords \cup {NoFetch}]
    /\ cron \in {"idle", "rotate", "mailed"}
    /\ typed \in Versions
    /\ hour \in Nat

DraftInit ==
    /\ draft = NoDraft
    /\ proposal = NoProposal
    /\ tokens = <<>>
    /\ form = NoForm
    /\ fetch = [f \in Fetches |-> NoFetch]
    /\ cron = "idle"
    /\ typed = 0
    /\ hour = 0

-----------------------------------------------------------------------------
(* Tokens *)

Usable(t) == t \in DOMAIN tokens /\ tokens[t].until >= hour

Sooner(a, b) == IF a <= b THEN a ELSE b

\* Mutant: the grace is set, however little the token had left.
SupersededLonger(row) == [state |-> "superseded", until |-> hour + Grace]

Superseded(row) ==
    [state |-> "superseded", until |-> Sooner(row.until, hour + Grace)]

GiveToken(rows) ==
    Append(rows, [state |-> "current", until |-> hour + Ttl])

\* Mutant: the tokens before are left as they are.
RotatedOnly(rows) == GiveToken(rows)

\* The token in force is superseded and a new one given.
Rotated(rows) ==
    GiveToken([t \in DOMAIN rows |->
        IF rows[t].state = "current" THEN Superseded(rows[t]) ELSE rows[t]])

\* The two statements of every batch that rotates, with the new token in hand.
RotateFor(f, stage) ==
    /\ Len(tokens) < LastToken
    /\ tokens' = Rotated(tokens)
    /\ fetch' = [fetch EXCEPT ![f].at = stage, ![f].reply = Len(tokens) + 1]

\* prepareDraftResumeDelivery: the draft and the token its e-mail will carry.
PrepareDraft(answers) ==
    /\ draft = NoDraft
    /\ draft' = [status |-> "draft", answers |-> answers]
    /\ tokens' = GiveToken(tokens)
    /\ typed' = answers
    /\ UNCHANGED <<proposal, form, fetch, cron, hour>>

-----------------------------------------------------------------------------
(* The page *)

Request(f, kind, token) ==
    /\ fetch[f] = NoFetch
    /\ fetch' = [fetch EXCEPT ![f] =
            [at |-> "read", kind |-> kind, token |-> token, answers |-> form.shows,
             reply |-> NoToken, heard |-> TRUE]]

\* A link is followed; the page cannot be used until the draft has come.
OpenLink(f, t) ==
    /\ ~form.open
    /\ t \in DOMAIN tokens
    /\ Request(f, "open", t)
    /\ form' = [NoForm EXCEPT !.open = TRUE, !.token = t, !.busy = TRUE]
    /\ UNCHANGED <<draft, proposal, tokens, cron, typed, hour>>

\* The portal gives its owner a new link, without the old one.
AskPortal(f) ==
    /\ ~form.open
    /\ Request(f, "recover", NoToken)
    /\ form' = [NoForm EXCEPT !.open = TRUE, !.busy = TRUE]
    /\ UNCHANGED <<draft, proposal, tokens, cron, typed, hour>>

Type ==
    /\ form.open /\ ~form.busy
    /\ typed < LastEdit
    /\ typed' = typed + 1
    /\ form' = [form EXCEPT !.shows = typed + 1]
    /\ UNCHANGED <<draft, proposal, tokens, fetch, cron, hour>>

\* The autosave: a second one may start before the first is answered.
Save(f) ==
    /\ form.open /\ ~form.busy
    /\ form.shows # form.saved
    /\ Request(f, "save", form.token)
    /\ UNCHANGED <<draft, proposal, tokens, form, cron, typed, hour>>

Submit(f) ==
    /\ form.open /\ ~form.busy
    /\ Request(f, "submit", form.token)
    /\ form' = [form EXCEPT !.busy = TRUE]
    /\ UNCHANGED <<draft, proposal, tokens, cron, typed, hour>>

\* The tab is closed: what comes back is not heard.
CloseForm ==
    /\ form.open
    /\ form' = NoForm
    /\ fetch' = [f \in Fetches |-> IF fetch[f].at \in {"free", "answer"} THEN NoFetch
                                   ELSE [fetch[f] EXCEPT !.heard = FALSE]]
    /\ UNCHANGED <<draft, proposal, tokens, cron, typed, hour>>

\* Autosaves do not keep the page busy.
StillBusy(f) == form.busy /\ fetch[f].kind = "save"

\* An error leaves the page as it was; a draft that comes fills it.
Heard(f) ==
    IF fetch[f].reply = NoToken
    THEN [form EXCEPT !.busy = StillBusy(f)]
    ELSE [form EXCEPT !.busy = StillBusy(f),
                 !.token = fetch[f].reply,
                 !.shows = IF fetch[f].kind = "open" THEN fetch[f].answers ELSE @,
                 !.saved = IF fetch[f].kind = "submit" THEN @ ELSE fetch[f].answers]

\* The answer comes.
Hear(f) ==
    /\ fetch[f].at = "answer"
    /\ form' = IF fetch[f].heard THEN Heard(f) ELSE form
    /\ fetch' = [fetch EXCEPT ![f] = NoFetch]
    /\ UNCHANGED <<draft, proposal, tokens, cron, typed, hour>>

\* The connection breaks; the request may still be served.
Disconnect(f) ==
    /\ fetch[f].at = "answer" /\ fetch[f].heard
    /\ fetch' = [fetch EXCEPT ![f] = NoFetch]
    /\ form' = [form EXCEPT !.busy = StillBusy(f)]
    /\ UNCHANGED <<draft, proposal, tokens, cron, typed, hour>>

-----------------------------------------------------------------------------
(* The handlers *)

Turn(f, stage) == fetch' = [fetch EXCEPT ![f].at = stage]

\* loadDraftForResume, the first read of saveDraftForResume and finalizeDraft.
ReadDraft(f) ==
    /\ fetch[f].at = "read" /\ fetch[f].kind \in {"save", "submit", "open"}
    /\ CASE ~Usable(fetch[f].token) -> Turn(f, "answer")
         [] Usable(fetch[f].token) /\ fetch[f].kind = "open" ->
              fetch' = [fetch EXCEPT ![f].at = "answer", ![f].reply = fetch[f].token,
                            ![f].answers = draft.answers]
         [] Usable(fetch[f].token) /\ fetch[f].kind # "open" ->
              Turn(f, IF draft.status = "submitted" THEN "check"
                      ELSE IF fetch[f].kind = "save" THEN "write" ELSE "create")
    /\ UNCHANGED <<draft, proposal, tokens, form, cron, typed, hour>>

Editable == proposal.status = "submitted"

\* Is the submission still to be decided?  If not, SubmissionNotEditableError.
CheckEditable(f) ==
    /\ fetch[f].at = "check"
    /\ Turn(f, IF Editable THEN "update" ELSE "answer")
    /\ UNCHANGED <<draft, proposal, tokens, form, cron, typed, hour>>

\* saveDraftForResume of a draft.
WriteDraft(f) ==
    /\ fetch[f].at = "write"
    /\ draft' = IF draft.status = "draft"
                THEN [draft EXCEPT !.answers = fetch[f].answers] ELSE draft
    /\ RotateFor(f, "answer")
    /\ UNCHANGED <<proposal, form, cron, typed, hour>>

\* Mutant: the status read before is relied on.
RevisedUnchecked(f) == [proposal EXCEPT !.answers = fetch[f].answers]

\* UPDATE submissions ... AND status = 'submitted'
Revised(f) ==
    IF Editable THEN [proposal EXCEPT !.answers = fetch[f].answers] ELSE proposal

\* The speakers of the new answers are added; none is taken away.
Listing(row, f) == [row EXCEPT !.speakers = @ \cup {fetch[f].answers}]

\* saveDraftForResume and updateSubmittedInPlace of a submitted draft.  Only
\* the second writes speakers, and whatever the status; a decision that came
\* in between makes the answer an error, after the batch.
UpdateSubmitted(f) ==
    /\ fetch[f].at = "update"
    /\ Len(tokens) < LastToken
    /\ proposal' = IF fetch[f].kind = "submit" THEN Listing(Revised(f), f) ELSE Revised(f)
    /\ draft' = [draft EXCEPT !.answers = fetch[f].answers]
    /\ tokens' = Rotated(tokens)
    /\ fetch' = [fetch EXCEPT ![f].at = "answer",
                    ![f].reply = IF Editable THEN Len(tokens) + 1 ELSE NoToken]
    /\ UNCHANGED <<form, cron, typed, hour>>

\* Mutant: the submission is inserted or replaced.
CreatedAnyway(f) ==
    [status |-> "submitted", answers |-> fetch[f].answers, speakers |-> {fetch[f].answers}]

\* INSERT INTO submissions ... WHERE EXISTS a draft, under the draft's own id;
\* the speakers are inserted in any case.
Created(f) ==
    IF draft.status = "draft"
    THEN [status |-> "submitted", answers |-> fetch[f].answers, speakers |-> {fetch[f].answers}]
    ELSE Listing(proposal, f)

\* The batch of finalizeDraft.  When another has submitted the draft it is a
\* replay, and the token is rotated once more.
CreateSubmission(f) ==
    /\ fetch[f].at = "create"
    /\ proposal' = Created(f)
    /\ draft' = [draft EXCEPT !.status = "submitted"]
    /\ RotateFor(f, IF draft.status = "draft" THEN "answer" ELSE "rotate")
    /\ UNCHANGED <<form, cron, typed, hour>>

\* The batch throws: not applied, for instance by the trigger that enforces
\* the form's submission_limit, or applied with its answer lost.
CreateThrows(f) ==
    /\ fetch[f].at = "create"
    /\ Turn(f, "caught")
    /\ \/ UNCHANGED <<draft, proposal, tokens>>
       \/ /\ Len(tokens) < LastToken
          /\ proposal' = Created(f)
          /\ draft' = [draft EXCEPT !.status = "submitted"]
          /\ tokens' = Rotated(tokens)
    /\ UNCHANGED <<form, cron, typed, hour>>

\* The catch of finalizeDraft asks whether the draft is submitted after all.
CatchCreate(f) ==
    /\ fetch[f].at = "caught"
    /\ Turn(f, IF draft.status = "submitted" THEN "rotate" ELSE "answer")
    /\ UNCHANGED <<draft, proposal, tokens, form, cron, typed, hour>>

\* recoverPortalSubmissionEditAccess: only while the submission is editable.
ReadPortal(f) ==
    /\ fetch[f].at = "read" /\ fetch[f].kind = "recover"
    /\ Turn(f, IF Editable THEN "rotate" ELSE "answer")
    /\ UNCHANGED <<draft, proposal, tokens, form, cron, typed, hour>>

\* rotateDraftToken, issueDraftResumeToken.  The portal's link is then opened
\* as any other.
RotateToken(f) ==
    /\ fetch[f].at = "rotate"
    /\ Len(tokens) < LastToken
    /\ tokens' = Rotated(tokens)
    /\ fetch' = [fetch EXCEPT ![f].reply = Len(tokens) + 1,
                    ![f].at = IF fetch[f].kind = "recover" THEN "read" ELSE "answer",
                    ![f].kind = IF @ = "recover" THEN "open" ELSE @,
                    ![f].token = IF fetch[f].kind = "recover" THEN Len(tokens) + 1 ELSE @]
    /\ UNCHANGED <<draft, proposal, form, cron, typed, hour>>

-----------------------------------------------------------------------------
(* The reminder: sendDraftReminders, once a day in the last three days.  Its *)
(* row of the ledger is nobody else's: what it reads and writes there is one *)
(* step with what it does to the draft.                                      *)

\* loadReminderEligibleDrafts; the form is open and about to close.
Unfinished == draft.status = "draft"

\* The draft is among them, and the ledger has no reminder of it 'sending',
\* accepted or sent.
RemindOfDraft ==
    /\ cron = "idle" /\ Unfinished
    /\ cron' = "rotate"
    /\ UNCHANGED <<draft, proposal, tokens, form, fetch, typed, hour>>

\* issueDraftResumeToken, before it is known whether the e-mail goes out; if
\* it does not, the next day begins anew.
RotateForReminder ==
    /\ cron = "rotate"
    /\ Len(tokens) < LastToken
    /\ tokens' = Rotated(tokens)
    /\ cron' \in {"idle", "mailed"}
    /\ UNCHANGED <<draft, proposal, form, fetch, typed, hour>>

-----------------------------------------------------------------------------

\* The organizers move the submission on.
Decide ==
    /\ Editable
    /\ proposal' = [proposal EXCEPT !.status = "decided"]
    /\ UNCHANGED <<draft, tokens, form, fetch, cron, typed, hour>>

Hourglass ==
    /\ hour < LastHour
    /\ hour' = hour + 1
    /\ UNCHANGED <<draft, proposal, tokens, form, fetch, cron, typed>>

FetchStep(f) ==
    \/ \E t \in DOMAIN tokens : OpenLink(f, t)
    \/ AskPortal(f)
    \/ Save(f)
    \/ Submit(f)
    \/ Hear(f)
    \/ Disconnect(f)
    \/ ReadDraft(f)
    \/ CheckEditable(f)
    \/ WriteDraft(f)
    \/ UpdateSubmitted(f)
    \/ CreateSubmission(f)
    \/ CreateThrows(f)
    \/ CatchCreate(f)
    \/ ReadPortal(f)
    \/ RotateToken(f)

DraftNext ==
    \/ PrepareDraft(0)
    \/ Type
    \/ CloseForm
    \/ Decide
    \/ Hourglass
    \/ RemindOfDraft
    \/ RotateForReminder
    \/ \E f \in Fetches : FetchStep(f)

DraftSpec == DraftInit /\ [][DraftNext]_draftVars

-----------------------------------------------------------------------------
(* Properties *)

\* A draft is submitted exactly when it has a submission, and one that a
\* request found missing and another has made since is not made over
\* ("a concurrent finalizer cannot create a second submission",
\* drafts.ts:273).
SubmittedOnce ==
    [][/\ draft'.status = "submitted" <=> proposal'.status # "none"
       /\ proposal.status # "none" /\ proposal'.answers # proposal.answers
             => \A f \in Fetches : fetch'[f] # fetch[f] => fetch[f].at # "create"]_draftVars

\* One link is in force, and only the submitter's own latest: concurrent saves
\* never leave two, nor none.
OneLinkInForce ==
    draft.status # "none" =>
        Cardinality({t \in DOMAIN tokens : tokens[t].state = "current"}) = 1

\* A link that has run out does not work again, whatever is saved later.
DeadLinksStayDead ==
    [][\A t \in DOMAIN tokens : Usable(t)' => Usable(t)]_draftVars

\* Once the organizers have moved on, the answers they see are not changed by
\* a save that was under way (test "rejects edits once the submission leaves
\* pre-decision", drafts.test.ts:82).
DecidedAnswersStay ==
    [][proposal.status = "decided" => proposal'.answers = proposal.answers]_draftVars

\* What requests under way, lost answers and retries may not take back: a
\* submission once made, a link once dead, answers once decided on.
NothingIsTakenBack == SubmittedOnce /\ DeadLinksStayDead /\ DecidedAnswersStay
=============================================================================
