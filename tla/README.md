# Verification of conference-engine

conference-engine runs a conference's programme: a call for papers, review,
decisions, speaker onboarding, an agenda with rooms and tracks, and its
publication. It is a Next.js application in a Cloudflare Worker over one D1
database, with a Durable Object per event, `EventRoom`, that owns the agenda.

These modules model the parts of it in which several actors write the same
state: the event room and its promise queue; the Worker handlers beside it, from
a submitter's first draft to the calendar in a speaker's mailbox; the jobs and
integrations that run by themselves; and those pages whose own state can
disagree with the database. TLC checks them on small instances, and TLAPS
proves the safety of the agenda, of the e-mail ledger, of links and
memberships, of uploads, handoffs and acknowledgements for every number of
sessions, rooms, messages and requests. Line references are to the files under
`src/`; paths without `src/src/` in front are relative to it.

## 1. The system

| component | state | operations | hard part | correct when | module |
|---|---|---|---|---|---|
| Event room (`durable-objects/EventRoom.ts`) | `agenda_slots`, `agenda_calendar_lifecycles`, `submissions.status`, content heads | place, move, remove, publish, unpublish, approve | one batch after many reads; others write the status meanwhile | no room or speaker double booked; slot and status agree; calendars see every change; what is public is placed and approved | EventRoom |
| Promise queue (`EventRoom.ts:44-50`) | `this.queue` | `serialized` | a chain of promises, operations that throw | one at a time, in order of arrival, all served | SerialQueue |
| Event configuration (`lib/events/configuration.ts`) | hours, track policy, rooms, tracks, task templates | settings, create, retire, rename, reorder | retiring and shortening race with placing | slots within hours and in rooms in service | EventRoom, Onboarding |
| Session content (`lib/content/revisions.ts`) | revisions, current and approved head | edit, restore, approve | edits between approval and publication | published text is approved | EventRoom |
| Submission life cycle (`lib/domain/submission-status.ts`) | `submissions.status` | decide, notify, withdraw, restore, first score | every handler reads, awaits, and writes without a condition | a withdrawn session is off the agenda, decisions are not undone | Programme |
| Onboarding (`lib/speakers/accept.ts`, `co-speakers.ts`, `lib/content/deliverables.ts`) | `speaker_tasks`, `task_templates`, `submission_speakers.status` | accept, confirm, decline, remove, revive, ask all for a file, add and retire a template | acceptance and confirmation read each other's state before they write | every confirmed speaker of an accepted session has the tasks there were | Onboarding |
| Co-speaker invitations (`lib/speakers/co-speakers.ts`) | `submission_speakers`, invitation claims | invite, resend, answer, remove, add | unconditional writes, rotated links | one link works, that of the current claim | CoSpeakers |
| E-mail delivery (`lib/email/resend.ts`) | `email_deliveries`, envelopes | reserve, send, mark, retry | crashes between provider and database, leases | a message is recorded as what happened to it, and sent once | EmailDelivery |
| Session materialization (`lib/sessions/session.ts`, `lib/speakers/materialize.ts`) | claims with leases, speakers, tasks | create, import, roll back | an expired lease and a late owner | fenced writes; a reported session is complete | SessionImport |
| Call for papers, submitter's side (`cfp-form.tsx`, `lib/cfp/drafts.ts`, `lib/email/draft-reminders.ts`) | drafts and their links, submissions | autosave, open a link, submit, change, remind | rotated links, two tabs, lost answers, a job beside the page | one link in force; a draft is submitted once; decided answers stay | CfpDrafts |
| Call for papers, organizer's side (`lib/cfp/form-admin.ts`, `form-revisions.ts`, `load-form.ts`) | fields, rules, route, revisions | edit, rename, route, delete, publish | several statements name one key | answers pin the form they were checked against; references are live | FormDesk |
| Event team and sign-in (`lib/auth/challenges.ts`, `lib/events/invite-member.ts`, `lib/db/queries.ts`) | one-time links, invitations, members, owner, API keys | sign in, invite, accept, remove, transfer | a link in two tabs, an inviter who is gone, mail that fails late | a link works once; the owner is on the team | EventTeam |
| Review (`lib/evaluation/*`) | rounds, reviewers, assignments, scores | activate, edit, delete, assign, recuse, score | counts and lists read before a batch | one active round; assignments are one request's list | ReviewRounds |
| Tasks and uploads (`lib/speakers/complete-task.ts`, `headshot.ts`) | assets, versions, R2 objects | upload, photo | R2 beside D1 without a transaction | known files exist; versions are a line | SpeakerFiles |
| Handoff, slot acknowledgement (`lib/speakers/handoff.ts`, `lib/schedule/slot-ack.ts`) | `speaker_handoffs`, `agenda_slot_acks` | ask, accept, decline, cancel, acknowledge | answers in two tabs, a slot that moves under the page that shows it | answers stay; an acknowledgement counts only for the slot the server found | SpeakerStandIns |
| Calendar invitations (`lib/email/notify.ts`, `ics.ts`, `lib/sessions/public-ics.ts`) | SEQUENCE, letters, calendars | place, remove, mail, download | letters overtake each other | an older place never wins | CalendarMail |
| Roster (`speaker-roster.tsx`, `lib/speakers/roster.ts`) | people, speaker profiles | add, edit, preview, import a CSV | look up, then write; no transaction | one person per address; what was reported is there | RosterDesk |
| Contacts (`lib/contacts/*`) | contacts, notes, links to rosters | make, edit, push, merge | merges the other way round, cascades | merging loses nobody and nothing | ContactBook |
| Contacts page (`contacts-console.tsx`) | the page's own state | search, select, tag, note, merge, enrol, mail | answers in any order, no button is disabled | it merges what it shows | ContactsConsole |
| Agenda page (`schedule-board.tsx`, `lib/schedule/board.ts`) | the page's copy of the agenda | drag, auto-place, publish | optimistic updates, a second copy of the rules | it ends with what the room holds | AgendaBoard |
| Cockpit (`program-cockpit.tsx`) | socket, timers, snapshot | poll, listen, refetch | callbacks in any order | it catches up, holds nothing once left | LiveCockpit |
| Accelevents (`lib/integrations/accelevents/*`) | mappings, the outside event | connect, run | runs overlap and die, no idempotency key outside | one connection creates nothing twice outside | AcceleventsSync |

How they interact: routes authorise a request and call a handler; handlers
read and write D1 directly (each statement is atomic, `db.batch` is one
transaction, nothing spans two awaits); agenda and content mutations are
forwarded to the event's Durable Object (`realtime/event-room-fetch.ts`), which
runs them one at a time; a withdrawal of a placed session is a handler that
calls the room and then goes on by itself. E-mail of every kind goes through
one ledger. The only locks in the system are the queue of the room and the
leases of the ledger and of session claims; everything else is compare and set,
unique indexes, or nothing. `submissions.status` is written on both sides of
the queue: that is what the core of this project is about.

## 2. Modules

    SubmissionStatus     statuses, table of moves, decisions
    Agenda               abstract: what the agenda promises        AgendaProofs
    EventRoom            the Durable Object's operations           MCEventRoom, EventRoomProofs
    Programme            EventRoom and the handlers beside it      MCProgramme, ProgrammeProofs
    SerialQueue          the chain of promises                     ProgrammeProofs
    LiveCockpit          the cockpit page                          MCLiveDesks (with the two above), ProgrammeProofs
    EmailDelivery        the ledger of outgoing e-mail             EmailDeliveryProofs
    SessionImport  ReviewRounds  AcceleventsSync  RosterDesk       WorkerDeskProofs
    CfpDrafts  EventTeam                                           LinkProofs
    SpeakerFiles  SpeakerStandIns  Onboarding  CalendarMail        SpeakerProofs (MCOnboarding for one run)
                         handlers of the Worker                    MCWorkerDesks (with EmailDelivery), WorkerDeskProofs
    CoSpeakers           invitations on top of the ledger          MCCoSpeakers, OrganizerDeskProofs
    ContactBook  AgendaBoard  FormDesk                             OrganizerDeskProofs
                         the organizers' side                      MCOrganizerDesks (with CoSpeakers), OrganizerDeskProofs
    ContactsConsole      the contacts page                         MCContactsConsole

`Programme` extends `EventRoom`; both are shown to implement `Agenda`.
`SerialQueue` justifies the one thing `EventRoom` assumes of its queue, the
guard `RoomIsFree`, and the strong fairness `Programme` gives to a call that
waits for the room. `CoSpeakers` extends `EmailDelivery`, and is shown to be
one of its users. The other modules share no state with each other: what one
needs of another (the slot in `SpeakerStandIns`, the booking in `CalendarMail`)
is an action of its own there, with the guard the other module justifies. The
*desks* modules put such parts side by side: a behaviour is that of the one
part its `desk` names, so that one run checks each part by itself (`OpenDesks`
may be cut down to look at one alone). A VIEW leaves the tables of the standing
parts out of the fingerprint.

**EventRoom.** `status`, `slots`, `sequence`, `content` are the rows of
`submissions`, `agenda_slots`, `agenda_calendar_lifecycles` and
`content_heads`; `hours`, `policy`, `rooms`, `tracks` the configuration;
`roster` the pending and confirmed speakers. A call of the room is two steps,
because that is how the code is written: `Begin...` makes the reads and all the
checks and stores in `call[c]` the values it is going to write; `Commit...` is
the `DB.batch`, which writes those values whatever the rows hold by then.
`RoomFails` is a batch the database rejects, or an evicted object. A change of
a row between the two is only possible for what is written outside the queue.

| action | code |
|---|---|
| `BeginSchedule`, `CommitSchedule` | `schedule`, EventRoom.ts:134-227 |
| `BeginUnplace`, `CommitUnplace` | `scheduleAction` unplace, 253-280 |
| `BeginPublish`, `BeginUnpublish`, `CommitPublication` | `scheduleAction` 281-305, `bulkPublication` 309-350, `prepareContentApprovals` 355-382 |
| `BeginSettings`, `CommitSettings` | `updateEventConfiguration`, configuration.ts:128-178 |
| `BeginRetireRoom`, `CommitRetireRoom` | `deleteRoom` and `softDelete`, 203-217, 268-276 |
| `BeginContent`, `CommitContent` | revisions.ts:41-152 |
| `CreateRoom`, `CreateTrack`, `RetireTrack` | configuration.ts:185-192, 219-231, outside the queue |

**Programme.** `req[q]` is a Worker request with the handler it is in, the
point it has reached and the status it is going to write. `WriteStatus` is
`UPDATE submissions SET status = ? WHERE id = ?`, common to all of them.

| request | code |
|---|---|
| decide | decide.ts:29-90, accept.ts:32-134; bulk decisions are several, one after the other |
| notify | notify-decided.ts:21-130 |
| withdraw | withdraw.ts:19-94 with unplace.ts:27-103: `FindSlot`, `AskUnplace`, `UnplaceDone`, `Reread`, `WriteStatus` |
| restore | restore-withdrawn.ts:18-67 |
| score | score.ts:105-257 |

`Abort` is a Worker that dies or an await that throws, at any point; it also
stands for acceptSubmission's returns for missing speakers and templates and
for a cancellation e-mail that fails after the room removed the session.

**EmailDelivery.** `delivery` is a row of `email_deliveries` (status and
lease), `envelopes` the rows of `email_delivery_envelopes`, `attempt[w]` where a
Worker is in sending or replaying a message. `taken` is the provider: the
messages it has taken on. Each database statement and each HTTP request is one
step. Two things are assumed of the provider, because the code relies on them:
it takes an idempotency key on once, and answers a key it has taken on with its
first answer, or with a transient status, and never with a final refusal.

| action | code |
|---|---|
| `Send`, `Replay` | `sendTemplatedEmail`, `retryEmailDelivery`, resend.ts:211-277, 388-421 |
| `Reserve`, `Look`, `FinishEarlier`, `Claim` | `reserveEmailDelivery`, 97-159 |
| `Persist` | `persistDeliveryEnvelope` and its catch, 278-294 |
| `ProviderAccepts`, `ProviderRefuses`, `ProviderIsBusy`, `AnswerIsLost` | the answers `fetchWithBoundedRetry` and 341-366 tell apart |
| `MarkFailed`, `MarkAccepted`, `Finalize` | 161-209; `markEmailDeliveryAmbiguous` leaves status and lease alone |
| `Stop` | a Worker that dies or a statement that throws, anywhere |

**SessionImport** (session.ts, materialize.ts). `shells`, `claims`, `rows`,
`persons` are the tables, `job[i]` an import request with its journal. A request
inserts or finds the shell, takes the claim if it is free or its lease has run
out, and then writes per speaker: listed, known, linked, member, profile,
tasks, and in the end the submitter. Each write is `Renew`, then the statement
with the claim as its condition (`MATERIALIZATION_WRITE_FENCE_PREDICATE`); when
one throws, `Undo` removes what the journal names in one batch that asks for the
claim again. A statement that throws has not been applied, and one throws that
refers to a person who is gone, or inserts an address that somebody else's import
has inserted since it was looked for (`Accepted`): that matters only where two
sessions share a speaker, which the run's one session cannot show and the proof
has to answer for. Names of people are left out.

**CfpDrafts** (cfp-form.tsx, drafts.ts, draft-reminders.ts). `draft`,
`proposal`, `tokens` are the tables, `form` the page in the browser, `fetch` its
requests, `cron` the daily job. The page saves by itself, submits, and reopens
what was submitted; each answer carries a new token, the one before lives on for
`Grace`. Answers are versions. The reminder's row in the ledger is the job's
alone, so its reads and writes are one step with what the job does to the draft;
the link is rotated before the outcome of the mail is known.

**EventTeam** (challenges.ts, invite-member.ts, queries.ts, auth/callback).
`links` are `auth_challenges`, `invites` `event_invitations`, `visit` the
requests: `NewRequest` starts a sign-in, an invitation, the following of a link, a
removal, a transfer or a key, and `GuestStep` is its next statement. `letIn` and
`joined` count what each link has done.

**SpeakerFiles** (complete-task.ts, headshot.ts). An upload reads the task and
the next version number, stores its object (`PutObject`), and writes its rows in
one batch (`Batch`); a batch may be applied and throw all the same
(`BatchThrows`), and `CleanUp` takes the object away.

**AcceleventsSync** (sync.ts, repository.ts, api.ts). A run reads mappings and
items, takes faces before talks, claims an item before the one POST that creates
it (`claimAcceleventsCreate`), records the answer, and assigns speakers to a
session by a second call. Answers may be lost, and runs may die and overlap. The
organizer saves the integration with the same or another event or URL, or deletes
it: `connection` counts how often the mappings were deleted by that, `names` says
which of the `Platforms` each connection names, and a record outside keeps the
connection it was made through (`via`). Two connections may name the same event,
whose records the later one finds there (`OfEvent`). Each of the two handlers is
one step; they write nothing but the row and the mappings.

**ReviewRounds** (plan.ts, assignments.ts, recusal.ts, reviewers.ts, score.ts).
A request of a clerk has an errand and what it has read; unique indexes and
foreign keys are modelled at the write. Criteria, the value of a score, dates and
names are left out.

**SpeakerStandIns** (handoff.ts, slot-ack.ts, portal/page.tsx,
portal/session-ops.tsx). Handoffs and taps as requests that read, then write
under their condition. An acknowledgement is four steps: the portal shows the
slot with the button (`OpenPortal`), the button is pressed and the server asks
who it is (`StartAck`), it reads the sequence (`ReadSequence`), it writes the row
(`RecordAck`). The request says nothing of what the page showed, and so nothing
of it is kept. `slot.moves` and `ack.moves` are histories: how often the slot was
moved, now and when the sequence was read. The page's reads of slot and
acknowledgement are one step.

**CalendarMail** (the schedule route, notify.ts, ics.ts, unplace.ts,
public-ics.ts). `PlaceSession` is the room's batch as far as the calendar sees
it; the letters follow after the answer, to those confirmed by then, under a
delivery key of place and SEQUENCE. Letters are lost and overtake each other. A
speaker may also take the public file, which is put together from two reads.

**RosterDesk** (speaker-roster.tsx, roster.ts). The import panel (text, preview,
pending) and the requests behind it: rows of a file one after the other, each a
look-up and writes that others may come between. A text with a header alone
and all but one workflow status per file are left out.

**Onboarding** (accept.ts, co-speakers.ts, deliverables.ts, materialize.ts,
configuration.ts). `todo` are the rows of `speaker_tasks`; `deed[q]` is a request
with what it has read. Acceptance reads speakers and templates, writes the
status, and gives each speaker it read as confirmed a person and the tasks;
confirming reads the row, the session and, if that is accepted, the templates,
writes the row, and gives the tasks. A request for a file reads who is there and
then inserts template and tasks in one batch. `AddTemplate` inserts a template
alone, whoever has tasks already; `RetireTemplate` takes one back. A done task
confirms its speaker. The histories `abandoned`, `overtaken` and `unasked` are
the three exceptions of `EveryoneHasTheirTasks` (section 3).

**CoSpeakers.** `speaker[s]` is the row of `submission_speakers`: its status and
the generation whose token hash it holds; `claim[s]` the generation of
`co_speaker_invitation_claims`. The key of a message is the pair of speaker and
generation. `retired[s]` is a history variable: the generation that had been
delivered when the speaker was last revived. An invitation reads the speaker
(`ReadInvited`), looks at the claim and its delivery (`LookAtClaim`), inserts or
rotates the claim (`FirstClaim`, `Rotate`, up to four rounds), and then sets the
link and sends (`LinkAndSend`). Answers (`OpenLink`, `ConfirmForThem`,
`ReadAnswering`, `WriteAnswer`), `Remove` and `BeginRevive`/`Revive` complete
co-speakers.ts:102-594. The wait of the invitation for its own mail is left
out: nothing in the handler depends on the outcome.

**ContactBook** (contacts.ts, merge.ts, push.ts). A merge reads both contacts
and the events both are linked to, and is then one batch; what is left on a
deleted contact goes with it (ON DELETE CASCADE), and a broken key undoes the
batch. Tags and the pipeline stage, which a merge computes from its first read
and writes in the batch (merge.ts:20, 88-97), are left out: a tag saved between
the two is lost there, and the property is about contacts, links and notes.

**AgendaBoard** (schedule-board.tsx, board.ts). `board` is what the page shows,
`agenda` what the room holds, with the room's ruling as one step (its atomicity
is `EventRoom`'s and `SerialQueue`'s subject). `Place` and `ConfirmPlan` show
before they ask; `Hear` and `HearNothing` are the answer and its loss. `astray`
are the sessions of which the page cannot know: somebody else changed them, an
answer was lost, or two requests for one session were under way. The planner's
loop over the rail (`planAutoPlace`) is a recursive function, `Planned`, of the
number of sessions it has been through.

**FormDesk** (form-admin.ts, form-revisions.ts, load-form.ts, the page and the
routes of submit/[formSlug]). Fields are select fields with a key and perhaps a
rule that names another key; renaming rewrites rules and route in statements of
their own. The form is loaded twice: for the page (`OpenForm`) and, when its
answers arrive, by the request (`PostAnswers`), which checks them against that
second load and pins its revision. `shown` and `checked` keep both. The
history `crossed` notes a renaming or a deletion that met another request, and a
renaming that stopped halfway, `misled` the fields renamed together with a rule
naming their own old key.

**LiveCockpit** (program-cockpit.tsx). A snapshot is the number of changes it
shows; socket, ticket, timers and the flag `refetching` are as in the effect,
and every callback is an action.

**ContactsConsole** (contacts-console.tsx). An action of the page is a sequence
of requests that keeps the values it was started with; answers come in any
order and change the page as the code after the await does. Contacts keep
their names, and a search by company, title or text is one by a label.

**Abstractions.** Demo events are read-only and left out. Rooms are ids: an
event without configured rooms, two rooms of one name and the renaming of a
room are not modelled. `hours` is the set of windows the settings admit
instead of minutes and days. Content is one of "unpinned", "older" (an
approved revision that is no longer current) and "approved". Drafts are a
table of their own and no submission is in status "draft" in the room's
modules. Sessions are not created or deleted there. Names, wording and layout
appear only where a property is about them. Counters, clocks and what others do
are bounded by constants whose comment says "bound of the model"; the proofs
hold for every bound.

## 3. Runs

| run | asks | instance |
|---|---|---|
| `room_calls` | the room's tables and pending calls; double booking of rooms and speakers; hours, rooms in service, hard tracks; growing calendar sequence; published text is approved | *placing*: 2 sessions, 2 rooms, 3 windows, 2 callers; *operating*: every call and configuration handler, 2 sessions (1 private), 2 rooms, 2 tracks, hours that shrink, 1 caller |
| `programme_races` | invariant, agenda safety and refinement of `Agenda` with handlers racing | 2 sessions, 2 rooms, 1 request, 1 organizer |
| `live_desks` | what happens in the end: handlers end, the queue serves all in order, the cockpit catches up | 1 session, 2 requests and a room that may be retired; 3 operations; a page and 2 changes |
| `worker_desks` | the ledger and ten handlers of the Worker, see below | two requests at once (uploads: three), one or two rows of each table |
| `organizer_desks` | invitations of co-speakers, contacts, agenda page, forms | 1 speaker with 2 generations; 3 contacts, 2 addresses, 1 note; 2 sessions of 1 and 2 slots, 2 halls, a hard track, 2 clicks, 1 change by others; 2 fields, 3 keys, 1 revision, 1 paper; 2 requests each |

What `worker_desks` checks, by desk (besides each desk's types):

| desk | property | says | bounds |
|---|---|---|---|
| ledger | `LedgerIsTrue`, `SentIsFinal` | accepted or sent means taken on, taken on means stored; never taken back | 1 message, 2 Workers, lease 2, 3 tries, clock 4 |
| import | `ReportedSessionsAreReady`, `OnlyTheOwnerWrites` | a reported session is complete whatever late attempts do; every write is the claim's owner's | 1 session, 2 speakers, lease 1, clock 1 |
| drafts | `OneLinkInForce`, `NothingIsTakenBack` | one current link; submitted once, dead links stay dead, decided answers stay | 1 edit, 3 tokens, clock 1, no grace; the third token given out after the tick ends it (`FewLateLinks`) |
| team | `TeamIsSound`, `InvitersGrantWhatIsTheirs` | a link works once, the owner is on the team, invitation and link agree; nobody grants what is not theirs | 2 accounts, 1 link, clock 1 |
| files | `FilesAreKept` | every row has its object; versions are a line | 3 uploads |
| sync | `OutsideIsInStep` | one connection creates nothing twice outside; no session without speakers is taken for done | 1 talk, 1 face, 1 edit of one of them (`OneEdited`), 2 events, connected twice |
| reviews | `ReviewsHold` | one active round, one list per paper, one score each, deleted rounds leave nothing | 2 rounds, 2 judges of one, 1 paper, cap 1 |
| standins | `AnsweredHandoffsStay`, `AcksAreOfThisSlot` | answers stay; an acknowledgement that counts is of the slot as the server found it | 2 handoffs, 2 moves |
| calendars | `CalendarsFollow` | as new as the booking means the same place; who was told and lost no letter gets there | 2 invitees, 1 inbox, 2 spots, SEQUENCE to 2 |
| roster | `RosterIsSound` | one person per address, reported speakers are listed, imports were previewed | 2 people, 2 addresses, files of 1 and 2 rows |
| onboarding | `EveryoneHasTheirTasks` | confirmed on an accepted session means the tasks are there or coming, with the exceptions below | 2 speakers, 2 templates, 3 requests, 2 at once |

`organizer_desks` checks `LiveLinkIsClaimed` and `RotationIsJustified` (only the
current claim's link works; a claim rotates only when its mail was refused, or
sent and asked for again), `BookIsWhole` and `MergesGoThrough` (nobody and no
note is lost in a merge, rosters and contacts are one to one, no merge is
refused by an index it could have avoided), `BoardAgrees` and
`PlansAreAcceptable` (the page ends with what the room holds; what auto-place
proposes the room accepts), and `FormIsWhole` (revisions are a line, answers pin
the form they were checked against and that is not one from before the page,
references are live). Two CONSTRAINTs bound the forms: `UntilCrossed` goes no
further where references may have been lost, and `OneFieldOnceShown` keeps a form
that is shown or published to one field, since no request about fields looks at
revisions, or at more of the answers than whether there are any. The theorem
holds without them.

Bounds. Every conflict of the agenda is between two sessions, so two are
enough; two windows that overlap and a third that touches one of them cover the
edges of half-open intervals; two placements (`MaxSequence`) let a session be
placed, removed and placed again. A race needs one writer inside the room and
one outside; two requests at once add the races between handlers. When
everything is operated there is one caller, because calls do not overlap anyway
(`placing`, `live_desks`). Everywhere else a race is between two requests, and
three where one of them is the ghost of a timed-out upload; rows that do not
interact are one of a kind, rows that do (two accounts, two judges, two
addresses) are two. Clocks run just past one lease, grace or life, so that it
may or may not have ended. The symmetry sets hold requests, rooms and tracks
only, and no liveness run uses symmetry.

Properties with exceptions say in their comment what they except. Some the code
allows and no text of the repository forbids:

- calendars that took in a public file put together across a change (`misled` of
  `CalendarMail`), and a preview that crossed an edit of its text;
- sessions of the agenda page that two of its requests, or others beside it,
  changed (`astray`);
- answers edited under a later revision, which leave the older one pinned, and
  answers checked against a later revision than the page showed;
- an event outside that is connected again after its mappings were deleted: what
  the earlier connection made there is made once more, since nothing inside
  knows of it (repository.ts:141, 172);
- tasks of a request that died (`abandoned`), and of a template that was added,
  or made for a file, when the speaker had been given theirs (`unasked`):
  nothing in the code hands them out later (configuration.ts:233,
  deliverables.ts:117).

The others contradict a text:

- a confirmation that an acceptance overtook (`overtaken`), against
  accept.ts:69-70, "Pending co-speakers get theirs when they confirm": the run
  `passed_over` below;
- a renaming or a deletion that met another request (`crossed`), against
  form-admin.ts:448, "Field is used by visibility rule on ...", and 524,
  "Visibility field must exist on this form": a field is found unused and deleted
  while a request that has found it writes a rule that names it, and the rule
  names a field that is gone; a renaming that stops halfway leaves the same;
- a field renamed with a rule naming its own old key (`misled` of `FormDesk`),
  against the same line 524 and 520, "A field cannot control its own
  visibility": the check passes because the field still has that key
  (form-admin.ts:396), and the UPDATE makes the rule name a key nobody has. One
  request alone does it;
- a slot that moves between the page and the server's read: the button "Confirm
  this time" (session-ops.tsx:77) then acknowledges a time nobody was shown, and
  `AcksAreOfThisSlot` speaks of the read and not of the page (slot-ack.ts:16).

Seven runs show where the code does something else than the repository says
(`findings` in `PROJECT.json`):

- `withdrawn_slot`: a withdrawal that read "accepted" leaves the slot of a
  session placed meanwhile;
- `publish_snapshot`: a withdrawal between a publication's read and its batch is
  overwritten and the session goes public;
- `failed_taken`: a message the provider took on in a request that timed out is
  recorded as a confirmed failure when the last retry meets a busy provider;
- `revived_link`: the link of a removed speaker works again once they are added
  again, when its delivery is not recorded as "sent";
- `stale_cockpit`: a change announced before the room has accepted the page's
  socket is shown by nobody as long as the connection lasts;
- `wrong_merge`: the answer to a saved tag or note brings back the contact it
  was for beside the namesakes of the one opened since, and the merge offered
  is of two others (3 contacts, two of one name, 1 label, 2 actions at once);
- `passed_over`: an acceptance lists the confirmed speakers, a confirmation reads
  the session as not accepted, both write: a confirmed speaker of an accepted
  session whom nobody gives tasks until they confirm, or the organizer accepts,
  once more (2 speakers, 2 requests).

The first two are the unconditional status write after an await; the same
write lets a first score bring a withdrawn submission back into review
(score.ts:246), and a decision e-mail change the status it is about, against
notify-decided.ts:18, "without changing status": it reads "accepted", the room
schedules the session, and decideSubmission writes "accepted" back. An attempt at
a message that outlives its lease can also write "failed" over its successor's
reservation (resend.ts:169), so that a third one may start; the idempotency key
is what keeps the mail from being sent twice.

What survives these races is checked and proved: whatever the statuses do, no
room is double booked, a session that is scheduled or published has a slot, in
a room in service and within the hours, and every change of a slot is a new
calendar edition. Whatever attempts, crashes and leases do, "sent" is true and
final, and only the current claim's link works.

Other behaviour the modules contain and no property judges, for whoever works on
this code: the reminder of a draft rotates the link before it reserves its mail,
so that a stored envelope sent again holds an older link
(draft-reminders.ts:109), and a reminder left at "sending" by a crash blocks the
later ones; a save of tags replaces them with the page's copy; an import without
a status column sets every listed speaker back to "invited"; a service block
that was placed once keeps its calendar row and cannot be deleted
(service-blocks.ts:156 suggests it can); a bulk mail goes to selected contacts
the filter hides (contacts-console.tsx:537); an invited speaker who leaves
before the session is removed gets no cancellation.

## 4. Fairness

`SerialQueue`: weak fairness of starting and finishing an operation (promises
settle, database calls return or throw); nobody has to come. `Programme`: weak
fairness of a handler's next step and of the room's batch (or its failure), for
the same reason, and strong fairness of the room taking up a waiting withdrawal:
the room is again and again busy with other calls, so it is not continuously
free, but the queue serves in order of arrival (`EveryCallIsServed`,
`InOrderOfArrival`). No fairness is assumed of anybody who starts a request.
`LiveCockpit`: weak fairness of timers, of the Worker's announcement, of the
room's acceptance and of what the browser does with an answer it has; strong
fairness of the page's refetch being served and received, which fails now and
then and is made again every two seconds. Nobody has to change anything, nor does
a connection have to break or to last: `PollingCatchesUp` speaks of a page that
polls to the end, `LiveCatchesUp` (`stale_cockpit`) of one whose connection
lasts. In `MCLiveDesks` the same conditions hold at each part's own desk
(`LiveFairness`). The other modules have no liveness: a message, an upload or an
import is retried only when somebody asks for it.

## 5. Proofs

All theorems hold for every value of the constants, under the assumptions the
modules name (windows are records of two integers, null values are none of the
values they stand beside, the founder is on the team, and the like).

- `EventRoomProofs!AgendaHolds`: `Spec => []AgendaInv`. The safety properties
  alone are not inductive, because a batch writes what was computed at its
  reads. `PendingCallsAreSound` adds, for each kind of call, that what it
  concluded is still true when its batch is sent; `OneCallAtATime` makes it
  stable, since only calls behind the same queue write what it depends on. There
  is one lemma per action. `RoomTypes` and `RoomSafety` are its parts.
- `SpeakersHold`, `TextsHold`, `TracksHold`: three more invariants on top of it,
  each with a conclusion of its own that a call carries to its batch
  (`SpeakersInv`, `TextsInv`, `TracksInv`). The first is about sessions whose
  rosters stay as they are, as in the model; the second about the step by which a
  session becomes public, not about approval taken back later; the third about
  the step that places a session on a track in service under the hard policy, not
  about sessions placed before the policy became hard. Tracks come and go past
  the queue; what saves the batch is that a track once given to a slot has been
  created and never becomes active again.
- `SlotChangesHold` (every slot change raises the sequence) and
  `RoomImplementsAgenda` (the refinement; each batch is one abstract step, all
  other steps stutter) follow from the invariant.
- `ProgrammeHolds`, `ProgrammeSafety`, `ProgrammeImplementsAgenda`: the same
  with the handlers outside the room. The key is `WorkersNeverPlace`: no handler
  outside the room writes "scheduled" or "published", so its write can only take
  a session's status off the agenda, which no part of the invariant minds.
- `AgendaProofs!PromisesKept`: the abstract agenda's safety, assuming only that
  the null placement is not a placement. `ProgrammeKeepsThePromises` takes an
  instance of that module under the refinement mapping and carries the promises
  over to the programme: nothing public is off the agenda, no room holds two
  sessions, and nothing about rooms, calls or handlers is argued a second time.
- `ProgrammeProofs`, queue: `ChainHolds` says the chain of promises is intact and
  is inductive; `Serialized` and `FirstComeFirstServed` follow. Page:
  `PagesHearOrHoldNothing`; a page's connection and timers keep each other right
  (`CockpitInv`).
- `EmailDeliveryProofs`, ledger: `LedgerHolds` adds to the two safety properties
  what an attempt knows at each point (`AttemptsAreSound`): one that is asking
  the provider has its envelope stored, one that is recording an acceptance has
  seen the message taken on. `SentStaysSent` holds because each late write is
  conditional on the status it takes the row from. `LedgerSafety` is the part
  the runs check.
- `OrganizerDeskProofs`, links: `LinkHolds` is inductive with the types. An
  invitation may hold an old generation, but the link is only set when the claim
  has that generation, in the same statement or batch. `CoSpeakersUseTheLedger`
  is a refinement: a step of `CoSpeakers` is a step of `EmailDelivery` or leaves
  its variables alone, so that the ledger's theorems carry over
  (`InvitationsAreRecorded`). `RotationsAreJustified` is an action property.
- `LinkProofs`, team: `TeamInv` says for each link which of its row, its
  invitation and its e-mail exist at which point (`LinkSound`), what a request
  knows of its link (`VisitSound`), and that two requests about to make, to
  invite with or to enter by a link have two links (`VisitsApart`). `TeamHolds`
  and `InvitersHold` follow: consuming is a compare and set on the row, and what
  grants a role looks at the inviter in the same statement.
- `LinkProofs`, drafts: `DraftInv` says that the last token given out is in
  force and no other (`LastInForce`), and that no request gets past its first
  read before there is a draft. A rotation, whether by a save, a submission or
  the daily job, keeps both and lengthens no life (`RotatedIsInForce`);
  `LinkInForce` and `DraftsTakeNothingBack` follow.
- `SpeakerProofs`: `FilesInv` knows of every upload whether its object and its
  rows exist at its point, and that an upload whose task still holds the file
  it is going to replace has the next version number; hence `FilesHold`.
  `StandInInv` has two parts: an unanswered handoff about to be inserted is
  nobody else's (`HandoffsInv`, for `HandoffsStay`), and an acknowledgement, as
  well as one still to be recorded, that carries the slot's sequence was read of
  this slot (`AckInv`, for `AcksHold`; of what the page showed it says nothing).
- `SpeakerProofs`, tasks: `TasksInv` follows a request through its list. Until it
  has written, the templates it read are all there are but for those that came
  beside it, which are in `unasked` (`KeysAreAll`), and until an acceptance has
  written the status whoever is confirmed outside its list is in `overtaken`
  (`ListsAreFull`). `NobodyGoesWithoutTasks` follows. Whom a request takes next is the
  first of its list, which exists because a set of numbers has a least one.
- `SpeakerProofs`, calendars: in `MailInv` every letter and every calendar is at
  most as new as the booking (`NothingIsAhead`), an edition is mailed once
  (`MailedOnce`), and who was told has the booking's edition in the calendar or
  in a letter under way (`ToldHaveIt`). `CalendarsShowTheBooking` follows.
- `WorkerDeskProofs`, import: a claim whose lease has ended may be taken while its
  owner is still writing, so that what a request knows holds only as long as it
  has the claim. `ImportInv` says of the one that has it: the rows of all phases
  behind it are there (`RowsAreBehind`), its lease outlasts its last renewal
  (`LeasesAreNew`), and what its journal would take away is nothing it found
  (`JournalsAreTrue`), nothing another has reported or will report
  (`FoundReady`). The last write of a session with several speakers is not
  checked by the code, so a request about to make it will report the session
  whatever becomes of its claim: `DoneIsReady` counts it as done. With that,
  `ReportedAreReady` and `OwnersWrite`.
- `WorkerDeskProofs`, rounds: `ReviewInv` is the property with the tables and the
  fact that the lists requests carry are of the round they are for. What a
  request has read otherwise is never relied on: each write asks again, and
  indexes and foreign keys answer. `ReviewsHoldTogether`.
- `WorkerDeskProofs`, Accelevents: `SyncInv` says that mappings and what runs
  believe of them name what is outside (`TrueRows`, `SoundRun`), that what is
  there is claimed, and that an item is about to be created by one run, which has
  claimed it, and is not there (`ClaimsAreKept`); both are of what came through
  the present connection. Runs of an earlier connection may go on, also when the
  present one names the same event; what they make is of theirs.
  `NothingIsPushedTwice`.
- `WorkerDeskProofs`, roster: `RosterInv` adds to the tables that whoever is on
  the roster has an address, that whom an import has counted stays listed, and
  that the one preview the page still listens for is of its text.
  `RosterStaysSound`.
- `OrganizerDeskProofs`, contacts: `BookInv` says what a request has in hand, and
  that every contact that was merged hangs on one that is there; a merge moves
  these on with the notes. `BookStaysWhole`; `MergesDoTheirWork` is an action
  property: with the links it saw, the merge violates no index.
- `OrganizerDeskProofs`, forms: the line of revisions needs only that a number
  read before others published is at most the next one (`NumbersAreNext`), and
  that answers are not checked against a form older than their page, that the
  published number does not fall (`ShownIsKnown`). That references are live is
  not inductive by itself: `EverythingInPlace` says what each request has found,
  and of a field half renamed that its rules name the key it is about to have.
  It speaks of behaviours in which nothing has crossed, and of rules that are not
  those of `misled` fields; nothing is claimed of the others, nor do they stop.
  `FormsStayWhole`.
- `OrganizerDeskProofs`, page: `BoardInv` says of a session with one request under
  way what page and room hold until the answer. `BoardsComeBack`.
  `PlansAreTakenUp` is about the planner, a loop over the sessions of the page:
  that its recursive function exists, and that every cell it gives is free with
  all the later ones in place, are inductions over the sessions. The library's
  induction theorems cannot be used here, so both are done by a least
  counterexample: the numbers for which the claim fails are a set, and a set of
  numbers that is not empty has a least element (`LeastOfASet`, from the
  well-foundedness of the natural numbers).
- Types. Every type invariant that a passing run checks is a theorem, and so is
  that of each part at a desk. Where the invariant that carries the safety properties knows the types, it is a corollary
  (`TeamTypes`, `DraftTypes`, `FilesTypes`, `SyncTypes`, `ReviewTypes`,
  `RosterTypes`). Elsewhere the types have an inductive invariant of their own,
  because they bound what is counted: a slot has moved at most once more often
  than its calendar sequence says (`HandoffTypes`), only a placement takes a cell
  from the request that asked for it, and that request names one (`BoardTyped`),
  no revision beyond the bound is written, or asked for after having been read
  (`FormBounds`), what requests left behind or overtook is of sessions' speakers
  and of templates there are (`DeedHistory`, beside `TasksInv`).
- Composition. The runs put parts that share no variable side by side, each at a
  *desk* of one specification. `DesksRunTheirParts`, `OrganizersRunTheirParts` and
  `LiveDesksRunTheirParts` say that such a specification implies that of each
  part: at every step the part at work takes a step of its own, and for all
  others it is a stutter. Hence what is proved of a part holds of the
  specification that TLC checks: `DesksAreSafe`, `DesksStepSafely`,
  `OrganizersAreSafe` and `LiveDesksAreSafe` are all the safety properties of
  those three runs, `DesksKeepTheirTypes` and `OrganizersKeepTheirTypes` their
  type invariants. In the same way `QuietIsAProgramme` links the two instances of
  the programme that leave hours and texts alone with the theorems about it.

The assumptions on constants say what the code's types say: a null value is none
of the values it stands beside, a session has a speaker, a file of the roster has
a row, a session of Accelevents is not a speaker, durations are positive and fit
the day, the founder is on the team. The type theorems assume further that bounds
of the model are natural numbers and that sets whose members a request names
(handoffs, contacts, fields, reviewers) are not empty: a request record that
names none of them holds an arbitrary one instead, which must then exist. An
event without any has no request about one either. TLC evaluates all of them in the runs.

Only model-checked: liveness (`RequestsEnd`, `EveryCallIsServed`,
`PollingCatchesUp`), which is out of the prover's reach. Every invariant and
every action property that a passing run checks is a theorem. The runs with
symmetry or a view check exactly the specifications named here; that `RoomSpec`,
the two instances of `room_calls`, only takes steps of `EventRoom!Next` is by
its definition and has no theorem. What the runs that end in a violation refute
has, of course, none either.

## 6. What is next

1. The form builder: rows keep their old `position` after a reorder, so that
   editing a moved field moves it back; a failed reorder restores an older list.
2. Renaming rooms, tracks and templates, and what slots and tasks keep of the old
   names; the cap on co-speakers and on submissions.
3. Creation and cloning of events, which read their source in several queries
   before one batch.
4. Tickets and broadcasts of the event room's sockets.

## 7. How to run

    tlc -config room_calls.cfg MCEventRoom.tla
    tlapm EventRoomProofs.tla

The module of each run is in `PROJECT.json`, with a mutated definition for each
property that the run then finds violated, the source lines of every definition,
and the list of hazards with the properties that watch them. `worker_desks`
and `organizer_desks` take about three minutes each with two workers, the others
less.

## 8. Not modelled

- Parts that share no state worth a race: public schedule, embeds and calendars
  of a day (read-only views of the agenda), exports as CSV or ZIP and the copy to
  Airtable (one way, overwritten each time), task and reviewer reminders (they
  choose recipients and hand them to the ledger), resources, comments, branding
  and other settings (one statement each), API tokens apart from a member's own,
  rate limits (a counter per key in one upsert).
- Uploads with a proposal: the object is stored before its row and taken back
  when the row fails, as `SpeakerFiles` has it for tasks. Deleting an event's
  file looks for references first, so that a submission in between ends with a
  file that is gone.
- Event creation and cloning: a new event is one batch under an id nobody knows
  yet. A clone reads forms, fields, plans and templates in several queries and
  may mix two states of its source.
- WebSockets and broadcasts of the room (hints to reload; `LiveCockpit` has the
  page's end of them), tickets.
- Most of the user interface: form builder, settings, review workspace, portal,
  communications, landing and comparison pages. Well over half of the source is
  markup, type declarations, OpenAPI documents, message texts, and queries that
  only read; it has no state of its own to model, which is why the mapped lines
  are a small share of all lines.
- The notes of the components in `PROJECT.json` say what is left out of parts
  that are modelled.
