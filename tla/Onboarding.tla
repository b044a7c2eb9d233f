------------------------------ MODULE Onboarding ------------------------------
(***************************************************************************)
(* How the speakers of a session get their tasks: the acceptance of the    *)
(* session (src/src/lib/speakers/accept.ts), the answers of its speakers   *)
(* (co-speakers.ts), what an organizer asks of all speakers                *)
(* (src/src/lib/content/deliverables.ts), and the templates that are added *)
(* and retired in the settings (src/src/lib/events/configuration.ts).      *)
(*                                                                         *)
(* Acceptance gives tasks to the speakers it has read as confirmed, and a  *)
(* confirmation gives them to its speaker when it has read the session as  *)
(* accepted.  Each reads before it writes, and the other may write between.*)
(*                                                                         *)
(* A session is open or accepted: other decisions are in Programme.  The   *)
(* links of the speakers are in CoSpeakers, uploads in SpeakerFiles.       *)
(***************************************************************************)
EXTENDS Integers, Sequences, FiniteSets

CONSTANTS
    Billed,     \* the speakers of the session, by position, the submitter first
    Standard,   \* task templates of the event
    Requested,  \* templates that an organizer may add, or make for a file from everybody
    Helpers,    \* requests under way
    LastDeed    \* bound of the model: requests made

Bill == {Billed[i] : i \in 1..Len(Billed)}
Lead == Billed[1]
Templates == Standard \cup Requested

ASSUME OnboardingAssumption ==
    /\ Billed \in Seq(Bill) \ {<<>>}
    /\ Standard # {} /\ LastDeed \in Nat

VARIABLES
    accepted,   \* submissions.status is past acceptance
    answer,     \* submission_speakers.status
    linked,     \* speakers with a person_id
    catalogue,  \* task_templates
    todo,       \* speaker_tasks: <<speaker, template>>
    deed,       \* the requests
    begun,      \* requests made so far
    abandoned,  \* history: whom a request that died has left where it was
    overtaken,  \* history: speakers whose confirmation was overtaken, see Overtakes
    unasked     \* history: <<speaker, template>> where the template came too late

onboardingVars == <<accepted, answer, linked, catalogue, todo, deed, begun, abandoned, overtaken,
                    unasked>>

IdleDeed == [at |-> "free", kind |-> "none", who |-> Lead, key |-> CHOOSE t \in Standard : TRUE,
             saw |-> FALSE, list |-> {}, keys |-> {}]

Answers == {"pending", "confirmed", "declined", "removed"}

OnboardingTypeOK ==
    /\ accepted \in BOOLEAN
    /\ answer \in [Bill -> Answers]
    /\ linked \subseteq Bill /\ abandoned \subseteq Bill
    /\ catalogue \in [Templates -> {"none", "live", "retired"}]
    /\ todo \subseteq Bill \X Templates
    /\ begun \in 0..LastDeed
    /\ overtaken \subseteq Bill /\ unasked \subseteq Bill \X Templates
    /\ deed \in [Helpers ->
          [at : {"free", "lineup", "templates", "mark", "link", "spawn", "row", "paper",
                 "confirm", "decline", "revive", "audience", "ask", "implied"},
           kind : {"none", "accept", "confirm", "decline"},
           who : Bill, key : Templates, saw : BOOLEAN,
           list : SUBSET Bill, keys : SUBSET Templates]]

\* The submitter is confirmed by submitting; the others have been invited.
OnboardingInit ==
    /\ accepted = FALSE
    /\ answer = [s \in Bill |-> IF s = Lead THEN "confirmed" ELSE "pending"]
    /\ linked = {} /\ abandoned = {} /\ overtaken = {} /\ unasked = {}
    /\ catalogue = [t \in Templates |-> IF t \in Standard THEN "live" ELSE "none"]
    /\ todo = {} /\ begun = 0
    /\ deed = [q \in Helpers |-> IdleDeed]

LiveTemplates == {t \in Templates : catalogue[t] = "live"}

IsAt(q, place) == deed[q].at = place
MoveOn(q, place) == deed' = [deed EXCEPT ![q].at = place]
Over(q) == deed' = [deed EXCEPT ![q] = IdleDeed]
history == <<abandoned, overtaken, unasked>>
rest == <<accepted, answer, linked, catalogue, todo, history>>

\* A request comes; only what is named is known of it.
Takes(q, d) ==
    /\ IsAt(q, "free") /\ begun < LastDeed
    /\ deed' = [deed EXCEPT ![q] = d]
    /\ begun' = begun + 1
    /\ UNCHANGED rest

-----------------------------------------------------------------------------
(* Acceptance: the status, the speakers and the templates are read, the      *)
(* status is written, and then one speaker after the other gets theirs.      *)

StartAccept(q) ==
    Takes(q, [IdleDeed EXCEPT !.at = "lineup", !.kind = "accept", !.saw = accepted])

\* Nobody confirmed: 400.
ReadLineup(q) ==
    /\ IsAt(q, "lineup")
    /\ LET confirmed == {s \in Bill : answer[s] = "confirmed"} IN
          IF confirmed = {} THEN Over(q)
          ELSE deed' = [deed EXCEPT ![q].list = confirmed, ![q].at = "templates"]
    /\ UNCHANGED <<rest, begun>>

\* What ensureTaskTemplates is followed by.
AfterTemplates(d) ==
    IF d.kind = "confirm" THEN "confirm" ELSE IF d.saw THEN "link" ELSE "mark"

ReadTemplates(q) ==
    /\ IsAt(q, "templates")
    /\ deed' = [deed EXCEPT ![q].keys = LiveTemplates, ![q].at = AfterTemplates(deed[q])]
    /\ UNCHANGED <<rest, begun>>

WriteAccepted(q) ==
    /\ IsAt(q, "mark")
    /\ accepted' = TRUE
    /\ MoveOn(q, "link")
    /\ UNCHANGED <<answer, linked, catalogue, todo, history, begun>>

-----------------------------------------------------------------------------
(* materializeAcceptedSpeaker, without the person and the profile.           *)

\* By position.
FirstOf(S) ==
    LET i == CHOOSE i \in 1..Len(Billed) :
                /\ Billed[i] \in S
                /\ \A j \in 1..i - 1 : Billed[j] \notin S
    IN  Billed[i]

LinkPerson(q) ==
    /\ IsAt(q, "link")
    /\ linked' = linked \cup {FirstOf(deed[q].list)}
    /\ MoveOn(q, "spawn")
    /\ UNCHANGED <<accepted, answer, catalogue, todo, history, begun>>

SpawnTasks(q) ==
    LET s == FirstOf(deed[q].list) IN
    /\ IsAt(q, "spawn")
    /\ todo' = todo \cup {s} \X deed[q].keys    \* INSERT OR IGNORE
    /\ IF deed[q].list = {s} THEN Over(q)
       ELSE deed' = [deed EXCEPT ![q].list = @ \ {s}, ![q].at = "link"]
    /\ UNCHANGED <<accepted, answer, linked, catalogue, history, begun>>

-----------------------------------------------------------------------------
(* Answers, by the speaker or by an organizer for them.                      *)

StartConfirm(q, s) == Takes(q, [IdleDeed EXCEPT !.at = "row", !.who = s])

\* Removed: 409.  A request of kind "confirm" has a status to write.
ReadRow(q) ==
    /\ IsAt(q, "row")
    /\ CASE answer[deed[q].who] = "removed" -> Over(q)
         [] answer[deed[q].who] = "confirmed" -> MoveOn(q, "paper")
         [] OTHER -> deed' = [deed EXCEPT ![q].kind = "confirm", ![q].at = "paper"]
    /\ UNCHANGED <<rest, begun>>

ReadPaper(q) ==
    /\ IsAt(q, "paper")
    /\ IF ~accepted /\ deed[q].kind # "confirm" THEN Over(q)
       ELSE deed' = [deed EXCEPT ![q].saw = accepted, ![q].list = {deed[q].who},
                                 ![q].at = IF accepted THEN "templates" ELSE "confirm"]
    /\ UNCHANGED <<rest, begun>>

\* As if tasks were left to the acceptance in every case.
GoesOnToTasksNever(d) == FALSE

GoesOnToTasks(d) == d.saw

\* An acceptance that has read s as not confirmed is under way, or has been
\* through since this request read the session as open.
Overtakes(q, s) ==
    /\ ~deed[q].saw
    /\ \/ accepted
       \/ \E a \in Helpers : /\ deed[a].kind = "accept"
                             /\ deed[a].at \in {"templates", "mark"}
                             /\ s \notin deed[a].list

WriteConfirmed(q) ==
    LET s == deed[q].who IN
    /\ IsAt(q, "confirm")
    /\ answer' = [answer EXCEPT ![s] = "confirmed"]
    /\ overtaken' = IF Overtakes(q, s) THEN overtaken \cup {s} ELSE overtaken
    /\ IF GoesOnToTasks(deed[q]) THEN MoveOn(q, "link") ELSE Over(q)
    /\ UNCHANGED <<accepted, linked, catalogue, todo, abandoned, unasked, begun>>

StartDecline(q, s) ==
    /\ s # Lead /\ answer[s] \notin {"removed", "declined"}
    /\ Takes(q, [IdleDeed EXCEPT !.at = "decline", !.who = s])

WriteDeclined(q) ==
    /\ IsAt(q, "decline")
    /\ answer' = [answer EXCEPT ![deed[q].who] = "declined"]
    /\ Over(q)
    /\ UNCHANGED <<accepted, linked, catalogue, todo, history, begun>>

\* The row is read for its position only.
RemoveSpeaker(s) ==
    /\ s # Lead
    /\ answer' = [answer EXCEPT ![s] = "removed"]
    /\ UNCHANGED <<accepted, linked, catalogue, todo, deed, history, begun>>

StartRevive(q, s) ==
    /\ answer[s] = "removed"
    /\ Takes(q, [IdleDeed EXCEPT !.at = "revive", !.who = s])

WriteRevived(q) ==
    /\ IsAt(q, "revive")
    /\ answer' = [answer EXCEPT ![deed[q].who] = "pending"]
    /\ Over(q)
    /\ UNCHANGED <<accepted, linked, catalogue, todo, history, begun>>

-----------------------------------------------------------------------------
(* A file from everybody, and templates that are added and retired.          *)

\* UNIQUE (event_id, key), and a retired template keeps its key.
IsNew(t) == catalogue[t] = "none" /\ \A a \in Helpers : deed[a].key # t

StartAsk(q, t) == IsNew(t) /\ Takes(q, [IdleDeed EXCEPT !.at = "audience", !.key = t])

ReadAudience(q) ==
    /\ IsAt(q, "audience")
    /\ deed' = [deed EXCEPT ![q].at = "ask",
                  ![q].list = {s \in linked : accepted /\ answer[s] \in {"pending", "confirmed"}}]
    /\ UNCHANGED <<rest, begun>>

\* Those who are past being given tasks, or will be given the templates that
\* a request has read: a template that comes now comes too late for them.
GivenBefore ==
    {s \in Bill : \/ accepted /\ answer[s] = "confirmed"
                  \/ \E a \in Helpers : deed[a].keys # {} /\ s \in deed[a].list}

\* The template and the tasks are one batch.
AskEverybody(q) ==
    LET t == deed[q].key IN
    /\ IsAt(q, "ask")
    /\ catalogue' = [catalogue EXCEPT ![t] = "live"]
    /\ todo' = todo \cup deed[q].list \X {t}
    /\ unasked' = unasked \cup (GivenBefore \ deed[q].list) \X {t}
    /\ Over(q)
    /\ UNCHANGED <<accepted, answer, linked, abandoned, overtaken, begun>>

\* createTaskTemplate: the row, and nobody's task.
AddTemplate(t) ==
    /\ IsNew(t)
    /\ catalogue' = [catalogue EXCEPT ![t] = "live"]
    /\ unasked' = unasked \cup GivenBefore \X {t}
    /\ UNCHANGED <<accepted, answer, linked, todo, deed, abandoned, overtaken, begun>>

\* softDelete: the last one stays.
RetireTemplate(t) ==
    /\ catalogue[t] = "live"
    /\ Cardinality(LiveTemplates) > 1
    /\ catalogue' = [catalogue EXCEPT ![t] = "retired"]
    /\ UNCHANGED <<accepted, answer, linked, todo, deed, history, begun>>

-----------------------------------------------------------------------------
(* A text task that is done confirms its speaker.                            *)

\* What became of the task itself makes no difference here.
StartTask(q, s) ==
    /\ \E t \in Templates : <<s, t>> \in todo
    /\ Takes(q, [IdleDeed EXCEPT !.at = "implied", !.who = s])

\* confirmCoSpeaker for the rows that are pending.
ConfirmByTask(q) ==
    /\ IsAt(q, "implied")
    /\ IF answer[deed[q].who] = "pending" THEN MoveOn(q, "row") ELSE Over(q)
    /\ UNCHANGED <<rest, begun>>

\* The Worker dies, or a statement throws, between two steps.
HelperDies(q) ==
    /\ ~IsAt(q, "free")
    /\ abandoned' = abandoned \cup deed[q].list
    /\ Over(q)
    /\ UNCHANGED <<accepted, answer, linked, catalogue, todo, overtaken, unasked, begun>>

-----------------------------------------------------------------------------
HelperStep(q) ==
    \/ ReadLineup(q) \/ ReadTemplates(q) \/ WriteAccepted(q)
    \/ LinkPerson(q) \/ SpawnTasks(q)
    \/ ReadRow(q) \/ ReadPaper(q) \/ WriteConfirmed(q) \/ WriteDeclined(q) \/ WriteRevived(q)
    \/ ReadAudience(q) \/ AskEverybody(q)
    \/ ConfirmByTask(q)
    \/ HelperDies(q)

StartHelper(q) ==
    \/ StartAccept(q)
    \/ \E s \in Bill : StartConfirm(q, s) \/ StartDecline(q, s) \/ StartRevive(q, s)
                       \/ StartTask(q, s)
    \/ \E t \in Requested : StartAsk(q, t)

OnboardingNext ==
    \/ \E q \in Helpers : StartHelper(q) \/ HelperStep(q)
    \/ \E s \in Bill : RemoveSpeaker(s)
    \/ \E t \in Templates : RetireTemplate(t)
    \/ \E t \in Requested : AddTemplate(t)

OnboardingSpec == OnboardingInit /\ [][OnboardingNext]_onboardingVars

-----------------------------------------------------------------------------
(* Properties *)

\* A request that is still going to give s their tasks.
IsComing(s) ==
    \E q \in Helpers : deed[q].at \in {"mark", "link", "spawn"} /\ s \in deed[q].list

\* s has t, a request is about to give it, or t came too late for s.
HasOrGets(s, t) == <<s, t>> \in todo \/ IsComing(s) \/ <<s, t>> \in unasked

\* However acceptance, confirmations, requests for files and new templates
\* overlap, a confirmed speaker of an accepted session has every task there is,
\* or a request is about to give it.  Three exceptions: the request that was to
\* give it died; the template was added, or made for a file, when the speaker
\* had been given theirs, and the request for the file had not listed them
\* (configuration.ts:233, deliverables.ts:117: nothing gives it to them then);
\* and the confirmation was overtaken by the acceptance, which is against
\* accept.ts:69-70 and a run of its own (NobodyIsPassedOver).
EveryoneHasTheirTasks ==
    accepted =>
        \A s \in Bill, t \in LiveTemplates :
            answer[s] = "confirmed" => HasOrGets(s, t) \/ s \in abandoned \cup overtaken

\* "Tasks spawn only for confirmed speakers. Pending co-speakers get theirs
\* when they confirm" (accept.ts:69-70), whichever comes first.
NobodyIsPassedOver ==
    accepted =>
        \A s \in Bill, t \in LiveTemplates :
            answer[s] = "confirmed" => HasOrGets(s, t) \/ s \in abandoned
===============================================================================
