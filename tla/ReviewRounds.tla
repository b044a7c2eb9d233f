---------------------------- MODULE ReviewRounds ----------------------------
(***************************************************************************)
(* Review rounds, their reviewers, the assignments and the scores          *)
(* (src/src/lib/evaluation/plan.ts, assignments.ts, recusal.ts,            *)
(* reviewers.ts, score.ts, and the routes over them).                      *)
(*                                                                         *)
(* Organizers and reviewers send requests at once; each request reads,     *)
(* decides, and then writes in one statement or one batch.  What the tables*)
(* refuse (the unique indexes of migrations 0018 and 0031, the foreign keys*)
(* of 0003, 0006 and 0009) is modelled at the write.                       *)
(*                                                                         *)
(* Left out: criteria and the value of a score, opening and closing dates, *)
(* names, tokens (which only say who the reviewer is).                     *)
(***************************************************************************)
EXTENDS Integers, FiniteSets

CONSTANTS
    Rounds,     \* the evaluation plans of an event
    Judges,     \* their reviewers
    RoundOf,    \* the plan of each reviewer
    Papers,     \* the submissions
    Cap,        \* assignment_cap of every plan
    Clerks      \* requests under way at a time

ASSUME RoundOfIsRound == RoundOf \in [Judges -> Rounds]
\* A request that names no reviewer holds one of them all the same.
ASSUME SomebodyJudges == Judges # {}

VARIABLES
    round,      \* evaluation_plans.status, "gone" once deleted
    revoked,    \* reviewers with a revoked_at
    assigned,   \* review_assignments
    scores,     \* evaluation_scores: how many rows of each reviewer and submission
    clerk       \* the requests

reviewVars == <<round, revoked, assigned, scores, clerk>>

RoundStates == {"draft", "active", "closed", "gone"}

\* list is the list of reviewers the row was written with.
Assignments == [judge : Judges, paper : Papers, recused : BOOLEAN, list : SUBSET Judges]

Errands == {"none", "activate", "patch", "reopen", "delete", "caps", "list", "assign",
            "revoke", "recuse", "score", "mark"}

Briefs == [at : Errands,
           plan : Rounds,
           status : RoundStates,            \* the status to be written
           list : SUBSET Judges,            \* whom to assign
           papers : SUBSET Papers,
           rows : SUBSET (Judges \X Papers),    \* the recusals that were read
           judge : Judges,
           found : BOOLEAN]                 \* a row was found at the read

NoBrief == [at |-> "none", plan |-> CHOOSE p \in Rounds : TRUE, status |-> "draft",
            list |-> {}, papers |-> {}, rows |-> {},
            judge |-> CHOOSE j \in Judges : TRUE, found |-> FALSE]

ReviewTypeOK ==
    /\ round \in [Rounds -> RoundStates]
    /\ revoked \subseteq Judges
    /\ assigned \subseteq Assignments
    /\ scores \in [Judges -> [Papers -> 0..2]]
    /\ clerk \in [Clerks -> Briefs]

ReviewInit ==
    /\ round = [p \in Rounds |-> "draft"]
    /\ revoked = {} /\ assigned = {}
    /\ scores = [j \in Judges |-> [s \in Papers |-> 0]]
    /\ clerk = [c \in Clerks |-> NoBrief]

Free(c) == clerk[c].at = "none"
On(c, errand) == clerk[c].at = errand
Answered(c) == clerk' = [clerk EXCEPT ![c] = NoBrief]
UnchangedTables == UNCHANGED <<round, revoked, assigned, scores>>
ActiveRounds == {p \in Rounds : round[p] = "active"}

-----------------------------------------------------------------------------
(* Rounds *)

\* Mutant: no unique index over the active plans of an event.
IndexAllowsAnything(p) == TRUE

\* evaluation_plans_one_active_per_event.
IndexAllows(p) == ActiveRounds \subseteq {p}

\* activateEvaluationPlan: nothing is active, and this is the draft ...
AskActivate(c, p) ==
    /\ Free(c) /\ ActiveRounds = {} /\ round[p] = "draft"
    /\ clerk' = [clerk EXCEPT ![c].at = "activate", ![c].plan = p]
    /\ UnchangedTables

\* ... and after its criteria and reviewers are there, one UPDATE that asks both again.
Activate(c) ==
    LET p == clerk[c].plan
    IN  /\ On(c, "activate")
        /\ round' = IF round[p] = "draft" /\ ActiveRounds = {}
                    THEN [round EXCEPT ![p] = "active"] ELSE round
        /\ Answered(c)
        /\ UNCHANGED <<revoked, assigned, scores>>

\* updateEvaluationPlan writes the status it was asked for, or the one it read
\* with what else is changed.  A draft is not activated and nothing becomes a
\* draft this way.
AskPatch(c, p, status) ==
    /\ Free(c) /\ round[p] # "gone"
    /\ status \in {round[p], "closed"} \/ (status = "active" /\ round[p] = "closed")
    /\ clerk' = [clerk EXCEPT ![c].plan = p, ![c].status = status,
                              ![c].at = IF status = "active" /\ round[p] = "closed"
                                        THEN "reopen" ELSE "patch"]
    /\ UnchangedTables

\* The one UPDATE; the index may refuse it, and a plan that is gone is not found.
Patch(c) ==
    LET p == clerk[c].plan
    IN  /\ On(c, "patch")
        /\ round' = IF \/ round[p] = "gone"
                       \/ clerk[c].status = "active" /\ ~IndexAllows(p)
                    THEN round ELSE [round EXCEPT ![p] = clerk[c].status]
        /\ Answered(c)
        /\ UNCHANGED <<revoked, assigned, scores>>

\* Reopening closes the active plan in the same batch.
Reopen(c) ==
    LET p == clerk[c].plan
    IN  /\ On(c, "reopen")
        /\ round' = [q \in Rounds |->
                        IF q = p THEN IF round[q] = "gone" THEN "gone" ELSE "active"
                        ELSE IF round[q] = "active" THEN "closed" ELSE round[q]]
        /\ Answered(c)
        /\ UNCHANGED <<revoked, assigned, scores>>

OfRound(p) == {j \in Judges : RoundOf[j] = p}
RowsOf(p) == {a \in assigned : a.judge \in OfRound(p)}
ScoresOf(p) == {r \in OfRound(p) \X Papers : scores[r[1]][r[2]] > 0}

\* deleteDraftEvaluationPlan: a draft that nothing refers to ...
AskDelete(c, p) ==
    /\ Free(c) /\ round[p] = "draft" /\ RowsOf(p) = {} /\ ScoresOf(p) = {}
    /\ clerk' = [clerk EXCEPT ![c].at = "delete", ![c].plan = p]
    /\ UnchangedTables

\* Mutant: the foreign keys are not enforced.
NothingRefersToUnasked(p) == TRUE

\* The foreign keys: rows that refer to the reviewers and to the plan.
NothingRefersTo(p) == RowsOf(p) = {} /\ ScoresOf(p) = {}

\* ... goes in one batch, which does not ask again but for the foreign keys.
Delete(c) ==
    LET p == clerk[c].plan
    IN  /\ On(c, "delete")
        /\ round' = IF NothingRefersTo(p) THEN [round EXCEPT ![p] = "gone"] ELSE round
        /\ Answered(c)
        /\ UNCHANGED <<revoked, assigned, scores>>

-----------------------------------------------------------------------------
(* Assignments: setBulkSubmissionReviewers *)

\* The plan is active, and each reviewer is of the plan and not revoked.
AskAssign(c, p, list, papers) ==
    /\ Free(c) /\ round[p] = "active"
    /\ list # {} /\ papers # {} /\ list \subseteq OfRound(p) \ revoked
    /\ clerk' = [clerk EXCEPT ![c].at = "caps", ![c].plan = p,
                              ![c].list = list, ![c].papers = papers]
    /\ UnchangedTables

\* assertAssignmentCaps: what each reviewer has elsewhere, with what comes.
Load(c, j) ==
    Cardinality({a \in assigned : a.judge = j /\ ~a.recused /\ a.paper \notin clerk[c].papers})
        + Cardinality(clerk[c].papers)

CheckCaps(c) ==
    /\ On(c, "caps")
    /\ IF round[clerk[c].plan] # "gone" /\ \A j \in clerk[c].list : Load(c, j) <= Cap
       THEN clerk' = [clerk EXCEPT ![c].at = "list"]
       ELSE Answered(c)
    /\ UnchangedTables

\* Mutant: only the rows of the reviewers that are listed go.
ReplacedIfListed(c) ==
    {a \in assigned : a.judge \in clerk[c].list /\ a.paper \in clerk[c].papers}

\* The rows of these submissions in this plan.
Replaced(c) == {a \in RowsOf(clerk[c].plan) : a.paper \in clerk[c].papers}

\* buildAssignmentRows reads who has recused.
ReadRows(c) ==
    /\ On(c, "list")
    /\ clerk' = [clerk EXCEPT ![c].at = "assign",
                    ![c].rows = {<<a.judge, a.paper>> : a \in {b \in Replaced(c) : b.recused}}]
    /\ UnchangedTables

NewRows(c) ==
    {[judge |-> j, paper |-> s, list |-> clerk[c].list,
      recused |-> <<j, s>> \in clerk[c].rows] :
        j \in clerk[c].list, s \in clerk[c].papers}

\* Requests that hold rows of these reviewers and submissions by their id lose them.
Losing(briefs, judges, papers) ==
    [d \in Clerks |->
        IF briefs[d].at = "recuse" /\ briefs[d].judge \in judges
              /\ briefs[d].papers \cap papers # {}
        THEN [briefs[d] EXCEPT !.found = FALSE] ELSE briefs[d]]

\* One batch: DELETE, then INSERT.
Assign(c) ==
    /\ On(c, "assign")
    /\ IF round[clerk[c].plan] = "gone"
       THEN Answered(c) /\ UNCHANGED assigned
       ELSE /\ assigned' = (assigned \ Replaced(c)) \cup NewRows(c)
            /\ clerk' = Losing([clerk EXCEPT ![c] = NoBrief],
                               OfRound(clerk[c].plan), clerk[c].papers)
    /\ UNCHANGED <<round, revoked, scores>>

-----------------------------------------------------------------------------
(* Reviewers *)

AskRevoke(c, j) ==
    /\ Free(c) /\ round[RoundOf[j]] # "gone" /\ j \notin revoked
    /\ clerk' = [clerk EXCEPT ![c].at = "revoke", ![c].judge = j]
    /\ UnchangedTables

\* revokeReviewer: one batch.
Revoke(c) ==
    LET j == clerk[c].judge
    IN  /\ On(c, "revoke")
        /\ revoked' = IF round[RoundOf[j]] = "gone" THEN revoked ELSE revoked \cup {j}
        /\ assigned' = {a \in assigned : a.judge # j}
        /\ clerk' = Losing([clerk EXCEPT ![c] = NoBrief], {j}, Papers)
        /\ UNCHANGED <<round, scores>>

\* recuseAssignment reads the row, in a round of whatever status ...
AskRecuse(c, a) ==
    /\ Free(c) /\ a \in assigned /\ ~a.recused /\ a.judge \notin revoked
    /\ clerk' = [clerk EXCEPT ![c].at = "recuse", ![c].judge = a.judge,
                              ![c].papers = {a.paper}, ![c].found = TRUE]
    /\ UnchangedTables

\* ... and updates it by its id, if it is still there.
Recuse(c) ==
    /\ On(c, "recuse")
    /\ assigned' = IF clerk[c].found
                   THEN {IF a.judge = clerk[c].judge /\ a.paper \in clerk[c].papers
                         THEN [a EXCEPT !.recused = TRUE] ELSE a : a \in assigned}
                   ELSE assigned
    /\ Answered(c)
    /\ UNCHANGED <<round, revoked, scores>>

\* upsertEvaluationScore: the round is open, the reviewer has the assignment ...
AskScore(c, a) ==
    /\ Free(c) /\ a \in assigned /\ ~a.recused /\ a.judge \notin revoked
    /\ round[RoundOf[a.judge]] = "active"
    /\ clerk' = [clerk EXCEPT ![c].at = "score", ![c].judge = a.judge, ![c].papers = {a.paper}]
    /\ UnchangedTables

\* ... has or has not scored it ...
ReadScore(c) ==
    /\ On(c, "score")
    /\ clerk' = [clerk EXCEPT ![c].at = "mark",
                    ![c].found = \E s \in clerk[c].papers : scores[clerk[c].judge][s] > 0]
    /\ UnchangedTables

\* Mutant: no unique index over submission and reviewer.
FirstScoreAnyway(c) == round[RoundOf[clerk[c].judge]] # "gone"

\* What the tables accept of an INSERT.
FirstScore(c) ==
    /\ round[RoundOf[clerk[c].judge]] # "gone"
    /\ \A s \in clerk[c].papers : scores[clerk[c].judge][s] = 0

\* ... and the batch inserts it or updates what was found.
Mark(c) ==
    /\ On(c, "mark")
    /\ scores' = IF ~clerk[c].found /\ FirstScore(c)
                 THEN [scores EXCEPT ![clerk[c].judge] =
                          [s \in Papers |-> IF s \in clerk[c].papers THEN @[s] + 1 ELSE @[s]]]
                 ELSE scores
    /\ Answered(c)
    /\ UNCHANGED <<round, revoked, assigned>>

-----------------------------------------------------------------------------
ReviewStep(c) ==
    \/ \E p \in Rounds : AskActivate(c, p) \/ AskDelete(c, p)
    \/ \E p \in Rounds, status \in RoundStates : AskPatch(c, p, status)
    \/ \E p \in Rounds, list \in SUBSET Judges, papers \in SUBSET Papers :
          AskAssign(c, p, list, papers)
    \/ \E j \in Judges : AskRevoke(c, j)
    \/ \E a \in assigned : AskRecuse(c, a) \/ AskScore(c, a)
    \/ Activate(c) \/ Patch(c) \/ Reopen(c) \/ Delete(c)
    \/ CheckCaps(c) \/ ReadRows(c) \/ Assign(c)
    \/ Revoke(c) \/ Recuse(c) \/ ReadScore(c) \/ Mark(c)

ReviewNext == \E c \in Clerks : ReviewStep(c)

ReviewSpec == ReviewInit /\ [][ReviewNext]_reviewVars

-----------------------------------------------------------------------------
(* Properties *)

\* At most one round of an event is active, though a rename writes back a
\* status it read before another round was activated or reopened
\* ("Another evaluation plan is already active", plan.ts:29).
OneActiveRound == Cardinality(ActiveRounds) <= 1

\* The reviewers of a submission are those of one request: two organizers who
\* assign at once never leave a mix of their lists, nor half of one
\* (assignments.ts:83: "no submission is cleared or reassigned unless every
\* delete and insert succeeds").  Only who has been revoked is missing.
AssignmentsAreOneList ==
    \A a, b \in assigned :
        a.paper = b.paper /\ RoundOf[a.judge] = RoundOf[b.judge] =>
            /\ a.list = b.list
            /\ \A j \in a.list \ revoked :
                  \E d \in assigned : d.judge = j /\ d.paper = a.paper

\* A reviewer who sends a score twice at once has one row of it
\* (migrations/0006_reviewers.sql:14: "One score per named reviewer per submission").
OneScoreEach == \A j \in Judges, s \in Papers : scores[j][s] <= 1

\* A round that is deleted while it is activated, assigned and scored takes
\* nobody's work with it (plan.ts:200: "A plan with scores or assignments
\* cannot be deleted").
DeletedRoundsLeaveNothing ==
    \A p \in Rounds : round[p] = "gone" => RowsOf(p) = {} /\ ScoresOf(p) = {}

\* Rounds, assignments and scores hold together under organizers and
\* reviewers who act at once.
ReviewsHold ==
    /\ OneActiveRound
    /\ AssignmentsAreOneList
    /\ OneScoreEach
    /\ DeletedRoundsLeaveNothing
==============================================================================
