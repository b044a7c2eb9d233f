---------------------------- MODULE SessionImport ----------------------------
(***************************************************************************)
(* Creating a session and its speakers outside the call for papers: by     *)
(* hand, or from a CSV row that may be imported again                      *)
(* (src/src/lib/sessions/session.ts, src/src/lib/speakers/materialize.ts). *)
(*                                                                         *)
(* A request finds or inserts the shell, claims it for the time of a       *)
(* lease, and then writes the speakers' rows one statement at a time.      *)
(* Before each write it renews its claim, and the write itself asks for    *)
(* the claim again; when one throws, the request removes, in one batch and *)
(* only if it still has the claim, the rows it has noted as its own.       *)
(*                                                                         *)
(* A statement that throws has not been applied.  Names of people and      *)
(* their restoring are left out, and a person who was removed and inserted *)
(* again is the same one: the model may go on where a key has changed and  *)
(* the code would throw.                                                   *)
(***************************************************************************)
EXTENDS Integers, Sequences, FiniteSets

CONSTANTS
    Sessions,       \* sessions that may be created
    FromCsv,        \* those that are rows of an import, and may be retried
    Persons,        \* people, by e-mail address
    Lineup,         \* speakers of each session, the submitter first
    Importers,      \* Worker requests
    ClaimLease,     \* MATERIALIZATION_CLAIM_LEASE_MS, in ticks
    LastTick        \* bound of the model: the end of its clock

VARIABLES
    shells,     \* sessions with a row in submissions
    claims,     \* their session_materialization_claims: owner and end of lease
    rows,       \* what belongs to each session: see SessionRows
    persons,    \* people, event_members and speaker_profiles, by e-mail
    clock,      \* Date.now()
    job,        \* where each importer is, and its journal
    reported    \* history: sessions an importer has reported as created

importVars == <<shells, claims, rows, persons, clock, job, reported>>

Nobody == "nobody"

ASSUME SessionImportAssumption ==
    /\ FromCsv \subseteq Sessions
    /\ Lineup \in [Sessions -> Seq(Persons) \ {<<>>}]
    /\ Nobody \notin Importers
    /\ ClaimLease \in Nat \ {0}
    /\ LastTick \in Nat

NoClaim == [owner |-> Nobody, until |-> 0]

\* submission_speakers, those with a person_id, speaker_tasks, and
\* submissions.submitter_person_id (a set with at most one element).
SessionRows == [listed : SUBSET Persons, linked : SUBSET Persons,
                tasked : SUBSET Persons, submitter : SUBSET Persons]
NoRows == [listed |-> {}, linked |-> {}, tasked |-> {}, submitter |-> {}]

PersonRows == [known : SUBSET Persons, member : SUBSET Persons,
               profile : SUBSET Persons]
NoPersons == [known |-> {}, member |-> {}, profile |-> {}]

Phases == {"listed", "known", "linked", "member", "profile", "tasked",
           "submitter"}
Places == {"claim", "start", "renew", "write", "undo", "failed", "made"}

NoJob == [at |-> "idle"]
Jobs == [at : Places, session : Sessions, created : BOOLEAN,
         phase : Phases, position : Nat \ {0}, renewed : Nat,
         before : SessionRows, wrote : SessionRows, added : PersonRows]

ImportTypeOK ==
    /\ shells \subseteq Sessions
    /\ claims \in [Sessions -> [owner : Importers \cup {Nobody}, until : Nat]]
    /\ rows \in [Sessions -> SessionRows]
    /\ persons \in PersonRows
    /\ clock \in Nat
    /\ job \in [Importers -> Jobs \cup {NoJob}]
    /\ reported \subseteq Sessions

ImportInit ==
    /\ shells = {}
    /\ claims = [s \in Sessions |-> NoClaim]
    /\ rows = [s \in Sessions |-> NoRows]
    /\ persons = NoPersons
    /\ clock = 0
    /\ job = [i \in Importers |-> NoJob]
    /\ reported = {}

-----------------------------------------------------------------------------

JobAt(i, place) == job[i].at = place
Session(i) == job[i].session
Person(i) == Lineup[Session(i)][job[i].position]
Proceed(i, place) == job' = [job EXCEPT ![i].at = place]

InHand == {Session(k) : k \in {x \in Importers : job[x] # NoJob}}

\* Finds the row of an earlier import or inserts a new one: INSERT OR IGNORE
\* on the import key.  A session created by hand is a new one every time.
CreateSession(i, s) ==
    /\ job[i] = NoJob
    /\ s \notin FromCsv => s \notin shells \cup reported \cup InHand
    /\ shells' = shells \cup {s}
    /\ job' = [job EXCEPT ![i] =
            [at |-> "claim", session |-> s, created |-> s \notin shells,
             phase |-> "listed", position |-> 1, renewed |-> clock,
             before |-> NoRows, wrote |-> NoRows, added |-> NoPersons]]
    /\ UNCHANGED <<claims, rows, persons, clock, reported>>

\* acquireSessionMaterializationClaim: free or run out.
Acquire(i) ==
    /\ JobAt(i, "claim")
    /\ claims[Session(i)].until <= clock
    /\ claims' = [claims EXCEPT ![Session(i)] =
                    [owner |-> i, until |-> clock + ClaimLease]]
    /\ Proceed(i, "start")
    /\ UNCHANGED <<shells, rows, persons, clock, reported>>

\* SessionMaterializationBusyError, after the last attempt.
GiveUp(i) ==
    /\ JobAt(i, "claim")
    /\ claims[Session(i)].until > clock
    /\ job' = [job EXCEPT ![i] = NoJob]
    /\ UNCHANGED <<shells, claims, rows, persons, clock, reported>>

\* startSessionAttempt: what is there to be restored.
StartAttempt(i) ==
    /\ JobAt(i, "start")
    /\ job' = [job EXCEPT ![i].at = "renew", ![i].before = rows[Session(i)]]
    /\ UNCHANGED <<shells, claims, rows, persons, clock, reported>>

-----------------------------------------------------------------------------
(* One phase: renew the claim, then write if it is still this request's.   *)

Owns(i, t) == /\ claims[Session(i)].owner = i
              /\ claims[Session(i)].until > t

\* renewMaterializationWriteFence, or MaterializationClaimLostError.  A
\* person who exists is not written.
Renew(i) ==
    /\ JobAt(i, "renew")
    /\ ~(job[i].phase = "known" /\ Person(i) \in persons.known)
    /\ IF Owns(i, clock)
       THEN /\ claims' = [claims EXCEPT ![Session(i)].until = clock + ClaimLease]
            /\ job' = [job EXCEPT ![i].at = "write", ![i].renewed = clock]
       ELSE UNCHANGED claims /\ Proceed(i, "undo")
    /\ UNCHANGED <<shells, rows, persons, clock, reported>>

\* Mutant: one speaker too few.
LastSpeakerButOne(i) == job[i].position + 1 >= Len(Lineup[Session(i)])

LastSpeaker(i) == job[i].position = Len(Lineup[Session(i)])

\* The order of the phases: all speakers are listed, then each is made ready.
NextPhase(i) ==
    LET go(phase, position) == [phase |-> phase, position |-> position]
        here == job[i].position
        next == IF LastSpeaker(i) THEN go("made", here) ELSE go("known", here + 1)
    IN  CASE job[i].phase = "listed" ->
                IF LastSpeaker(i) THEN go("known", 1) ELSE go("listed", here + 1)
          [] job[i].phase = "known" -> go("linked", here)
          [] job[i].phase = "linked" -> go("member", here)
          [] job[i].phase = "member" -> go("profile", here)
          [] job[i].phase = "profile" -> go("tasked", here)
          [] job[i].phase = "tasked" /\ here = 1 -> go("submitter", here)
          [] OTHER -> next

Moved(i, j) ==
    IF NextPhase(i).phase = "made"
    THEN [j EXCEPT !.at = "made"]
    ELSE [j EXCEPT !.at = "renew", !.phase = NextPhase(i).phase,
                   !.position = NextPhase(i).position]

\* ensurePersonForSpeaker finds the person.
FindPerson(i) ==
    /\ JobAt(i, "renew")
    /\ job[i].phase = "known" /\ Person(i) \in persons.known
    /\ job' = [job EXCEPT ![i] = Moved(i, job[i])]
    /\ UNCHANGED <<shells, claims, rows, persons, clock, reported>>

OfSession == {"listed", "linked", "tasked", "submitter"}

\* Mutant: only the lease is asked for.
FenceHoldsByLease(i) == claims[Session(i)].until > job[i].renewed

\* MATERIALIZATION_WRITE_FENCE_PREDICATE, at the time the renewal returned.
FenceHolds(i) == Owns(i, job[i].renewed)

\* Writes that throw when they change nothing; the others are INSERT OR IGNORE.
Checked == {"known", "linked", "submitter"}

\* The rows noted for removal are those this request has inserted.
NoteSession(i) ==
    [job[i] EXCEPT !.wrote[job[i].phase] = @ \cup ({Person(i)} \ rows[Session(i)][job[i].phase])]
NotePerson(i) ==
    [job[i] EXCEPT !.added[job[i].phase] = @ \cup ({Person(i)} \ persons[job[i].phase])]

\* Every row but the listing refers to the person by its key, and an address is
\* in people once: otherwise the statement throws, INSERT OR IGNORE too.
Accepted(i) ==
    CASE job[i].phase = "listed" -> TRUE
      [] job[i].phase = "known" -> Person(i) \notin persons.known
      [] OTHER -> Person(i) \in persons.known

\* The write of one phase, with the claim still held.
WritePhase(i) ==
    LET s == Session(i)
        phase == job[i].phase
    IN  /\ JobAt(i, "write")
        /\ FenceHolds(i)
        /\ Accepted(i)
        /\ IF phase \in OfSession
           THEN /\ rows' = [rows EXCEPT ![s][phase] = @ \cup {Person(i)}]
                /\ UNCHANGED persons
                /\ job' = [job EXCEPT ![i] = Moved(i, NoteSession(i))]
           ELSE /\ persons' = [persons EXCEPT ![phase] = @ \cup {Person(i)}]
                /\ UNCHANGED rows
                /\ job' = [job EXCEPT ![i] = Moved(i, NotePerson(i))]
        /\ UNCHANGED <<shells, claims, clock, reported>>

\* The claim is another's: the write changes nothing, which is noticed only
\* where an update or a plain insert was meant.
WriteNothing(i) ==
    /\ JobAt(i, "write")
    /\ ~FenceHolds(i)
    /\ IF job[i].phase \in Checked
       THEN Proceed(i, "undo")
       ELSE job' = [job EXCEPT ![i] = Moved(i, job[i])]
    /\ UNCHANGED <<shells, claims, rows, persons, clock, reported>>

\* A statement throws.
Throws(i) ==
    /\ job[i].at \in {"renew", "write"}
    /\ Proceed(i, "undo")
    /\ UNCHANGED <<shells, claims, rows, persons, clock, reported>>

-----------------------------------------------------------------------------

\* What the session has after the request's own rows are taken away.
Restored(i) ==
    LET s == Session(i)
        mine == job[i].wrote
    IN  [listed |-> rows[s].listed \ mine.listed,
         linked |-> (rows[s].linked \ mine.listed) \ (job[i].before.listed \ job[i].before.linked),
         tasked |-> rows[s].tasked \ mine.tasked,
         submitter |-> job[i].before.submitter]

\* A person is removed when nothing refers to them.
Referred(p, restored, member, profile) ==
    \/ \E s \in Sessions : p \in restored[s].linked \cup restored[s].submitter
    \/ p \in member \cup profile

RestoredPersons(i, restored) ==
    LET member == persons.member \ job[i].added.member
        profile == persons.profile \ job[i].added.profile
    IN  [member |-> member,
         profile |-> profile,
         known |-> {p \in persons.known :
                        \/ p \notin job[i].added.known
                        \/ Referred(p, restored, member, profile)}]

UndoFenced(i) == Owns(i, clock)

\* The shell of a session created by hand goes, with its claim.
RemovesShell(i) == job[i].created /\ Session(i) \notin FromCsv

\* rollbackSessionAttempt: one batch, nothing of it without the claim.
Undo(i) ==
    LET s == Session(i)
        restored == [rows EXCEPT ![s] = Restored(i)]
    IN  /\ JobAt(i, "undo")
        /\ Proceed(i, "failed")
        /\ IF UndoFenced(i)
           THEN /\ rows' = restored
                /\ persons' = RestoredPersons(i, restored)
                /\ shells' = IF RemovesShell(i) THEN shells \ {s} ELSE shells
                /\ claims' = IF RemovesShell(i) THEN [claims EXCEPT ![s] = NoClaim] ELSE claims
           ELSE UNCHANGED <<rows, persons, shells, claims>>
        /\ UNCHANGED <<clock, reported>>

Released(i) ==
    IF claims[Session(i)].owner = i
    THEN [claims EXCEPT ![Session(i)] = NoClaim]
    ELSE claims

\* releaseSessionMaterializationClaim, then the answer.
Release(i) ==
    /\ job[i].at \in {"made", "failed"}
    /\ claims' = Released(i)
    /\ reported' = IF JobAt(i, "made") THEN reported \cup {Session(i)} ELSE reported
    /\ job' = [job EXCEPT ![i] = NoJob]
    /\ UNCHANGED <<shells, rows, persons, clock>>

\* The Worker dies: no clean-up, and the claim runs out.
Dies(i) ==
    /\ job[i] # NoJob
    /\ job' = [job EXCEPT ![i] = NoJob]
    /\ UNCHANGED <<shells, claims, rows, persons, clock, reported>>

ImportTick ==
    /\ clock < LastTick
    /\ clock' = clock + 1
    /\ UNCHANGED <<shells, claims, rows, persons, job, reported>>

ImportStep(i) ==
    \/ Acquire(i)
    \/ GiveUp(i)
    \/ StartAttempt(i)
    \/ Renew(i)
    \/ FindPerson(i)
    \/ WritePhase(i)
    \/ WriteNothing(i)
    \/ Throws(i)
    \/ Undo(i)
    \/ Release(i)
    \/ Dies(i)

ImportNext ==
    \/ ImportTick
    \/ \E i \in Importers : ImportStep(i)
    \/ \E i \in Importers, s \in Sessions : CreateSession(i, s)

ImportSpec == ImportInit /\ [][ImportNext]_importVars

-----------------------------------------------------------------------------
(* Properties *)

\* A session reported as created is on the list with all its speakers and
\* their accounts, and its submitter has their tasks, whatever other attempts
\* at it did, before or after, and however late they were ("does not let a
\* failed import retry remove tasks created by a concurrent successful retry",
\* sessions.test.ts:132; session.ts:305-359).
ReportedSessionsAreReady ==
    \A s \in reported :
        LET everyone == {Lineup[s][n] : n \in DOMAIN Lineup[s]}
            first == Lineup[s][1]
        IN  /\ s \in shells
            /\ everyone \subseteq rows[s].linked \cap persons.known
            /\ first \in rows[s].tasked
            /\ rows[s].submitter = {first}

\* An attempt whose claim another has taken changes nothing of the session
\* any more ("fences an expired owner so its rollback cannot mutate a
\* reclaimed session", sessions.test.ts:178): who changes it has the claim, and
\* has had it since the attempt read what to restore.
OnlyTheOwnerWrites ==
    [][\A s \in Sessions : rows'[s] # rows[s] =>
        \E i \in Importers : /\ claims[s].owner = i
                             /\ job[i] # NoJob /\ Session(i) = s
                             /\ job'[i] # job[i]]_importVars
===============================================================================
