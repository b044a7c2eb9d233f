-------------------------- MODULE WorkerDeskProofs --------------------------
(***************************************************************************)
(* The desks whose requests a worker of the platform serves outside the    *)
(* event room: the import of sessions (module SessionImport), review       *)
(* rounds (ReviewRounds), the sync with Accelevents (AcceleventsSync) and  *)
(* the roster (RosterDesk), each for any number of requests that overlap   *)
(* and fail; and the eleven parts of the Worker side by side, whichever of *)
(* them are open (MCWorkerDesks), those of EmailDeliveryProofs, LinkProofs *)
(* and SpeakerProofs among them.                                           *)
(***************************************************************************)
EXTENDS MCWorkerDesks, EmailDeliveryProofs, LinkProofs, SpeakerProofs,
        FiniteSetTheorems, SequenceTheorems, TLAPS

(***************************************************************************)
(* Import. A claim can be taken over while its owner still writes, so      *)
(* ImportInv says, of the one request that has the claim, that the rows of *)
(* the phases behind it are there, that its journal holds nothing another  *)
(* attempt needs, and that a session which is reported, or will be         *)
(* whatever becomes of its claim, is ready.                                *)
(***************************************************************************)

\* The speakers of a session, and the one who answers for it.
Everyone(s) == {Lineup[s][n] : n \in DOMAIN Lineup[s]}
First(s) == Lineup[s][1]

\* What a session's own rows are when it is ready.
ReadyRows(s, r) ==
    /\ Everyone(s) \subseteq r.linked
    /\ First(s) \in r.tasked
    /\ r.submitter = {First(s)}

\* A request in the part of its attempt that the claim is for, with the claim.
Attempting(i) == job[i].at \in {"renew", "write", "undo"}
Holds(i) == Attempting(i) /\ claims[Session(i)].owner = i

\* A request that will report its session whatever becomes of its claim: the
\* last write of a session with several speakers is not checked.
LastWrite(i) == /\ job[i].at = "write"
                /\ job[i].phase = "tasked"
                /\ job[i].position = Len(Lineup[Session(i)])
                /\ job[i].position > 1
IsDone(i) == job[i].at = "made" \/ LastWrite(i)

\* Where a job can be, and that the session it is about is there.
JobsAreSound ==
    \A i \in Importers : job[i] # NoJob =>
        /\ job[i].position \in DOMAIN Lineup[Session(i)]
        /\ job[i].phase = "submitter" => job[i].position = 1
        /\ job[i].at # "failed" => Session(i) \in shells
        /\ job[i].at \in {"claim", "start"} =>
               /\ job[i].phase = "listed" /\ job[i].position = 1
               /\ job[i].wrote = NoRows

\* A session made by hand is in one request's hands, and then not reported.
HandmadeOnce ==
    \A i \in Importers : job[i] # NoJob /\ Session(i) \notin FromCsv =>
        /\ Session(i) \notin reported
        /\ \A k \in Importers : job[k] # NoJob /\ Session(k) = Session(i) => k = i

\* The rows of the phases that are behind a job.
Behind(j, r) ==
    LET s == j.session
        here == j.position
    IN  /\ \A n \in DOMAIN Lineup[s] :
              j.phase # "listed" \/ n < here => Lineup[s][n] \in r.listed
        /\ j.phase # "listed" =>
              \A n \in DOMAIN Lineup[s] : n < here => Lineup[s][n] \in r.linked
        /\ j.phase \in {"member", "profile", "tasked", "submitter"} =>
              Lineup[s][here] \in r.linked
        /\ j.phase # "listed" /\ here > 1 =>
              First(s) \in r.tasked /\ r.submitter = {First(s)}
        /\ j.phase = "submitter" => First(s) \in r.tasked

\* A request with the claim has its session's rows behind it.
RowsAreBehind ==
    \A i \in Importers :
        Holds(i) /\ job[i].at # "undo" => Behind(job[i], rows[Session(i)])

\* The lease of a request that is about to write is longer than its renewal.
LeasesAreNew ==
    \A i \in Importers :
        Holds(i) /\ job[i].at = "write" => claims[Session(i)].until > job[i].renewed

\* Every account that is linked is there, and so is the listing.
LinksAreSound ==
    \A s \in Sessions :
        /\ rows[s].linked \subseteq rows[s].listed \cap persons.known
        /\ rows[s].submitter \subseteq {First(s)}

\* What a request with the claim would take away is not what it found.
JournalsAreTrue ==
    \A i \in Importers : Holds(i) =>
        LET s == Session(i)
            before == job[i].before
            wrote == job[i].wrote
        IN  /\ before.linked \subseteq before.listed
            /\ before.listed \subseteq rows[s].listed
            /\ before.linked \subseteq rows[s].linked
            /\ before.tasked \subseteq rows[s].tasked
            /\ before.submitter \subseteq {First(s)}
            /\ wrote.listed \cap before.listed = {}
            /\ wrote.tasked \cap before.tasked = {}

\* A session that is, or will be, reported is ready, and was so when the request
\* that has the claim looked.
DoneIsReady ==
    \A s \in Sessions :
        s \in reported \/ (\E k \in Importers : IsDone(k) /\ Session(k) = s) =>
            s \in shells /\ ReadyRows(s, rows[s])
FoundReady ==
    \A i \in Importers : Holds(i) =>
        LET s == Session(i)
        IN  s \in reported \/ (\E k \in Importers \ {i} : IsDone(k) /\ Session(k) = s)
                => ReadyRows(s, job[i].before)

ImportInv == /\ ImportTypeOK
             /\ JobsAreSound
             /\ HandmadeOnce
             /\ RowsAreBehind
             /\ LeasesAreNew
             /\ LinksAreSound
             /\ JournalsAreTrue
             /\ DoneIsReady
             /\ FoundReady

-----------------------------------------------------------------------------

\* Every session has speakers.
LEMMA LineupFacts ==
    ASSUME NEW s \in Sessions
    PROVE  /\ Lineup[s] \in Seq(Persons)
           /\ Len(Lineup[s]) \in Nat \ {0}
           /\ DOMAIN Lineup[s] = 1..Len(Lineup[s])
           /\ 1 \in DOMAIN Lineup[s]
           /\ \A n \in DOMAIN Lineup[s] : Lineup[s][n] \in Persons
           /\ First(s) \in Everyone(s)
           /\ Everyone(s) \subseteq Persons
<1>1. Lineup[s] \in Seq(Persons) /\ Lineup[s] # <<>>
  BY SessionImportAssumption
<1>2. Len(Lineup[s]) \in Nat /\ DOMAIN Lineup[s] = 1..Len(Lineup[s])
  BY <1>1
<1>3. Len(Lineup[s]) # 0
  BY <1>1
<1>4. \A n \in DOMAIN Lineup[s] : Lineup[s][n] \in Persons
  BY <1>1
<1>5. 1 \in DOMAIN Lineup[s]
  BY <1>2, <1>3
<1> QED
  BY <1>1, <1>2, <1>3, <1>4, <1>5 DEF First, Everyone

LEMMA JobFacts ==
    ASSUME ImportTypeOK, NEW i \in Importers, job[i] # NoJob
    PROVE  /\ job[i] \in Jobs
           /\ Session(i) \in Sessions
           /\ job[i].at \in Places
           /\ job[i].phase \in Phases
           /\ job[i].position \in Nat \ {0}
           /\ rows[Session(i)] \in SessionRows
BY DEF ImportTypeOK, Jobs, Session

LEMMA AtFacts ==
    ASSUME ImportTypeOK, NEW i \in Importers, job[i].at \in Places
    PROVE  job[i] # NoJob
BY DEF NoJob, Places

\* What one phase leads to.
LEMMA MovedFacts ==
    ASSUME ImportTypeOK, JobsAreSound, NEW i \in Importers, job[i] # NoJob,
           NEW j \in Jobs,
           j.session = job[i].session, j.phase = job[i].phase,
           j.position = job[i].position, j.before = job[i].before
    PROVE  /\ Moved(i, j) \in Jobs
           /\ Moved(i, j).session = j.session
           /\ Moved(i, j).before = j.before
           /\ Moved(i, j).wrote = j.wrote
           /\ Moved(i, j).created = j.created
           /\ Moved(i, j).at \in {"renew", "made"}
           /\ Moved(i, j).position \in DOMAIN Lineup[Session(i)]
           /\ Moved(i, j).phase = "submitter" => Moved(i, j).position = 1
           /\ Moved(i, j).at = "renew" =>
                 /\ Moved(i, j).phase = NextPhase(i).phase
                 /\ Moved(i, j).position = NextPhase(i).position
           /\ (Moved(i, j).at = "made") <=> (NextPhase(i).phase = "made")
<1>1. job[i] \in Jobs /\ Session(i) \in Sessions
  BY JobFacts
<1>2. /\ job[i].phase \in Phases
      /\ job[i].position \in DOMAIN Lineup[Session(i)]
      /\ job[i].position \in Nat \ {0}
      /\ job[i].phase = "submitter" => job[i].position = 1
  BY <1>1, JobFacts DEF JobsAreSound
<1>3. /\ Len(Lineup[Session(i)]) \in Nat \ {0}
      /\ DOMAIN Lineup[Session(i)] = 1..Len(Lineup[Session(i)])
  BY <1>1, LineupFacts
<1> DEFINE n == NextPhase(i)
<1>4. /\ n.phase \in Phases \cup {"made"}
      /\ n.position \in DOMAIN Lineup[Session(i)]
      /\ n.phase = "submitter" => n.position = 1
  <2> DEFINE go(phase, position) == [phase |-> phase, position |-> position]
             here == job[i].position
             next == IF LastSpeaker(i) THEN go("made", here) ELSE go("known", here + 1)
  <2>0. n = CASE job[i].phase = "listed" ->
                   IF LastSpeaker(i) THEN go("known", 1) ELSE go("listed", here + 1)
              [] job[i].phase = "known" -> go("linked", here)
              [] job[i].phase = "linked" -> go("member", here)
              [] job[i].phase = "member" -> go("profile", here)
              [] job[i].phase = "profile" -> go("tasked", here)
              [] job[i].phase = "tasked" /\ here = 1 -> go("submitter", here)
              [] OTHER -> next
    BY DEF NextPhase
  <2>1. ~LastSpeaker(i) => here + 1 \in DOMAIN Lineup[Session(i)]
    BY <1>2, <1>3 DEF LastSpeaker
  <2>2. next.phase \in {"made", "known"} /\ next.position \in DOMAIN Lineup[Session(i)]
    BY <1>2, <2>1
  <2>3. CASE job[i].phase = "listed"
    BY <1>2, <1>3, <2>0, <2>1, <2>3 DEF Phases
  <2>4. CASE job[i].phase \in {"known", "linked", "member", "profile"}
    BY <1>2, <2>0, <2>4 DEF Phases
  <2>5. CASE job[i].phase = "tasked" /\ here = 1
    BY <1>2, <2>0, <2>5 DEF Phases
  <2>6. CASE job[i].phase = "submitter" \/ (job[i].phase = "tasked" /\ here # 1)
    <3>1. n = next
      BY <2>0, <2>6
    <3> QED
      BY <3>1, <2>2 DEF Phases
  <2> QED
    BY <1>2, <2>3, <2>4, <2>5, <2>6 DEF Phases
<1> HIDE DEF n
<1>5. CASE n.phase = "made"
  <2>1. Moved(i, j) = [j EXCEPT !.at = "made"]
    BY <1>5 DEF Moved, n
  <2> QED
    BY <2>1, <1>1, <1>2, <1>5 DEF Jobs, Places, n
<1>6. CASE n.phase # "made"
  <2>1. Moved(i, j) = [j EXCEPT !.at = "renew", !.phase = n.phase, !.position = n.position]
    BY <1>6 DEF Moved, n
  <2>2. n.position \in Nat \ {0}
    BY <1>3, <1>4
  <2> QED
    BY <2>1, <2>2, <1>1, <1>4, <1>6 DEF Jobs, Places, n
<1> QED
  BY <1>5, <1>6

\* One of the sets of a record grows by one element.
Grown(r, f, p) == [r EXCEPT ![f] = @ \cup {p}]

LEMMA SessionRowsGrow ==
    ASSUME NEW r \in SessionRows, NEW f \in OfSession, NEW p \in Persons
    PROVE  /\ Grown(r, f, p) \in SessionRows
           /\ Grown(r, f, p).listed = IF f = "listed" THEN r.listed \cup {p} ELSE r.listed
           /\ Grown(r, f, p).linked = IF f = "linked" THEN r.linked \cup {p} ELSE r.linked
           /\ Grown(r, f, p).tasked = IF f = "tasked" THEN r.tasked \cup {p} ELSE r.tasked
           /\ Grown(r, f, p).submitter = IF f = "submitter" THEN r.submitter \cup {p} ELSE r.submitter
<1>1. CASE f = "listed"
  BY <1>1 DEF Grown, SessionRows
<1>2. CASE f = "linked"
  BY <1>2 DEF Grown, SessionRows
<1>3. CASE f = "tasked"
  BY <1>3 DEF Grown, SessionRows
<1>4. CASE f = "submitter"
  BY <1>4 DEF Grown, SessionRows
<1> QED
  BY <1>1, <1>2, <1>3, <1>4 DEF OfSession

LEMMA PersonRowsGrow ==
    ASSUME NEW r \in PersonRows, NEW f \in Phases \ OfSession, NEW p \in Persons
    PROVE  LET g == [r EXCEPT ![f] = @ \cup {p}]
           IN  g \in PersonRows /\ r.known \subseteq g.known
<1>1. CASE f = "known"
  BY <1>1 DEF PersonRows
<1>2. CASE f = "member"
  BY <1>2 DEF PersonRows
<1>3. CASE f = "profile"
  BY <1>3 DEF PersonRows
<1> QED
  BY <1>1, <1>2, <1>3 DEF OfSession, Phases

LEMMA NotedSession ==
    ASSUME ImportTypeOK, NEW i \in Importers, job[i] # NoJob, job[i].phase \in OfSession,
           Person(i) \in Persons
    PROVE  LET j == NoteSession(i)
               r == rows[Session(i)]
           IN  /\ j \in Jobs
               /\ j.session = job[i].session /\ j.phase = job[i].phase
               /\ j.position = job[i].position /\ j.before = job[i].before
               /\ j.created = job[i].created
               /\ j.wrote.listed = IF job[i].phase = "listed"
                                   THEN job[i].wrote.listed \cup ({Person(i)} \ r.listed)
                                   ELSE job[i].wrote.listed
               /\ j.wrote.tasked = IF job[i].phase = "tasked"
                                   THEN job[i].wrote.tasked \cup ({Person(i)} \ r.tasked)
                                   ELSE job[i].wrote.tasked
<1>1. job[i] \in Jobs /\ Session(i) \in Sessions /\ rows[Session(i)] \in SessionRows
  BY JobFacts
<1>2. job[i].wrote \in SessionRows
  BY <1>1 DEF Jobs
<1>3. CASE job[i].phase = "listed"
  BY <1>1, <1>2, <1>3 DEF NoteSession, Jobs, SessionRows
<1>4. CASE job[i].phase = "linked"
  BY <1>1, <1>2, <1>4 DEF NoteSession, Jobs, SessionRows
<1>5. CASE job[i].phase = "tasked"
  BY <1>1, <1>2, <1>5 DEF NoteSession, Jobs, SessionRows
<1>6. CASE job[i].phase = "submitter"
  BY <1>1, <1>2, <1>6 DEF NoteSession, Jobs, SessionRows
<1> QED
  BY <1>3, <1>4, <1>5, <1>6 DEF OfSession

LEMMA NotedPerson ==
    ASSUME ImportTypeOK, NEW i \in Importers, job[i] # NoJob, job[i].phase \in Phases \ OfSession,
           Person(i) \in Persons
    PROVE  LET j == NotePerson(i)
           IN  /\ j \in Jobs
               /\ j.session = job[i].session /\ j.phase = job[i].phase
               /\ j.position = job[i].position /\ j.before = job[i].before
               /\ j.created = job[i].created /\ j.wrote = job[i].wrote
<1>1. job[i] \in Jobs /\ Session(i) \in Sessions
  BY JobFacts
<1>2. job[i].added \in PersonRows /\ persons \in PersonRows
  BY <1>1 DEF Jobs, ImportTypeOK
<1>3. CASE job[i].phase = "known"
  BY <1>1, <1>2, <1>3 DEF NotePerson, Jobs, PersonRows
<1>4. CASE job[i].phase = "member"
  BY <1>1, <1>2, <1>4 DEF NotePerson, Jobs, PersonRows
<1>5. CASE job[i].phase = "profile"
  BY <1>1, <1>2, <1>5 DEF NotePerson, Jobs, PersonRows
<1> QED
  BY <1>3, <1>4, <1>5 DEF OfSession, Phases

LEMMA WriteFacts ==
    ASSUME ImportTypeOK, JobsAreSound, NEW i \in Importers, WritePhase(i)
    PROVE  LET s == Session(i)
               f == job[i].phase
               p == Lineup[s][job[i].position]
           IN  /\ s \in Sessions /\ p \in Persons
               /\ job[i].at = "write" /\ job[i] # NoJob /\ claims[s].owner = i
               /\ f # "listed" /\ f # "known" => p \in persons.known
               /\ job' = [job EXCEPT ![i] = job'[i]]
               /\ job'[i] \in Jobs
               /\ job'[i].session = s /\ job'[i].before = job[i].before
               /\ job'[i].at \in {"renew", "made"}
               /\ job'[i].position \in DOMAIN Lineup[s]
               /\ job'[i].phase = "submitter" => job'[i].position = 1
               /\ job'[i].at = "renew" => /\ job'[i].phase = NextPhase(i).phase
                                          /\ job'[i].position = NextPhase(i).position
               /\ job'[i].at = "made" <=> NextPhase(i).phase = "made"
               /\ job'[i].wrote.listed = IF f = "listed"
                                         THEN job[i].wrote.listed \cup ({p} \ rows[s].listed)
                                         ELSE job[i].wrote.listed
               /\ job'[i].wrote.tasked = IF f = "tasked"
                                         THEN job[i].wrote.tasked \cup ({p} \ rows[s].tasked)
                                         ELSE job[i].wrote.tasked
               /\ rows' = [rows EXCEPT ![s] = rows'[s]]
               /\ rows'[s] \in SessionRows
               /\ rows'[s].listed = IF f = "listed" THEN rows[s].listed \cup {p} ELSE rows[s].listed
               /\ rows'[s].linked = IF f = "linked" THEN rows[s].linked \cup {p} ELSE rows[s].linked
               /\ rows'[s].tasked = IF f = "tasked" THEN rows[s].tasked \cup {p} ELSE rows[s].tasked
               /\ rows'[s].submitter = IF f = "submitter" THEN rows[s].submitter \cup {p}
                                       ELSE rows[s].submitter
               /\ persons' \in PersonRows /\ persons.known \subseteq persons'.known
               /\ UNCHANGED <<shells, claims, clock, reported>>
<1> DEFINE s == Session(i)
           f == job[i].phase
           p == Lineup[s][job[i].position]
<1>1. job[i].at = "write" /\ job[i] # NoJob
  BY AtFacts DEF WritePhase, JobAt, Places
<1>2. /\ job[i] \in Jobs /\ s \in Sessions /\ f \in Phases
      /\ rows[s] \in SessionRows /\ persons \in PersonRows
      /\ job \in [Importers -> Jobs \cup {NoJob}] /\ rows \in [Sessions -> SessionRows]
  BY <1>1, JobFacts DEF ImportTypeOK
<1>3. job[i].position \in DOMAIN Lineup[s]
  BY <1>1 DEF JobsAreSound
<1>4. p \in Persons /\ p = Person(i)
  BY <1>2, <1>3, LineupFacts DEF Person
<1>5. claims[s].owner = i /\ Accepted(i) /\ UNCHANGED <<shells, claims, clock, reported>>
  BY DEF WritePhase, FenceHolds, Owns
<1>6. f # "listed" /\ f # "known" => p \in persons.known
  BY <1>4, <1>5 DEF Accepted
<1>7. CASE f \in OfSession
  <2> DEFINE j == NoteSession(i)
  <2>1. /\ rows' = [rows EXCEPT ![s][f] = @ \cup {p}]
        /\ job' = [job EXCEPT ![i] = Moved(i, j)]
        /\ persons' = persons
    BY <1>4, <1>7 DEF WritePhase
  <2>2. rows' = [rows EXCEPT ![s] = [rows[s] EXCEPT ![f] = @ \cup {p}]]
    BY <2>1, <1>2
  <2>3. rows'[s] = [rows[s] EXCEPT ![f] = @ \cup {p}]
    BY <2>2, <1>2
  <2>4. job'[i] = Moved(i, j)
    BY <2>1, <1>2
  <2>5. /\ j \in Jobs
        /\ j.session = job[i].session /\ j.phase = job[i].phase
        /\ j.position = job[i].position /\ j.before = job[i].before
        /\ j.wrote.listed = IF f = "listed" THEN job[i].wrote.listed \cup ({p} \ rows[s].listed)
                            ELSE job[i].wrote.listed
        /\ j.wrote.tasked = IF f = "tasked" THEN job[i].wrote.tasked \cup ({p} \ rows[s].tasked)
                            ELSE job[i].wrote.tasked
    BY <1>1, <1>4, <1>7, NotedSession
  <2> HIDE DEF j
  <2>6. /\ job'[i] \in Jobs
        /\ job'[i].session = s /\ job'[i].before = job[i].before
        /\ job'[i].wrote = j.wrote
        /\ job'[i].at \in {"renew", "made"}
        /\ job'[i].position \in DOMAIN Lineup[s]
        /\ job'[i].phase = "submitter" => job'[i].position = 1
        /\ job'[i].at = "renew" => /\ job'[i].phase = NextPhase(i).phase
                                   /\ job'[i].position = NextPhase(i).position
        /\ job'[i].at = "made" <=> NextPhase(i).phase = "made"
    BY <2>4, <2>5, <1>1, MovedFacts, SMTT(30) DEF Session
  <2>7. rows' = [rows EXCEPT ![s] = rows'[s]] /\ job' = [job EXCEPT ![i] = job'[i]]
    BY <2>1, <2>2, <2>3, <2>4
  <2>8. /\ rows'[s] \in SessionRows
        /\ rows'[s].listed = IF f = "listed" THEN rows[s].listed \cup {p} ELSE rows[s].listed
        /\ rows'[s].linked = IF f = "linked" THEN rows[s].linked \cup {p} ELSE rows[s].linked
        /\ rows'[s].tasked = IF f = "tasked" THEN rows[s].tasked \cup {p} ELSE rows[s].tasked
        /\ rows'[s].submitter = IF f = "submitter" THEN rows[s].submitter \cup {p}
                                ELSE rows[s].submitter
    <3> DEFINE r == rows[s]
               g == rows'[s]
    <3>1. g = Grown(r, f, p)
      BY <2>3 DEF Grown
    <3>2. r \in SessionRows /\ f \in OfSession /\ p \in Persons
      BY <1>2, <1>4, <1>7
    <3> HIDE DEF s, f, p, r, g
    <3>3. /\ g \in SessionRows
          /\ g.listed = IF f = "listed" THEN r.listed \cup {p} ELSE r.listed
          /\ g.linked = IF f = "linked" THEN r.linked \cup {p} ELSE r.linked
          /\ g.tasked = IF f = "tasked" THEN r.tasked \cup {p} ELSE r.tasked
          /\ g.submitter = IF f = "submitter" THEN r.submitter \cup {p} ELSE r.submitter
      BY <3>1, <3>2, SessionRowsGrow
    <3> QED
      BY <3>3 DEF r, g
  <2> QED
    BY <2>1, <2>5, <2>6, <2>7, <2>8, <1>1, <1>2, <1>4, <1>5, <1>6
<1>8. CASE f \notin OfSession
  <2> DEFINE j == NotePerson(i)
  <2>1. /\ persons' = [persons EXCEPT ![f] = @ \cup {p}]
        /\ job' = [job EXCEPT ![i] = Moved(i, j)]
        /\ rows' = rows
    BY <1>4, <1>8 DEF WritePhase
  <2>2. persons' \in PersonRows /\ persons.known \subseteq persons'.known
    BY <2>1, <1>2, <1>4, <1>8, PersonRowsGrow
  <2>3. job'[i] = Moved(i, j)
    BY <2>1, <1>2
  <2>4. /\ j \in Jobs
        /\ j.session = job[i].session /\ j.phase = job[i].phase
        /\ j.position = job[i].position /\ j.before = job[i].before
        /\ j.wrote = job[i].wrote
    BY <1>1, <1>2, <1>4, <1>8, NotedPerson
  <2> HIDE DEF j
  <2>5. /\ job'[i] \in Jobs
        /\ job'[i].session = s /\ job'[i].before = job[i].before
        /\ job'[i].wrote = job[i].wrote
        /\ job'[i].at \in {"renew", "made"}
        /\ job'[i].position \in DOMAIN Lineup[s]
        /\ job'[i].phase = "submitter" => job'[i].position = 1
        /\ job'[i].at = "renew" => /\ job'[i].phase = NextPhase(i).phase
                                   /\ job'[i].position = NextPhase(i).position
        /\ job'[i].at = "made" <=> NextPhase(i).phase = "made"
    BY <2>3, <2>4, <1>1, MovedFacts DEF Session
  <2>6. rows' = [rows EXCEPT ![s] = rows'[s]] /\ job' = [job EXCEPT ![i] = job'[i]]
    BY <2>1, <2>3, <1>2
  <2> QED
    BY <2>1, <2>2, <2>5, <2>6, <1>1, <1>2, <1>4, <1>5, <1>6, <1>8 DEF OfSession
<1> QED
  BY <1>7, <1>8

\* A phase is passed without a write.
Passes(i) == /\ job' = [job EXCEPT ![i] = Moved(i, job[i])]
             /\ UNCHANGED <<shells, claims, rows, persons, clock, reported>>

LEMMA PassFacts ==
    ASSUME ImportTypeOK, JobsAreSound, NEW i \in Importers, job[i] # NoJob, Passes(i)
    PROVE  LET s == Session(i)
           IN  /\ s \in Sessions
               /\ job' = [job EXCEPT ![i] = job'[i]]
               /\ job'[i] \in Jobs
               /\ job'[i].session = s /\ job'[i].before = job[i].before
               /\ job'[i].wrote = job[i].wrote
               /\ job'[i].at \in {"renew", "made"}
               /\ job'[i].position \in DOMAIN Lineup[s]
               /\ job'[i].phase = "submitter" => job'[i].position = 1
               /\ job'[i].at = "renew" => /\ job'[i].phase = NextPhase(i).phase
                                          /\ job'[i].position = NextPhase(i).position
               /\ job'[i].at = "made" <=> NextPhase(i).phase = "made"
<1>1. job[i] \in Jobs /\ Session(i) \in Sessions
  BY JobFacts
<1>2. job'[i] = Moved(i, job[i])
  BY DEF Passes, ImportTypeOK
<1>3. job' = [job EXCEPT ![i] = job'[i]]
  BY <1>2 DEF Passes
<1> QED
  BY <1>1, <1>2, <1>3, MovedFacts DEF Session

\* Only the place of a request changes.
GoesTo(i, place) == job' = [job EXCEPT ![i].at = place]

LEMMA GoFacts ==
    ASSUME ImportTypeOK, NEW i \in Importers, job[i] # NoJob, NEW place \in Places,
           GoesTo(i, place)
    PROVE  /\ job' = [job EXCEPT ![i] = job'[i]]
           /\ job'[i] \in Jobs
           /\ job'[i].at = place
           /\ job'[i].session = job[i].session /\ job'[i].before = job[i].before
           /\ job'[i].phase = job[i].phase /\ job'[i].position = job[i].position
           /\ job'[i].wrote = job[i].wrote /\ job'[i].created = job[i].created
<1>1. job[i] \in Jobs /\ job \in [Importers -> Jobs \cup {NoJob}]
  BY JobFacts DEF ImportTypeOK
<1>2. job'[i] = [job[i] EXCEPT !.at = place]
  BY <1>1 DEF GoesTo
<1> QED
  BY <1>1, <1>2 DEF GoesTo, Jobs

\* What is behind the next phase, once the row of this one is there.
LEMMA NextIsBehind ==
    ASSUME ImportTypeOK, JobsAreSound, NEW i \in Importers, job[i] # NoJob,
           NEW r, Behind(job[i], r),
           LET s == Session(i)
               p == Lineup[s][job[i].position]
           IN  /\ job[i].phase = "listed" => p \in r.listed
               /\ job[i].phase = "linked" => p \in r.linked
               /\ job[i].phase = "tasked" /\ job[i].position = 1 => p \in r.tasked
               /\ job[i].phase = "submitter" => r.submitter = {First(s)}
    PROVE  /\ NextPhase(i).phase = "made" => ReadyRows(Session(i), r)
           /\ \A j : /\ j.session = job[i].session
                     /\ j.phase = NextPhase(i).phase /\ j.position = NextPhase(i).position
                     /\ j.phase # "made"
                     => Behind(j, r)
<1> DEFINE s == Session(i)
           here == job[i].position
           phase == job[i].phase
           N == Len(Lineup[s])
<1>1. /\ s \in Sessions /\ phase \in Phases /\ here \in DOMAIN Lineup[s]
      /\ phase = "submitter" => here = 1
  BY JobFacts DEF JobsAreSound
<1>2. N \in Nat \ {0} /\ DOMAIN Lineup[s] = 1..N
  BY <1>1, LineupFacts
<1>3. /\ LastSpeaker(i) <=> here = N
      /\ s = job[i].session
  BY DEF LastSpeaker, Session
<1> DEFINE go(f, n) == [phase |-> f, position |-> n]
           next == IF LastSpeaker(i) THEN go("made", here) ELSE go("known", here + 1)
<1>4. NextPhase(i) =
          CASE phase = "listed" -> IF LastSpeaker(i) THEN go("known", 1) ELSE go("listed", here + 1)
            [] phase = "known" -> go("linked", here)
            [] phase = "linked" -> go("member", here)
            [] phase = "member" -> go("profile", here)
            [] phase = "profile" -> go("tasked", here)
            [] phase = "tasked" /\ here = 1 -> go("submitter", here)
            [] OTHER -> next
  BY DEF NextPhase
<1>5. /\ \A n \in 1..N : phase # "listed" \/ n < here => Lineup[s][n] \in r.listed
      /\ phase # "listed" => \A n \in 1..N : n < here => Lineup[s][n] \in r.linked
      /\ phase \in {"member", "profile", "tasked", "submitter"} => Lineup[s][here] \in r.linked
      /\ phase # "listed" /\ here > 1 => First(s) \in r.tasked /\ r.submitter = {First(s)}
      /\ phase = "submitter" => First(s) \in r.tasked
  BY <1>2, <1>3 DEF Behind
<1>6. /\ phase = "listed" => Lineup[s][here] \in r.listed
      /\ phase = "linked" => Lineup[s][here] \in r.linked
      /\ phase = "tasked" /\ here = 1 => First(s) \in r.tasked
      /\ phase = "submitter" => r.submitter = {First(s)}
  BY DEF First
<1> HIDE DEF s, here, phase, N
<1>7. ASSUME NEW j, j.session = s,
             j.phase = NextPhase(i).phase, j.position = NextPhase(i).position,
             j.phase # "made"
      PROVE  Behind(j, r)
  <2>1. CASE phase = "listed"
    <3>1. \A n \in 1..N : n < here + 1 => Lineup[s][n] \in r.listed
      BY <1>1, <1>2, <1>5, <1>6, <2>1
    <3>2. CASE here = N
      <4>1. j.phase = "known" /\ j.position = 1
        BY <1>3, <1>4, <1>7, <2>1, <3>2
      <4> QED
        BY <1>2, <1>7, <3>1, <3>2, <4>1 DEF Behind
    <3>3. CASE here # N
      <4>1. j.phase = "listed" /\ j.position = here + 1
        BY <1>3, <1>4, <1>7, <2>1, <3>3
      <4> QED
        BY <1>2, <1>7, <3>1, <4>1 DEF Behind
    <3> QED
      BY <3>2, <3>3
  <2>2. CASE phase = "known"
    <3>1. j.phase = "linked" /\ j.position = here
      BY <1>4, <1>7, <2>2
    <3> QED
      BY <1>2, <1>5, <1>7, <2>2, <3>1 DEF Behind
  <2>3. CASE phase \in {"linked", "member", "profile"}
    <3>1. j.phase \in {"member", "profile", "tasked"} /\ j.position = here
      BY <1>4, <1>7, <2>3
    <3> QED
      BY <1>2, <1>5, <1>6, <1>7, <2>3, <3>1 DEF Behind
  <2>4. CASE phase = "tasked" /\ here = 1
    <3>1. j.phase = "submitter" /\ j.position = 1
      BY <1>4, <1>7, <2>4
    <3> QED
      BY <1>2, <1>5, <1>6, <1>7, <2>4, <3>1 DEF Behind
  <2>5. CASE phase = "submitter" \/ (phase = "tasked" /\ here # 1)
    <3>1. j.phase = "known" /\ j.position = here + 1
      <4>1. NextPhase(i) = next
        BY <1>4, <2>5
      <4> QED
        BY <1>7, <4>1
    <3>2. \A n \in 1..N : n < here + 1 => Lineup[s][n] \in r.listed \cap r.linked
      BY <1>1, <1>2, <1>5, <2>5
    <3>3. First(s) \in r.tasked /\ r.submitter = {First(s)}
      BY <1>1, <1>2, <1>5, <1>6, <2>5
    <3> QED
      BY <1>2, <1>5, <1>7, <2>5, <3>1, <3>2, <3>3 DEF Behind
  <2> QED
    BY <1>1, <2>1, <2>2, <2>3, <2>4, <2>5 DEF Phases
<1>8. ASSUME NextPhase(i).phase = "made"
      PROVE  ReadyRows(s, r)
  <2>1. phase = "submitter" \/ (phase = "tasked" /\ here # 1)
    BY <1>1, <1>4, <1>8 DEF Phases
  <2>2. here = N
    <3>1. NextPhase(i) = next
      BY <1>4, <2>1
    <3> QED
      BY <1>3, <1>8, <3>1
  <2>3. Everyone(s) \subseteq r.linked
    BY <1>2, <1>5, <2>1, <2>2 DEF Everyone
  <2>4. First(s) \in r.tasked /\ r.submitter = {First(s)}
    BY <1>1, <1>2, <1>5, <1>6, <2>1
  <2> QED
    BY <2>3, <2>4 DEF ReadyRows
<1> QED
  BY <1>3, <1>7, <1>8 DEF s

\* At the last write of a session with several speakers it is ready.
LEMMA LastIsReady ==
    ASSUME ImportTypeOK, NEW i \in Importers, job[i] # NoJob, NEW r, Behind(job[i], r),
           job[i].phase = "tasked", job[i].position = Len(Lineup[Session(i)]),
           job[i].position > 1
    PROVE  ReadyRows(Session(i), r)
<1>1. Session(i) \in Sessions
  BY JobFacts
<1>2. /\ Len(Lineup[Session(i)]) \in Nat \ {0}
      /\ DOMAIN Lineup[Session(i)] = 1..Len(Lineup[Session(i)])
  BY <1>1, LineupFacts
<1>3. \A n \in DOMAIN Lineup[Session(i)] : Lineup[Session(i)][n] \in r.linked
  BY <1>2 DEF Behind, Session
<1> QED
  BY <1>3 DEF Behind, Session, ReadyRows, Everyone

\* Rows are added behind a job.
LEMMA MoreIsBehind ==
    ASSUME NEW j, NEW r, NEW q, Behind(j, r),
           r.listed \subseteq q.listed, r.linked \subseteq q.linked,
           r.tasked \subseteq q.tasked, r.submitter \subseteq q.submitter,
           q.submitter \subseteq {First(j.session)}
    PROVE  Behind(j, q)
BY DEF Behind

\* A request moves on, gives up or dies, or renews the claim it has: no row and
\* no owner changes.
LEMMA JobStep ==
    ASSUME ImportInv, NEW i \in Importers, job[i] # NoJob,
           UNCHANGED <<shells, rows, persons, reported>>,
           clock' \in Nat,
           claims' \in [Sessions -> [owner : Importers \cup {Nobody}, until : Nat]],
           \A t \in Sessions :
               \/ claims'[t] = claims[t]
               \/ t = Session(i) /\ claims[t].owner = i /\ claims'[t].owner = i,
           job' = [job EXCEPT ![i] = job'[i]],
           job'[i] \in Jobs \cup {NoJob},
           job'[i] # NoJob =>
               /\ job'[i].session = job[i].session
               /\ job'[i].position \in DOMAIN Lineup[Session(i)]
               /\ job'[i].phase = "submitter" => job'[i].position = 1
               /\ job'[i].at \notin {"failed", "claim", "start"} /\ job[i].at # "failed"
               /\ job'[i].before = job[i].before
               /\ job'[i].wrote = job[i].wrote
               /\ job'[i].at # "made" => Attempting(i)
               /\ job'[i].at \in {"renew", "write"} /\ Holds(i) => Behind(job'[i], rows[Session(i)])
               /\ job'[i].at = "write" /\ Holds(i) => claims'[Session(i)].until > job'[i].renewed,
           IsDone(i)' => \/ IsDone(i)
                         \/ /\ claims[Session(i)].owner = i
                            /\ Behind(job[i], rows[Session(i)]) => ReadyRows(Session(i), rows[Session(i)])
                            /\ job[i].at # "undo" /\ Attempting(i)
    PROVE  ImportInv'
<1>1. /\ job[i] \in Jobs /\ Session(i) \in Sessions
      /\ job \in [Importers -> Jobs \cup {NoJob}] /\ ImportTypeOK
  BY JobFacts DEF ImportInv, ImportTypeOK
<1>2. \A k \in Importers : k # i => job'[k] = job[k]
  BY <1>1
<1>3. ImportTypeOK'
  BY <1>1 DEF ImportTypeOK
<1>4. \A k \in Importers : k # i =>
          /\ Session(k)' = Session(k)
          /\ Holds(k)' <=> Holds(k)
          /\ IsDone(k)' <=> IsDone(k)
  <2> TAKE k \in Importers
  <2> HAVE k # i
  <2>1. job'[k] = job[k]
    BY <1>2
  <2>2. Session(k)' = Session(k) /\ (Attempting(k)' <=> Attempting(k)) /\ (IsDone(k)' <=> IsDone(k))
    BY <2>1 DEF Session, Attempting, IsDone, LastWrite
  <2>3. Attempting(k) => Session(k) \in Sessions
    BY <1>1, JobFacts DEF Attempting, NoJob
  <2> QED
    BY <2>2, <2>3 DEF Holds
<1>5. job'[i] # NoJob => Session(i)' = Session(i)
  BY DEF Session
<1>6. Holds(i)' => Holds(i) /\ job'[i] # NoJob
  <2> SUFFICES ASSUME Holds(i)' PROVE Holds(i) /\ job'[i] # NoJob
    OBVIOUS
  <2>1. job'[i].at \in {"renew", "write", "undo"}
    BY DEF Holds, Attempting
  <2>2. job'[i] # NoJob /\ job'[i].at # "made"
    BY <2>1 DEF NoJob
  <2> QED
    BY <1>1, <1>5, <2>2 DEF Holds
<1>7. IsDone(i)' => job'[i] # NoJob
  BY DEF IsDone, LastWrite, NoJob
<1>8. JobsAreSound'
  <2> SUFFICES ASSUME NEW k \in Importers, job'[k] # NoJob
               PROVE  /\ job'[k].position \in DOMAIN Lineup[Session(k)']
                      /\ job'[k].phase = "submitter" => job'[k].position = 1
                      /\ job'[k].at # "failed" => Session(k)' \in shells
                      /\ job'[k].at \in {"claim", "start"} =>
                             /\ job'[k].phase = "listed" /\ job'[k].position = 1
                             /\ job'[k].wrote = NoRows
    BY DEF JobsAreSound
  <2>1. CASE k = i
    BY <1>5, <2>1 DEF ImportInv, JobsAreSound
  <2>2. CASE k # i
    BY <1>2, <1>4, <2>2 DEF ImportInv, JobsAreSound
  <2> QED
    BY <2>1, <2>2
<1>9. HandmadeOnce'
  <2>1. \A k \in Importers : job'[k] # NoJob => job[k] # NoJob /\ Session(k)' = Session(k)
    BY <1>2, <1>4, <1>5
  <2> QED
    BY <2>1 DEF ImportInv, HandmadeOnce
<1>10. RowsAreBehind'
  <2> SUFFICES ASSUME NEW k \in Importers, Holds(k)', job'[k].at # "undo"
               PROVE  Behind(job'[k], rows[Session(k)'])
    BY DEF RowsAreBehind
  <2>1. CASE k = i
    <3>1. Holds(i) /\ job'[i] # NoJob /\ job'[i].at \in {"renew", "write"}
      BY <1>6, <2>1 DEF Holds, Attempting
    <3> QED
      BY <1>5, <2>1, <3>1
  <2>2. CASE k # i
    BY <1>2, <1>4, <2>2 DEF ImportInv, RowsAreBehind, Holds
  <2> QED
    BY <2>1, <2>2
<1>11. LeasesAreNew'
  <2> SUFFICES ASSUME NEW k \in Importers, Holds(k)', job'[k].at = "write"
               PROVE  claims'[Session(k)'].until > job'[k].renewed
    BY DEF LeasesAreNew
  <2>1. CASE k = i
    BY <1>5, <1>6, <2>1
  <2>2. CASE k # i
    <3>1. Holds(k) /\ Session(k)' = Session(k) /\ job'[k] = job[k]
      BY <1>2, <1>4, <2>2
    <3>2. Session(k) \in Sessions
      BY <1>1, <3>1, JobFacts DEF Holds, Attempting, NoJob
    <3>3. claims'[Session(k)] = claims[Session(k)]
      BY <3>1, <3>2, <2>2 DEF Holds
    <3> QED
      BY <3>1, <3>3 DEF ImportInv, LeasesAreNew
  <2> QED
    BY <2>1, <2>2
<1>12. LinksAreSound'
  BY DEF ImportInv, LinksAreSound
<1>13. JournalsAreTrue'
  <2>1. \A k \in Importers : Holds(k)' => /\ Holds(k) /\ Session(k)' = Session(k)
                                          /\ job'[k].before = job[k].before
                                          /\ job'[k].wrote = job[k].wrote
    BY <1>2, <1>4, <1>5, <1>6 DEF Holds
  <2> QED
    BY <2>1 DEF ImportInv, JournalsAreTrue
<1>14. IsDone(i)' /\ ~IsDone(i) =>
           claims[Session(i)].owner = i /\ ReadyRows(Session(i), rows[Session(i)])
  <2>1. Attempting(i) /\ claims[Session(i)].owner = i /\ job[i].at # "undo"
           => Behind(job[i], rows[Session(i)])
    BY DEF ImportInv, RowsAreBehind, Holds
  <2> QED
    BY <2>1
<1>15. DoneIsReady'
  <2> SUFFICES ASSUME NEW s \in Sessions, NEW k \in Importers, IsDone(k)', Session(k)' = s
               PROVE  s \in shells /\ ReadyRows(s, rows[s])
    BY DEF ImportInv, DoneIsReady
  <2>1. CASE IsDone(k) /\ Session(k) = s
    BY <2>1 DEF ImportInv, DoneIsReady
  <2>2. CASE ~(IsDone(k) /\ Session(k) = s)
    <3>1. k = i
      BY <1>4, <2>2
    <3>2. job'[i] # NoJob /\ Session(i) = s /\ ~IsDone(i) /\ job[i].at # "failed"
      BY <1>5, <1>7, <2>2, <3>1
    <3>3. Session(i) \in shells
      BY <3>2 DEF ImportInv, JobsAreSound
    <3> QED
      BY <1>14, <3>1, <3>2, <3>3
  <2> QED
    BY <2>1, <2>2
<1>16. FoundReady'
  <2> SUFFICES ASSUME NEW k \in Importers, Holds(k)',
                      \/ Session(k)' \in reported
                      \/ \E h \in Importers \ {k} : IsDone(h)' /\ Session(h)' = Session(k)'
               PROVE  ReadyRows(Session(k)', job'[k].before)
    BY DEF FoundReady
  <2>1. Holds(k) /\ Session(k)' = Session(k) /\ job'[k].before = job[k].before
    BY <1>2, <1>4, <1>5, <1>6 DEF Holds
  <2>2. CASE Session(k) \in reported
    BY <2>1, <2>2 DEF ImportInv, FoundReady
  <2>3. ASSUME NEW h \in Importers \ {k}, IsDone(h)', Session(h)' = Session(k)'
        PROVE  ReadyRows(Session(k), job[k].before)
    <3>1. CASE IsDone(h) /\ Session(h) = Session(k)
      BY <2>1, <3>1 DEF ImportInv, FoundReady
    <3>2. CASE ~(IsDone(h) /\ Session(h) = Session(k))
      <4>1. h = i
        BY <1>4, <2>1, <2>3, <3>2
      <4>2. Session(i) = Session(k) /\ ~IsDone(i)
        BY <1>5, <1>7, <2>1, <2>3, <3>2, <4>1
      <4>3. claims[Session(i)].owner = i
        BY <1>14, <2>3, <4>1, <4>2
      <4> QED
        BY <2>1, <2>3, <4>1, <4>2, <4>3 DEF Holds
    <3> QED
      BY <3>1, <3>2
  <2> QED
    BY <2>1, <2>2, <2>3
<1> QED
  BY <1>3, <1>8, <1>9, <1>10, <1>12, <1>13, <1>15, <1>16, <1>11 DEF ImportInv

LEMMA LeaveSteps ==
    ASSUME ImportInv, NEW i \in Importers, GiveUp(i) \/ Dies(i)
    PROVE  ImportInv'
<1>1. job[i] # NoJob
  BY AtFacts DEF ImportInv, GiveUp, Dies, JobAt, Places
<1>2. /\ job' = [job EXCEPT ![i] = NoJob]
      /\ UNCHANGED <<shells, claims, rows, persons, clock, reported>>
  BY DEF GiveUp, Dies
<1>3. job'[i] = NoJob /\ ImportTypeOK
  BY <1>2 DEF ImportInv, ImportTypeOK
<1>4. ~IsDone(i)'
  BY <1>3 DEF IsDone, LastWrite, NoJob
<1>5. /\ clock' \in Nat
      /\ claims' \in [Sessions -> [owner : Importers \cup {Nobody}, until : Nat]]
  BY <1>2, <1>3 DEF ImportTypeOK
<1> QED
  BY <1>1, <1>2, <1>3, <1>4, <1>5, JobStep

\* A statement throws, or the claim is found to be lost.
LEMMA FailStep ==
    ASSUME ImportInv, NEW i \in Importers, job[i].at \in {"renew", "write"}, GoesTo(i, "undo"),
           UNCHANGED <<shells, claims, rows, persons, clock, reported>>
    PROVE  ImportInv'
<1>1. job[i] # NoJob /\ ImportTypeOK /\ Attempting(i)
  BY AtFacts DEF ImportInv, Places, Attempting
<1>2. /\ job' = [job EXCEPT ![i] = job'[i]]
      /\ job'[i] \in Jobs
      /\ job'[i].at = "undo"
      /\ job'[i].session = job[i].session /\ job'[i].before = job[i].before
      /\ job'[i].phase = job[i].phase /\ job'[i].position = job[i].position
      /\ job'[i].wrote = job[i].wrote
  BY <1>1, GoFacts DEF Places
<1>3. ~IsDone(i)'
  BY <1>2 DEF IsDone, LastWrite
<1>4. /\ clock' \in Nat
      /\ claims' \in [Sessions -> [owner : Importers \cup {Nobody}, until : Nat]]
  BY <1>1 DEF ImportTypeOK
<1>5. /\ job[i].position \in DOMAIN Lineup[Session(i)]
      /\ job[i].phase = "submitter" => job[i].position = 1
  BY <1>1 DEF ImportInv, JobsAreSound
<1> QED
  BY <1>1, <1>2, <1>3, <1>4, <1>5, JobStep

LEMMA RenewStep ==
    ASSUME ImportInv, NEW i \in Importers, Renew(i)
    PROVE  ImportInv'
<1>1. job[i] # NoJob /\ ImportTypeOK /\ Attempting(i) /\ job[i].at = "renew"
  BY AtFacts DEF ImportInv, Places, Attempting, Renew, JobAt
<1>2. CASE ~Owns(i, clock)
  <2>1. GoesTo(i, "undo") /\ UNCHANGED <<shells, claims, rows, persons, clock, reported>>
    BY <1>2 DEF Renew, GoesTo, Proceed
  <2> QED
    BY <1>1, <2>1, FailStep
<1>3. CASE Owns(i, clock)
  <2> DEFINE s == Session(i)
  <2>1. /\ s \in Sessions /\ job[i] \in Jobs /\ clock \in Nat
        /\ claims \in [Sessions -> [owner : Importers \cup {Nobody}, until : Nat]]
        /\ job \in [Importers -> Jobs \cup {NoJob}]
    BY <1>1, JobFacts DEF ImportTypeOK
  <2>2. /\ claims' = [claims EXCEPT ![s].until = clock + ClaimLease]
        /\ job' = [job EXCEPT ![i].at = "write", ![i].renewed = clock]
        /\ UNCHANGED <<shells, rows, persons, clock, reported>>
    BY <1>3 DEF Renew
  <2>3. job'[i] = [job[i] EXCEPT !.at = "write", !.renewed = clock]
    BY <2>1, <2>2
  <2>4. /\ job'[i] \in Jobs /\ job'[i].at = "write" /\ job'[i].renewed = clock
        /\ job'[i].session = s /\ job'[i].before = job[i].before
        /\ job'[i].phase = job[i].phase /\ job'[i].position = job[i].position
        /\ job'[i].wrote = job[i].wrote
    BY <2>1, <2>3 DEF Jobs, Places, Session
  <2>5. job' = [job EXCEPT ![i] = job'[i]]
    BY <2>1, <2>2, <2>3
  <2>6. clock + ClaimLease \in Nat /\ clock + ClaimLease > clock
    BY <2>1, SessionImportAssumption
  <2>7. /\ claims' \in [Sessions -> [owner : Importers \cup {Nobody}, until : Nat]]
        /\ claims'[s].until > clock /\ claims'[s].owner = i /\ claims[s].owner = i
        /\ \A t \in Sessions : t # s => claims'[t] = claims[t]
    BY <2>1, <2>2, <2>6, <1>3 DEF Owns
  <2>8. /\ job[i].position \in DOMAIN Lineup[s]
        /\ job[i].phase = "submitter" => job[i].position = 1
    BY <1>1 DEF ImportInv, JobsAreSound
  <2>9. Holds(i) /\ Behind(job[i], rows[s])
    BY <1>1, <2>7 DEF ImportInv, RowsAreBehind, Holds
  <2>10. Behind(job'[i], rows[s])
    BY <2>9, <2>4 DEF Behind, Session
  <2>11. IsDone(i)' => ReadyRows(s, rows[s])
    <3> SUFFICES ASSUME IsDone(i)' PROVE ReadyRows(s, rows[s])
      OBVIOUS
    <3>1. job[i].phase = "tasked" /\ job[i].position = Len(Lineup[s]) /\ job[i].position > 1
      BY <2>4 DEF IsDone, LastWrite, Session
    <3> DEFINE r == rows[s]
    <3>2. Behind(job[i], r)
      BY <2>9
    <3> HIDE DEF r
    <3>3. ReadyRows(Session(i), r)
      BY <1>1, <3>1, <3>2, LastIsReady
    <3> QED
      BY <3>3 DEF r
  <2>12. \A t \in Sessions :
            \/ claims'[t] = claims[t]
            \/ t = Session(i) /\ claims[t].owner = i /\ claims'[t].owner = i
    BY <2>7
  <2>13. clock' \in Nat
    BY <2>1, <2>2
  <2>14. job'[i].session = job[i].session
    BY <2>4 DEF Session
  <2>15. job'[i] # NoJob =>
             /\ job'[i].session = job[i].session
             /\ job'[i].position \in DOMAIN Lineup[Session(i)]
             /\ job'[i].phase = "submitter" => job'[i].position = 1
             /\ job'[i].at \notin {"failed", "claim", "start"} /\ job[i].at # "failed"
             /\ job'[i].before = job[i].before
             /\ job'[i].wrote = job[i].wrote
             /\ job'[i].at # "made" => Attempting(i)
             /\ job'[i].at \in {"renew", "write"} /\ Holds(i) => Behind(job'[i], rows[Session(i)])
             /\ job'[i].at = "write" /\ Holds(i) => claims'[Session(i)].until > job'[i].renewed
    BY <1>1, <2>4, <2>7, <2>8, <2>10, <2>14
  <2>16. IsDone(i)' =>
             /\ claims[Session(i)].owner = i
             /\ Behind(job[i], rows[Session(i)]) => ReadyRows(Session(i), rows[Session(i)])
             /\ job[i].at # "undo" /\ Attempting(i)
    BY <1>1, <2>7, <2>11
  <2> HIDE DEF s
  <2> QED
    BY <1>1, <2>2, <2>4, <2>5, <2>7, <2>13, <2>12, <2>15, <2>16, JobStep
<1> QED
  BY <1>2, <1>3

\* A phase is passed: the person is there, or the write was not applied.
LEMMA PassStep ==
    ASSUME ImportInv, NEW i \in Importers,
           FindPerson(i) \/ (WriteNothing(i) /\ job[i].phase \notin Checked)
    PROVE  ImportInv'
<1> DEFINE s == Session(i)
<1>1. job[i] # NoJob /\ ImportTypeOK /\ JobsAreSound /\ Attempting(i)
  BY AtFacts DEF ImportInv, Places, Attempting, FindPerson, WriteNothing, JobAt
<1>2. Passes(i)
  BY DEF FindPerson, WriteNothing, Passes
<1>3. /\ s \in Sessions
      /\ job' = [job EXCEPT ![i] = job'[i]]
      /\ job'[i] \in Jobs
      /\ job'[i].session = s /\ job'[i].before = job[i].before
      /\ job'[i].wrote = job[i].wrote
      /\ job'[i].at \in {"renew", "made"}
      /\ job'[i].position \in DOMAIN Lineup[s]
      /\ job'[i].phase = "submitter" => job'[i].position = 1
      /\ job'[i].at = "renew" => /\ job'[i].phase = NextPhase(i).phase
                                 /\ job'[i].position = NextPhase(i).position
      /\ job'[i].at = "made" <=> NextPhase(i).phase = "made"
  BY <1>1, <1>2, PassFacts
<1>4. Holds(i) => job[i].at = "renew" /\ job[i].phase = "known"
  BY DEF ImportInv, LeasesAreNew, Holds, FindPerson, WriteNothing, JobAt, FenceHolds, Owns
<1>5. Holds(i) /\ job'[i].at = "renew" => Behind(job'[i], rows[s])
  <2> SUFFICES ASSUME Holds(i), job'[i].at = "renew" PROVE Behind(job'[i], rows[s])
    OBVIOUS
  <2>1. Behind(job[i], rows[s]) /\ job[i].phase = "known"
    BY <1>4 DEF ImportInv, RowsAreBehind
  <2>2. job'[i].phase # "made"
    BY <1>3 DEF Jobs, Phases
  <2>3. job'[i].session = job[i].session
    BY <1>3 DEF Session
  <2> QED
    BY <1>1, <1>3, <2>1, <2>2, <2>3, NextIsBehind
<1>6. IsDone(i)' => IsDone(i)
  <2> SUFFICES ASSUME IsDone(i)' PROVE LastWrite(i)
    BY DEF IsDone
  <2>1. NextPhase(i).phase = "made"
    BY <1>3 DEF IsDone, LastWrite
  <2>2. job[i].phase \in Phases
    BY <1>1, JobFacts
  <2>3. job[i].phase \in {"tasked", "submitter"} /\ LastSpeaker(i) /\ ~(job[i].phase = "tasked" /\ job[i].position = 1)
    BY <2>1, <2>2 DEF NextPhase, Phases
  <2>4. job[i].phase = "tasked" /\ job[i].at = "write"
    BY <2>3 DEF FindPerson, WriteNothing, JobAt, Checked
  <2>5. job[i].position \in Nat \ {0}
    BY <1>1, JobFacts
  <2>6. job[i].position > 1
    BY <2>3, <2>4, <2>5
  <2> QED
    BY <2>3, <2>4, <2>6 DEF LastWrite, LastSpeaker
<1>7. /\ clock' \in Nat
      /\ claims' \in [Sessions -> [owner : Importers \cup {Nobody}, until : Nat]]
      /\ UNCHANGED <<shells, claims, rows, persons, reported>>
  BY <1>1, <1>2 DEF ImportTypeOK, Passes
<1>8. job'[i].session = job[i].session
  BY <1>3 DEF Session
<1>9. job[i].at # "failed"
  BY <1>1 DEF Attempting
<1> QED
  BY <1>1, <1>3, <1>5, <1>6, <1>7, <1>8, <1>9, JobStep

\* What is remembered of a session before it is written.
LEMMA StartStep ==
    ASSUME ImportInv, NEW i \in Importers, StartAttempt(i)
    PROVE  ImportInv'
<1> DEFINE s == Session(i)
<1>1. job[i] # NoJob /\ ImportTypeOK /\ job[i].at = "start"
  BY AtFacts DEF ImportInv, Places, StartAttempt, JobAt
<1>2. /\ s \in Sessions /\ job[i] \in Jobs /\ rows[s] \in SessionRows
      /\ job \in [Importers -> Jobs \cup {NoJob}]
  BY <1>1, JobFacts DEF ImportTypeOK
<1>3. /\ job' = [job EXCEPT ![i].at = "renew", ![i].before = rows[s]]
      /\ UNCHANGED <<shells, claims, rows, persons, clock, reported>>
  BY DEF StartAttempt
<1>4. job'[i] = [job[i] EXCEPT !.at = "renew", !.before = rows[s]]
  BY <1>2, <1>3
<1>5. /\ job'[i] \in Jobs /\ job'[i].at = "renew" /\ job'[i].before = rows[s]
      /\ job'[i].session = s /\ job'[i].phase = job[i].phase
      /\ job'[i].position = job[i].position /\ job'[i].wrote = job[i].wrote
  BY <1>2, <1>4 DEF Jobs, Places, Session
<1>6. \A k \in Importers : k # i => job'[k] = job[k]
  BY <1>2, <1>3
<1>7. /\ job[i].phase = "listed" /\ job[i].position = 1 /\ job[i].wrote = NoRows
      /\ job[i].position \in DOMAIN Lineup[s] /\ s \in shells
  BY <1>1 DEF ImportInv, JobsAreSound
<1>8. job'[i] # NoJob /\ Session(i)' = s /\ ~IsDone(i)' /\ ~IsDone(i)
  BY <1>1, <1>5 DEF NoJob, Session, IsDone, LastWrite
<1>9. \A k \in Importers : /\ job'[k] # NoJob => job[k] # NoJob
                           /\ Session(k)' = Session(k)
                           /\ IsDone(k)' <=> IsDone(k)
                           /\ k # i => (Holds(k)' <=> Holds(k))
  <2> TAKE k \in Importers
  <2>1. CASE k = i
    BY <1>1, <1>8, <2>1
  <2>2. CASE k # i
    BY <1>3, <1>6, <2>2 DEF Session, IsDone, LastWrite, Holds, Attempting
  <2> QED
    BY <2>1, <2>2
<1>10. ImportTypeOK'
  BY <1>1, <1>2, <1>3, <1>5, <1>6 DEF ImportTypeOK
<1>11. JobsAreSound'
  <2> SUFFICES ASSUME NEW k \in Importers, job'[k] # NoJob
               PROVE  /\ job'[k].position \in DOMAIN Lineup[Session(k)']
                      /\ job'[k].phase = "submitter" => job'[k].position = 1
                      /\ job'[k].at # "failed" => Session(k)' \in shells'
                      /\ job'[k].at \in {"claim", "start"} =>
                             /\ job'[k].phase = "listed" /\ job'[k].position = 1
                             /\ job'[k].wrote = NoRows
    BY DEF JobsAreSound
  <2>1. CASE k = i
    BY <1>3, <1>5, <1>7, <1>8, <2>1
  <2>2. CASE k # i
    BY <1>3, <1>6, <1>9, <2>2 DEF ImportInv, JobsAreSound
  <2> QED
    BY <2>1, <2>2
<1>12. HandmadeOnce'
  BY <1>3, <1>9 DEF ImportInv, HandmadeOnce
<1>13. RowsAreBehind'
  <2> SUFFICES ASSUME NEW k \in Importers, Holds(k)', job'[k].at # "undo"
               PROVE  Behind(job'[k], rows'[Session(k)'])
    BY DEF RowsAreBehind
  <2>1. CASE k = i
    <3>1. Len(Lineup[s]) \in Nat /\ DOMAIN Lineup[s] = 1..Len(Lineup[s])
      BY <1>2, LineupFacts
    <3>2. job'[i].phase = "listed" /\ job'[i].position = 1
      BY <1>5, <1>7
    <3> QED
      BY <1>5, <2>1, <3>1, <3>2 DEF Behind
  <2>2. CASE k # i
    BY <1>3, <1>6, <1>9, <2>2 DEF ImportInv, RowsAreBehind
  <2> QED
    BY <2>1, <2>2
<1>14. LeasesAreNew'
  <2> SUFFICES ASSUME NEW k \in Importers, Holds(k)', job'[k].at = "write"
               PROVE  claims'[Session(k)'].until > job'[k].renewed
    BY DEF LeasesAreNew
  <2>1. k # i
    BY <1>5
  <2> QED
    BY <1>3, <1>6, <1>9, <2>1 DEF ImportInv, LeasesAreNew
<1>15. LinksAreSound'
  BY <1>3 DEF ImportInv, LinksAreSound
<1>16. JournalsAreTrue'
  <2> SUFFICES ASSUME NEW k \in Importers, Holds(k)'
               PROVE  LET r == rows[Session(k)']
                          before == job'[k].before
                          wrote == job'[k].wrote
                      IN  /\ before.linked \subseteq before.listed
                          /\ before.listed \subseteq r.listed
                          /\ before.linked \subseteq r.linked
                          /\ before.tasked \subseteq r.tasked
                          /\ before.submitter \subseteq {First(Session(k)')}
                          /\ wrote.listed \cap before.listed = {}
                          /\ wrote.tasked \cap before.tasked = {}
    BY <1>3 DEF JournalsAreTrue
  <2>1. CASE k = i
    BY <1>2, <1>5, <1>7, <1>8, <2>1 DEF ImportInv, LinksAreSound, NoRows
  <2>2. CASE k # i
    <3>1. Holds(k) /\ Session(k)' = Session(k) /\ job'[k] = job[k]
      BY <1>6, <1>9, <2>2
    <3> QED
      BY <3>1 DEF ImportInv, JournalsAreTrue
  <2> QED
    BY <2>1, <2>2
<1>17. DoneIsReady'
  BY <1>3, <1>9 DEF ImportInv, DoneIsReady
<1>18. FoundReady'
  <2> SUFFICES ASSUME NEW k \in Importers, Holds(k)',
                      \/ Session(k)' \in reported
                      \/ \E h \in Importers \ {k} : IsDone(h)' /\ Session(h)' = Session(k)'
               PROVE  ReadyRows(Session(k)', job'[k].before)
    BY <1>3 DEF FoundReady
  <2>1. \/ Session(k) \in reported
        \/ \E h \in Importers \ {k} : IsDone(h) /\ Session(h) = Session(k)
    BY <1>9
  <2>2. CASE k = i
    BY <1>2, <1>5, <1>8, <2>1, <2>2 DEF ImportInv, DoneIsReady
  <2>3. CASE k # i
    BY <1>6, <1>9, <2>1, <2>3 DEF ImportInv, FoundReady
  <2> QED
    BY <2>2, <2>3
<1> QED
  BY <1>10, <1>11, <1>12, <1>13, <1>14, <1>15, <1>16, <1>17, <1>18 DEF ImportInv

\* No row changes, no request takes up a claim, none is done.
LEMMA CalmStep ==
    ASSUME ImportInv, UNCHANGED <<rows, persons>>, ImportTypeOK', JobsAreSound', HandmadeOnce',
           shells \subseteq shells',
           \A k \in Importers : Holds(k)' =>
               /\ Holds(k) /\ job'[k] = job[k]
               /\ claims'[Session(k)] = claims[Session(k)]
               /\ Session(k) \in reported' =>
                      \/ Session(k) \in reported
                      \/ \E h \in Importers \ {k} : IsDone(h) /\ Session(h) = Session(k),
           \A k \in Importers : IsDone(k)' => IsDone(k) /\ job'[k] = job[k],
           \A s \in reported' :
               s \in reported \/ \E k \in Importers : IsDone(k) /\ Session(k) = s
    PROVE  ImportInv'
<1>1. \A k \in Importers : job'[k] = job[k] => Session(k)' = Session(k)
  BY DEF Session
<1>2. RowsAreBehind'
  <2> SUFFICES ASSUME NEW k \in Importers, Holds(k)', job'[k].at # "undo"
               PROVE  Behind(job'[k], rows'[Session(k)'])
    BY DEF RowsAreBehind
  <2> QED
    BY <1>1 DEF ImportInv, RowsAreBehind
<1>3. LeasesAreNew'
  <2> SUFFICES ASSUME NEW k \in Importers, Holds(k)', job'[k].at = "write"
               PROVE  claims'[Session(k)'].until > job'[k].renewed
    BY DEF LeasesAreNew
  <2> QED
    BY <1>1 DEF ImportInv, LeasesAreNew
<1>4. LinksAreSound'
  BY DEF ImportInv, LinksAreSound
<1>5. JournalsAreTrue'
  <2> SUFFICES ASSUME NEW k \in Importers, Holds(k)'
               PROVE  LET r == rows[Session(k)']
                          before == job'[k].before
                          wrote == job'[k].wrote
                      IN  /\ before.linked \subseteq before.listed
                          /\ before.listed \subseteq r.listed
                          /\ before.linked \subseteq r.linked
                          /\ before.tasked \subseteq r.tasked
                          /\ before.submitter \subseteq {First(Session(k)')}
                          /\ wrote.listed \cap before.listed = {}
                          /\ wrote.tasked \cap before.tasked = {}
    BY DEF JournalsAreTrue
  <2> QED
    BY <1>1 DEF ImportInv, JournalsAreTrue
<1>6. DoneIsReady'
  <2> SUFFICES ASSUME NEW s \in Sessions,
                      \/ s \in reported'
                      \/ \E k \in Importers : IsDone(k)' /\ Session(k)' = s
               PROVE  s \in shells' /\ ReadyRows(s, rows'[s])
    BY DEF DoneIsReady
  <2>1. s \in reported \/ \E k \in Importers : IsDone(k) /\ Session(k) = s
    BY <1>1
  <2> QED
    BY <2>1 DEF ImportInv, DoneIsReady
<1>7. FoundReady'
  <2> SUFFICES ASSUME NEW k \in Importers, Holds(k)',
                      \/ Session(k)' \in reported'
                      \/ \E h \in Importers \ {k} : IsDone(h)' /\ Session(h)' = Session(k)'
               PROVE  ReadyRows(Session(k)', job'[k].before)
    BY DEF FoundReady
  <2>1. Session(k)' = Session(k) /\ job'[k] = job[k] /\ Holds(k)
    BY <1>1
  <2>2. \/ Session(k) \in reported
        \/ \E h \in Importers \ {k} : IsDone(h) /\ Session(h) = Session(k)
    BY <1>1, <2>1
  <2> QED
    BY <2>1, <2>2 DEF ImportInv, FoundReady
<1> QED
  BY <1>2, <1>3, <1>4, <1>5, <1>6, <1>7 DEF ImportInv

LEMMA TickStep ==
    ASSUME ImportInv, ImportTick
    PROVE  ImportInv'
<1>1. clock' \in Nat /\ UNCHANGED <<shells, claims, rows, persons, job, reported>>
  BY DEF ImportTick, ImportInv, ImportTypeOK
<1>2. ImportTypeOK' /\ JobsAreSound' /\ HandmadeOnce'
  BY <1>1 DEF ImportInv, ImportTypeOK, JobsAreSound, HandmadeOnce, Session
<1>3. \A k \in Importers : /\ Holds(k)' => Holds(k)
                           /\ IsDone(k)' => IsDone(k)
  BY <1>1 DEF Holds, Attempting, IsDone, LastWrite, Session
<1> QED
  BY <1>1, <1>2, <1>3, CalmStep

LEMMA AcquireStep ==
    ASSUME ImportInv, NEW i \in Importers, Acquire(i)
    PROVE  ImportInv'
<1> DEFINE s == Session(i)
<1>1. job[i] # NoJob /\ ImportTypeOK /\ job[i].at = "claim"
  BY AtFacts DEF ImportInv, Places, Acquire, JobAt
<1>2. /\ s \in Sessions /\ job[i] \in Jobs /\ clock \in Nat
      /\ job \in [Importers -> Jobs \cup {NoJob}]
      /\ claims \in [Sessions -> [owner : Importers \cup {Nobody}, until : Nat]]
  BY <1>1, JobFacts DEF ImportTypeOK
<1>3. /\ claims' = [claims EXCEPT ![s] = [owner |-> i, until |-> clock + ClaimLease]]
      /\ GoesTo(i, "start")
      /\ UNCHANGED <<shells, rows, persons, clock, reported>>
  BY DEF Acquire, GoesTo, Proceed
<1>4. /\ job' = [job EXCEPT ![i] = job'[i]]
      /\ job'[i] \in Jobs
      /\ job'[i].at = "start"
      /\ job'[i].session = job[i].session
      /\ job'[i].phase = job[i].phase /\ job'[i].position = job[i].position
      /\ job'[i].wrote = job[i].wrote
  BY <1>1, <1>3, GoFacts DEF Places
<1>5. \A k \in Importers : k # i => job'[k] = job[k]
  BY <1>2, <1>4
<1>6. clock + ClaimLease \in Nat
  BY <1>2, SessionImportAssumption
<1>7. ImportTypeOK'
  <2>1. claims' \in [Sessions -> [owner : Importers \cup {Nobody}, until : Nat]]
    BY <1>2, <1>3, <1>6
  <2>2. job' \in [Importers -> Jobs \cup {NoJob}]
    BY <1>2, <1>4
  <2> QED
    BY <1>1, <1>3, <2>1, <2>2 DEF ImportTypeOK
<1>8. \A k \in Importers : /\ job'[k] # NoJob => job[k] # NoJob
                           /\ Session(k)' = Session(k)
  BY <1>1, <1>4, <1>5 DEF Session
<1>9. JobsAreSound'
  <2> SUFFICES ASSUME NEW k \in Importers, job'[k] # NoJob
               PROVE  /\ job'[k].position \in DOMAIN Lineup[Session(k)']
                      /\ job'[k].phase = "submitter" => job'[k].position = 1
                      /\ job'[k].at # "failed" => Session(k)' \in shells'
                      /\ job'[k].at \in {"claim", "start"} =>
                             /\ job'[k].phase = "listed" /\ job'[k].position = 1
                             /\ job'[k].wrote = NoRows
    BY DEF JobsAreSound
  <2>1. CASE k = i
    BY <1>1, <1>3, <1>4, <1>8, <2>1 DEF ImportInv, JobsAreSound
  <2>2. CASE k # i
    BY <1>3, <1>5, <1>8, <2>2 DEF ImportInv, JobsAreSound
  <2> QED
    BY <2>1, <2>2
<1>10. HandmadeOnce'
  BY <1>3, <1>8 DEF ImportInv, HandmadeOnce
<1>11. ASSUME NEW k \in Importers, Holds(k)'
       PROVE  /\ Holds(k) /\ job'[k] = job[k]
              /\ claims'[Session(k)] = claims[Session(k)]
  <2>1. k # i /\ job'[k] = job[k] /\ Session(k)' = Session(k)
    BY <1>4, <1>5, <1>8, <1>11 DEF Holds, Attempting
  <2>2. Session(k) \in Sessions
    BY <1>1, <1>11, <2>1, JobFacts DEF Holds, Attempting, NoJob
  <2>3. Session(k) # s
    BY <1>2, <1>3, <1>11, <2>1 DEF Holds
  <2>4. claims'[Session(k)] = claims[Session(k)]
    BY <1>2, <1>3, <2>2, <2>3
  <2> QED
    BY <1>11, <2>1, <2>4 DEF Holds, Attempting
<1>12. ASSUME NEW k \in Importers, IsDone(k)'
       PROVE  IsDone(k) /\ job'[k] = job[k]
  <2>1. k # i
    BY <1>4, <1>12 DEF IsDone, LastWrite
  <2> QED
    BY <1>5, <1>8, <1>12, <2>1 DEF IsDone, LastWrite
<1> QED
  BY <1>3, <1>7, <1>9, <1>10, <1>11, <1>12, CalmStep

LEMMA ReleaseStep ==
    ASSUME ImportInv, NEW i \in Importers, Release(i)
    PROVE  ImportInv'
<1> DEFINE s == Session(i)
<1>1. job[i] # NoJob /\ ImportTypeOK /\ job[i].at \in {"made", "failed"}
  BY AtFacts DEF ImportInv, Places, Release
<1>2. /\ s \in Sessions /\ job[i] \in Jobs
      /\ job \in [Importers -> Jobs \cup {NoJob}]
      /\ claims \in [Sessions -> [owner : Importers \cup {Nobody}, until : Nat]]
  BY <1>1, JobFacts DEF ImportTypeOK
<1>3. /\ claims' = IF claims[s].owner = i THEN [claims EXCEPT ![s] = NoClaim] ELSE claims
      /\ reported' = IF job[i].at = "made" THEN reported \cup {s} ELSE reported
      /\ job' = [job EXCEPT ![i] = NoJob]
      /\ UNCHANGED <<shells, rows, persons, clock>>
  BY DEF Release, Released, JobAt
<1>4. job'[i] = NoJob /\ \A k \in Importers : k # i => job'[k] = job[k]
  BY <1>2, <1>3
<1>5. ImportTypeOK'
  <2>1. claims' \in [Sessions -> [owner : Importers \cup {Nobody}, until : Nat]]
    BY <1>2, <1>3 DEF NoClaim
  <2>2. job' \in [Importers -> Jobs \cup {NoJob}] /\ reported' \subseteq Sessions
    BY <1>1, <1>2, <1>3 DEF ImportTypeOK
  <2> QED
    BY <1>1, <1>3, <2>1, <2>2 DEF ImportTypeOK
<1>6. \A k \in Importers : job'[k] # NoJob => /\ k # i /\ job'[k] = job[k]
                                              /\ job[k] # NoJob /\ Session(k)' = Session(k)
  BY <1>4 DEF Session
<1>7. JobsAreSound'
  BY <1>3, <1>6 DEF ImportInv, JobsAreSound
<1>8. HandmadeOnce'
  BY <1>1, <1>3, <1>6 DEF ImportInv, HandmadeOnce
<1>9. ASSUME NEW k \in Importers, Holds(k)'
      PROVE  /\ Holds(k) /\ job'[k] = job[k]
             /\ claims'[Session(k)] = claims[Session(k)]
             /\ Session(k) \in reported' =>
                    \/ Session(k) \in reported
                    \/ \E h \in Importers \ {k} : IsDone(h) /\ Session(h) = Session(k)
  <2>1. job'[k] # NoJob
    BY <1>9 DEF Holds, Attempting, NoJob
  <2>2. k # i /\ job'[k] = job[k] /\ Session(k)' = Session(k) /\ Session(k) \in Sessions
    BY <1>1, <1>6, <2>1, JobFacts
  <2>3. claims'[Session(k)] = claims[Session(k)]
    <3>1. claims'[Session(k)].owner # Nobody
      BY <1>9, <2>2, SessionImportAssumption DEF Holds
    <3> QED
      BY <1>2, <1>3, <2>2, <3>1 DEF NoClaim
  <2>4. job[i].at = "made" => IsDone(i)
    BY DEF IsDone
  <2> QED
    BY <1>3, <1>9, <2>2, <2>3, <2>4 DEF Holds, Attempting
<1>10. ASSUME NEW k \in Importers, IsDone(k)'
       PROVE  IsDone(k) /\ job'[k] = job[k]
  <2>1. job'[k] # NoJob
    BY <1>10 DEF IsDone, LastWrite, NoJob
  <2> QED
    BY <1>6, <1>10, <2>1 DEF IsDone, LastWrite
<1>11. ASSUME NEW t \in reported'
       PROVE  t \in reported \/ \E k \in Importers : IsDone(k) /\ Session(k) = t
  BY <1>3, <1>11 DEF IsDone
<1> QED
  BY <1>3, <1>5, <1>7, <1>8, <1>9, <1>10, <1>11, CalmStep

LEMMA CreateStep ==
    ASSUME ImportInv, NEW i \in Importers, NEW s \in Sessions, CreateSession(i, s)
    PROVE  ImportInv'
<1>1. /\ ImportTypeOK /\ job[i] = NoJob
      /\ s \notin FromCsv => s \notin shells \cup reported \cup InHand
      /\ shells' = shells \cup {s}
      /\ UNCHANGED <<claims, rows, persons, clock, reported>>
  BY DEF ImportInv, CreateSession
<1>2. job' = [job EXCEPT ![i] =
            [at |-> "claim", session |-> s, created |-> s \notin shells,
             phase |-> "listed", position |-> 1, renewed |-> clock,
             before |-> NoRows, wrote |-> NoRows, added |-> NoPersons]]
  BY DEF CreateSession
<1>3. job \in [Importers -> Jobs \cup {NoJob}] /\ clock \in Nat
  BY <1>1 DEF ImportTypeOK
<1>4. /\ job'[i] \in Jobs /\ job'[i].at = "claim" /\ job'[i].session = s
      /\ job'[i].phase = "listed" /\ job'[i].position = 1 /\ job'[i].wrote = NoRows
  <2>1. NoRows \in SessionRows /\ NoPersons \in PersonRows
    BY DEF NoRows, NoPersons, SessionRows, PersonRows
  <2> QED
    BY <1>2, <1>3, <2>1 DEF Jobs, Places, Phases
<1>5. \A k \in Importers : k # i => job'[k] = job[k] /\ Session(k)' = Session(k)
  BY <1>2, <1>3 DEF Session
<1>6. Session(i)' = s
  BY <1>4 DEF Session
<1>7. ImportTypeOK'
  <2>1. job' \in [Importers -> Jobs \cup {NoJob}]
    BY <1>2, <1>3, <1>4
  <2> QED
    BY <1>1, <2>1 DEF ImportTypeOK
<1>8. JobsAreSound'
  <2> SUFFICES ASSUME NEW k \in Importers, job'[k] # NoJob
               PROVE  /\ job'[k].position \in DOMAIN Lineup[Session(k)']
                      /\ job'[k].phase = "submitter" => job'[k].position = 1
                      /\ job'[k].at # "failed" => Session(k)' \in shells'
                      /\ job'[k].at \in {"claim", "start"} =>
                             /\ job'[k].phase = "listed" /\ job'[k].position = 1
                             /\ job'[k].wrote = NoRows
    BY DEF JobsAreSound
  <2>1. CASE k = i
    BY <1>1, <1>4, <1>6, <2>1, LineupFacts
  <2>2. CASE k # i
    BY <1>1, <1>5, <2>2 DEF ImportInv, JobsAreSound
  <2> QED
    BY <2>1, <2>2
<1>9. HandmadeOnce'
  <2> SUFFICES ASSUME NEW k \in Importers, job'[k] # NoJob, Session(k)' \notin FromCsv
               PROVE  /\ Session(k)' \notin reported
                      /\ \A h \in Importers :
                             job'[h] # NoJob /\ Session(h)' = Session(k)' => h = k
    BY <1>1 DEF HandmadeOnce
  <2>1. s \notin FromCsv =>
            s \notin reported /\ \A h \in Importers : job[h] # NoJob => Session(h) # s
    BY <1>1 DEF InHand
  <2>2. CASE k = i
    BY <1>5, <1>6, <2>1, <2>2
  <2>3. CASE k # i
    BY <1>5, <1>6, <2>1, <2>3 DEF ImportInv, HandmadeOnce
  <2> QED
    BY <2>2, <2>3
<1>10. ASSUME NEW k \in Importers, Holds(k)'
       PROVE  Holds(k) /\ job'[k] = job[k]
  <2>1. k # i
    BY <1>4, <1>10 DEF Holds, Attempting
  <2> QED
    BY <1>1, <1>5, <1>10, <2>1 DEF Holds, Attempting
<1>11. ASSUME NEW k \in Importers, IsDone(k)'
       PROVE  IsDone(k) /\ job'[k] = job[k]
  <2>1. k # i
    BY <1>4, <1>11 DEF IsDone, LastWrite
  <2> QED
    BY <1>5, <1>11, <2>1 DEF IsDone, LastWrite
<1> QED
  BY <1>1, <1>7, <1>8, <1>9, <1>10, <1>11, CalmStep

\* Only the request with the claim has a journal that is about the session.
LEMMA OneHolder ==
    ASSUME NEW i \in Importers, NEW k \in Importers, Holds(i), Holds(k), Session(k) = Session(i)
    PROVE  k = i
BY DEF Holds

LEMMA WriteStep ==
    ASSUME ImportInv, NEW i \in Importers, WritePhase(i)
    PROVE  ImportInv'
<1> DEFINE s == Session(i)
           f == job[i].phase
           p == Lineup[s][job[i].position]
<1>0. ImportTypeOK /\ JobsAreSound
  BY DEF ImportInv
<1>1. /\ s \in Sessions /\ p \in Persons
      /\ job[i].at = "write" /\ job[i] # NoJob /\ claims[s].owner = i
      /\ f # "listed" /\ f # "known" => p \in persons.known
  BY <1>0, WriteFacts, ZenonT(60)
<1>2. /\ job' = [job EXCEPT ![i] = job'[i]]
      /\ job'[i] \in Jobs
      /\ job'[i].session = s /\ job'[i].before = job[i].before
      /\ job'[i].at \in {"renew", "made"}
      /\ job'[i].position \in DOMAIN Lineup[s]
      /\ job'[i].phase = "submitter" => job'[i].position = 1
      /\ job'[i].at = "renew" => /\ job'[i].phase = NextPhase(i).phase
                                 /\ job'[i].position = NextPhase(i).position
      /\ job'[i].at = "made" <=> NextPhase(i).phase = "made"
  BY <1>0, WriteFacts, ZenonT(60)
<1>3. /\ job'[i].wrote.listed = IF f = "listed"
                                THEN job[i].wrote.listed \cup ({p} \ rows[s].listed)
                                ELSE job[i].wrote.listed
      /\ job'[i].wrote.tasked = IF f = "tasked"
                                THEN job[i].wrote.tasked \cup ({p} \ rows[s].tasked)
                                ELSE job[i].wrote.tasked
  BY <1>0, WriteFacts, ZenonT(60)
<1>4. /\ rows' = [rows EXCEPT ![s] = rows'[s]]
      /\ rows'[s] \in SessionRows
      /\ rows'[s].listed = IF f = "listed" THEN rows[s].listed \cup {p} ELSE rows[s].listed
      /\ rows'[s].linked = IF f = "linked" THEN rows[s].linked \cup {p} ELSE rows[s].linked
      /\ rows'[s].tasked = IF f = "tasked" THEN rows[s].tasked \cup {p} ELSE rows[s].tasked
      /\ rows'[s].submitter = IF f = "submitter" THEN rows[s].submitter \cup {p}
                              ELSE rows[s].submitter
  <2>1. rows' = [rows EXCEPT ![s] = rows'[s]]
    BY <1>0, WriteFacts, ZenonT(60)
  <2>2. rows'[s] \in SessionRows
    BY <1>0, WriteFacts, ZenonT(60)
  <2>3. rows'[s].listed = IF f = "listed" THEN rows[s].listed \cup {p} ELSE rows[s].listed
    BY <1>0, WriteFacts, ZenonT(60)
  <2>4. rows'[s].linked = IF f = "linked" THEN rows[s].linked \cup {p} ELSE rows[s].linked
    BY <1>0, WriteFacts, ZenonT(60)
  <2>5. rows'[s].tasked = IF f = "tasked" THEN rows[s].tasked \cup {p} ELSE rows[s].tasked
    BY <1>0, WriteFacts, ZenonT(60)
  <2>6. rows'[s].submitter = IF f = "submitter" THEN rows[s].submitter \cup {p}
                             ELSE rows[s].submitter
    BY <1>0, WriteFacts, ZenonT(60)
  <2> QED
    BY <2>1, <2>2, <2>3, <2>4, <2>5, <2>6
<1>5. /\ persons' \in PersonRows /\ persons.known \subseteq persons'.known
      /\ UNCHANGED <<shells, claims, clock, reported>>
  BY <1>0, WriteFacts, ZenonT(60)
<1>6. /\ job \in [Importers -> Jobs \cup {NoJob}] /\ rows \in [Sessions -> SessionRows]
  BY <1>0 DEF ImportTypeOK
<1>7. /\ \A k \in Importers : k # i => job'[k] = job[k]
      /\ \A t \in Sessions : t # s => rows'[t] = rows[t]
  BY <1>2, <1>4, <1>6
<1>8. /\ \A k \in Importers : Session(k)' = Session(k)
      /\ \A k \in Importers : job'[k] # NoJob => job[k] # NoJob
      /\ \A k \in Importers : k # i => (IsDone(k)' <=> IsDone(k))
      /\ \A k \in Importers : Holds(k)' => Holds(k)
  <2> SUFFICES ASSUME NEW k \in Importers
               PROVE  /\ Session(k)' = Session(k)
                      /\ job'[k] # NoJob => job[k] # NoJob
                      /\ k # i => (IsDone(k)' <=> IsDone(k))
                      /\ Holds(k)' => Holds(k)
    OBVIOUS
  <2>1. CASE k = i
    BY <1>1, <1>2, <1>5, <2>1 DEF Session, Holds, Attempting
  <2>2. CASE k # i
    BY <1>5, <1>7, <2>2 DEF Session, Holds, Attempting, IsDone, LastWrite
  <2> QED
    BY <2>1, <2>2
<1>9. Holds(i) /\ Behind(job[i], rows[s])
  BY <1>1 DEF ImportInv, RowsAreBehind, Holds, Attempting
<1>10. /\ rows[s].linked \subseteq rows[s].listed \cap persons.known
       /\ rows[s].submitter \subseteq {First(s)}
  BY <1>1 DEF ImportInv, LinksAreSound
<1>11. f = "submitter" => p = First(s)
  BY <1>0, <1>1 DEF JobsAreSound, First
<1>12. f # "listed" => p \in rows[s].listed
  BY <1>0, <1>1, <1>9 DEF Behind, JobsAreSound, Session
<1>13. /\ rows[s].listed \subseteq rows'[s].listed
       /\ rows[s].linked \subseteq rows'[s].linked
       /\ rows[s].tasked \subseteq rows'[s].tasked
       /\ rows[s].submitter \subseteq rows'[s].submitter
       /\ rows'[s].submitter \subseteq {First(s)}
       /\ rows'[s].linked \subseteq rows'[s].listed \cap persons'.known
  BY <1>1, <1>4, <1>5, <1>10, <1>11, <1>12
<1> DEFINE r == rows'[s]
<1>14. Behind(job[i], r)
  <2> DEFINE q == rows[s]
  <2>1. /\ Behind(job[i], q) /\ q.listed \subseteq r.listed /\ q.linked \subseteq r.linked
        /\ q.tasked \subseteq r.tasked /\ q.submitter \subseteq r.submitter
        /\ r.submitter \subseteq {First(job[i].session)}
    BY <1>9, <1>13 DEF Session
  <2> HIDE DEF q, r
  <2> QED
    BY <2>1, MoreIsBehind
<1>15. /\ f = "listed" => p \in r.listed
       /\ f = "linked" => p \in r.linked
       /\ f = "tasked" /\ job[i].position = 1 => p \in r.tasked
       /\ f = "submitter" => r.submitter = {First(s)}
  BY <1>4, <1>10, <1>11
<1>16. /\ NextPhase(i).phase = "made" => ReadyRows(s, r)
       /\ job'[i].at = "renew" => Behind(job'[i], r)
  <2>1. job'[i].session = job[i].session /\ job'[i].phase # "made"
    BY <1>2 DEF Session, Jobs, Phases
  <2> HIDE DEF r
  <2> QED
    BY <1>0, <1>1, <1>2, <1>14, <1>15, <2>1, NextIsBehind
<1>17. \A t \in Sessions : t \in shells /\ ReadyRows(t, rows[t]) => ReadyRows(t, rows'[t])
  <2> SUFFICES ASSUME NEW t \in Sessions, ReadyRows(t, rows[t]) PROVE ReadyRows(t, rows'[t])
    OBVIOUS
  <2>1. CASE t = s
    BY <1>13, <2>1 DEF ReadyRows
  <2>2. CASE t # s
    BY <1>7, <2>2
  <2> QED
    BY <2>1, <2>2
<1>18. ImportTypeOK'
  <2>1. job' \in [Importers -> Jobs \cup {NoJob}]
    BY <1>2, <1>6
  <2>2. rows' \in [Sessions -> SessionRows]
    BY <1>4, <1>6
  <2> QED
    BY <1>0, <1>5, <2>1, <2>2 DEF ImportTypeOK
<1>19. JobsAreSound'
  <2> SUFFICES ASSUME NEW k \in Importers, job'[k] # NoJob
               PROVE  /\ job'[k].position \in DOMAIN Lineup[Session(k)']
                      /\ job'[k].phase = "submitter" => job'[k].position = 1
                      /\ job'[k].at # "failed" => Session(k)' \in shells'
                      /\ job'[k].at \in {"claim", "start"} =>
                             /\ job'[k].phase = "listed" /\ job'[k].position = 1
                             /\ job'[k].wrote = NoRows
    BY DEF JobsAreSound
  <2>1. CASE k = i
    BY <1>0, <1>1, <1>2, <1>5, <1>8, <2>1 DEF JobsAreSound
  <2>2. CASE k # i
    BY <1>0, <1>5, <1>7, <1>8, <2>2 DEF JobsAreSound
  <2> QED
    BY <2>1, <2>2
<1>20. HandmadeOnce'
  BY <1>5, <1>8 DEF ImportInv, HandmadeOnce
<1>21. RowsAreBehind'
  <2> SUFFICES ASSUME NEW k \in Importers, Holds(k)', job'[k].at # "undo"
               PROVE  Behind(job'[k], rows'[Session(k)'])
    BY DEF RowsAreBehind
  <2>1. CASE k = i
    BY <1>2, <1>8, <1>16, <2>1 DEF Holds, Attempting
  <2>2. CASE k # i
    <3>1. Holds(k) /\ job'[k] = job[k] /\ Session(k)' = Session(k)
      BY <1>7, <1>8, <2>2
    <3>2. Session(k) \in Sessions /\ Session(k) # s
      BY <1>0, <1>9, <2>2, <3>1, OneHolder, JobFacts DEF Holds, Attempting, NoJob
    <3> QED
      BY <1>7, <3>1, <3>2 DEF ImportInv, RowsAreBehind
  <2> QED
    BY <2>1, <2>2
<1>22. LeasesAreNew'
  <2> SUFFICES ASSUME NEW k \in Importers, Holds(k)', job'[k].at = "write"
               PROVE  claims'[Session(k)'].until > job'[k].renewed
    BY DEF LeasesAreNew
  <2>1. k # i
    BY <1>2
  <2> QED
    BY <1>5, <1>7, <1>8, <2>1 DEF ImportInv, LeasesAreNew
<1>23. LinksAreSound'
  <2> SUFFICES ASSUME NEW t \in Sessions
               PROVE  /\ rows'[t].linked \subseteq rows'[t].listed \cap persons'.known
                      /\ rows'[t].submitter \subseteq {First(t)}
    BY DEF LinksAreSound
  <2>1. CASE t = s
    BY <1>13, <2>1
  <2>2. CASE t # s
    BY <1>5, <1>7, <2>2 DEF ImportInv, LinksAreSound
  <2> QED
    BY <2>1, <2>2
<1>24. JournalsAreTrue'
  <2> SUFFICES ASSUME NEW k \in Importers, Holds(k)'
               PROVE  LET q == rows'[Session(k)']
                          before == job'[k].before
                          wrote == job'[k].wrote
                      IN  /\ before.linked \subseteq before.listed
                          /\ before.listed \subseteq q.listed
                          /\ before.linked \subseteq q.linked
                          /\ before.tasked \subseteq q.tasked
                          /\ before.submitter \subseteq {First(Session(k)')}
                          /\ wrote.listed \cap before.listed = {}
                          /\ wrote.tasked \cap before.tasked = {}
    BY DEF JournalsAreTrue
  <2>1. CASE k = i
    <3>1. LET before == job[i].before
              wrote == job[i].wrote
          IN  /\ before.linked \subseteq before.listed
              /\ before.listed \subseteq rows[s].listed
              /\ before.linked \subseteq rows[s].linked
              /\ before.tasked \subseteq rows[s].tasked
              /\ before.submitter \subseteq {First(s)}
              /\ wrote.listed \cap before.listed = {}
              /\ wrote.tasked \cap before.tasked = {}
      BY <1>9 DEF ImportInv, JournalsAreTrue
    <3> QED
      BY <1>2, <1>3, <1>8, <1>13, <2>1, <3>1
  <2>2. CASE k # i
    <3>1. Holds(k) /\ job'[k] = job[k] /\ Session(k)' = Session(k)
      BY <1>7, <1>8, <2>2
    <3>2. Session(k) \in Sessions /\ Session(k) # s
      BY <1>0, <1>9, <2>2, <3>1, OneHolder, JobFacts DEF Holds, Attempting, NoJob
    <3> QED
      BY <1>7, <3>1, <3>2 DEF ImportInv, JournalsAreTrue
  <2> QED
    BY <2>1, <2>2
<1>25. DoneIsReady'
  <2> SUFFICES ASSUME NEW t \in Sessions,
                      \/ t \in reported'
                      \/ \E k \in Importers : IsDone(k)' /\ Session(k)' = t
               PROVE  t \in shells' /\ ReadyRows(t, rows'[t])
    BY DEF DoneIsReady
  <2>1. CASE t \in reported \/ \E k \in Importers : IsDone(k) /\ Session(k) = t
    BY <1>5, <1>17, <2>1 DEF ImportInv, DoneIsReady
  <2>2. CASE ~(t \in reported \/ \E k \in Importers : IsDone(k) /\ Session(k) = t)
    <3>1. IsDone(i)' /\ t = s
      BY <1>5, <1>8, <2>2
    <3>2. NextPhase(i).phase = "made"
      BY <1>2, <3>1 DEF IsDone, LastWrite
    <3>3. s \in shells
      BY <1>0, <1>1 DEF JobsAreSound
    <3> QED
      BY <1>5, <1>16, <3>1, <3>2, <3>3
  <2> QED
    BY <2>1, <2>2
<1>26. FoundReady'
  <2> SUFFICES ASSUME NEW k \in Importers, Holds(k)',
                      \/ Session(k)' \in reported'
                      \/ \E h \in Importers \ {k} : IsDone(h)' /\ Session(h)' = Session(k)'
               PROVE  ReadyRows(Session(k)', job'[k].before)
    BY DEF FoundReady
  <2>1. Holds(k) /\ Session(k)' = Session(k) /\ job'[k].before = job[k].before
    BY <1>2, <1>7, <1>8
  <2>2. \/ Session(k) \in reported
        \/ \E h \in Importers \ {k} : IsDone(h) /\ Session(h) = Session(k)
    <3>1. ASSUME NEW h \in Importers \ {k}, IsDone(h)', Session(h)' = Session(k)'
          PROVE  IsDone(h) /\ Session(h) = Session(k)
      <4>1. h # i
        BY <1>8, <1>9, <2>1, <3>1, OneHolder
      <4> QED
        BY <1>8, <3>1, <4>1
    <3> QED
      BY <1>5, <2>1, <3>1
  <2> QED
    BY <2>1, <2>2 DEF ImportInv, FoundReady
<1> QED
  BY <1>18, <1>19, <1>20, <1>21, <1>22, <1>23, <1>24, <1>25, <1>26 DEF ImportInv

\* What the batch of a roll-back leaves.
LEMMA UndoFacts ==
    ASSUME ImportTypeOK, LinksAreSound, NEW i \in Importers, Undo(i), UndoFenced(i)
    PROVE  LET s == Session(i)
           IN  /\ s \in Sessions /\ claims[s].owner = i
               /\ rows' = [rows EXCEPT ![s] = rows'[s]]
               /\ rows'[s] \in SessionRows
               /\ rows'[s].listed = rows[s].listed \ job[i].wrote.listed
               /\ rows'[s].linked = (rows[s].linked \ job[i].wrote.listed)
                                       \ (job[i].before.listed \ job[i].before.linked)
               /\ rows'[s].tasked = rows[s].tasked \ job[i].wrote.tasked
               /\ rows'[s].submitter = job[i].before.submitter
               /\ persons' \in PersonRows
               /\ \A t \in Sessions : rows'[t].linked \subseteq persons'.known
<1> DEFINE s == Session(i)
<1>1. job[i] # NoJob
  BY AtFacts DEF Places, Undo, JobAt
<1>2. /\ s \in Sessions /\ job[i] \in Jobs /\ rows[s] \in SessionRows
      /\ rows \in [Sessions -> SessionRows] /\ persons \in PersonRows
  BY <1>1, JobFacts DEF ImportTypeOK
<1>3. job[i].before \in SessionRows /\ job[i].wrote \in SessionRows /\ job[i].added \in PersonRows
  BY <1>2 DEF Jobs
<1>4. claims[s].owner = i
  BY DEF UndoFenced, Owns
<1>5. rows' = [rows EXCEPT ![s] = Restored(i)] /\ persons' = RestoredPersons(i, rows')
  BY DEF Undo
<1>6. rows'[s] = Restored(i)
  BY <1>2, <1>5
<1>7. /\ rows'[s].listed = rows[s].listed \ job[i].wrote.listed
      /\ rows'[s].linked = (rows[s].linked \ job[i].wrote.listed)
                              \ (job[i].before.listed \ job[i].before.linked)
      /\ rows'[s].tasked = rows[s].tasked \ job[i].wrote.tasked
      /\ rows'[s].submitter = job[i].before.submitter
  BY <1>6 DEF Restored
<1>8. Restored(i) \in SessionRows
  BY <1>2, <1>3 DEF Restored, SessionRows
<1>9. persons' \in PersonRows
  BY <1>2, <1>3, <1>5 DEF RestoredPersons, PersonRows
<1>10. ASSUME NEW t \in Sessions, NEW p \in rows'[t].linked
       PROVE  p \in persons'.known
  <2>1. rows'[t].linked \subseteq rows[t].linked
    BY <1>2, <1>5, <1>7
  <2>2. p \in persons.known
    BY <1>10, <2>1 DEF LinksAreSound
  <2>3. Referred(p, rows', persons.member \ job[i].added.member,
                 persons.profile \ job[i].added.profile)
    BY <1>10 DEF Referred
  <2> QED
    BY <1>5, <2>2, <2>3 DEF RestoredPersons
<1> QED
  BY <1>2, <1>4, <1>5, <1>6, <1>7, <1>8, <1>9, <1>10

\* A roll-back that has the claim.
LEMMA UndoOwnStep ==
    ASSUME ImportInv, NEW i \in Importers, Undo(i), UndoFenced(i)
    PROVE  ImportInv'
<1> DEFINE s == Session(i)
<1>1. /\ ImportTypeOK /\ JobsAreSound /\ LinksAreSound
      /\ job[i] # NoJob /\ job[i].at = "undo"
  BY AtFacts DEF ImportInv, Places, Undo, JobAt
<1>2. /\ s \in Sessions /\ job[i] \in Jobs
      /\ job \in [Importers -> Jobs \cup {NoJob}] /\ rows \in [Sessions -> SessionRows]
      /\ claims \in [Sessions -> [owner : Importers \cup {Nobody}, until : Nat]]
  BY <1>1, JobFacts DEF ImportTypeOK
<1>3. /\ claims[s].owner = i
      /\ rows' = [rows EXCEPT ![s] = rows'[s]]
      /\ rows'[s] \in SessionRows
      /\ rows'[s].listed = rows[s].listed \ job[i].wrote.listed
      /\ rows'[s].linked = (rows[s].linked \ job[i].wrote.listed)
                              \ (job[i].before.listed \ job[i].before.linked)
      /\ rows'[s].tasked = rows[s].tasked \ job[i].wrote.tasked
      /\ rows'[s].submitter = job[i].before.submitter
      /\ persons' \in PersonRows
      /\ \A t \in Sessions : rows'[t].linked \subseteq persons'.known
  BY <1>1, UndoFacts
<1>4. /\ GoesTo(i, "failed") /\ UNCHANGED <<clock, reported>>
      /\ shells' = IF RemovesShell(i) THEN shells \ {s} ELSE shells
      /\ claims' = IF RemovesShell(i) THEN [claims EXCEPT ![s] = NoClaim] ELSE claims
  BY DEF Undo, GoesTo, Proceed
<1>5. /\ job' = [job EXCEPT ![i] = job'[i]]
      /\ job'[i] \in Jobs
      /\ job'[i].at = "failed"
      /\ job'[i].session = job[i].session
      /\ job'[i].phase = job[i].phase /\ job'[i].position = job[i].position
  BY <1>1, <1>4, GoFacts DEF Places
<1>6. /\ \A k \in Importers : k # i => job'[k] = job[k]
      /\ \A t \in Sessions : t # s => rows'[t] = rows[t]
  BY <1>2, <1>3, <1>5
<1>7. \A k \in Importers : Session(k)' = Session(k) /\ (job'[k] # NoJob => job[k] # NoJob)
  <2> TAKE k \in Importers
  <2>1. CASE k = i
    BY <1>1, <1>5, <2>1 DEF Session
  <2>2. CASE k # i
    BY <1>6, <2>2 DEF Session
  <2> QED
    BY <2>1, <2>2
<1>8. \A k \in Importers : job[k] # NoJob => Session(k) \in Sessions
  BY <1>1, JobFacts
\* Nobody else works on a session that goes.
<1>9. ASSUME RemovesShell(i)
      PROVE  s \notin reported /\ \A k \in Importers : job[k] # NoJob /\ Session(k) = s => k = i
  BY <1>1, <1>9 DEF ImportInv, HandmadeOnce, RemovesShell
<1>10. ASSUME NEW k \in Importers, Holds(k)'
       PROVE  /\ Holds(k) /\ job'[k] = job[k] /\ Session(k)' = Session(k)
              /\ Session(k) \in Sessions \ {s} /\ claims'[Session(k)] = claims[Session(k)]
  <2>1. k # i
    BY <1>5, <1>10 DEF Holds, Attempting
  <2>2. job'[k] = job[k] /\ Session(k)' = Session(k)
    BY <1>6, <1>7, <2>1
  <2>3. Attempting(k) /\ job[k] # NoJob /\ claims'[Session(k)].owner = k
    BY <1>10, <2>2 DEF Holds, Attempting, NoJob
  <2>4. Session(k) \in Sessions
    BY <1>8, <2>3
  <2>5. Session(k) # s
    <3>1. CASE RemovesShell(i)
      BY <1>9, <2>1, <2>3, <3>1
    <3>2. CASE ~RemovesShell(i)
      BY <1>3, <1>4, <2>1, <2>3, <3>2
    <3> QED
      BY <3>1, <3>2
  <2>6. claims'[Session(k)] = claims[Session(k)]
    BY <1>2, <1>4, <2>4, <2>5
  <2> QED
    BY <2>2, <2>3, <2>4, <2>5, <2>6 DEF Holds
<1>11. ASSUME NEW k \in Importers, IsDone(k)'
       PROVE  IsDone(k) /\ k # i /\ job[k] # NoJob
  <2>1. k # i
    BY <1>5, <1>11 DEF IsDone, LastWrite
  <2> QED
    BY <1>6, <1>11, <2>1 DEF IsDone, LastWrite, Session, NoJob
\* A session that is, or will be, reported was ready when this request began,
\* and is ready when what it wrote is gone.
<1>12. Holds(i)
  BY <1>1, <1>3 DEF Holds, Attempting
<1>13. ASSUME \/ s \in reported
              \/ \E k \in Importers : IsDone(k)' /\ Session(k)' = s
       PROVE  s \in shells' /\ ReadyRows(s, rows'[s])
  <2>1. s \in reported \/ \E k \in Importers \ {i} : IsDone(k) /\ Session(k) = s
    BY <1>7, <1>11, <1>13
  <2>2. ReadyRows(s, job[i].before)
    BY <1>12, <2>1 DEF ImportInv, FoundReady
  <2>3. LET before == job[i].before
            wrote == job[i].wrote
        IN  /\ before.linked \subseteq before.listed
            /\ before.linked \subseteq rows[s].linked
            /\ before.tasked \subseteq rows[s].tasked
            /\ wrote.listed \cap before.listed = {}
            /\ wrote.tasked \cap before.tasked = {}
    BY <1>12 DEF ImportInv, JournalsAreTrue
  <2>4. ReadyRows(s, rows'[s])
    BY <1>3, <2>2, <2>3 DEF ReadyRows
  <2>5. ~RemovesShell(i)
    BY <1>7, <1>9, <1>11, <1>13
  <2>6. s \in shells
    BY <1>1 DEF JobsAreSound
  <2> QED
    BY <1>4, <2>4, <2>5, <2>6
<1>14. ImportTypeOK'
  <2>1. job' \in [Importers -> Jobs \cup {NoJob}]
    BY <1>2, <1>5
  <2>2. rows' \in [Sessions -> SessionRows]
    BY <1>2, <1>3
  <2>3. claims' \in [Sessions -> [owner : Importers \cup {Nobody}, until : Nat]]
    BY <1>2, <1>4 DEF NoClaim
  <2> QED
    BY <1>1, <1>3, <1>4, <2>1, <2>2, <2>3 DEF ImportTypeOK
<1>15. JobsAreSound'
  <2> SUFFICES ASSUME NEW k \in Importers, job'[k] # NoJob
               PROVE  /\ job'[k].position \in DOMAIN Lineup[Session(k)']
                      /\ job'[k].phase = "submitter" => job'[k].position = 1
                      /\ job'[k].at # "failed" => Session(k)' \in shells'
                      /\ job'[k].at \in {"claim", "start"} =>
                             /\ job'[k].phase = "listed" /\ job'[k].position = 1
                             /\ job'[k].wrote = NoRows
    BY DEF JobsAreSound
  <2>1. CASE k = i
    BY <1>1, <1>5, <1>7, <2>1 DEF JobsAreSound
  <2>2. CASE k # i
    <3>1. job'[k] = job[k] /\ Session(k)' = Session(k) /\ job[k] # NoJob
      BY <1>6, <1>7, <2>2
    <3>2. RemovesShell(i) => Session(k) # s
      BY <1>9, <2>2, <3>1
    <3> QED
      BY <1>1, <1>4, <3>1, <3>2 DEF JobsAreSound
  <2> QED
    BY <2>1, <2>2
<1>16. HandmadeOnce'
  BY <1>4, <1>7 DEF ImportInv, HandmadeOnce
<1>17. RowsAreBehind'
  <2> SUFFICES ASSUME NEW k \in Importers, Holds(k)', job'[k].at # "undo"
               PROVE  Behind(job'[k], rows'[Session(k)'])
    BY DEF RowsAreBehind
  <2>1. /\ Holds(k) /\ job'[k] = job[k] /\ Session(k)' = Session(k)
        /\ Session(k) \in Sessions \ {s}
    BY <1>10
  <2> QED
    BY <1>6, <2>1 DEF ImportInv, RowsAreBehind
<1>18. LeasesAreNew'
  <2> SUFFICES ASSUME NEW k \in Importers, Holds(k)', job'[k].at = "write"
               PROVE  claims'[Session(k)'].until > job'[k].renewed
    BY DEF LeasesAreNew
  <2> QED
    BY <1>10 DEF ImportInv, LeasesAreNew
<1>19. LinksAreSound'
  <2> SUFFICES ASSUME NEW t \in Sessions
               PROVE  /\ rows'[t].linked \subseteq rows'[t].listed
                      /\ rows'[t].submitter \subseteq {First(t)}
    BY <1>3 DEF LinksAreSound
  <2>1. CASE t = s
    <3>1. job[i].before.submitter \subseteq {First(s)}
      BY <1>12 DEF ImportInv, JournalsAreTrue
    <3> QED
      BY <1>1, <1>2, <1>3, <2>1, <3>1 DEF LinksAreSound
  <2>2. CASE t # s
    BY <1>1, <1>6, <2>2 DEF LinksAreSound
  <2> QED
    BY <2>1, <2>2
<1>20. JournalsAreTrue'
  <2> SUFFICES ASSUME NEW k \in Importers, Holds(k)'
               PROVE  LET q == rows'[Session(k)']
                          before == job'[k].before
                          wrote == job'[k].wrote
                      IN  /\ before.linked \subseteq before.listed
                          /\ before.listed \subseteq q.listed
                          /\ before.linked \subseteq q.linked
                          /\ before.tasked \subseteq q.tasked
                          /\ before.submitter \subseteq {First(Session(k)')}
                          /\ wrote.listed \cap before.listed = {}
                          /\ wrote.tasked \cap before.tasked = {}
    BY DEF JournalsAreTrue
  <2>1. /\ Holds(k) /\ job'[k] = job[k] /\ Session(k)' = Session(k)
        /\ Session(k) \in Sessions \ {s}
    BY <1>10
  <2> QED
    BY <1>6, <2>1 DEF ImportInv, JournalsAreTrue
<1>21. DoneIsReady'
  <2> SUFFICES ASSUME NEW t \in Sessions,
                      \/ t \in reported'
                      \/ \E k \in Importers : IsDone(k)' /\ Session(k)' = t
               PROVE  t \in shells' /\ ReadyRows(t, rows'[t])
    BY DEF DoneIsReady
  <2>1. CASE t = s
    BY <1>4, <1>13, <2>1
  <2>2. CASE t # s
    <3>1. t \in reported \/ \E k \in Importers : IsDone(k) /\ Session(k) = t
      BY <1>4, <1>7, <1>11
    <3> QED
      BY <1>4, <1>6, <2>2, <3>1 DEF ImportInv, DoneIsReady
  <2> QED
    BY <2>1, <2>2
<1>22. FoundReady'
  <2> SUFFICES ASSUME NEW k \in Importers, Holds(k)',
                      \/ Session(k)' \in reported'
                      \/ \E h \in Importers \ {k} : IsDone(h)' /\ Session(h)' = Session(k)'
               PROVE  ReadyRows(Session(k)', job'[k].before)
    BY DEF FoundReady
  <2>1. Holds(k) /\ job'[k] = job[k] /\ Session(k)' = Session(k)
    BY <1>10
  <2>2. \/ Session(k) \in reported
        \/ \E h \in Importers \ {k} : IsDone(h) /\ Session(h) = Session(k)
    BY <1>4, <1>7, <1>11, <2>1
  <2> QED
    BY <2>1, <2>2 DEF ImportInv, FoundReady
<1> QED
  BY <1>14, <1>15, <1>16, <1>17, <1>18, <1>19, <1>20, <1>21, <1>22 DEF ImportInv

\* A roll-back that has lost the claim.
LEMMA UndoNothingStep ==
    ASSUME ImportInv, NEW i \in Importers, Undo(i), ~UndoFenced(i)
    PROVE  ImportInv'
<1>1. job[i] # NoJob /\ ImportTypeOK /\ job[i].at = "undo"
  BY AtFacts DEF ImportInv, Places, Undo, JobAt
<1>2. GoesTo(i, "failed") /\ UNCHANGED <<shells, claims, rows, persons, clock, reported>>
  BY DEF Undo, GoesTo, Proceed
<1>3. /\ job' = [job EXCEPT ![i] = job'[i]]
      /\ job'[i] \in Jobs
      /\ job'[i].at = "failed"
      /\ job'[i].session = job[i].session
      /\ job'[i].phase = job[i].phase /\ job'[i].position = job[i].position
      /\ job'[i].wrote = job[i].wrote
  BY <1>1, <1>2, GoFacts DEF Places
<1>4. job \in [Importers -> Jobs \cup {NoJob}]
  BY <1>1 DEF ImportTypeOK
<1>5. /\ \A k \in Importers : k # i => job'[k] = job[k]
      /\ \A k \in Importers : Session(k)' = Session(k) /\ (job'[k] # NoJob => job[k] # NoJob)
  BY <1>1, <1>3, <1>4 DEF Session
<1>6. ImportTypeOK'
  BY <1>1, <1>2, <1>3, <1>4 DEF ImportTypeOK
<1>7. JobsAreSound'
  <2> SUFFICES ASSUME NEW k \in Importers, job'[k] # NoJob
               PROVE  /\ job'[k].position \in DOMAIN Lineup[Session(k)']
                      /\ job'[k].phase = "submitter" => job'[k].position = 1
                      /\ job'[k].at # "failed" => Session(k)' \in shells'
                      /\ job'[k].at \in {"claim", "start"} =>
                             /\ job'[k].phase = "listed" /\ job'[k].position = 1
                             /\ job'[k].wrote = NoRows
    BY DEF JobsAreSound
  <2>1. CASE k = i
    BY <1>1, <1>3, <1>5, <2>1 DEF ImportInv, JobsAreSound
  <2>2. CASE k # i
    BY <1>2, <1>5, <2>2 DEF ImportInv, JobsAreSound
  <2> QED
    BY <2>1, <2>2
<1>8. HandmadeOnce'
  BY <1>2, <1>5 DEF ImportInv, HandmadeOnce
<1>9. ASSUME NEW k \in Importers, Holds(k)'
      PROVE  Holds(k) /\ job'[k] = job[k]
  <2>1. k # i
    BY <1>3, <1>9 DEF Holds, Attempting
  <2> QED
    BY <1>2, <1>5, <1>9, <2>1 DEF Holds, Attempting
<1>10. ASSUME NEW k \in Importers, IsDone(k)'
       PROVE  IsDone(k) /\ job'[k] = job[k]
  <2>1. k # i
    BY <1>3, <1>10 DEF IsDone, LastWrite
  <2> QED
    BY <1>5, <1>10, <2>1 DEF IsDone, LastWrite
<1> QED
  BY <1>2, <1>6, <1>7, <1>8, <1>9, <1>10, CalmStep

LEMMA ImportStart == ImportInit => ImportInv
<1> SUFFICES ASSUME ImportInit PROVE ImportInv
  OBVIOUS
<1>1. /\ \A i \in Importers : job[i] = NoJob
      /\ \A s \in Sessions : rows[s] = NoRows
      /\ reported = {}
  BY DEF ImportInit
<1>2. ImportTypeOK
  BY DEF ImportInit, ImportTypeOK, NoClaim, NoRows, NoPersons, SessionRows, PersonRows
<1>3. \A i \in Importers : ~Holds(i) /\ ~IsDone(i)
  BY <1>1 DEF Holds, Attempting, IsDone, LastWrite, NoJob
<1>4. JobsAreSound /\ HandmadeOnce
  BY <1>1 DEF JobsAreSound, HandmadeOnce
<1>5. LinksAreSound
  BY <1>1 DEF LinksAreSound, NoRows
<1> QED
  BY <1>1, <1>2, <1>3, <1>4, <1>5
     DEF ImportInv, RowsAreBehind, LeasesAreNew, JournalsAreTrue, DoneIsReady, FoundReady

LEMMA ImportKeeps == ImportInv /\ [ImportNext]_importVars => ImportInv'
<1> SUFFICES ASSUME ImportInv, [ImportNext]_importVars PROVE ImportInv'
  OBVIOUS
<1>1. CASE UNCHANGED importVars
  <2>1. UNCHANGED <<shells, claims, rows, persons, clock, job, reported>>
    BY <1>1 DEF importVars
  <2>2. ImportTypeOK' /\ JobsAreSound' /\ HandmadeOnce'
    BY <2>1 DEF ImportInv, ImportTypeOK, JobsAreSound, HandmadeOnce, Session
  <2>3. \A k \in Importers : /\ Holds(k)' => Holds(k)
                             /\ IsDone(k)' => IsDone(k)
    BY <2>1 DEF Holds, Attempting, IsDone, LastWrite, Session
  <2> QED
    BY <2>1, <2>2, <2>3, CalmStep
<1>2. CASE ImportTick
  BY <1>2, TickStep
<1>3. ASSUME NEW i \in Importers, NEW s \in Sessions, CreateSession(i, s) PROVE ImportInv'
  BY <1>3, CreateStep
<1>4. ASSUME NEW i \in Importers, ImportStep(i) PROVE ImportInv'
  <2>1. CASE Acquire(i)
    BY <2>1, AcquireStep
  <2>2. CASE GiveUp(i) \/ Dies(i)
    BY <2>2, LeaveSteps
  <2>3. CASE StartAttempt(i)
    BY <2>3, StartStep
  <2>4. CASE Renew(i)
    BY <2>4, RenewStep
  <2>5. CASE FindPerson(i)
    BY <2>5, PassStep
  <2>6. CASE WritePhase(i)
    BY <2>6, WriteStep
  <2>7. CASE WriteNothing(i)
    <3>1. CASE job[i].phase \in Checked
      BY <2>7, <3>1, FailStep DEF WriteNothing, JobAt, GoesTo, Proceed
    <3>2. CASE job[i].phase \notin Checked
      BY <2>7, <3>2, PassStep
    <3> QED
      BY <3>1, <3>2
  <2>8. CASE Throws(i)
    BY <2>8, FailStep DEF Throws, GoesTo, Proceed
  <2>9. CASE Undo(i)
    BY <2>9, UndoOwnStep, UndoNothingStep
  <2>10. CASE Release(i)
    BY <2>10, ReleaseStep
  <2> QED
    BY <1>4, <2>1, <2>2, <2>3, <2>4, <2>5, <2>6, <2>7, <2>8, <2>9, <2>10 DEF ImportStep
<1> QED
  BY <1>1, <1>2, <1>3, <1>4 DEF ImportNext

\* The journals of the requests, the claims and the rows agree (session.ts,
\* materialize.ts): the invariant the two theorems below rest on.
THEOREM ImportHoldsItsInvariant == ImportSpec => []ImportInv
<1> QED
  BY ImportStart, ImportKeeps, PTL DEF ImportSpec

\* A session reported as created is ready, whatever other attempts at it did
\* (session.ts:305-359): for every set of sessions, people and requests.
THEOREM ReportedAreReady == ImportSpec => []ReportedSessionsAreReady
<1>1. ImportInv => ReportedSessionsAreReady
  <2> SUFFICES ASSUME ImportInv, NEW s \in reported
               PROVE  /\ s \in shells
                      /\ {Lineup[s][n] : n \in DOMAIN Lineup[s]} \subseteq rows[s].linked \cap persons.known
                      /\ Lineup[s][1] \in rows[s].tasked
                      /\ rows[s].submitter = {Lineup[s][1]}
    BY DEF ReportedSessionsAreReady
  <2>1. s \in Sessions
    BY DEF ImportInv, ImportTypeOK
  <2>2. s \in shells /\ ReadyRows(s, rows[s])
    BY <2>1 DEF ImportInv, DoneIsReady
  <2>3. rows[s].linked \subseteq persons.known
    BY <2>1 DEF ImportInv, LinksAreSound
  <2> QED
    BY <2>2, <2>3 DEF ReadyRows, Everyone, First
<1> QED
  BY <1>1, ImportHoldsItsInvariant, PTL

\* The rows of a session change only by a step of the request that has its claim
\* (sessions.test.ts:178).
THEOREM OwnersWrite == ImportSpec => OnlyTheOwnerWrites
<1>1. ImportInv /\ [ImportNext]_importVars =>
          [\A s \in Sessions : rows'[s] # rows[s] =>
              \E i \in Importers : /\ claims[s].owner = i
                                   /\ job[i] # NoJob /\ Session(i) = s
                                   /\ job'[i] # job[i]]_importVars
  <2> SUFFICES ASSUME ImportInv, [ImportNext]_importVars, NEW s \in Sessions, rows'[s] # rows[s]
               PROVE  \E i \in Importers : /\ claims[s].owner = i
                                           /\ job[i] # NoJob /\ Session(i) = s
                                           /\ job'[i] # job[i]
    OBVIOUS
  <2>1. rows' # rows
    OBVIOUS
  <2>2. PICK i \in Importers : WritePhase(i) \/ Undo(i)
    BY <2>1 DEF ImportNext, ImportStep, importVars, ImportTick, CreateSession, Acquire, GiveUp,
                StartAttempt, Renew, FindPerson, WriteNothing, Throws, Release, Dies
  <2>3. ImportTypeOK /\ JobsAreSound /\ LinksAreSound
    BY DEF ImportInv
  <2>4. rows \in [Sessions -> SessionRows]
    BY <2>3 DEF ImportTypeOK
  <2>5. CASE WritePhase(i)
    <3>1. /\ job[i].at = "write" /\ job[i] # NoJob /\ claims[Session(i)].owner = i
          /\ job'[i].at \in {"renew", "made"}
          /\ rows' = [rows EXCEPT ![Session(i)] = rows'[Session(i)]]
      BY <2>3, <2>5, WriteFacts
    <3>2. s = Session(i)
      BY <2>4, <3>1
    <3> QED
      BY <3>1, <3>2
  <2>6. CASE Undo(i)
    <3>1. UndoFenced(i)
      BY <2>1, <2>6 DEF Undo
    <3>2. job[i].at = "undo" /\ job[i] # NoJob
      BY <2>3, <2>6, AtFacts DEF Undo, JobAt, Places
    <3>3. job'[i].at = "failed"
      BY <2>3, <2>6, <3>2, GoFacts DEF Undo, GoesTo, Proceed, Places
    <3>4. claims[Session(i)].owner = i /\ rows' = [rows EXCEPT ![Session(i)] = rows'[Session(i)]]
      BY <2>3, <2>6, <3>1, UndoFacts
    <3>5. s = Session(i)
      BY <2>4, <3>4
    <3> QED
      BY <3>2, <3>3, <3>4, <3>5
  <2> QED
    BY <2>2, <2>5, <2>6
<1> QED
  BY <1>1, ImportHoldsItsInvariant, PTL DEF ImportSpec, OnlyTheOwnerWrites

-----------------------------------------------------------------------------

(***************************************************************************)
(* Rounds. ReviewInv follows what a request read to the write that relies  *)
(* on it: a list of submissions is of the round that it was read for, and  *)
(* the write of a score is conditional on the assignment.                  *)
(***************************************************************************)

\* The tables, and that each list is of one round.
TablesAreSound ==
    /\ round \in [Rounds -> RoundStates]
    /\ revoked \subseteq Judges
    /\ assigned \subseteq Assignments
    /\ \A a \in assigned : a.list \subseteq OfRound(RoundOf[a.judge])
    /\ scores \in [Judges -> [Papers -> 0..1]]

\* What a request has read, where it says what it says; the fields it does not
\* use may name nothing, since there may be no reviewer.
Notes == [at : Errands, plan : Rounds \cup {NoBrief.plan}, status : RoundStates,
          list : SUBSET Judges, papers : SUBSET Papers, rows : SUBSET (Judges \X Papers),
          judge : Judges \cup {NoBrief.judge}, found : BOOLEAN]

SoundNote(b) ==
    /\ b.at \in {"activate", "patch", "reopen", "delete", "caps", "list", "assign"} =>
          b.plan \in Rounds
    /\ b.at \in {"revoke", "recuse", "score", "mark"} => b.judge \in Judges
    /\ b.at = "patch" => b.status # "gone"
    /\ b.at \in {"caps", "list", "assign"} => b.list \subseteq OfRound(b.plan)

BriefsAreSound ==
    /\ clerk \in [Clerks -> Notes]
    /\ \A c \in Clerks : SoundNote(clerk[c])

\* No two rounds are active.
NoTwoAreActive == \A p, q \in ActiveRounds : p = q

ReviewInv == /\ TablesAreSound
             /\ BriefsAreSound
             /\ NoTwoAreActive
             /\ AssignmentsAreOneList
             /\ DeletedRoundsLeaveNothing

LEMMA NoBriefIsSound == NoBrief \in Notes /\ SoundNote(NoBrief) /\ NoBrief.at = "none"
<1> DEFINE P == CHOOSE q \in Rounds : TRUE
           J == CHOOSE j \in Judges : TRUE
<1>1. /\ NoBrief = [at |-> "none", plan |-> P, status |-> "draft",
                    list |-> {}, papers |-> {}, rows |-> {}, judge |-> J, found |-> FALSE]
  BY DEF NoBrief
<1> HIDE DEF P, J
<1> QED
  BY <1>1 DEF Notes, SoundNote, Errands, RoundStates

\* A request is sent, or goes on to its next statement.
LEMMA BriefStep ==
    ASSUME ReviewInv, NEW c \in Clerks, UnchangedTables,
           clerk' = [clerk EXCEPT ![c] = clerk'[c]],
           clerk'[c] \in Notes, SoundNote(clerk'[c])
    PROVE  ReviewInv'
<1>1. clerk \in [Clerks -> Notes] /\ \A d \in Clerks : SoundNote(clerk[d])
  BY DEF ReviewInv, BriefsAreSound
<1>2. \A d \in Clerks : d # c => clerk'[d] = clerk[d]
  BY <1>1
<1>3. clerk' \in [Clerks -> Notes]
  BY <1>1
<1>4. ASSUME NEW d \in Clerks PROVE SoundNote(clerk'[d])
  BY <1>1, <1>2
<1>5. BriefsAreSound'
  BY <1>3, <1>4 DEF BriefsAreSound, SoundNote, OfRound
<1>6. /\ TablesAreSound' /\ NoTwoAreActive'
      /\ AssignmentsAreOneList' /\ DeletedRoundsLeaveNothing'
  BY DEF ReviewInv, UnchangedTables, TablesAreSound, NoTwoAreActive, ActiveRounds, OfRound,
         AssignmentsAreOneList, DeletedRoundsLeaveNothing, RowsOf, ScoresOf
<1> QED
  BY <1>5, <1>6 DEF ReviewInv

\* A request ends, and what others hold of rows that went is lost.
LEMMA BriefsAfter ==
    ASSUME BriefsAreSound, NEW c \in Clerks, NEW judges, NEW papers,
           \/ Answered(c)
           \/ clerk' = Losing([clerk EXCEPT ![c] = NoBrief], judges, papers)
    PROVE  BriefsAreSound'
<1>1. clerk \in [Clerks -> Notes] /\ \A d \in Clerks : SoundNote(clerk[d])
  BY DEF BriefsAreSound
<1>2. ASSUME NEW d \in Clerks
      PROVE  clerk'[d] \in Notes /\ SoundNote(clerk'[d])
  <2> DEFINE b == IF d = c THEN NoBrief ELSE clerk[d]
  <2>1. b \in Notes /\ SoundNote(b)
    BY <1>1, NoBriefIsSound
  <2>2. CASE Answered(c)
    <3>1. clerk'[d] = b
      BY <1>1, <2>2 DEF Answered
    <3> QED
      BY <2>1, <3>1
  <2>3. CASE clerk' = Losing([clerk EXCEPT ![c] = NoBrief], judges, papers)
    <3>1. clerk'[d] = IF b.at = "recuse" /\ b.judge \in judges /\ b.papers \cap papers # {}
                      THEN [b EXCEPT !.found = FALSE] ELSE b
      BY <1>1, <2>3 DEF Losing
    <3> HIDE DEF b
    <3>2. [b EXCEPT !.found = FALSE] \in Notes /\ SoundNote([b EXCEPT !.found = FALSE])
      BY <2>1 DEF Notes, SoundNote
    <3> QED
      BY <2>1, <3>1, <3>2
  <2> QED
    BY <2>2, <2>3
<1>3. clerk' = [d \in Clerks |-> clerk'[d]]
  BY <1>1 DEF Answered, Losing
<1>4. clerk' \in [Clerks -> Notes]
  BY <1>2, <1>3
<1> QED
  BY <1>2, <1>4 DEF BriefsAreSound, SoundNote, OfRound

\* The first statements of the requests, which only read.
LEMMA AskSteps ==
    ASSUME ReviewInv, NEW c \in Clerks,
           \/ \E p \in Rounds : AskActivate(c, p) \/ AskDelete(c, p)
           \/ \E p \in Rounds, status \in RoundStates : AskPatch(c, p, status)
           \/ \E p \in Rounds, list \in SUBSET Judges, papers \in SUBSET Papers :
                 AskAssign(c, p, list, papers)
           \/ \E j \in Judges : AskRevoke(c, j)
           \/ \E a \in assigned : AskRecuse(c, a) \/ AskScore(c, a)
    PROVE  ReviewInv'
<1> DEFINE b == clerk[c]
<1>1. clerk \in [Clerks -> Notes] /\ b \in Notes /\ assigned \subseteq Assignments
      /\ round \in [Rounds -> RoundStates]
  BY DEF ReviewInv, BriefsAreSound, TablesAreSound
<1>2. ASSUME NEW p \in Rounds, AskActivate(c, p) \/ AskDelete(c, p) PROVE ReviewInv'
  <2>1. PICK place \in {"activate", "delete"} :
            clerk' = [clerk EXCEPT ![c].at = place, ![c].plan = p]
    BY <1>2 DEF AskActivate, AskDelete
  <2>2. clerk'[c] = [b EXCEPT !.at = place, !.plan = p] /\ clerk' = [clerk EXCEPT ![c] = clerk'[c]]
    BY <1>1, <2>1
  <2>3. clerk'[c] \in Notes /\ SoundNote(clerk'[c])
    BY <1>1, <2>2 DEF Notes, SoundNote, Errands
  <2> QED
    BY <1>2, <2>2, <2>3, BriefStep DEF AskActivate, AskDelete
<1>3. ASSUME NEW p \in Rounds, NEW status \in RoundStates, AskPatch(c, p, status) PROVE ReviewInv'
  <2>1. PICK place \in {"reopen", "patch"} :
            clerk' = [clerk EXCEPT ![c].plan = p, ![c].status = status, ![c].at = place]
    BY <1>3 DEF AskPatch
  <2>2. /\ clerk'[c] = [b EXCEPT !.plan = p, !.status = status, !.at = place]
        /\ clerk' = [clerk EXCEPT ![c] = clerk'[c]]
    BY <1>1, <2>1
  <2>3. status # "gone"
    BY <1>3 DEF AskPatch
  <2>4. clerk'[c] \in Notes /\ SoundNote(clerk'[c])
    BY <1>1, <2>2, <2>3 DEF Notes, SoundNote, Errands
  <2> QED
    BY <1>3, <2>2, <2>4, BriefStep DEF AskPatch
<1>4. ASSUME NEW p \in Rounds, NEW list \in SUBSET Judges, NEW papers \in SUBSET Papers,
             AskAssign(c, p, list, papers)
      PROVE  ReviewInv'
  <2>1. /\ clerk' = [clerk EXCEPT ![c].at = "caps", ![c].plan = p,
                                  ![c].list = list, ![c].papers = papers]
        /\ list \subseteq OfRound(p)
    BY <1>4 DEF AskAssign
  <2>2. /\ clerk'[c] = [b EXCEPT !.at = "caps", !.plan = p, !.list = list, !.papers = papers]
        /\ clerk' = [clerk EXCEPT ![c] = clerk'[c]]
    BY <1>1, <2>1
  <2>3. clerk'[c] \in Notes /\ SoundNote(clerk'[c])
    BY <1>1, <2>1, <2>2 DEF Notes, SoundNote, Errands
  <2> QED
    BY <1>4, <2>2, <2>3, BriefStep DEF AskAssign
<1>5. ASSUME NEW j \in Judges, AskRevoke(c, j) PROVE ReviewInv'
  <2>1. clerk' = [clerk EXCEPT ![c].at = "revoke", ![c].judge = j]
    BY <1>5 DEF AskRevoke
  <2>2. clerk'[c] = [b EXCEPT !.at = "revoke", !.judge = j] /\ clerk' = [clerk EXCEPT ![c] = clerk'[c]]
    BY <1>1, <2>1
  <2>3. clerk'[c] \in Notes /\ SoundNote(clerk'[c])
    BY <1>1, <2>2 DEF Notes, SoundNote, Errands
  <2> QED
    BY <1>5, <2>2, <2>3, BriefStep DEF AskRevoke
<1>6. ASSUME NEW a \in assigned, AskRecuse(c, a) PROVE ReviewInv'
  <2>1. clerk' = [clerk EXCEPT ![c].at = "recuse", ![c].judge = a.judge,
                              ![c].papers = {a.paper}, ![c].found = TRUE]
    BY <1>6 DEF AskRecuse
  <2>2. /\ clerk'[c] = [b EXCEPT !.at = "recuse", !.judge = a.judge,
                                 !.papers = {a.paper}, !.found = TRUE]
        /\ clerk' = [clerk EXCEPT ![c] = clerk'[c]]
    BY <1>1, <2>1
  <2> DEFINE j == a.judge
             s == {a.paper}
  <2>3. j \in Judges /\ s \in SUBSET Papers
    BY <1>1 DEF Assignments
  <2>4. clerk'[c] \in Notes /\ SoundNote(clerk'[c])
    <3>1. clerk'[c] = [b EXCEPT !.at = "recuse", !.judge = j, !.papers = s, !.found = TRUE]
      BY <2>2
    <3> HIDE DEF j, s
    <3> QED
      BY <1>1, <2>3, <3>1 DEF Notes, SoundNote, Errands
  <2> QED
    BY <1>6, <2>2, <2>4, BriefStep DEF AskRecuse
<1>7. ASSUME NEW a \in assigned, AskScore(c, a) PROVE ReviewInv'
  <2>1. clerk' = [clerk EXCEPT ![c].at = "score", ![c].judge = a.judge, ![c].papers = {a.paper}]
    BY <1>7 DEF AskScore
  <2>2. /\ clerk'[c] = [b EXCEPT !.at = "score", !.judge = a.judge, !.papers = {a.paper}]
        /\ clerk' = [clerk EXCEPT ![c] = clerk'[c]]
    BY <1>1, <2>1
  <2> DEFINE j == a.judge
             s == {a.paper}
  <2>3. j \in Judges /\ s \in SUBSET Papers
    BY <1>1 DEF Assignments
  <2>4. clerk'[c] \in Notes /\ SoundNote(clerk'[c])
    <3>1. clerk'[c] = [b EXCEPT !.at = "score", !.judge = j, !.papers = s]
      BY <2>2
    <3> HIDE DEF j, s
    <3> QED
      BY <1>1, <2>3, <3>1 DEF Notes, SoundNote, Errands
  <2> QED
    BY <1>7, <2>2, <2>4, BriefStep DEF AskScore
<1> QED
  BY <1>2, <1>3, <1>4, <1>5, <1>6, <1>7

\* The reads between the first and the last statement.
LEMMA ReadSteps ==
    ASSUME ReviewInv, NEW c \in Clerks, CheckCaps(c) \/ ReadRows(c) \/ ReadScore(c)
    PROVE  ReviewInv'
<1> DEFINE b == clerk[c]
<1>1. clerk \in [Clerks -> Notes] /\ b \in Notes /\ SoundNote(b) /\ assigned \subseteq Assignments
  BY DEF ReviewInv, BriefsAreSound, TablesAreSound
<1>2. CASE CheckCaps(c)
  <2>1. CASE clerk' = [clerk EXCEPT ![c].at = "list"]
    <3>1. clerk'[c] = [b EXCEPT !.at = "list"] /\ clerk' = [clerk EXCEPT ![c] = clerk'[c]]
      BY <1>1, <2>1
    <3>2. clerk'[c] \in Notes /\ SoundNote(clerk'[c])
      BY <1>1, <1>2, <3>1 DEF Notes, SoundNote, Errands, CheckCaps, On
    <3> QED
      BY <1>2, <3>1, <3>2, BriefStep DEF CheckCaps
  <2>2. CASE Answered(c)
    <3>1. clerk'[c] = NoBrief /\ clerk' = [clerk EXCEPT ![c] = clerk'[c]]
      BY <1>1, <2>2 DEF Answered
    <3> QED
      BY <1>2, <3>1, NoBriefIsSound, BriefStep DEF CheckCaps
  <2> QED
    BY <1>2, <2>1, <2>2 DEF CheckCaps
<1>3. CASE ReadRows(c)
  <2> DEFINE R == {<<a.judge, a.paper>> : a \in {d \in Replaced(c) : d.recused}}
  <2>1. R \in SUBSET (Judges \X Papers)
    BY <1>1 DEF Replaced, RowsOf, Assignments
  <2>2. clerk' = [clerk EXCEPT ![c].at = "assign", ![c].rows = R]
    BY <1>3 DEF ReadRows
  <2> HIDE DEF R
  <2>3. clerk'[c] = [b EXCEPT !.at = "assign", !.rows = R] /\ clerk' = [clerk EXCEPT ![c] = clerk'[c]]
    BY <1>1, <2>2
  <2>4. clerk'[c] \in Notes /\ SoundNote(clerk'[c])
    BY <1>1, <1>3, <2>1, <2>3 DEF Notes, SoundNote, Errands, ReadRows, On
  <2> QED
    BY <1>3, <2>3, <2>4, BriefStep DEF ReadRows
<1>4. CASE ReadScore(c)
  <2> DEFINE F == \E s \in clerk[c].papers : scores[clerk[c].judge][s] > 0
  <2>1. clerk' = [clerk EXCEPT ![c].at = "mark", ![c].found = F]
    BY <1>4 DEF ReadScore
  <2>2. F \in BOOLEAN
    OBVIOUS
  <2> HIDE DEF F
  <2>3. clerk'[c] = [b EXCEPT !.at = "mark", !.found = F] /\ clerk' = [clerk EXCEPT ![c] = clerk'[c]]
    BY <1>1, <2>1
  <2>4. clerk'[c] \in Notes /\ SoundNote(clerk'[c])
    BY <1>1, <1>4, <2>2, <2>3 DEF Notes, SoundNote, Errands, ReadScore, On
  <2> QED
    BY <1>4, <2>3, <2>4, BriefStep DEF ReadScore
<1> QED
  BY <1>2, <1>3, <1>4

\* Activating, changing, reopening or deleting a round.
LEMMA RoundSteps ==
    ASSUME ReviewInv, NEW c \in Clerks, Activate(c) \/ Patch(c) \/ Reopen(c) \/ Delete(c)
    PROVE  ReviewInv'
<1> DEFINE p == clerk[c].plan
<1>1. /\ clerk[c] \in Notes /\ SoundNote(clerk[c]) /\ BriefsAreSound
      /\ round \in [Rounds -> RoundStates]
  BY DEF ReviewInv, BriefsAreSound, TablesAreSound
<1>2. Answered(c) /\ UNCHANGED <<revoked, assigned, scores>> /\ p \in Rounds
  BY <1>1 DEF Activate, Patch, Reopen, Delete, SoundNote, On
<1>3. BriefsAreSound'
  BY <1>1, <1>2, BriefsAfter
<1>4. AssignmentsAreOneList'
  BY <1>2 DEF ReviewInv, AssignmentsAreOneList
<1>5. /\ round' \in [Rounds -> RoundStates]
      /\ NoTwoAreActive'
      /\ \A q \in Rounds : round'[q] = "gone" =>
            round[q] = "gone" \/ (q = p /\ NothingRefersTo(p))
  <2>1. CASE Activate(c)
    <3>1. CASE round[p] = "draft" /\ ActiveRounds = {}
      <4>1. round' = [round EXCEPT ![p] = "active"]
        BY <2>1, <3>1 DEF Activate
      <4>2. ActiveRounds' \subseteq {p}
        BY <1>1, <1>2, <3>1, <4>1 DEF ActiveRounds
      <4> QED
        BY <1>1, <1>2, <4>1, <4>2 DEF RoundStates, NoTwoAreActive
    <3>2. CASE ~(round[p] = "draft" /\ ActiveRounds = {})
      BY <1>1, <2>1, <3>2 DEF Activate, ReviewInv, NoTwoAreActive, ActiveRounds
    <3> QED
      BY <3>1, <3>2
  <2>2. CASE Patch(c)
    <3> DEFINE status == clerk[c].status
    <3>1. status \in RoundStates /\ status # "gone"
      BY <1>1, <2>2 DEF Notes, SoundNote, Patch, On
    <3>2. CASE round' = [round EXCEPT ![p] = status] /\ (status = "active" => IndexAllows(p))
      <4>1. \A q \in Rounds : q # p => round'[q] = round[q]
        BY <1>1, <1>2, <3>2
      <4>2. round'[p] = status
        BY <1>1, <1>2, <3>2
      <4>3. NoTwoAreActive'
        BY <4>1, <4>2, <3>2 DEF ReviewInv, NoTwoAreActive, ActiveRounds, IndexAllows
      <4> QED
        BY <1>1, <1>2, <3>1, <3>2, <4>1, <4>2, <4>3
    <3>3. CASE round' = round
      BY <1>1, <3>3 DEF ReviewInv, NoTwoAreActive, ActiveRounds
    <3> QED
      BY <2>2, <3>2, <3>3 DEF Patch
  <2>3. CASE Reopen(c)
    <3>1. round' = [q \in Rounds |->
                       IF q = p THEN IF round[q] = "gone" THEN "gone" ELSE "active"
                       ELSE IF round[q] = "active" THEN "closed" ELSE round[q]]
      BY <2>3 DEF Reopen
    <3>2. ActiveRounds' \subseteq {p}
      BY <1>1, <3>1 DEF ActiveRounds
    <3> QED
      BY <1>1, <3>1, <3>2 DEF RoundStates, NoTwoAreActive
  <2>4. CASE Delete(c)
    <3>1. CASE NothingRefersTo(p)
      <4>1. round' = [round EXCEPT ![p] = "gone"]
        BY <2>4, <3>1 DEF Delete
      <4>2. ActiveRounds' \subseteq ActiveRounds
        BY <1>1, <1>2, <4>1 DEF ActiveRounds
      <4> QED
        BY <1>1, <1>2, <3>1, <4>1, <4>2 DEF RoundStates, ReviewInv, NoTwoAreActive
    <3>2. CASE ~NothingRefersTo(p)
      BY <1>1, <2>4, <3>2 DEF Delete, ReviewInv, NoTwoAreActive, ActiveRounds
    <3> QED
      BY <3>1, <3>2
  <2> QED
    BY <2>1, <2>2, <2>3, <2>4
<1>6. DeletedRoundsLeaveNothing'
  <2> SUFFICES ASSUME NEW q \in Rounds, round'[q] = "gone"
               PROVE  RowsOf(q)' = {} /\ ScoresOf(q)' = {}
    BY DEF DeletedRoundsLeaveNothing
  <2>1. RowsOf(q)' = RowsOf(q) /\ ScoresOf(q)' = ScoresOf(q)
    BY <1>2 DEF RowsOf, ScoresOf, OfRound
  <2> QED
    BY <1>5, <2>1 DEF ReviewInv, DeletedRoundsLeaveNothing, NothingRefersTo
<1>7. TablesAreSound'
  BY <1>2, <1>5 DEF ReviewInv, TablesAreSound, OfRound
<1> QED
  BY <1>3, <1>4, <1>5, <1>6, <1>7 DEF ReviewInv

\* The lists of a plan replace each other whole.
LEMMA AssignStep ==
    ASSUME ReviewInv, NEW c \in Clerks, Assign(c)
    PROVE  ReviewInv'
<1> DEFINE b == clerk[c]
           p == b.plan
<1>1. /\ b \in Notes /\ SoundNote(b) /\ b.at = "assign" /\ BriefsAreSound
      /\ round \in [Rounds -> RoundStates] /\ assigned \subseteq Assignments
      /\ \A a \in assigned : a.list \subseteq OfRound(RoundOf[a.judge])
  BY DEF ReviewInv, BriefsAreSound, TablesAreSound, Assign, On
<1>2. /\ p \in Rounds /\ b.list \subseteq OfRound(p) /\ b.list \subseteq Judges
      /\ b.papers \subseteq Papers
  BY <1>1 DEF SoundNote, Notes
<1>3. UNCHANGED <<round, revoked, scores>>
  BY DEF Assign
<1>4. BriefsAreSound'
  BY <1>1, BriefsAfter DEF Assign
<1>5. NoTwoAreActive'
  BY <1>3 DEF ReviewInv, NoTwoAreActive, ActiveRounds
<1>6. CASE round[p] = "gone"
  <2>1. UNCHANGED assigned
    BY <1>6 DEF Assign
  <2> QED
    BY <1>3, <1>4, <1>5, <2>1 DEF ReviewInv, TablesAreSound, AssignmentsAreOneList,
       DeletedRoundsLeaveNothing, RowsOf, ScoresOf, OfRound
<1>7. CASE round[p] # "gone"
  <2>1. assigned' = (assigned \ Replaced(c)) \cup NewRows(c)
    BY <1>7 DEF Assign
  <2> DEFINE row(j, s) == [judge |-> j, paper |-> s, list |-> b.list,
                           recused |-> <<j, s>> \in b.rows]
  <2>0. NewRows(c) = {row(j, s) : j \in b.list, s \in b.papers}
    BY DEF NewRows
  <2>2. \A a \in NewRows(c) : /\ a \in Assignments /\ a.list = b.list
                              /\ a.judge \in b.list /\ a.paper \in b.papers
    <3>1. \A j \in b.list, s \in b.papers : row(j, s) \in Assignments
      BY <1>2 DEF Assignments
    <3>2. \A j \in b.list, s \in b.papers :
              row(j, s).list = b.list /\ row(j, s).judge = j /\ row(j, s).paper = s
      OBVIOUS
    <3> HIDE DEF row
    <3> QED
      BY <2>0, <3>1, <3>2
  <2>3. \A j \in b.list, s \in b.papers :
            \E d \in NewRows(c) : d.judge = j /\ d.paper = s
    <3> SUFFICES ASSUME NEW j \in b.list, NEW s \in b.papers
                 PROVE  \E d \in NewRows(c) : d.judge = j /\ d.paper = s
      OBVIOUS
    <3>1. row(j, s) \in NewRows(c)
      BY <2>0
    <3>2. row(j, s).judge = j /\ row(j, s).paper = s
      OBVIOUS
    <3> QED
      BY <3>1, <3>2
  <2>4. \A a \in assigned : a \in Replaced(c) <=> (RoundOf[a.judge] = p /\ a.paper \in b.papers)
    BY <1>1 DEF Replaced, RowsOf, OfRound, Assignments
  <2>5. \A a \in NewRows(c) : a.list \subseteq OfRound(p) /\ RoundOf[a.judge] = p
    BY <1>2, <2>2 DEF OfRound
  <2>6. AssignmentsAreOneList'
    <3> SUFFICES ASSUME NEW a \in assigned', NEW e \in assigned', a.paper = e.paper,
                        RoundOf[a.judge] = RoundOf[e.judge]
                 PROVE  /\ a.list = e.list
                        /\ \A j \in a.list \ revoked' :
                              \E d \in assigned' : d.judge = j /\ d.paper = a.paper
      BY DEF AssignmentsAreOneList
    <3>1. CASE a \in NewRows(c)
      <4>1. e \in NewRows(c)
        BY <2>1, <2>2, <2>4, <2>5, <3>1
      <4>2. a.list = b.list /\ e.list = b.list /\ a.paper \in b.papers
        BY <2>2, <3>1, <4>1
      <4>3. ASSUME NEW j \in a.list PROVE \E d \in assigned' : d.judge = j /\ d.paper = a.paper
        <5>1. PICK d \in NewRows(c) : d.judge = j /\ d.paper = a.paper
          BY <2>3, <4>2, <4>3
        <5> QED
          BY <2>1, <5>1
      <4> QED
        BY <4>2, <4>3
    <3>2. CASE a \notin NewRows(c)
      <4>1. a \in assigned /\ ~(RoundOf[a.judge] = p /\ a.paper \in b.papers)
        BY <2>1, <2>4, <3>2
      <4>2. e \in assigned
        BY <2>1, <2>2, <2>5, <4>1
      <4>3. a.list = e.list
        BY <4>1, <4>2 DEF ReviewInv, AssignmentsAreOneList
      <4>4. ASSUME NEW j \in a.list \ revoked
            PROVE  \E d \in assigned' : d.judge = j /\ d.paper = a.paper
        <5>1. PICK d \in assigned : d.judge = j /\ d.paper = a.paper
          BY <4>1 DEF ReviewInv, AssignmentsAreOneList
        <5>2. RoundOf[d.judge] = RoundOf[a.judge]
          BY <1>1, <4>1, <5>1 DEF OfRound
        <5>3. d \notin Replaced(c)
          BY <2>4, <4>1, <5>1, <5>2
        <5> QED
          BY <2>1, <5>1, <5>3
      <4> QED
        BY <1>3, <4>3, <4>4
    <3> QED
      BY <3>1, <3>2
  <2>7. DeletedRoundsLeaveNothing'
    <3> SUFFICES ASSUME NEW q \in Rounds, round[q] = "gone"
                 PROVE  RowsOf(q)' = {} /\ ScoresOf(q)' = {}
      BY <1>3 DEF DeletedRoundsLeaveNothing
    <3>1. RowsOf(q) = {} /\ ScoresOf(q) = {} /\ q # p
      BY <1>7 DEF ReviewInv, DeletedRoundsLeaveNothing
    <3>2. ScoresOf(q)' = {}
      BY <1>3, <3>1 DEF ScoresOf, OfRound
    <3>3. RowsOf(q)' = {}
      BY <2>1, <2>5, <3>1 DEF RowsOf, OfRound
    <3> QED
      BY <3>2, <3>3
  <2>8. TablesAreSound'
    <3>1. assigned' \subseteq Assignments
      BY <1>1, <2>1, <2>2
    <3>2. \A a \in assigned' : a.list \subseteq OfRound(RoundOf[a.judge])
      BY <1>1, <2>1, <2>5
    <3> QED
      BY <1>3, <3>1, <3>2 DEF ReviewInv, TablesAreSound, OfRound
  <2> QED
    BY <1>4, <1>5, <2>6, <2>7, <2>8 DEF ReviewInv
<1> QED
  BY <1>6, <1>7

LEMMA RevokeStep ==
    ASSUME ReviewInv, NEW c \in Clerks, Revoke(c)
    PROVE  ReviewInv'
<1> DEFINE j == clerk[c].judge
<1>1. /\ clerk[c] \in Notes /\ SoundNote(clerk[c]) /\ BriefsAreSound
      /\ assigned \subseteq Assignments
      /\ \A a \in assigned : a.list \subseteq OfRound(RoundOf[a.judge])
  BY DEF ReviewInv, BriefsAreSound, TablesAreSound
<1>2. j \in Judges
  BY <1>1 DEF SoundNote, Revoke, On
<1>3. /\ revoked' = IF round[RoundOf[j]] = "gone" THEN revoked ELSE revoked \cup {j}
      /\ assigned' = {a \in assigned : a.judge # j}
      /\ clerk' = Losing([clerk EXCEPT ![c] = NoBrief], {j}, Papers)
      /\ UNCHANGED <<round, scores>>
  BY DEF Revoke
<1>4. BriefsAreSound'
  BY <1>1, <1>3, BriefsAfter
<1>5. NoTwoAreActive'
  BY <1>3 DEF ReviewInv, NoTwoAreActive, ActiveRounds
<1>6. TablesAreSound'
  BY <1>2, <1>3 DEF ReviewInv, TablesAreSound, OfRound
<1>7. DeletedRoundsLeaveNothing'
  BY <1>3 DEF ReviewInv, DeletedRoundsLeaveNothing, RowsOf, ScoresOf, OfRound
<1>8. AssignmentsAreOneList'
  <2> SUFFICES ASSUME NEW a \in assigned', NEW e \in assigned', a.paper = e.paper,
                      RoundOf[a.judge] = RoundOf[e.judge]
               PROVE  /\ a.list = e.list
                      /\ \A k \in a.list \ revoked' :
                            \E d \in assigned' : d.judge = k /\ d.paper = a.paper
    BY DEF AssignmentsAreOneList
  <2>1. a \in assigned /\ e \in assigned
    BY <1>3
  <2>2. ASSUME NEW k \in a.list \ revoked'
        PROVE  \E d \in assigned' : d.judge = k /\ d.paper = a.paper
    <3>1. PICK d \in assigned : d.judge = k /\ d.paper = a.paper
      BY <1>3, <2>1, <2>2 DEF ReviewInv, AssignmentsAreOneList
    <3>2. CASE round[RoundOf[j]] = "gone" /\ k = j
      <4>1. RoundOf[j] \in Rounds
        BY <1>2, RoundOfIsRound
      <4>2. d \notin assigned
        BY <1>1, <1>2, <3>1, <3>2, <4>1 DEF ReviewInv, DeletedRoundsLeaveNothing, RowsOf, OfRound
      <4> QED
        BY <4>2
    <3>3. CASE k # j
      BY <1>3, <3>1, <3>3
    <3> QED
      BY <1>3, <2>2, <3>2, <3>3
  <2> QED
    BY <2>1, <2>2 DEF ReviewInv, AssignmentsAreOneList
<1> QED
  BY <1>4, <1>5, <1>6, <1>7, <1>8 DEF ReviewInv

LEMMA RecuseStep ==
    ASSUME ReviewInv, NEW c \in Clerks, Recuse(c)
    PROVE  ReviewInv'
<1>1. /\ Answered(c) /\ UNCHANGED <<round, revoked, scores>>
      /\ BriefsAreSound /\ assigned \subseteq Assignments
  BY DEF Recuse, ReviewInv, TablesAreSound
<1>2. BriefsAreSound'
  BY <1>1, BriefsAfter
<1>3. NoTwoAreActive'
  BY <1>1 DEF ReviewInv, NoTwoAreActive, ActiveRounds
<1> DEFINE Same(a, d) == d.judge = a.judge /\ d.paper = a.paper /\ d.list = a.list
<1>4. /\ \A d \in assigned' : d \in Assignments /\ \E a \in assigned : Same(a, d)
      /\ \A a \in assigned : \E d \in assigned' : Same(a, d)
  <2> DEFINE hit(a) == a.judge = clerk[c].judge /\ a.paper \in clerk[c].papers
             new(a) == IF hit(a) THEN [a EXCEPT !.recused = TRUE] ELSE a
  <2>1. \A a \in assigned : new(a) \in Assignments /\ Same(a, new(a))
    BY <1>1 DEF Assignments
  <2>2. assigned' = assigned \/ assigned' = {new(a) : a \in assigned}
    BY DEF Recuse
  <2> HIDE DEF new
  <2> QED
    BY <1>1, <2>1, <2>2
<1>5. TablesAreSound'
  <2>1. assigned' \subseteq Assignments
    BY <1>4
  <2>2. \A d \in assigned' : d.list \subseteq OfRound(RoundOf[d.judge])
    BY <1>4 DEF ReviewInv, TablesAreSound
  <2> QED
    BY <1>1, <2>1, <2>2 DEF ReviewInv, TablesAreSound, OfRound
<1>6. AssignmentsAreOneList'
  <2> SUFFICES ASSUME NEW a \in assigned', NEW e \in assigned', a.paper = e.paper,
                      RoundOf[a.judge] = RoundOf[e.judge]
               PROVE  /\ a.list = e.list
                      /\ \A k \in a.list \ revoked' :
                            \E d \in assigned' : d.judge = k /\ d.paper = a.paper
    BY DEF AssignmentsAreOneList
  <2>1. PICK a0 \in assigned : Same(a0, a)
    BY <1>4
  <2>2. PICK e0 \in assigned : Same(e0, e)
    BY <1>4
  <2>3. /\ a0.list = e0.list
        /\ \A k \in a0.list \ revoked : \E d \in assigned : d.judge = k /\ d.paper = a0.paper
    <3>1. a0.paper = e0.paper /\ RoundOf[a0.judge] = RoundOf[e0.judge]
      BY <2>1, <2>2
    <3> QED
      BY <3>1 DEF ReviewInv, AssignmentsAreOneList
  <2>4. a.list = e.list
    BY <2>1, <2>2, <2>3
  <2>5. ASSUME NEW k \in a.list \ revoked'
        PROVE  \E d \in assigned' : d.judge = k /\ d.paper = a.paper
    <3>1. PICK d0 \in assigned : d0.judge = k /\ d0.paper = a0.paper
      BY <1>1, <2>1, <2>3, <2>5
    <3>2. PICK d \in assigned' : Same(d0, d)
      BY <1>4
    <3> QED
      BY <2>1, <3>1, <3>2
  <2> QED
    BY <2>4, <2>5
<1>7. DeletedRoundsLeaveNothing'
  <2> SUFFICES ASSUME NEW q \in Rounds, round[q] = "gone"
               PROVE  RowsOf(q)' = {} /\ ScoresOf(q)' = {}
    BY <1>1 DEF DeletedRoundsLeaveNothing
  <2>1. RowsOf(q) = {} /\ ScoresOf(q) = {}
    BY DEF ReviewInv, DeletedRoundsLeaveNothing
  <2>2. ScoresOf(q)' = {}
    BY <1>1, <2>1 DEF ScoresOf, OfRound
  <2>3. RowsOf(q)' = {}
    BY <1>4, <2>1 DEF RowsOf, OfRound
  <2> QED
    BY <2>2, <2>3
<1> QED
  BY <1>2, <1>3, <1>5, <1>6, <1>7 DEF ReviewInv

\* The first score of a reviewer, in a round that is there.
LEMMA MarkStep ==
    ASSUME ReviewInv, NEW c \in Clerks, Mark(c)
    PROVE  ReviewInv'
<1> DEFINE j == clerk[c].judge
           P == clerk[c].papers
<1>1. /\ clerk[c] \in Notes /\ SoundNote(clerk[c]) /\ BriefsAreSound
      /\ scores \in [Judges -> [Papers -> 0..1]]
  BY DEF ReviewInv, BriefsAreSound, TablesAreSound
<1>2. j \in Judges
  BY <1>1 DEF SoundNote, Mark, On
<1>3. Answered(c) /\ UNCHANGED <<round, revoked, assigned>>
  BY DEF Mark
<1>4. BriefsAreSound'
  BY <1>1, <1>3, BriefsAfter
<1>5. NoTwoAreActive' /\ AssignmentsAreOneList'
  BY <1>3 DEF ReviewInv, NoTwoAreActive, ActiveRounds, AssignmentsAreOneList
<1>6. /\ scores' \in [Judges -> [Papers -> 0..1]]
      /\ \A k \in Judges : scores'[k] = scores[k] \/ round[RoundOf[k]] # "gone"
  <2>1. CASE scores' = scores
    BY <1>1, <2>1
  <2>2. CASE scores' # scores
    <3>1. /\ FirstScore(c)
          /\ scores' = [scores EXCEPT ![j] =
                           [s \in Papers |-> IF s \in P THEN scores[j][s] + 1 ELSE scores[j][s]]]
      BY <1>1, <1>2, <2>2 DEF Mark
    <3> DEFINE new == [s \in Papers |-> IF s \in P THEN scores[j][s] + 1 ELSE scores[j][s]]
    <3>2. round[RoundOf[j]] # "gone" /\ \A s \in P : scores[j][s] = 0
      BY <3>1 DEF FirstScore
    <3>3. new \in [Papers -> 0..1]
      BY <1>1, <1>2, <3>2
    <3> HIDE DEF new
    <3>4. scores' = [scores EXCEPT ![j] = new]
      BY <3>1 DEF new
    <3> QED
      BY <1>1, <1>2, <3>2, <3>3, <3>4
  <2> QED
    BY <2>1, <2>2
<1>7. TablesAreSound'
  BY <1>3, <1>6 DEF ReviewInv, TablesAreSound, OfRound
<1>8. DeletedRoundsLeaveNothing'
  <2> SUFFICES ASSUME NEW q \in Rounds, round[q] = "gone"
               PROVE  RowsOf(q)' = {} /\ ScoresOf(q)' = {}
    BY <1>3 DEF DeletedRoundsLeaveNothing
  <2>1. RowsOf(q) = {} /\ ScoresOf(q) = {}
    BY DEF ReviewInv, DeletedRoundsLeaveNothing
  <2>2. RowsOf(q)' = {}
    BY <1>3, <2>1 DEF RowsOf, OfRound
  <2>3. \A k \in OfRound(q) : scores'[k] = scores[k]
    BY <1>6 DEF OfRound
  <2>4. ScoresOf(q)' = {}
    BY <2>1, <2>3 DEF ScoresOf, OfRound
  <2> QED
    BY <2>2, <2>4
<1> QED
  BY <1>4, <1>5, <1>7, <1>8 DEF ReviewInv

LEMMA ReviewStart == ReviewInit => ReviewInv
<1> SUFFICES ASSUME ReviewInit PROVE ReviewInv
  OBVIOUS
<1>1. TablesAreSound
  BY DEF ReviewInit, TablesAreSound, RoundStates
<1>2. BriefsAreSound
  BY NoBriefIsSound DEF ReviewInit, BriefsAreSound
<1>3. NoTwoAreActive /\ AssignmentsAreOneList
  BY DEF ReviewInit, NoTwoAreActive, ActiveRounds, AssignmentsAreOneList
<1>4. DeletedRoundsLeaveNothing
  BY DEF ReviewInit, DeletedRoundsLeaveNothing
<1> QED
  BY <1>1, <1>2, <1>3, <1>4 DEF ReviewInv

LEMMA ReviewKeeps == ReviewInv /\ [ReviewNext]_reviewVars => ReviewInv'
<1> SUFFICES ASSUME ReviewInv, [ReviewNext]_reviewVars PROVE ReviewInv'
  OBVIOUS
<1>1. CASE UNCHANGED reviewVars
  BY <1>1 DEF reviewVars, ReviewInv, TablesAreSound, BriefsAreSound, NoTwoAreActive, ActiveRounds,
     AssignmentsAreOneList, DeletedRoundsLeaveNothing, RowsOf, ScoresOf, OfRound, SoundNote
<1>2. ASSUME NEW c \in Clerks, ReviewStep(c) PROVE ReviewInv'
  <2>1. CASE Activate(c) \/ Patch(c) \/ Reopen(c) \/ Delete(c)
    BY <2>1, RoundSteps
  <2>2. CASE Assign(c)
    BY <2>2, AssignStep
  <2>3. CASE Revoke(c)
    BY <2>3, RevokeStep
  <2>4. CASE Recuse(c)
    BY <2>4, RecuseStep
  <2>5. CASE Mark(c)
    BY <2>5, MarkStep
  <2>6. CASE CheckCaps(c) \/ ReadRows(c) \/ ReadScore(c)
    BY <2>6, ReadSteps
  <2> QED
    BY <1>2, <2>1, <2>2, <2>3, <2>4, <2>5, <2>6, AskSteps DEF ReviewStep
<1> QED
  BY <1>1, <1>2 DEF ReviewNext

\* Rounds, assignments and scores hold together, for any number of rounds,
\* reviewers, submissions and requests (plan.ts:29, 200, assignments.ts:83,
\* migrations/0006_reviewers.sql:14).
THEOREM ReviewsHoldTogether == ReviewSpec => []ReviewsHold
<1>1. ReviewInv => ReviewsHold
  <2> SUFFICES ASSUME ReviewInv PROVE OneActiveRound /\ OneScoreEach
    BY DEF ReviewInv, ReviewsHold
  <2>1. OneActiveRound
    <3>1. CASE ActiveRounds = {}
      BY <3>1, FS_EmptySet DEF OneActiveRound
    <3>2. CASE ActiveRounds # {}
      <4>1. PICK p \in ActiveRounds : ActiveRounds = {p}
        BY <3>2 DEF ReviewInv, NoTwoAreActive
      <4>2. Cardinality({p}) = 1
        BY FS_Singleton
      <4> QED
        BY <4>1, <4>2 DEF OneActiveRound
    <3> QED
      BY <3>1, <3>2
  <2>2. OneScoreEach
    BY DEF ReviewInv, TablesAreSound, OneScoreEach
  <2> QED
    BY <2>1, <2>2
<1> QED
  BY <1>1, ReviewStart, ReviewKeeps, PTL DEF ReviewSpec

\* Between its steps a request remembers what its errand needs, of rounds,
\* reviewers and submissions that were there when it was sent.
LEMMA NotesAreBriefs == Notes \subseteq Briefs
<1>1. NoBrief.judge \in Judges
  <2> DEFINE j == CHOOSE j \in Judges : TRUE
  <2>1. j \in Judges
    BY SomebodyJudges
  <2>2. NoBrief.judge = j
    BY DEF NoBrief
  <2> QED
    BY <2>1, <2>2
<1>2. NoBrief.plan \in Rounds
  <2> DEFINE p == CHOOSE p \in Rounds : TRUE
  <2>1. p \in Rounds
    BY SomebodyJudges, RoundOfIsRound
  <2>2. NoBrief.plan = p
    BY DEF NoBrief
  <2> QED
    BY <2>1, <2>2
<1> QED
  BY <1>1, <1>2 DEF Notes, Briefs

\* At any number of requests a review table holds what its columns say, and a
\* request remembers between its statements what it may (plan.ts, assignments.ts).
THEOREM ReviewTypes == ReviewSpec => []ReviewTypeOK
<1>1. ReviewInv => ReviewTypeOK
  BY NotesAreBriefs DEF ReviewInv, TablesAreSound, BriefsAreSound, ReviewTypeOK
<1> QED
  BY <1>1, ReviewStart, ReviewKeeps, PTL DEF ReviewSpec


-----------------------------------------------------------------------------

(***************************************************************************)
(* Accelevents. SyncInv follows a run from the claim of an item to the     *)
(* record of its identifier: an item being created is claimed by one run,  *)
(* and what a run believes of the mapping was true of the event it is for. *)
(***************************************************************************)

Records == [item : Items, via : 0..LastConnection, print : 0..LastVersion,
            assigned : SUBSET Nat]

SyncTables ==
    /\ source \in [Items -> 0..LastVersion]
    /\ connected \in BOOLEAN /\ connection \in 0..LastConnection
    /\ names \in [0..LastConnection -> Platforms]
    /\ mappings \in [Items -> Mappings]
    /\ outside \in Seq(Records)
    /\ run \in [Runs -> SyncRuns]

\* A record of the provider is of this item, and a session's has its speakers.
TrueIn(o, id, x) == id \in DOMAIN o /\ o[id].item = x
CoveredIn(o, id, s) == \A p \in OnStage[s] : \E i \in o[id].assigned : o[i].item = p

\* Mappings name records of their items.
TrueRows(o, m) ==
    \A x \in Items : /\ m[x].id # NoId => TrueIn(o, m[x].id, x)
                     /\ m[x].state = "synced" => m[x].id # NoId

RecordsAreSound(o, c) ==
    \A i \in DOMAIN o : o[i].assigned \subseteq DOMAIN o /\ o[i].via <= c

\* What a run has in hand at each place of its loop.
SoundRun(o, c, b) ==
    /\ TrueRows(o, b.mapped)
    /\ b.to <= c
    /\ b.at \notin {"off", "planned", "pick", "over"} => b.item \in Items
    /\ b.at \in {"pending", "put", "assign", "reput", "save"} => b.mapped[b.item].id # NoId
    /\ b.at \in {"find", "reput"} => b.item \in Faces
    /\ b.at \in {"pending", "assign"} => b.item \in Talks
    /\ b.at \in {"post", "pending", "put", "assign"} /\ b.item \in Talks =>
           \A p \in OnStage[b.item] : b.mapped[p].id # NoId
    /\ b.at = "save" /\ b.item \in Talks => CoveredIn(o, b.mapped[b.item].id, b.item)

\* A run that is about to create an item of the event that is connected.
Creating(r, x) == run[r].at = "post" /\ run[r].item = x /\ run[r].to = connection
\* The item is there.
Holding(x) == \E i \in DOMAIN outside : outside[i].item = x /\ outside[i].via = connection

ClaimsAreKept ==
    /\ \A x \in Items : Holding(x) => mappings[x].state # "none"
    /\ \A r \in Runs, x \in Items : Creating(r, x) =>
          /\ mappings[x].state # "none" /\ ~Holding(x)
          /\ \A q \in Runs : Creating(q, x) => q = r

SyncInv == /\ SyncTables
           /\ TrueRows(outside, mappings)
           /\ RecordsAreSound(outside, connection)
           /\ \A r \in Runs : SoundRun(outside, connection, run[r])
           /\ ClaimsAreKept
           /\ OutsideIsInStep

\* The provider keeps what it has, and a session that has its speakers has them.
Keeps(o, n) ==
    /\ DOMAIN o \subseteq DOMAIN n
    /\ \A i \in DOMAIN o : n[i].item = o[i].item /\ n[i].via = o[i].via
    /\ \A id \in DOMAIN o, s \in Talks :
           o[id].item = s /\ CoveredIn(o, id, s) => CoveredIn(n, id, s)

LEMMA KeptRows ==
    ASSUME NEW o, NEW n, NEW m, Keeps(o, n), TrueRows(o, m)
    PROVE  TrueRows(n, m)
BY DEF Keeps, TrueRows, TrueIn

LEMMA KeptRun ==
    ASSUME NEW o, NEW n, NEW c \in Nat, NEW d \in Nat, NEW b, b.to \in Nat,
           c <= d, Keeps(o, n), SoundRun(o, c, b)
    PROVE  SoundRun(n, d, b)
<1>1. TrueRows(n, b.mapped)
  BY KeptRows DEF SoundRun
<1>2. b.at = "save" /\ b.item \in Talks => CoveredIn(n, b.mapped[b.item].id, b.item)
  BY DEF SoundRun, TrueRows, TrueIn, Keeps, Items
<1>3. b.to <= d
  BY DEF SoundRun
<1> QED
  BY <1>1, <1>2, <1>3 DEF SoundRun

LEMMA SameKeeps == ASSUME NEW o PROVE Keeps(o, o)
BY DEF Keeps

LEMMA RecordsTyped ==
    ASSUME SyncTables, NEW i \in DOMAIN outside
    PROVE  /\ outside[i].item \in Items /\ outside[i].via \in Nat
           /\ outside[i].print \in Prints /\ outside[i].assigned \in SUBSET Nat
<1>1. DOMAIN outside = 1..Len(outside)
  BY DEF SyncTables
<1>2. outside[i] \in Records
  BY <1>1, ElementOfSeq DEF SyncTables
<1> QED
  BY <1>2, SyncBounds DEF Records, Prints

LEMMA NoRunIsARun ==
    ASSUME NEW place \in SyncPlaces
    PROVE  NoRun(place) \in SyncRuns
<1> DEFINE some == CHOOSE x \in Items : TRUE
<1>1. some \in Items
  BY SyncBounds DEF Items
<1> HIDE DEF some
<1>2. NoRun(place) = [at |-> place, mapped |-> [x \in Items |-> NoMapping],
                      says |-> [x \in Items |-> 0], to |-> 0, left |-> {}, item |-> some]
  BY DEF NoRun, some
<1> QED
  BY <1>1, <1>2, SyncBounds DEF SyncRuns, NoMapping, Mappings, NoId, Unassigned, Prints

\* A step of one run that neither touches what is shared nor is about to create.
LEMMA QuietStep ==
    ASSUME SyncInv, NEW r \in Runs, NEW b \in SyncRuns,
           UNCHANGED <<source, connected, connection, names, mappings, outside>>,
           run' = [run EXCEPT ![r] = b],
           SoundRun(outside, connection, b), b.at # "post"
    PROVE  SyncInv'
<1>1. SyncTables'
  BY DEF SyncInv, SyncTables
<1>2. \A q \in Runs : run'[q] = IF q = r THEN b ELSE run[q]
  BY DEF SyncInv, SyncTables
<1>3. (\A q \in Runs : SoundRun(outside, connection, run[q]))'
  BY <1>2 DEF SyncInv
<1>4. \A q \in Runs, x \in Items : Creating(q, x)' => Creating(q, x)
  BY <1>2 DEF Creating
<1>5. \A x \in Items : Holding(x)' <=> Holding(x)
  BY DEF Holding
<1>6. ClaimsAreKept'
  BY <1>4, <1>5 DEF ClaimsAreKept, SyncInv
<1>7. (TrueRows(outside, mappings) /\ RecordsAreSound(outside, connection))'
  BY DEF SyncInv
<1>8. OutsideIsInStep'
  BY DEF SyncInv, OutsideIsInStep, CreatedOnceOutside, SyncedSessionsHaveSpeakers
<1> QED
  BY <1>1, <1>3, <1>6, <1>7, <1>8 DEF SyncInv

\* The catch of the loop, and the end of the run.
LEMMA FailingStep ==
    ASSUME SyncInv, NEW r \in Runs,
           UNCHANGED <<source, connected, connection, names, mappings, outside>>,
           ItemFails(r) \/ RunOver(r)
    PROVE  SyncInv'
<1>1. CASE ItemFails(r)
  <2> DEFINE b == [run[r] EXCEPT !.at = "pick"]
  <2>1. run[r] \in SyncRuns /\ SoundRun(outside, connection, run[r])
    BY DEF SyncInv, SyncTables
  <2>2. b \in SyncRuns
    BY <2>1 DEF SyncRuns, SyncPlaces
  <2>3. SoundRun(outside, connection, b)
    BY <2>1 DEF SoundRun, SyncRuns
  <2>4. run' = [run EXCEPT ![r] = b] /\ b.at # "post"
    BY <1>1, <2>1 DEF ItemFails, SyncAt, SyncRuns, SyncInv, SyncTables
  <2> HIDE DEF b
  <2> QED
    BY <2>2, <2>3, <2>4, QuietStep
<1>2. CASE RunOver(r)
  <2> DEFINE b == NoRun("over")
  <2>1. b \in SyncRuns
    BY NoRunIsARun DEF SyncPlaces
  <2>2. connection \in Nat
    BY DEF SyncInv, SyncTables
  <2>3. SoundRun(outside, connection, b)
    BY <2>2 DEF SoundRun, NoRun, TrueRows, NoMapping
  <2>4. run' = [run EXCEPT ![r] = b] /\ b.at # "post"
    BY <1>2 DEF RunOver, NoRun
  <2> HIDE DEF b
  <2> QED
    BY <2>1, <2>3, <2>4, QuietStep
<1> QED
  BY <1>1, <1>2

\* A step of one run that moves on with what the provider has.
LEMMA RunsMove ==
    ASSUME SyncInv, NEW r \in Runs, NEW b \in SyncRuns,
           connection' = connection, run' = [run EXCEPT ![r] = b],
           Keeps(outside, outside'), SoundRun(outside', connection, b)
    PROVE  (\A q \in Runs : SoundRun(outside, connection, run[q]))'
<1> DEFINE n == outside'
<1>1. \A q \in Runs : run'[q] = IF q = r THEN b ELSE run[q]
  BY DEF SyncInv, SyncTables
<1>2. SUFFICES ASSUME NEW q \in Runs, q # r PROVE SoundRun(n, connection, run[q])
  BY <1>1
<1>3. SoundRun(outside, connection, run[q]) /\ connection \in Nat /\ run[q].to \in Nat
  BY DEF SyncInv, SyncTables, SyncRuns
<1>4. Keeps(outside, n)
  OBVIOUS
<1> HIDE DEF n
<1> QED
  BY <1>3, <1>4, KeptRun

LEMMA EditKeeps ==
    ASSUME SyncInv, \E x \in Items : EditItem(x)
    PROVE  SyncInv'
<1>1. SyncTables'
  BY SyncBounds DEF SyncInv, SyncTables, EditItem
<1> QED
  BY <1>1 DEF SyncInv, EditItem, ClaimsAreKept, Creating, Holding, OutsideIsInStep,
     CreatedOnceOutside, SyncedSessionsHaveSpeakers

LEMMA ConnectKeeps ==
    ASSUME SyncInv,
           \/ \E event \in Platforms, url \in {"kept", "other"} : ConnectTo(event, url)
           \/ DisconnectEvent
    PROVE  SyncInv'
<1>0. /\ connection \in 0..LastConnection /\ connection \in Nat
      /\ names \in [0..LastConnection -> Platforms]
  BY DEF SyncInv, SyncTables
<1> DEFINE Removed ==
             /\ connection' \in 0..LastConnection /\ connected' \in BOOLEAN
             /\ names' \in [0..LastConnection -> Platforms] /\ UNCHANGED <<source, outside, run>>
             /\ \/ connection' = connection /\ mappings' = mappings
                \/ connection' = connection + 1 /\ mappings' = [x \in Items |-> NoMapping]
<1>3. Removed
  <2>1. ASSUME NEW event \in Platforms, NEW url \in {"kept", "other"}, ConnectTo(event, url)
        PROVE  Removed
    <3> DEFINE number == IF KeepsMappings(event, url) THEN connection ELSE connection + 1
    <3>1. /\ number <= LastConnection /\ connected' = TRUE /\ connection' = number
          /\ names' = [names EXCEPT ![number] = event]
          /\ mappings' = IF number = connection THEN mappings ELSE [x \in Items |-> NoMapping]
          /\ UNCHANGED <<source, outside, run>>
      BY <2>1 DEF ConnectTo
    <3>2. number = connection \/ number = connection + 1
      OBVIOUS
    <3> HIDE DEF number
    <3>3. number \in 0..LastConnection
      BY <1>0, <3>1, <3>2, SyncBounds
    <3>4. number = connection + 1 => number # connection
      BY <1>0
    <3> QED
      BY <1>0, <3>1, <3>2, <3>3, <3>4
  <2>2. CASE DisconnectEvent
    <3>1. connection + 1 \in 0..LastConnection
      BY <1>0, <2>2, SyncBounds DEF DisconnectEvent
    <3> QED
      BY <1>0, <2>2, <3>1 DEF DisconnectEvent
  <2> QED
    BY <2>1, <2>2
<1>1. CASE connection' = connection /\ mappings' = mappings
  BY <1>1, <1>3 DEF SyncInv, SyncTables, ClaimsAreKept, Creating, Holding, OutsideIsInStep,
     CreatedOnceOutside, SyncedSessionsHaveSpeakers
<1>2. CASE connection' = connection + 1 /\ mappings' = [x \in Items |-> NoMapping]
  <2>1. connection \in Nat /\ connection' = connection + 1
    BY <1>0, <1>2
  <2>2. mappings' = [x \in Items |-> NoMapping] /\ UNCHANGED <<source, outside, run>>
    BY <1>2, <1>3
  <2>3. SyncTables'
    <3>2. NoMapping \in Mappings
      BY DEF NoMapping, Mappings, NoId, Unassigned, Prints
    <3> QED
      BY <1>3, <2>2, <3>2 DEF SyncInv, SyncTables
  <2>4. TrueRows(outside, mappings)'
    BY <2>2 DEF TrueRows, NoMapping
  <2>5. RecordsAreSound(outside, connection)'
    <3> SUFFICES ASSUME NEW i \in DOMAIN outside
                 PROVE  outside[i].assigned \subseteq DOMAIN outside /\ outside[i].via <= connection + 1
      BY <2>1, <2>2 DEF RecordsAreSound
    <3>1. outside[i].via \in Nat /\ outside[i].via <= connection
      BY RecordsTyped DEF SyncInv, RecordsAreSound
    <3> QED
      BY <3>1, <2>1 DEF SyncInv, RecordsAreSound
  <2>6. (\A q \in Runs : SoundRun(outside, connection, run[q]))'
    <3> SUFFICES ASSUME NEW q \in Runs PROVE SoundRun(outside, connection + 1, run[q])
      BY <2>1, <2>2
    <3>1. run[q].to \in Nat /\ SoundRun(outside, connection, run[q])
      BY DEF SyncInv, SyncTables, SyncRuns
    <3>2. connection + 1 \in Nat /\ connection <= connection + 1
      BY <2>1
    <3> QED
      BY <2>1, <3>1, <3>2, SameKeeps, KeptRun
  <2>7. ~(\E x \in Items : Holding(x))' /\ ~(\E q \in Runs, x \in Items : Creating(q, x))'
    <3>1. \A q \in Runs : run[q].to \in Nat /\ run[q].to <= connection
      BY DEF SyncInv, SyncTables, SyncRuns, SoundRun
    <3>2. \A i \in DOMAIN outside : outside[i].via \in Nat /\ outside[i].via <= connection
      BY RecordsTyped DEF SyncInv, RecordsAreSound
    <3> QED
      BY <2>1, <2>2, <3>1, <3>2 DEF Holding, Creating
  <2>8. ClaimsAreKept'
    BY <2>7 DEF ClaimsAreKept
  <2>9. CreatedOnceOutside'
    <3>1. \A i \in DOMAIN outside : outside[i].via \in Nat /\ outside[i].via <= connection
      BY RecordsTyped DEF SyncInv, RecordsAreSound
    <3> QED
      BY <2>1, <2>2, <3>1 DEF CreatedOnceOutside
  <2>10. SyncedSessionsHaveSpeakers'
    BY <2>2 DEF SyncedSessionsHaveSpeakers, NoMapping, Items
  <2> QED
    BY <2>3, <2>4, <2>5, <2>6, <2>8, <2>9, <2>10 DEF SyncInv, OutsideIsInStep
<1> QED
  BY <1>1, <1>2, <1>3

LEMMA PlanKeeps ==
    ASSUME SyncInv, NEW r \in Runs, ReadAndPlan(r) \/ LoadConfig(r)
    PROVE  SyncInv'
<1>0. run[r] \in SyncRuns /\ SoundRun(outside, connection, run[r]) /\ connection \in Nat
  BY DEF SyncInv, SyncTables
<1>1. CASE RunOver(r)
  BY <1>1, FailingStep DEF ReadAndPlan, LoadConfig
<1>2. CASE ReadAndPlan(r) /\ ~RunOver(r)
  <2> DEFINE b == [run[r] EXCEPT !.at = "planned", !.mapped = mappings, !.says = source]
  <2>1. b \in SyncRuns
    BY <1>0 DEF SyncRuns, SyncInv, SyncTables, SyncPlaces
  <2>2. SoundRun(outside, connection, b)
    BY <1>0 DEF SoundRun, SyncInv, SyncRuns
  <2>3. run' = [run EXCEPT ![r] = b] /\ b.at # "post"
    BY <1>0, <1>2 DEF ReadAndPlan, SyncRuns, SyncInv, SyncTables
  <2>4. UNCHANGED <<source, connected, connection, names, mappings, outside>>
    BY <1>2 DEF ReadAndPlan
  <2> HIDE DEF b
  <2> QED
    BY <2>1, <2>2, <2>3, <2>4, QuietStep
<1>3. CASE LoadConfig(r) /\ ~RunOver(r)
  <2> DEFINE b == [run[r] EXCEPT !.at = "pick", !.to = connection, !.left = Items \ Skipped(r)]
  <2>1. b \in SyncRuns
    BY <1>0 DEF SyncRuns, SyncInv, SyncTables, SyncPlaces
  <2>2. SoundRun(outside, connection, b)
    BY <1>0 DEF SoundRun, SyncInv, SyncRuns
  <2>3. run' = [run EXCEPT ![r] = b] /\ b.at # "post"
    BY <1>0, <1>3 DEF LoadConfig, SyncRuns, SyncInv, SyncTables
  <2>4. UNCHANGED <<source, connected, connection, names, mappings, outside>>
    BY <1>3 DEF LoadConfig
  <2> HIDE DEF b
  <2> QED
    BY <2>1, <2>2, <2>3, <2>4, QuietStep
<1> QED
  BY <1>1, <1>2, <1>3

\* The head of the loop, with no claim or with one.
LEMMA TakeKeeps ==
    ASSUME SyncInv, NEW r \in Runs, NEW x \in Items, TakeItem(r, x)
    PROVE  SyncInv'
<1>0. /\ run[r] \in SyncRuns /\ SoundRun(outside, connection, run[r]) /\ connection \in Nat
      /\ run[r].at = "pick"
  BY DEF SyncInv, SyncTables, TakeItem, InSync
<1> DEFINE before == run[r].mapped[x].state
           started == [run[r] EXCEPT !.left = @ \ {x}, !.item = x]
           b(place) == [started EXCEPT !.at = place]
<1>1. \A place \in SyncPlaces : b(place) \in SyncRuns
  BY <1>0 DEF SyncRuns, SyncPlaces
<1>2. PICK place \in {"pick", "post", "put", "find"} :
         /\ run' = [run EXCEPT ![r] = b(place)]
         /\ place = "post" <=> before = "none" /\ ~LacksSpeaker(r, x) /\ ClaimableCreate(x)
         /\ place = "put" => before = "synced" /\ ~LacksSpeaker(r, x)
         /\ place = "find" => x \in Faces
  <2>1. [run EXCEPT ![r] = b("pick")] = [run EXCEPT ![r].left = @ \ {x}, ![r].item = x]
    BY <1>0 DEF SyncRuns, SyncInv, SyncTables
  <2>2. \A p \in SyncPlaces : [run EXCEPT ![r] = b(p)]
             = [[run EXCEPT ![r].left = @ \ {x}, ![r].item = x] EXCEPT ![r].at = p]
    BY <1>0 DEF SyncRuns, SyncInv, SyncTables, SyncPlaces
  <2> DEFINE bb(p) == [run EXCEPT ![r] = b(p)]
             next == [run EXCEPT ![r].left = @ \ {x}, ![r].item = x]
             nn(p) == [next EXCEPT ![r].at = p]
  <2>a. bb("pick") = next /\ \A p \in SyncPlaces : bb(p) = nn(p)
    BY <2>1, <2>2
  <2>b. \/ before # "creating" /\ LacksSpeaker(r, x) /\ run' = nn("pick")
        \/ before = "none" /\ ~LacksSpeaker(r, x) /\ run' = IF ClaimableCreate(x) THEN nn("post") ELSE next
        \/ before = "synced" /\ ~LacksSpeaker(r, x) /\ run' = nn("put")
        \/ before = "creating" /\ x \in Faces /\ run' = nn("find")
        \/ before = "creating" /\ x \in Talks /\ run' = next
    BY DEF TakeItem
  <2>c. SUFFICES \E p \in {"pick", "post", "put", "find"} :
         /\ run' = bb(p)
         /\ p = "post" <=> before = "none" /\ ~LacksSpeaker(r, x) /\ ClaimableCreate(x)
         /\ p = "put" => before = "synced" /\ ~LacksSpeaker(r, x)
         /\ p = "find" => x \in Faces
    OBVIOUS
  <2> HIDE DEF bb, nn, next, before
  <2>d. {"pick", "post", "put", "find"} \subseteq SyncPlaces /\ before \in {"none", "creating", "synced"}
    BY <1>0 DEF SyncPlaces, SyncRuns, Mappings, before
  <2>e. CASE run' = next
    BY <2>a, <2>b, <2>d, <2>e
  <2>f. CASE before = "creating"
    BY <2>a, <2>b, <2>d, <2>f
  <2>g. CASE before # "creating" /\ LacksSpeaker(r, x) /\ run' = nn("pick")
    <3>1. run' = bb("pick")
      BY <2>a, <2>d, <2>g
    <3> QED
      BY <3>1, <2>g
  <2>h. CASE before = "none" /\ ~LacksSpeaker(r, x) /\ ClaimableCreate(x) /\ run' = nn("post")
    <3>1. run' = bb("post")
      BY <2>a, <2>d, <2>h
    <3> QED
      BY <3>1, <2>h
  <2>i. CASE before = "synced" /\ ~LacksSpeaker(r, x) /\ run' = nn("put")
    <3>1. run' = bb("put")
      BY <2>a, <2>d, <2>i
    <3> QED
      BY <3>1, <2>i
  <2>j. \/ before = "creating"
        \/ run' = next
        \/ before # "creating" /\ LacksSpeaker(r, x) /\ run' = nn("pick")
        \/ before = "none" /\ ~LacksSpeaker(r, x) /\ ClaimableCreate(x) /\ run' = nn("post")
        \/ before = "synced" /\ ~LacksSpeaker(r, x) /\ run' = nn("put")
    BY <2>b
  <2> QED
    BY ONLY <2>j, <2>e, <2>f, <2>g, <2>h, <2>i
<1>3. b(place) \in SyncRuns /\ b(place).at = place /\ b(place).item = x
  <2>1. place \in SyncPlaces
    BY DEF SyncPlaces
  <2>2. b(place) \in SyncRuns
    BY <1>1, <2>1
  <2>3. started.item = x /\ started \in [at : SyncPlaces, mapped : [Items -> Mappings],
           says : [Items -> 0..LastVersion], to : 0..LastConnection, left : SUBSET Items,
           item : Items]
    BY <1>0 DEF SyncRuns
  <2> HIDE DEF started
  <2> QED
    BY <2>1, <2>2, <2>3
<1>4. SoundRun(outside, connection, b(place))
  <2>1. place = "put" => run[r].mapped[x].id # NoId
    BY <1>0, <1>2 DEF SoundRun, TrueRows
  <2>2. place \in {"post", "put"} /\ x \in Talks => \A p \in OnStage[x] : run[r].mapped[p].id # NoId
    BY <1>2 DEF LacksSpeaker, KnownId
  <2> QED
    BY <1>0, <1>2, <2>1, <2>2 DEF SoundRun, SyncRuns
<1>5. UNCHANGED <<source, connected, connection, names, outside>>
  BY DEF TakeItem
<1>6. CASE place # "post"
  <2>1. UNCHANGED mappings
    BY <1>2, <1>6 DEF TakeItem
  <2> HIDE DEF b
  <2> QED
    BY <1>2, <1>3, <1>4, <1>5, <1>6, <2>1, QuietStep
<1>7. CASE place = "post"
  <2>1. /\ mappings[x].state = "none"
        /\ mappings' = [mappings EXCEPT ![x] = Claimed(run[r].says[x])]
    BY <1>2, <1>7 DEF TakeItem, ClaimableCreate
  <2>2. \A q \in Runs : run'[q] = IF q = r THEN b(place) ELSE run[q]
    BY <1>2 DEF SyncInv, SyncTables
  <2>3. \A y \in Items : mappings'[y] = IF y = x THEN Claimed(run[r].says[x]) ELSE mappings[y]
    BY <2>1 DEF SyncInv, SyncTables
  <2> HIDE DEF b
  <2>4. SyncTables'
    BY <1>0, <1>2, <1>3, <1>5, <2>1 DEF SyncInv, SyncTables, SyncRuns, Claimed, Mappings, NoId, Prints
  <2>5. (TrueRows(outside, mappings) /\ RecordsAreSound(outside, connection))'
    BY <1>5, <2>3 DEF SyncInv, TrueRows, Claimed, NoId
  <2>6. (\A q \in Runs : SoundRun(outside, connection, run[q]))'
    BY <1>4, <1>5, <2>2 DEF SyncInv
  <2>7. ~Holding(x) /\ \A q \in Runs : ~Creating(q, x)
    BY <2>1 DEF SyncInv, ClaimsAreKept
  <2>8. \A y \in Items : Holding(y)' <=> Holding(y)
    BY <1>5 DEF Holding
  <2>9. \A q \in Runs, y \in Items : Creating(q, y)' => (q = r /\ y = x) \/ Creating(q, y)
    BY <1>3, <1>5, <2>2 DEF Creating
  <2>10. ClaimsAreKept'
    <3>1. \A y \in Items : mappings[y].state # "none" => mappings'[y].state # "none"
      BY <2>1, <2>3
    <3>2. mappings'[x].state # "none"
      BY <2>3 DEF Claimed
    <3>3. \A y \in Items : Holding(y)' => mappings'[y].state # "none"
      BY <2>8, <3>1 DEF SyncInv, ClaimsAreKept
    <3>4. ASSUME NEW q \in Runs, NEW y \in Items, Creating(q, y)'
          PROVE  /\ mappings'[y].state # "none" /\ ~Holding(y)'
                 /\ \A p \in Runs : Creating(p, y)' => p = q
      <4>1. CASE y = x
        BY <4>1, <3>4, <2>7, <2>8, <2>9, <3>2
      <4>2. CASE y # x
        BY <4>2, <3>4, <2>8, <2>9, <3>1 DEF SyncInv, ClaimsAreKept
      <4> QED
        BY <4>1, <4>2
    <3> QED
      BY <3>3, <3>4 DEF ClaimsAreKept
  <2>11. OutsideIsInStep'
    BY <1>5, <2>3 DEF SyncInv, OutsideIsInStep, CreatedOnceOutside, SyncedSessionsHaveSpeakers,
       Claimed, Items
  <2> QED
    BY <2>4, <2>5, <2>6, <2>10, <2>11 DEF SyncInv
<1> QED
  BY <1>6, <1>7

\* A row is written over with what the run knows.
LEMMA SavingStep ==
    ASSUME SyncInv, NEW r \in Runs, NEW b \in SyncRuns, NEW x \in Items,
           NEW id \in Nat \ {NoId}, NEW print \in Prints,
           UNCHANGED <<source, connected, connection, names, outside>>,
           mappings' = [mappings EXCEPT ![x] = Synced(id, print)],
           run' = [run EXCEPT ![r] = b], b.at # "post",
           SoundRun(outside, connection, b), TrueIn(outside, id, x),
           print # Unassigned /\ x \in Talks => CoveredIn(outside, id, x)
    PROVE  SyncInv'
<1>1. SyncTables'
  BY DEF SyncInv, SyncTables, Synced, Mappings
<1>2. \A y \in Items : mappings'[y] = IF y = x THEN Synced(id, print) ELSE mappings[y]
  BY DEF SyncInv, SyncTables
<1>3. (\A q \in Runs : SoundRun(outside, connection, run[q]))'
  BY SameKeeps, RunsMove
<1>4. (TrueRows(outside, mappings) /\ RecordsAreSound(outside, connection))'
  BY <1>2 DEF SyncInv, TrueRows, Synced, NoId
<1>5. \A q \in Runs : run'[q] = IF q = r THEN b ELSE run[q]
  BY DEF SyncInv, SyncTables
<1>6. \A q \in Runs, y \in Items : Creating(q, y)' => Creating(q, y)
  BY <1>5 DEF Creating
<1>7. \A y \in Items : Holding(y)' <=> Holding(y)
  BY DEF Holding
<1>8. \A y \in Items : mappings[y].state # "none" => mappings'[y].state # "none"
  BY <1>2 DEF Synced
<1>9. ClaimsAreKept'
  BY <1>6, <1>7, <1>8 DEF SyncInv, ClaimsAreKept
<1>10. CreatedOnceOutside'
  BY DEF SyncInv, OutsideIsInStep, CreatedOnceOutside
<1>11. SyncedSessionsHaveSpeakers'
  <2> SUFFICES ASSUME NEW s \in Talks, mappings'[s].state = "synced", mappings'[s].print # Unassigned
               PROVE  CoveredIn(outside, mappings'[s].id, s)
    BY DEF SyncedSessionsHaveSpeakers, CoveredIn
  <2> QED
    BY <1>2 DEF SyncInv, OutsideIsInStep, SyncedSessionsHaveSpeakers, CoveredIn, Synced, Items
<1> QED
  BY <1>1, <1>3, <1>4, <1>9, <1>10, <1>11 DEF SyncInv, OutsideIsInStep

LEMMA SaveMappingKeeps ==
    ASSUME SyncInv, NEW r \in Runs, SaveMapping(r)
    PROVE  SyncInv'
<1> DEFINE x == run[r].item
           id == run[r].mapped[x].id
           print == run[r].says[x]
           saved == Synced(id, print)
           b == [run[r] EXCEPT !.at = "pick", !.mapped[x] = saved]
<1>1. /\ run[r] \in SyncRuns /\ SoundRun(outside, connection, run[r])
      /\ run[r].at = "save" /\ x \in Items
  BY DEF SyncInv, SyncTables, SaveMapping, InSync, SoundRun
<1>2. /\ id \in Nat \ {NoId} /\ print \in Prints /\ TrueIn(outside, id, x)
      /\ x \in Talks => CoveredIn(outside, id, x)
  BY <1>1 DEF SoundRun, SyncRuns, Mappings, TrueRows, Prints
<1>3. saved \in Mappings /\ saved.id = id /\ saved.state = "synced"
  BY <1>2 DEF Synced, Mappings
<1>4. /\ mappings' = [mappings EXCEPT ![x] = saved]
      /\ UNCHANGED <<source, connected, connection, names, outside>>
  BY DEF SaveMapping, Mine, KnownId
<1>5. run' = [run EXCEPT ![r].at = "pick", ![r].mapped[x] = saved]
  BY DEF SaveMapping, Mine, KnownId
<1> HIDE DEF saved
<1>6. b \in SyncRuns
  BY <1>1, <1>3 DEF SyncRuns, SyncPlaces
<1>7. run' = [run EXCEPT ![r] = b] /\ b.at = "pick" /\ b.to = run[r].to
  BY <1>1, <1>5 DEF SyncRuns, SyncInv, SyncTables
<1>8. \A y \in Items : b.mapped[y] = IF y = x THEN saved ELSE run[r].mapped[y]
  BY <1>1 DEF SyncRuns
<1> HIDE DEF b
<1>9. TrueRows(outside, b.mapped)
  <2> SUFFICES ASSUME NEW y \in Items
               PROVE  /\ b.mapped[y].id # NoId => TrueIn(outside, b.mapped[y].id, y)
                      /\ b.mapped[y].state = "synced" => b.mapped[y].id # NoId
    BY DEF TrueRows
  <2>1. CASE y = x
    BY <1>2, <1>3, <1>8, <2>1
  <2>2. CASE y # x
    BY <1>1, <1>8, <2>2 DEF SoundRun, TrueRows
  <2> QED
    BY <2>1, <2>2
<1>10. SoundRun(outside, connection, b)
  BY <1>1, <1>7, <1>9 DEF SoundRun
<1>11. mappings' = [mappings EXCEPT ![x] = Synced(id, print)] /\ b.at # "post"
  BY <1>4, <1>7 DEF saved
<1>12. SyncInv
  OBVIOUS
<1> HIDE DEF x, id, print
<1> QED
  BY <1>1, <1>2, <1>4, <1>6, <1>7, <1>10, <1>11, <1>12, SavingStep

LEMMA SavePendingKeeps ==
    ASSUME SyncInv, NEW r \in Runs, SavePending(r)
    PROVE  SyncInv'
<1> DEFINE x == run[r].item
           id == run[r].mapped[x].id
           place == IF OnStage[x] = {} THEN "save" ELSE "assign"
           b == [run[r] EXCEPT !.at = place]
<1>1. /\ run[r] \in SyncRuns /\ SoundRun(outside, connection, run[r])
      /\ run[r].at = "pending" /\ x \in Items /\ x \in Talks
  BY DEF SyncInv, SyncTables, SavePending, InSync, SoundRun
<1>2. id \in Nat \ {NoId} /\ TrueIn(outside, id, x)
  BY <1>1 DEF SoundRun, SyncRuns, Mappings, TrueRows
<1>3. /\ mappings' = [mappings EXCEPT ![x] = Synced(id, Unassigned)]
      /\ UNCHANGED <<source, connected, connection, names, outside>>
      /\ run' = [run EXCEPT ![r].at = place]
  BY DEF SavePending, Mine, KnownId, PrintOfPending, SyncAt
<1>4. b \in SyncRuns /\ run' = [run EXCEPT ![r] = b] /\ b.at # "post"
  BY <1>1, <1>3 DEF SyncRuns, SyncPlaces, SyncInv, SyncTables
<1>5. SoundRun(outside, connection, b)
  <2>1. b.at = place /\ b.mapped = run[r].mapped /\ b.item = x /\ b.to = run[r].to
    BY <1>1 DEF SyncRuns
  <2>2. x \notin Faces
    BY <1>1, OnStageIsOfFaces
  <2>3. place = "save" => CoveredIn(outside, id, x)
    BY DEF CoveredIn
  <2> HIDE DEF b
  <2> QED
    BY <1>1, <1>2, <2>1, <2>2, <2>3 DEF SoundRun
<1>6. Unassigned \in Prints
  BY DEF Unassigned, Prints
<1>7. SyncInv
  OBVIOUS
<1> HIDE DEF x, id, b, place
<1> QED
  BY <1>1, <1>2, <1>3, <1>4, <1>5, <1>6, <1>7, SavingStep

\* A record is written over, and the run moves on or notes a failure.
LEMMA WritingStep ==
    ASSUME SyncInv, NEW r \in Runs, NEW b \in SyncRuns, NEW id \in DOMAIN outside,
           NEW row \in Records, row.item = outside[id].item, row.via = outside[id].via,
           row.assigned \subseteq DOMAIN outside,
           \A s \in Talks : outside[id].item = s /\ CoveredIn(outside, id, s)
               => \A p \in OnStage[s] : \E i \in row.assigned : outside[i].item = p,
           UNCHANGED <<source, connected, connection, names, mappings>>,
           outside' = [outside EXCEPT ![id] = row],
           run' = [run EXCEPT ![r] = b], b.at # "post",
           SoundRun(outside', connection, b)
    PROVE  SyncInv'
<1> DEFINE n == outside'
<1>1. /\ n \in Seq(Records) /\ DOMAIN n = DOMAIN outside
      /\ \A i \in DOMAIN outside : n[i] = IF i = id THEN row ELSE outside[i]
  <2>1. outside \in Seq(Records) /\ DOMAIN outside = 1..Len(outside)
    BY DEF SyncInv, SyncTables
  <2> QED
    BY <2>1, ExceptSeq
<1>2. SyncTables'
  BY <1>1 DEF SyncInv, SyncTables
<1> HIDE DEF n
<1>3. \A i \in DOMAIN outside : n[i].item = outside[i].item /\ n[i].via = outside[i].via
  BY <1>1
<1>4. ASSUME NEW i \in DOMAIN outside, NEW s \in Talks, outside[i].item = s, CoveredIn(outside, i, s)
      PROVE  CoveredIn(n, i, s)
  <2>1. CASE i = id
    <3>1. n[i].assigned = row.assigned
      BY <1>1, <2>1
    <3> QED
      BY <1>3, <1>4, <2>1, <3>1 DEF CoveredIn
  <2>2. CASE i # id
    <3>1. n[i] = outside[i] /\ outside[i].assigned \subseteq DOMAIN outside
      BY <1>1, <2>2 DEF SyncInv, RecordsAreSound
    <3> QED
      BY <1>3, <1>4, <3>1 DEF CoveredIn
  <2> QED
    BY <2>1, <2>2
<1>5. Keeps(outside, n)
  BY <1>1, <1>3, <1>4 DEF Keeps
<1>6. (\A q \in Runs : SoundRun(outside, connection, run[q]))'
  BY <1>5, RunsMove DEF n
<1>7. TrueRows(outside, mappings)'
  BY <1>5, KeptRows DEF SyncInv, n
<1>8. RecordsAreSound(outside, connection)'
  BY <1>1, <1>3 DEF RecordsAreSound, SyncInv, n
<1>9. \A q \in Runs : run'[q] = IF q = r THEN b ELSE run[q]
  BY DEF SyncInv, SyncTables
<1>10. \A q \in Runs, y \in Items : Creating(q, y)' => Creating(q, y)
  BY <1>9 DEF Creating
<1>11. \A y \in Items : Holding(y)' <=> Holding(y)
  BY <1>1, <1>3 DEF Holding, n
<1>12. ClaimsAreKept'
  BY <1>10, <1>11 DEF SyncInv, ClaimsAreKept
<1>13. CreatedOnceOutside'
  BY <1>1, <1>3 DEF SyncInv, OutsideIsInStep, CreatedOnceOutside, n
<1>14. SyncedSessionsHaveSpeakers'
  <2> SUFFICES ASSUME NEW s \in Talks, mappings[s].state = "synced", mappings[s].print # Unassigned
               PROVE  CoveredIn(n, mappings[s].id, s)
    BY DEF SyncedSessionsHaveSpeakers, CoveredIn, n
  <2>1. CoveredIn(outside, mappings[s].id, s)
    BY DEF SyncInv, OutsideIsInStep, SyncedSessionsHaveSpeakers, CoveredIn
  <2>2. mappings[s].id \in DOMAIN outside /\ outside[mappings[s].id].item = s
    BY DEF SyncInv, TrueRows, TrueIn, Items
  <2> QED
    BY <1>4, <2>1, <2>2
<1> QED
  BY <1>2, <1>6, <1>7, <1>8, <1>12, <1>13, <1>14 DEF SyncInv, OutsideIsInStep

\* A run moves on to another place with what it has.
LEMMA MovesOn ==
    ASSUME SyncTables, NEW r \in Runs, NEW place \in SyncPlaces, SyncAt(r, place)
    PROVE  LET b == [run[r] EXCEPT !.at = place]
           IN  /\ b \in SyncRuns /\ run' = [run EXCEPT ![r] = b]
               /\ b.at = place /\ b.mapped = run[r].mapped /\ b.item = run[r].item
               /\ b.to = run[r].to
<1>1. run[r] \in SyncRuns
  BY DEF SyncTables
<1> QED
  BY <1>1 DEF SyncRuns, SyncAt, SyncTables

LEMMA PutKeeps ==
    ASSUME SyncInv, NEW r \in Runs, Put(r)
    PROVE  SyncInv'
<1> DEFINE x == run[r].item
           id == run[r].mapped[x].id
           row == [outside[id] EXCEPT !.print = run[r].says[x]]
           place == IF x \in Talks /\ OnStage[x] # {} THEN "assign" ELSE "save"
           b(p) == [run[r] EXCEPT !.at = p]
<1>1. /\ run[r] \in SyncRuns /\ SoundRun(outside, connection, run[r])
      /\ run[r].at \in {"put", "reput"} /\ x \in Items
  BY DEF SyncInv, SyncTables, Put, SoundRun
<1>2. id # NoId /\ TrueIn(outside, id, x) /\ id \in DOMAIN outside /\ outside[id].item = x
  BY <1>1 DEF SoundRun, TrueRows, TrueIn
<1>3. outside[id] \in Records
  <2>1. DOMAIN outside = 1..Len(outside) /\ outside \in Seq(Records)
    BY DEF SyncInv, SyncTables
  <2> QED
    BY <1>2, <2>1, ElementOfSeq
<1>4. CASE ItemFails(r) /\ UNCHANGED outside
  BY <1>4, FailingStep DEF Put
<1>5. CASE ~(ItemFails(r) /\ UNCHANGED outside)
  <2>1. PICK p \in {place, "pick"} : SyncAt(r, p)
    BY <1>5 DEF Put, ItemFails, Mine
  <2>2. outside' = [outside EXCEPT ![id] = row] /\ UNCHANGED <<source, connected, connection, names, mappings>>
    BY <1>5, <1>2, <1>3 DEF Put, KnownId, Mine
  <2>3. p \in SyncPlaces /\ p # "post"
    BY DEF SyncPlaces
  <2>4. /\ b(p) \in SyncRuns /\ run' = [run EXCEPT ![r] = b(p)]
        /\ b(p).at = p /\ b(p).mapped = run[r].mapped /\ b(p).item = x /\ b(p).to = run[r].to
    BY <2>1, <2>3, MovesOn DEF SyncInv
  <2>5. /\ row \in Records /\ row.item = x /\ row.via = outside[id].via
        /\ row.assigned = outside[id].assigned
    BY <1>1, <1>2, <1>3 DEF Records, SyncRuns
  <2>6. row.assigned \subseteq DOMAIN outside
    BY <1>2, <2>5 DEF SyncInv, RecordsAreSound
  <2>7. \A y \in Items : b(p).mapped[y].id # NoId => TrueIn(outside', b(p).mapped[y].id, y)
    <3>1. \A y \in Items : run[r].mapped[y].id # NoId => TrueIn(outside, run[r].mapped[y].id, y)
      BY <1>1 DEF SoundRun, TrueRows
    <3>2. DOMAIN outside' = DOMAIN outside
          /\ \A i \in DOMAIN outside : outside'[i].item = outside[i].item
      BY <1>2, <2>2, <2>5
    <3> QED
      BY <2>4, <3>1, <3>2 DEF TrueIn
  <2>8. p = "assign" => run[r].at = "put" /\ x \in Talks
    BY <1>1, OnStageIsOfFaces DEF SoundRun
  <2>9. p = "save" /\ x \in Talks => CoveredIn(outside', id, x)
    BY DEF CoveredIn
  <2>10. SoundRun(outside', connection, b(p))
    <3>1. TrueRows(outside', b(p).mapped)
      BY <1>1, <2>4, <2>7 DEF SoundRun, TrueRows
    <3>2. p = "assign" => \A q \in OnStage[x] : run[r].mapped[q].id # NoId
      BY <1>1, <2>8 DEF SoundRun
    <3> HIDE DEF b, x
    <3> QED
      BY <1>1, <1>2, <2>3, <2>4, <2>8, <2>9, <3>1, <3>2 DEF SoundRun
  <2>11. \A s \in Talks : outside[id].item = s /\ CoveredIn(outside, id, s)
             => \A q \in OnStage[s] : \E i \in row.assigned : outside[i].item = q
    BY <2>5 DEF CoveredIn
  <2>12. SyncInv
    OBVIOUS
  <2> DEFINE bb == b(p)
  <2>13. /\ bb \in SyncRuns /\ run' = [run EXCEPT ![r] = bb] /\ bb.at # "post"
         /\ SoundRun(outside', connection, bb)
    BY <2>3, <2>4, <2>10
  <2>14. row.item = outside[id].item /\ row.via = outside[id].via
    BY <1>2, <2>5
  <2> HIDE DEF x, id, row, bb
  <2> QED
    BY <1>2, <2>2, <2>5, <2>6, <2>11, <2>12, <2>13, <2>14, WritingStep
<1> QED
  BY <1>4, <1>5

LEMMA AssignKeeps ==
    ASSUME SyncInv, NEW r \in Runs, AssignSpeakers(r)
    PROVE  SyncInv'
<1> DEFINE x == run[r].item
           id == run[r].mapped[x].id
           speakers == {run[r].mapped[p].id : p \in OnStage[x]}
           row == [outside[id] EXCEPT !.print = run[r].says[x], !.assigned = speakers]
           b == [run[r] EXCEPT !.at = "save"]
<1>1. /\ run[r] \in SyncRuns /\ SoundRun(outside, connection, run[r])
      /\ run[r].at = "assign" /\ x \in Items /\ x \in Talks
  BY DEF SyncInv, SyncTables, AssignSpeakers, InSync, SoundRun
<1>2. id # NoId /\ TrueIn(outside, id, x) /\ id \in DOMAIN outside /\ outside[id].item = x
  BY <1>1 DEF SoundRun, TrueRows, TrueIn
<1>3. outside \in Seq(Records) /\ DOMAIN outside = 1..Len(outside) /\ outside[id] \in Records
  <2>1. DOMAIN outside = 1..Len(outside) /\ outside \in Seq(Records)
    BY DEF SyncInv, SyncTables
  <2> QED
    BY <1>2, <2>1, ElementOfSeq
<1>4. SyncAt(r, "save") /\ UNCHANGED <<source, connected, connection, names, mappings>>
      /\ outside' = [outside EXCEPT ![id].print = run[r].says[x], ![id].assigned = speakers]
  BY DEF AssignSpeakers, Mine, KnownId
<1>5. \A p \in OnStage[x] : run[r].mapped[p].id \in DOMAIN outside /\ outside[run[r].mapped[p].id].item = p
  BY <1>1, OnStageIsOfFaces DEF SoundRun, TrueRows, TrueIn, Items
<1>6. speakers \subseteq DOMAIN outside
  BY <1>5
<1>7. speakers \in SUBSET Nat
  <2>1. DOMAIN outside \subseteq Nat
    BY <1>3
  <2> HIDE DEF speakers
  <2> QED
    BY <1>6, <2>1
<1>8. /\ row \in Records /\ row.item = x /\ row.via = outside[id].via /\ row.assigned = speakers
      /\ outside' = [outside EXCEPT ![id] = row]
  <2> HIDE DEF speakers
  <2> QED
    BY <1>1, <1>2, <1>3, <1>4, <1>7 DEF Records, SyncRuns
<1>9. "save" \in SyncPlaces
  BY DEF SyncPlaces
<1>10. /\ b \in SyncRuns /\ run' = [run EXCEPT ![r] = b]
       /\ b.at = "save" /\ b.mapped = run[r].mapped /\ b.item = x /\ b.to = run[r].to
  BY <1>4, <1>9, MovesOn DEF SyncInv
<1> HIDE DEF b, row
<1>11. DOMAIN outside' = DOMAIN outside
       /\ \A i \in DOMAIN outside : outside'[i].item = outside[i].item
  BY <1>2, <1>8
<1>12. TrueRows(outside', b.mapped)
  BY <1>1, <1>10, <1>11 DEF SoundRun, TrueRows, TrueIn
<1>13. outside'[id].assigned = speakers
  BY <1>2, <1>8
<1>14. CoveredIn(outside', id, x)
  <2> SUFFICES ASSUME NEW p \in OnStage[x] PROVE \E i \in speakers : outside'[i].item = p
    BY <1>13 DEF CoveredIn
  <2>1. run[r].mapped[p].id \in speakers
    OBVIOUS
  <2> QED
    BY <1>5, <1>11, <2>1
<1>15. SoundRun(outside', connection, b)
  BY <1>1, <1>2, <1>10, <1>12, <1>14 DEF SoundRun
<1>16. \A s \in Talks : outside[id].item = s /\ CoveredIn(outside, id, s)
           => \A q \in OnStage[s] : \E i \in row.assigned : outside[i].item = q
  <2> SUFFICES ASSUME NEW p \in OnStage[x] PROVE \E i \in speakers : outside[i].item = p
    BY <1>2, <1>8
  <2>1. run[r].mapped[p].id \in speakers
    OBVIOUS
  <2> QED
    BY <1>5, <2>1
<1>17. SyncInv /\ b.at # "post" /\ row.item = outside[id].item /\ row.assigned \subseteq DOMAIN outside
  BY <1>2, <1>6, <1>8, <1>10
<1>18. /\ id \in DOMAIN outside /\ row \in Records /\ row.via = outside[id].via
       /\ outside' = [outside EXCEPT ![id] = row]
       /\ UNCHANGED <<source, connected, connection, names, mappings>>
       /\ b \in SyncRuns /\ run' = [run EXCEPT ![r] = b]
  BY <1>2, <1>4, <1>8, <1>10
<1> HIDE DEF x, id, speakers
<1> QED
  BY <1>15, <1>16, <1>17, <1>18, WritingStep

LEMMA FindKeeps ==
    ASSUME SyncInv, NEW r \in Runs, Find(r)
    PROVE  SyncInv'
<1> DEFINE x == run[r].item
<1>1. /\ run[r] \in SyncRuns /\ SoundRun(outside, connection, run[r])
      /\ run[r].at = "find" /\ x \in Items /\ x \in Faces
  BY DEF SyncInv, SyncTables, Find, InSync, SoundRun
<1>2. UNCHANGED <<source, connected, connection, names, mappings, outside>>
  BY DEF Find
<1>3. CASE ItemFails(r)
  BY <1>2, <1>3, FailingStep
<1>4. CASE ~ItemFails(r)
  <2>1. PICK i \in OfEvent(r), p \in {"save", "reput"} :
           /\ outside[i].item = x
           /\ run' = [run EXCEPT ![r].mapped[x].id = i, ![r].at = p]
    BY <1>4 DEF Find, Mine
  <2>0. i \in DOMAIN outside
    BY DEF OfEvent
  <2> DEFINE row == [run[r].mapped[x] EXCEPT !.id = i]
             b == [run[r] EXCEPT !.mapped[x] = row, !.at = p]
  <2>2. i \in Nat /\ i # NoId
    BY <2>0 DEF SyncInv, SyncTables, NoId
  <2>3. row \in Mappings /\ row.id = i
    BY <1>1, <2>2 DEF SyncRuns, Mappings
  <2>4. run' = [run EXCEPT ![r] = b]
    BY <1>1, <2>1 DEF SyncRuns, SyncInv, SyncTables, Mappings
  <2> HIDE DEF row
  <2>5. b \in SyncRuns /\ b.at = p /\ b.item = x /\ b.to = run[r].to
    BY <1>1, <2>3 DEF SyncRuns, SyncPlaces
  <2>6. \A y \in Items : b.mapped[y] = IF y = x THEN row ELSE run[r].mapped[y]
    BY <1>1 DEF SyncRuns
  <2> HIDE DEF b
  <2>7. TrueRows(outside, b.mapped)
    <3> SUFFICES ASSUME NEW y \in Items
                 PROVE  /\ b.mapped[y].id # NoId => TrueIn(outside, b.mapped[y].id, y)
                        /\ b.mapped[y].state = "synced" => b.mapped[y].id # NoId
      BY DEF TrueRows
    <3>1. CASE y = x
      BY <2>0, <2>1, <2>2, <2>3, <2>6, <3>1 DEF TrueIn
    <3>2. CASE y # x
      BY <1>1, <2>6, <3>2 DEF SoundRun, TrueRows
    <3> QED
      BY <3>1, <3>2
  <2>8. SoundRun(outside, connection, b)
    BY <1>1, <2>1, <2>2, <2>3, <2>5, <2>6, <2>7, OnStageIsOfFaces DEF SoundRun
  <2> QED
    BY <1>2, <2>4, <2>5, <2>8, QuietStep
<1> QED
  BY <1>3, <1>4

LEMMA PostKeeps ==
    ASSUME SyncInv, NEW r \in Runs, Post(r)
    PROVE  SyncInv'
<1> DEFINE x == run[r].item
           e == [item |-> x, via |-> run[r].to, print |-> run[r].says[x], assigned |-> {}]
           n == Append(outside, e)
           new == Len(outside) + 1
           place == IF x \in Talks THEN "pending" ELSE "save"
           row == [run[r].mapped[x] EXCEPT !.id = new]
           answered == [run[r] EXCEPT !.at = place, !.mapped[x] = row]
           lost == [run[r] EXCEPT !.at = "pick"]
<1>1. /\ run[r] \in SyncRuns /\ SoundRun(outside, connection, run[r])
      /\ run[r].at = "post" /\ x \in Items /\ connection \in Nat
  <2>1. run[r].at = "post"
    BY DEF Post, InSync
  <2>2. run[r] \in SyncRuns /\ SoundRun(outside, connection, run[r]) /\ connection \in Nat
    BY DEF SyncInv, SyncTables
  <2>3. x \in Items
    BY <2>2 DEF SyncRuns
  <2> QED
    BY <2>1, <2>2, <2>3
<1>2. /\ outside \in Seq(Records) /\ Len(outside) \in Nat /\ DOMAIN outside = 1..Len(outside)
      /\ new \in Nat /\ new # NoId
  BY DEF SyncInv, SyncTables, NoId
<1>3. e \in Records
  BY <1>1 DEF Records, SyncRuns
<1>4. /\ outside' = n /\ n \in Seq(Records) /\ DOMAIN n = 1..new
      /\ n[new] = e /\ \A i \in DOMAIN outside : n[i] = outside[i]
  <2>1. outside' = n
    BY DEF Post, Mine
  <2> HIDE DEF e
  <2> QED
    BY <1>2, <1>3, <2>1
<1>5. UNCHANGED <<source, connected, connection, names, mappings>>
  BY DEF Post
<1>6. DOMAIN n = DOMAIN outside \cup {new} /\ new \notin DOMAIN outside
  BY <1>2, <1>4
<1>7. e.item = x /\ e.via = run[r].to /\ e.assigned = {}
  OBVIOUS
<1>8. row \in Mappings /\ row.id = new /\ row.state = run[r].mapped[x].state
  BY <1>1, <1>2 DEF SyncRuns, Mappings
<1>9. run' \in {[run EXCEPT ![r] = answered], [run EXCEPT ![r] = lost]}
  <2>1. CASE ItemFails(r)
    BY <1>1, <2>1 DEF ItemFails, SyncAt, SyncInv, SyncTables, SyncRuns
  <2>2. CASE ~ItemFails(r)
    <3>1. run' = [run EXCEPT ![r].at = place, ![r].mapped[x].id = new]
      BY <2>2 DEF Post, Mine
    <3>2. [run EXCEPT ![r] = answered] = [run EXCEPT ![r].at = place, ![r].mapped[x].id = new]
      BY <1>1 DEF SyncInv, SyncTables, SyncRuns, Mappings
    <3> QED
      BY <3>1, <3>2
  <2> QED
    BY <2>1, <2>2
<1> HIDE DEF e, n, row, new
<1>10. Keeps(outside, n)
  <2>1. \A i \in DOMAIN outside : n[i] = outside[i] /\ outside[i].assigned \subseteq DOMAIN outside
    BY <1>4 DEF SyncInv, RecordsAreSound
  <2>2. \A i \in DOMAIN outside, s \in Talks : CoveredIn(outside, i, s) => CoveredIn(n, i, s)
    BY <2>1 DEF CoveredIn
  <2> QED
    BY <1>6, <2>1, <2>2 DEF Keeps
<1>11. TrueIn(n, new, x)
  BY <1>4, <1>6, <1>7 DEF TrueIn
<1>12. answered \in SyncRuns /\ answered.at = place /\ answered.item = x /\ answered.to = run[r].to
       /\ \A y \in Items : answered.mapped[y] = IF y = x THEN row ELSE run[r].mapped[y]
  BY <1>1, <1>8 DEF SyncRuns, SyncPlaces
<1>13. lost \in SyncRuns /\ lost.at = "pick" /\ lost.item = x /\ lost.to = run[r].to
       /\ lost.mapped = run[r].mapped
  BY <1>1 DEF SyncRuns, SyncPlaces
<1>14. TrueRows(n, run[r].mapped)
  BY <1>1, <1>10, KeptRows DEF SoundRun
<1> HIDE DEF answered, lost
<1>15. TrueRows(n, answered.mapped)
  <2> SUFFICES ASSUME NEW y \in Items
               PROVE  /\ answered.mapped[y].id # NoId => TrueIn(n, answered.mapped[y].id, y)
                      /\ answered.mapped[y].state = "synced" => answered.mapped[y].id # NoId
    BY DEF TrueRows
  <2>1. CASE y = x
    BY <1>2, <1>8, <1>11, <1>12, <2>1
  <2>2. CASE y # x
    BY <1>12, <1>14, <2>2 DEF TrueRows
  <2> QED
    BY <2>1, <2>2
<1>16. SoundRun(n, connection, answered)
  <2>1. answered.mapped[x].id # NoId
    BY <1>1, <1>2, <1>8, <1>12
  <2>2. \A p \in Items : run[r].mapped[p].id # NoId => answered.mapped[p].id # NoId
    BY <1>2, <1>8, <1>12
  <2>3. x \in Talks => \A p \in OnStage[x] : answered.mapped[p].id # NoId
    BY <1>1, <2>2, OnStageIsOfFaces DEF SoundRun, Items
  <2> QED
    BY <1>1, <1>12, <1>15, <2>1, <2>3 DEF SoundRun, Items
<1>17. SoundRun(n, connection, lost)
  BY <1>1, <1>13, <1>14 DEF SoundRun
<1>18. PICK b \in {answered, lost} : run' = [run EXCEPT ![r] = b]
  BY <1>9
<1>19. b \in SyncRuns /\ b.at # "post" /\ SoundRun(outside', connection, b)
  BY <1>4, <1>12, <1>13, <1>16, <1>17
<1>20. SyncTables'
  BY <1>4, <1>5, <1>18, <1>19 DEF SyncInv, SyncTables
<1>21. (\A q \in Runs : SoundRun(outside, connection, run[q]))'
  BY <1>4, <1>5, <1>10, <1>18, <1>19, RunsMove
<1>22. TrueRows(outside, mappings)'
  BY <1>4, <1>5, <1>10, KeptRows DEF SyncInv
<1>23. RecordsAreSound(outside, connection)'
  <2> SUFFICES ASSUME NEW i \in DOMAIN n
               PROVE  n[i].assigned \subseteq DOMAIN n /\ n[i].via <= connection
    BY <1>4, <1>5 DEF RecordsAreSound
  <2>1. CASE i = new
    BY <1>1, <1>4, <1>7, <2>1 DEF SoundRun
  <2>2. CASE i # new
    BY <1>4, <1>6, <2>2 DEF SyncInv, RecordsAreSound
  <2> QED
    BY <2>1, <2>2
<1>24. \A q \in Runs, y \in Items : Creating(q, y)' => q # r /\ Creating(q, y)
  <2>1. \A q \in Runs : run'[q] = IF q = r THEN b ELSE run[q]
    BY <1>18 DEF SyncInv, SyncTables
  <2> QED
    BY <1>5, <1>19, <2>1 DEF Creating
<1>25. \A y \in Items : Holding(y)' <=> Holding(y) \/ (y = x /\ run[r].to = connection)
  <2> SUFFICES ASSUME NEW y \in Items
               PROVE  (\E i \in DOMAIN n : n[i].item = y /\ n[i].via = connection)
                      <=> Holding(y) \/ (y = x /\ run[r].to = connection)
    BY <1>4, <1>5 DEF Holding
  <2>1. \A i \in DOMAIN outside : i \in DOMAIN n /\ n[i] = outside[i]
    BY <1>4, <1>6
  <2>2. new \in DOMAIN n /\ n[new].item = x /\ n[new].via = run[r].to
    BY <1>4, <1>6, <1>7
  <2>3. \A i \in DOMAIN n : i \in DOMAIN outside \/ i = new
    BY <1>6
  <2>4. ASSUME NEW i \in DOMAIN n, n[i].item = y, n[i].via = connection
        PROVE  Holding(y) \/ (y = x /\ run[r].to = connection)
    <3>1. CASE i \in DOMAIN outside
      <4>1. n[i] = outside[i]
        BY <2>1, <3>1
      <4>2. outside[i].item = y /\ outside[i].via = connection
        BY <2>4, <4>1
      <4> QED
        BY <3>1, <4>2 DEF Holding
    <3>2. CASE i = new
      BY <2>2, <2>4, <3>2
    <3> QED
      BY <2>3, <3>1, <3>2
  <2>5. ASSUME Holding(y)
        PROVE  \E i \in DOMAIN n : n[i].item = y /\ n[i].via = connection
    BY <2>1, <2>5 DEF Holding
  <2>6. ASSUME y = x, run[r].to = connection
        PROVE  \E i \in DOMAIN n : n[i].item = y /\ n[i].via = connection
    BY <2>2, <2>6
  <2> QED
    BY <2>4, <2>5, <2>6
<1>26. run[r].to = connection => Creating(r, x)
  BY <1>1 DEF Creating
<1>27. ClaimsAreKept'
  <2>1. \A y \in Items : Holding(y)' => mappings'[y].state # "none"
    BY <1>1, <1>5, <1>25, <1>26 DEF SyncInv, ClaimsAreKept
  <2>2. ASSUME NEW q \in Runs, NEW y \in Items, Creating(q, y)'
        PROVE  /\ mappings'[y].state # "none" /\ ~Holding(y)'
               /\ \A p \in Runs : Creating(p, y)' => p = q
    <3>1. Creating(q, y) /\ q # r
      BY <1>24, <2>2
    <3>2. mappings[y].state # "none" /\ ~Holding(y) /\ \A p \in Runs : Creating(p, y) => p = q
      BY <3>1 DEF SyncInv, ClaimsAreKept
    <3> QED
      BY <1>5, <1>24, <1>25, <1>26, <3>1, <3>2
  <2> QED
    BY <2>1, <2>2 DEF ClaimsAreKept
<1>28. CreatedOnceOutside'
  <2> SUFFICES ASSUME NEW i \in DOMAIN n, NEW j \in DOMAIN n, n[i].item = n[j].item,
                      n[i].via = connection, n[j].via = connection
               PROVE  i = j
    BY <1>4, <1>5 DEF CreatedOnceOutside
  <2>1. CASE i \in DOMAIN outside /\ j \in DOMAIN outside
    BY <1>4, <2>1 DEF SyncInv, OutsideIsInStep, CreatedOnceOutside
  <2>2. CASE i = new /\ j = new
    BY <2>2
  <2>3. ASSUME NEW k \in DOMAIN outside, n[k].item = x, n[k].via = connection,
               run[r].to = connection
        PROVE  FALSE
    <3>1. Holding(x)
      BY <1>4, <2>3 DEF Holding
    <3> QED
      BY <1>1, <1>26, <2>3, <3>1 DEF SyncInv, ClaimsAreKept
  <2> QED
    BY <1>4, <1>6, <1>7, <2>1, <2>2, <2>3
<1>29. SyncedSessionsHaveSpeakers'
  <2> SUFFICES ASSUME NEW s \in Talks, mappings[s].state = "synced", mappings[s].print # Unassigned
               PROVE  CoveredIn(n, mappings[s].id, s)
    BY <1>4, <1>5 DEF SyncedSessionsHaveSpeakers, CoveredIn
  <2>1. CoveredIn(outside, mappings[s].id, s)
    BY DEF SyncInv, OutsideIsInStep, SyncedSessionsHaveSpeakers, CoveredIn
  <2>2. mappings[s].id \in DOMAIN outside /\ outside[mappings[s].id].item = s
    BY DEF SyncInv, TrueRows, TrueIn, Items
  <2> QED
    BY <1>10, <2>1, <2>2 DEF Keeps
<1> QED
  BY <1>20, <1>21, <1>22, <1>23, <1>27, <1>28, <1>29 DEF SyncInv, OutsideIsInStep

LEMMA SyncStarts == SyncInit => SyncInv
<1> SUFFICES ASSUME SyncInit PROVE SyncInv
  OBVIOUS
<1>1. SyncTables
  <2>1. \A place \in SyncPlaces : NoRun(place) \in SyncRuns
    BY NoRunIsARun
  <2>2. "off" \in SyncPlaces
    BY DEF SyncPlaces
  <2> QED
    BY <2>1, <2>2, SyncBounds DEF SyncInit, SyncTables, Prints, NoMapping, Mappings, NoId, Unassigned
<1>2. \A r \in Runs : SoundRun(outside, connection, run[r])
  BY DEF SyncInit, SoundRun, NoRun, TrueRows, NoMapping
<1> QED
  BY <1>1, <1>2 DEF SyncInit, SyncInv, TrueRows, NoMapping, RecordsAreSound, ClaimsAreKept,
     Creating, Holding, NoRun, OutsideIsInStep, CreatedOnceOutside, SyncedSessionsHaveSpeakers, Items

LEMMA SyncGoesOn == SyncInv /\ [SyncNext]_syncVars => SyncInv'
<1> SUFFICES ASSUME SyncInv, [SyncNext]_syncVars PROVE SyncInv'
  OBVIOUS
<1>1. CASE UNCHANGED syncVars
  BY <1>1 DEF syncVars, SyncInv, SyncTables, ClaimsAreKept, Creating, Holding, OutsideIsInStep,
     CreatedOnceOutside, SyncedSessionsHaveSpeakers
<1>2. CASE \E x \in Items : EditItem(x)
  BY <1>2, EditKeeps
<1>3. CASE \E event \in Platforms, url \in {"kept", "other"} : ConnectTo(event, url)
  BY <1>3, ConnectKeeps
<1>4. CASE DisconnectEvent
  BY <1>4, ConnectKeeps
<1>5. ASSUME NEW r \in Runs, SyncStep(r) PROVE SyncInv'
  <2>1. CASE CallFails(r)
    BY <2>1, FailingStep DEF CallFails
  <2>2. CASE RecordResult(r) \/ RunDies(r)
    BY <2>2, FailingStep DEF RecordResult, RunDies
  <2>3. CASE \E x \in Items : TakeItem(r, x)
    BY <2>3, TakeKeeps
  <2> QED
    BY <1>5, <2>1, <2>2, <2>3, PlanKeeps, PostKeeps, SavePendingKeeps, PutKeeps, FindKeeps,
       AssignKeeps, SaveMappingKeeps DEF SyncStep
<1> QED
  BY <1>1, <1>2, <1>3, <1>4, <1>5 DEF SyncNext

\* However many runs overlap, fail and die, whatever is edited and whichever
\* event is connected, nothing is made twice through one connection, and a
\* session recorded as done has its speakers (sync.ts, repository.ts). What an
\* event got before its mappings were deleted is not looked for.
THEOREM NothingIsPushedTwice == SyncSpec => []OutsideIsInStep
<1>1. SyncInv => OutsideIsInStep
  BY DEF SyncInv
<1> QED
  BY <1>1, SyncStarts, SyncGoesOn, PTL DEF SyncSpec

-------------------------------------------------------------------

\* However many runs overlap, what the tables, the provider and the runs hold
\* stays what it is declared to be, and each speaker of a session outside is a
\* record that is there.
THEOREM SyncTypes == SyncSpec => []SyncTypeOK
<1>1. SyncInv => SyncTypeOK
  <2> SUFFICES ASSUME SyncInv, NEW i \in DOMAIN outside
               PROVE  outside[i] \in [item : Items, via : 0..LastConnection,
                          print : 0..LastVersion, assigned : SUBSET (1..Len(outside))]
    BY DEF SyncInv, SyncTables, SyncTypeOK
  <2>1. DOMAIN outside = 1..Len(outside)
    BY DEF SyncInv, SyncTables
  <2>2. outside[i] \in Records /\ outside[i].assigned \subseteq DOMAIN outside
    BY <2>1, ElementOfSeq DEF SyncInv, SyncTables, RecordsAreSound
  <2> QED
    BY <2>1, <2>2 DEF Records
<1> QED
  BY <1>1, SyncStarts, SyncGoesOn, PTL DEF SyncSpec

-----------------------------------------------------------------------------

(***************************************************************************)
(* Roster. RosterInv follows a request from the person it found for an     *)
(* address to the row it lists.                                            *)
(***************************************************************************)

MaybePeople == People \cup {NoOne}
MaybeBoxes == Mailboxes \cup {NoOne}
MaybeSheets == Sheets \cup {HeaderOnly}
ErrandStages == {"idle", "plan", "person", "insert", "clash", "readdress", "look",
           "list", "update", "answer"}
Pages == [text : MaybeSheets, preview : MaybeSheets, pending : BOOLEAN, crossed : BOOLEAN]
RosterErrands == [at : ErrandStages, kind : {"save", "import", "preview"}, sheet : MaybeSheets, row : Nat,
            box : MaybeBoxes, who : MaybePeople, want : Standings \cup {"none"},
            made : SUBSET People, heard : BOOLEAN]

RosterTables ==
    /\ mailbox \in [People -> MaybeBoxes]
    /\ workflow \in [People -> Standings \cup {"none"}]
    /\ page \in Pages
    /\ errand \in [Assistants -> RosterErrands]
    /\ counted \subseteq People

\* Whom an import may count: somebody with an address who is on the roster.
Listed(m, w, p) == p \in People /\ m[p] # NoOne /\ w[p] # "none"

\* What a request has in hand, given the people and the roster.
SoundErrand(m, w, e) ==
    /\ e.at \notin {"idle", "plan", "answer"} => e.want \in Standings
    /\ e.at \in {"person", "insert", "clash", "readdress"} => e.box \in Mailboxes
    /\ e.at \in {"clash", "readdress", "look", "list", "update"} => e.who \in People
    /\ e.at \in {"look", "list", "update"} => m[e.who] # NoOne
    /\ e.kind = "import" => e.sheet \in Sheets
    /\ \A p \in e.made : Listed(m, w, p)

ListedHaveAddresses == \A p \in People : workflow[p] # "none" => mailbox[p] # NoOne

\* The preview that is on its way to the page is of its text.
PreviewsAreOfTheText ==
    \A q \in Assistants : errand[q].heard =>
        /\ page.text # HeaderOnly
        /\ errand[q].kind = "preview" => page.crossed \/ errand[q].sheet = page.text

RosterInv ==
    /\ RosterTables
    /\ \A q \in Assistants : SoundErrand(mailbox, workflow, errand[q])
    /\ ListedHaveAddresses
    /\ PreviewsAreOfTheText
    /\ page.text = HeaderOnly => page.preview = HeaderOnly
    /\ RosterIsSound

LEMMA IdleIsSound ==
    ASSUME NEW m, NEW w
    PROVE  IdleErrand \in RosterErrands /\ SoundErrand(m, w, IdleErrand) /\ ~IdleErrand.heard
BY DEF IdleErrand, RosterErrands, SoundErrand, MaybeSheets, MaybeBoxes, MaybePeople, ErrandStages

LEMMA RosterStarts == RosterInit => RosterInv
<1> SUFFICES ASSUME RosterInit PROVE RosterInv
  OBVIOUS
<1>1. RosterTables
  BY IdleIsSound DEF RosterInit, RosterTables, Pages, MaybeSheets, MaybeBoxes
<1>2. \A q \in Assistants : errand[q] = IdleErrand
  BY DEF RosterInit
<1>3. (\A q \in Assistants : SoundErrand(mailbox, workflow, errand[q])) /\ PreviewsAreOfTheText
  BY <1>2, IdleIsSound DEF PreviewsAreOfTheText
<1> QED
  BY <1>1, <1>3 DEF RosterInit, RosterInv, ListedHaveAddresses, RosterIsSound, NoAddressTwice,
     ReportedAreListed, ImportsArePreviewed

\* A request goes on; the page and the rows stay.
LEMMA ErrandGoesOn ==
    ASSUME RosterInv, NEW q \in Assistants, NEW e \in RosterErrands, SoundErrand(mailbox, workflow, e),
           e.heard => errand[q].heard /\ e.kind = errand[q].kind /\ e.sheet = errand[q].sheet,
           errand' = [errand EXCEPT ![q] = e],
           UNCHANGED <<mailbox, workflow, page, counted>>
    PROVE  RosterInv'
<1>1. \A r \in Assistants : errand'[r] = IF r = q THEN e ELSE errand[r]
  BY DEF RosterInv, RosterTables
<1>2. RosterTables'
  BY DEF RosterInv, RosterTables
<1>3. (\A r \in Assistants : SoundErrand(mailbox, workflow, errand[r]))'
  BY <1>1 DEF RosterInv
<1>4. PreviewsAreOfTheText'
  BY <1>1 DEF RosterInv, PreviewsAreOfTheText
<1> QED
  BY <1>2, <1>3, <1>4 DEF RosterInv, ListedHaveAddresses, RosterIsSound, NoAddressTwice,
     ReportedAreListed, ImportsArePreviewed

\* A request is over, or nobody listens to it any more.
LEMMA ErrandEnds ==
    ASSUME RosterInv, NEW q \in Assistants, NEW e \in {IdleErrand, [errand[q] EXCEPT !.heard = FALSE]},
           errand' = [errand EXCEPT ![q] = e],
           page' \in {page, [page EXCEPT !.pending = FALSE]},
           UNCHANGED <<mailbox, workflow, counted>>
    PROVE  RosterInv'
<1>1. errand[q] \in RosterErrands /\ SoundErrand(mailbox, workflow, errand[q]) /\ page \in Pages
  BY DEF RosterInv, RosterTables
<1>2. e \in RosterErrands /\ SoundErrand(mailbox, workflow, e) /\ ~e.heard
  <2>1. CASE e = IdleErrand
    BY <2>1, IdleIsSound
  <2>2. CASE e = [errand[q] EXCEPT !.heard = FALSE]
    BY <1>1, <2>2 DEF RosterErrands, SoundErrand
  <2> QED
    BY <2>1, <2>2
<1>3. \A r \in Assistants : errand'[r] = IF r = q THEN e ELSE errand[r]
  BY DEF RosterInv, RosterTables
<1>4. page' \in Pages /\ page'.text = page.text /\ page'.preview = page.preview
      /\ page'.crossed = page.crossed
  BY <1>1 DEF Pages
<1>5. RosterTables'
  BY <1>2, <1>4 DEF RosterInv, RosterTables
<1>6. (\A r \in Assistants : SoundErrand(mailbox, workflow, errand[r]))'
  BY <1>2, <1>3 DEF RosterInv
<1>7. PreviewsAreOfTheText'
  BY <1>2, <1>3, <1>4 DEF RosterInv, PreviewsAreOfTheText
<1> QED
  BY <1>4, <1>5, <1>6, <1>7 DEF RosterInv, ListedHaveAddresses, RosterIsSound, NoAddressTwice,
     ReportedAreListed, ImportsArePreviewed

LEMMA RefusalKeeps ==
    ASSUME RosterInv, NEW q \in Assistants, Refused(q)
    PROVE  RosterInv'
BY ErrandEnds DEF Refused, SameRoster

LEMMA StoppingKeeps ==
    ASSUME RosterInv, NEW q \in Assistants, StopListening(q)
    PROVE  RosterInv'
<1>1. errand[q] \in RosterErrands /\ errand \in [Assistants -> RosterErrands]
  BY DEF RosterInv, RosterTables
<1>2. PICK e \in {IdleErrand, [errand[q] EXCEPT !.heard = FALSE]} : errand' = [errand EXCEPT ![q] = e]
  BY <1>1 DEF StopListening, RosterErrands
<1> QED
  BY <1>2, ErrandEnds DEF StopListening, SameRoster

\* Addresses and places on the roster are given, never taken.
LEMMA RowsGrow ==
    ASSUME NEW m, NEW w, NEW n, NEW v, NEW e, SoundErrand(m, w, e),
           \A p \in People : (m[p] # NoOne => n[p] # NoOne) /\ (w[p] # "none" => v[p] # "none")
    PROVE  SoundErrand(n, v, e)
BY DEF SoundErrand, Listed

\* A request writes a row and goes on.
LEMMA WritingErrand ==
    ASSUME RosterInv, NEW q \in Assistants, NEW e \in RosterErrands,
           errand' = [errand EXCEPT ![q] = e], UNCHANGED page,
           e.heard => errand[q].heard /\ e.kind = errand[q].kind /\ e.sheet = errand[q].sheet,
           mailbox' \in [People -> MaybeBoxes], workflow' \in [People -> Standings \cup {"none"}],
           \A p \in People : /\ mailbox[p] # NoOne => mailbox'[p] # NoOne
                             /\ workflow[p] # "none" => workflow'[p] # "none",
           counted' \subseteq People, \A p \in counted' : p \in counted \/ Listed(mailbox', workflow', p),
           SoundErrand(mailbox', workflow', e),
           ListedHaveAddresses', NoAddressTwice'
    PROVE  RosterInv'
<1> DEFINE n == mailbox'
           v == workflow'
<1>1. \A r \in Assistants : errand'[r] = IF r = q THEN e ELSE errand[r]
  BY DEF RosterInv, RosterTables
<1>2. RosterTables'
  BY DEF RosterInv, RosterTables
<1>3. ASSUME NEW r \in Assistants PROVE SoundErrand(n, v, errand'[r])
  <2>1. CASE r = q
    BY <1>1, <2>1
  <2>2. CASE r # q
    <3>1. SoundErrand(mailbox, workflow, errand[r])
      BY DEF RosterInv
    <3>2. \A p \in People : (mailbox[p] # NoOne => n[p] # NoOne) /\ (workflow[p] # "none" => v[p] # "none")
      OBVIOUS
    <3> HIDE DEF n, v
    <3>3. SoundErrand(n, v, errand[r])
      BY <3>1, <3>2, RowsGrow
    <3> QED
      BY <1>1, <2>2, <3>3
  <2> QED
    BY <2>1, <2>2
<1>4. PreviewsAreOfTheText'
  BY <1>1 DEF RosterInv, PreviewsAreOfTheText
<1>5. ReportedAreListed'
  BY DEF RosterInv, RosterIsSound, ReportedAreListed, Listed, RosterTables
<1> QED
  BY <1>2, <1>3, <1>4, <1>5 DEF RosterInv, RosterIsSound, ImportsArePreviewed

LEMMA SheetsAreRead ==
    ASSUME NEW t \in Sheets
    PROVE  /\ Len(SheetRows[t]) \in Nat \ {0}
           /\ \A n \in 1..Len(SheetRows[t]) : SheetRows[t][n] \in Mailboxes
<1> DEFINE s == SheetRows[t]
<1>1. s \in Seq(Mailboxes) /\ s # <<>>
  BY RosterAssumption
<1> HIDE DEF s
<1>2. Len(s) \in Nat \ {0} /\ \A n \in 1..Len(s) : s[n] \in Mailboxes
  BY <1>1, EmptySeq, ElementOfSeq
<1> QED
  BY <1>2 DEF s

LEMMA ImportsStart ==
    ASSUME RosterInv, NEW t \in Sheets, NEW want \in Standings, NEW listens \in BOOLEAN
    PROVE  /\ RowsToImport(t, want, listens) \in RosterErrands
           /\ SoundErrand(mailbox, workflow, RowsToImport(t, want, listens))
           /\ RowsToImport(t, want, listens).kind = "import"
           /\ RowsToImport(t, want, listens).heard = listens
<1>1. SheetRows[t][1] \in Mailboxes
  BY SheetsAreRead
<1>2. IdleErrand \in RosterErrands
  BY IdleIsSound
<1> DEFINE first == SheetRows[t][1]
           e == [IdleErrand EXCEPT !.at = "person", !.kind = "import", !.sheet = t, !.row = 1,
                                   !.box = first, !.want = want, !.heard = listens]
<1>3. first \in Mailboxes
  BY <1>1
<1>4. RowsToImport(t, want, listens) = e
  BY DEF RowsToImport
<1> HIDE DEF first
<1>5. e \in RosterErrands /\ SoundErrand(mailbox, workflow, e) /\ e.kind = "import" /\ e.heard = listens
  BY <1>2, <1>3 DEF IdleErrand, RosterErrands, SoundErrand, ErrandStages, MaybeBoxes, MaybeSheets
<1> HIDE DEF e
<1> QED
  BY <1>4, <1>5

LEMMA SheetEditsKeep ==
    ASSUME RosterInv, NEW t \in Sheets, EditSheet(t)
    PROVE  RosterInv'
<1>1. page \in Pages /\ t # HeaderOnly
  BY RosterAssumption DEF RosterInv, RosterTables
<1>2. /\ page' \in Pages /\ page'.text = t /\ page'.preview = HeaderOnly
      /\ page'.crossed = \E q \in Assistants : errand[q].heard /\ errand[q].kind = "preview"
      /\ UNCHANGED <<errand, mailbox, workflow, counted>>
  <2> DEFINE c == \E q \in Assistants : errand[q].heard /\ errand[q].kind = "preview"
  <2>1. c \in BOOLEAN
    OBVIOUS
  <2>2. page' = [page EXCEPT !.text = t, !.preview = HeaderOnly, !.crossed = c]
        /\ UNCHANGED <<errand, mailbox, workflow, counted>>
    BY DEF EditSheet, SameRoster, PreviewAfterEdit
  <2> HIDE DEF c
  <2>3. page' \in Pages /\ page'.text = t /\ page'.preview = HeaderOnly /\ page'.crossed = c
    BY <1>1, <2>1, <2>2 DEF Pages, MaybeSheets
  <2> QED
    BY <2>2, <2>3 DEF c
<1>3. PreviewsAreOfTheText'
  BY <1>1, <1>2 DEF PreviewsAreOfTheText
<1> QED
  BY <1>1, <1>2, <1>3 DEF RosterInv, RosterTables, ListedHaveAddresses, RosterIsSound,
     NoAddressTwice, ReportedAreListed, ImportsArePreviewed

\* The page sends a request about its text.
LEMMA PageAsks ==
    ASSUME RosterInv, NEW q \in Assistants, NEW e \in RosterErrands, SoundErrand(mailbox, workflow, e),
           errand' = [errand EXCEPT ![q] = e], page' = [page EXCEPT !.pending = TRUE],
           page.text # HeaderOnly, e.kind = "preview" => e.sheet = page.text,
           UNCHANGED <<mailbox, workflow, counted>>
    PROVE  RosterInv'
<1>1. page \in Pages
  BY DEF RosterInv, RosterTables
<1>2. page' \in Pages /\ page'.text = page.text /\ page'.preview = page.preview
      /\ page'.crossed = page.crossed
  BY <1>1 DEF Pages
<1>3. \A r \in Assistants : errand'[r] = IF r = q THEN e ELSE errand[r]
  BY DEF RosterInv, RosterTables
<1>4. PreviewsAreOfTheText'
  BY <1>2, <1>3 DEF RosterInv, PreviewsAreOfTheText
<1>5. (\A r \in Assistants : SoundErrand(mailbox, workflow, errand[r]))'
  BY <1>3 DEF RosterInv
<1>6. RosterTables'
  BY <1>2 DEF RosterInv, RosterTables
<1> QED
  BY <1>2, <1>4, <1>5, <1>6 DEF RosterInv, ListedHaveAddresses, RosterIsSound, NoAddressTwice,
     ReportedAreListed, ImportsArePreviewed

LEMMA RequestsKeep ==
    ASSUME RosterInv, NEW q \in Assistants,
           \/ AskPreview(q)
           \/ \E want \in Standings : AskImport(q, want)
           \/ \E t \in Sheets, want \in Standings : ImportElsewhere(q, t, want)
           \/ \E box \in Mailboxes, want \in Standings : AddSpeaker(q, box, want)
           \/ \E p \in People, box \in Mailboxes, want \in Standings : EditSpeaker(q, p, box, want)
    PROVE  RosterInv'
<1>1. page \in Pages /\ (page.preview # HeaderOnly => page.text # HeaderOnly)
  BY DEF RosterInv, RosterTables
<1>2. CASE AskPreview(q)
  <2> DEFINE e == [IdleErrand EXCEPT !.at = "plan", !.kind = "preview", !.sheet = page.text, !.heard = TRUE]
  <2>1. e \in RosterErrands /\ SoundErrand(mailbox, workflow, e) /\ e.sheet = page.text
    BY <1>1, IdleIsSound DEF IdleErrand, RosterErrands, SoundErrand, ErrandStages, Pages
  <2>2. /\ errand' = [errand EXCEPT ![q] = e] /\ page' = [page EXCEPT !.pending = TRUE]
        /\ page.text # HeaderOnly /\ UNCHANGED <<mailbox, workflow, counted>>
    BY <1>2 DEF AskPreview, SameRoster
  <2> HIDE DEF e
  <2> QED
    BY <2>1, <2>2, PageAsks
<1>3. ASSUME NEW want \in Standings, AskImport(q, want) PROVE RosterInv'
  <2> DEFINE e == RowsToImport(page.text, want, TRUE)
  <2>1. page.text \in Sheets /\ page.text # HeaderOnly
    BY <1>1, <1>3 DEF AskImport, Pages, MaybeSheets
  <2>2. e \in RosterErrands /\ SoundErrand(mailbox, workflow, e) /\ e.kind = "import"
    BY <2>1, ImportsStart
  <2>3. /\ errand' = [errand EXCEPT ![q] = e] /\ page' = [page EXCEPT !.pending = TRUE]
        /\ UNCHANGED <<mailbox, workflow, counted>>
    BY <1>3 DEF AskImport, SameRoster
  <2> HIDE DEF e
  <2> QED
    BY <2>1, <2>2, <2>3, PageAsks
<1>4. ASSUME NEW t \in Sheets, NEW want \in Standings, ImportElsewhere(q, t, want) PROVE RosterInv'
  <2> DEFINE e == RowsToImport(t, want, FALSE)
  <2>1. e \in RosterErrands /\ SoundErrand(mailbox, workflow, e) /\ ~e.heard
    BY ImportsStart
  <2>2. errand' = [errand EXCEPT ![q] = e] /\ UNCHANGED <<mailbox, workflow, page, counted>>
    BY <1>4 DEF ImportElsewhere, SameRoster
  <2> HIDE DEF e
  <2> QED
    BY <2>1, <2>2, ErrandGoesOn
<1>5. ASSUME NEW box \in Mailboxes, NEW want \in Standings, AddSpeaker(q, box, want) PROVE RosterInv'
  <2> DEFINE e == [IdleErrand EXCEPT !.at = "person", !.box = box, !.want = want]
  <2>1. e \in RosterErrands /\ SoundErrand(mailbox, workflow, e) /\ ~e.heard
    BY IdleIsSound DEF IdleErrand, RosterErrands, SoundErrand, ErrandStages, MaybeBoxes
  <2>2. errand' = [errand EXCEPT ![q] = e] /\ UNCHANGED <<mailbox, workflow, page, counted>>
    BY <1>5 DEF AddSpeaker, SameRoster
  <2> HIDE DEF e
  <2> QED
    BY <2>1, <2>2, ErrandGoesOn
<1>6. ASSUME NEW p \in People, NEW box \in Mailboxes, NEW want \in Standings, EditSpeaker(q, p, box, want)
      PROVE  RosterInv'
  <2> DEFINE e == [IdleErrand EXCEPT !.at = "person", !.box = box, !.who = p, !.want = want]
  <2>1. e \in RosterErrands /\ SoundErrand(mailbox, workflow, e) /\ ~e.heard
    BY IdleIsSound DEF IdleErrand, RosterErrands, SoundErrand, ErrandStages, MaybeBoxes, MaybePeople
  <2>2. errand' = [errand EXCEPT ![q] = e] /\ UNCHANGED <<mailbox, workflow, page, counted>>
    BY <1>6 DEF EditSpeaker, SameRoster
  <2> HIDE DEF e
  <2> QED
    BY <2>1, <2>2, ErrandGoesOn
<1> QED
  BY <1>2, <1>3, <1>4, <1>5, <1>6

LEMMA AnswersKeep ==
    ASSUME RosterInv, NEW q \in Assistants, ShowAnswer(q)
    PROVE  RosterInv'
<1>1. page \in Pages /\ errand[q] \in RosterErrands /\ errand' = [errand EXCEPT ![q] = IdleErrand]
      /\ UNCHANGED <<mailbox, workflow, counted>>
  BY DEF RosterInv, RosterTables, ShowAnswer, SameRoster
<1>2. CASE ~errand[q].heard
  BY <1>1, <1>2, ErrandEnds DEF ShowAnswer
<1>3. CASE errand[q].heard
  <2> DEFINE v == IF errand[q].kind = "preview" THEN errand[q].sheet ELSE HeaderOnly
  <2>1. page' = [page EXCEPT !.pending = FALSE, !.preview = v]
    BY <1>3 DEF ShowAnswer
  <2>2. v \in MaybeSheets
    BY <1>1 DEF RosterErrands, MaybeSheets
  <2>3. page' \in Pages /\ page'.text = page.text /\ page'.preview = v /\ page'.crossed = page.crossed
    BY <1>1, <2>1, <2>2 DEF Pages
  <2>4. page.text # HeaderOnly /\ (v # HeaderOnly /\ ~page.crossed => v = page.text)
    BY <1>3 DEF RosterInv, PreviewsAreOfTheText
  <2>5. \A r \in Assistants : errand'[r] = IF r = q THEN IdleErrand ELSE errand[r]
    BY <1>1 DEF RosterInv, RosterTables
  <2>6. RosterTables' /\ (\A r \in Assistants : SoundErrand(mailbox, workflow, errand[r]))'
    BY <1>1, <2>3, <2>5, IdleIsSound DEF RosterInv, RosterTables
  <2>7. PreviewsAreOfTheText'
    BY <2>3, <2>5, IdleIsSound DEF RosterInv, PreviewsAreOfTheText
  <2> QED
    BY <1>1, <2>3, <2>4, <2>6, <2>7 DEF RosterInv, ListedHaveAddresses, RosterIsSound,
       NoAddressTwice, ReportedAreListed, ImportsArePreviewed
<1> QED
  BY <1>2, <1>3

\* One more stage, with nothing written.
LEMMA StagesKeep ==
    ASSUME RosterInv, NEW q \in Assistants, Plan(q) \/ LookProfile(q) \/ CheckClash(q)
    PROVE  RosterInv'
<1>1. CASE Refused(q)
  BY <1>1, RefusalKeeps
<1>2. CASE ~Refused(q)
  <2>1. PICK stage \in {"answer", "list", "update", "readdress"} :
           /\ errand' = [errand EXCEPT ![q].at = stage]
           /\ errand[q].at \in {"plan", "look", "clash"}
           /\ stage \in {"list", "update"} => errand[q].at = "look"
           /\ stage = "readdress" => errand[q].at = "clash"
    BY <1>2 DEF Plan, LookProfile, CheckClash, TurnTo
  <2>2. errand[q] \in RosterErrands /\ SoundErrand(mailbox, workflow, errand[q])
    BY DEF RosterInv, RosterTables
  <2> DEFINE e == [errand[q] EXCEPT !.at = stage]
  <2>3. e \in RosterErrands /\ SoundErrand(mailbox, workflow, e)
    BY <2>1, <2>2 DEF RosterErrands, ErrandStages, SoundErrand
  <2>4. errand' = [errand EXCEPT ![q] = e] /\ e.heard = errand[q].heard /\ e.kind = errand[q].kind
        /\ e.sheet = errand[q].sheet
    BY <2>1, <2>2 DEF RosterErrands, RosterInv, RosterTables
  <2>5. UNCHANGED <<mailbox, workflow, page, counted>>
    BY <1>2 DEF Plan, LookProfile, CheckClash, SameRoster
  <2> HIDE DEF e
  <2> QED
    BY <2>3, <2>4, <2>5, ErrandGoesOn
<1> QED
  BY <1>1, <1>2

LEMMA LookingKeeps ==
    ASSUME RosterInv, NEW q \in Assistants, ReadPerson(q)
    PROVE  RosterInv'
<1> DEFINE found == {p \in People : mailbox[p] = errand[q].box}
           who == IF errand[q].who = NoOne /\ found # {} THEN CHOOSE p \in found : TRUE
                  ELSE errand[q].who
           stage == IF errand[q].who # NoOne
                    THEN IF mailbox[errand[q].who] = errand[q].box THEN "look" ELSE "clash"
                    ELSE IF found = {} THEN "insert" ELSE "look"
           e == [errand[q] EXCEPT !.who = who, !.at = stage]
<1>1. errand[q] \in RosterErrands /\ SoundErrand(mailbox, workflow, errand[q]) /\ errand[q].at = "person"
  BY DEF RosterInv, RosterTables, ReadPerson
<1>2. errand' = [errand EXCEPT ![q].who = who, ![q].at = stage]
      /\ UNCHANGED <<mailbox, workflow, page, counted>>
  BY DEF ReadPerson, SameRoster
<1>3. errand[q].box \in Mailboxes /\ errand[q].box # NoOne
  BY <1>1, RosterAssumption DEF SoundErrand
<1>4. who \in MaybePeople /\ (who = NoOne => stage = "insert")
      /\ (stage = "look" => mailbox[who] = errand[q].box) /\ (stage = "clash" => who \in People)
  <2>1. CASE errand[q].who = NoOne /\ found # {}
    <3>1. who \in found
      BY <2>1
    <3>2. who # NoOne /\ stage = "look"
      BY <2>1, <3>1, RosterAssumption
    <3> HIDE DEF who, stage
    <3> QED
      BY <3>1, <3>2 DEF MaybePeople
  <2>2. CASE errand[q].who = NoOne /\ found = {}
    BY <2>2 DEF MaybePeople
  <2>3. CASE errand[q].who # NoOne
    BY <1>1, <2>3 DEF RosterErrands, MaybePeople
  <2> QED
    BY <2>1, <2>2, <2>3
<1>5. stage \in {"look", "clash", "insert"}
  OBVIOUS
<1> HIDE DEF who, stage
<1>6. e \in RosterErrands /\ e.heard = errand[q].heard /\ e.kind = errand[q].kind /\ e.sheet = errand[q].sheet
      /\ e.at = stage /\ e.who = who /\ e.box = errand[q].box /\ e.want = errand[q].want
      /\ e.made = errand[q].made
  BY <1>1, <1>4, <1>5 DEF RosterErrands, ErrandStages
<1>7. errand' = [errand EXCEPT ![q] = e]
  BY <1>1, <1>2 DEF RosterInv, RosterTables, RosterErrands
<1> HIDE DEF e, found
<1>8. SoundErrand(mailbox, workflow, e)
  BY <1>1, <1>3, <1>4, <1>5, <1>6, RosterAssumption DEF SoundErrand, MaybePeople
<1> QED
  BY <1>2, <1>6, <1>7, <1>8, ErrandGoesOn

\* A person is made, or gets another address: the unique index stands.
LEMMA AddressesKeep ==
    ASSUME RosterInv, NEW q \in Assistants, InsertPerson(q) \/ Readdress(q)
    PROVE  RosterInv'
<1>1. CASE Refused(q)
  BY <1>1, RefusalKeeps
<1>2. CASE ~Refused(q)
  <2> DEFINE box == errand[q].box
  <2>1. /\ errand[q] \in RosterErrands /\ SoundErrand(mailbox, workflow, errand[q])
        /\ errand[q].at \in {"insert", "readdress"}
        /\ mailbox \in [People -> MaybeBoxes] /\ errand \in [Assistants -> RosterErrands]
    BY DEF RosterInv, RosterTables, InsertPerson, Readdress
  <2>2. box \in Mailboxes /\ box # NoOne
    BY <2>1, RosterAssumption DEF SoundErrand
  <2>3. PICK p \in People :
           /\ mailbox' = [mailbox EXCEPT ![p] = box]
           /\ \A o \in People \ {p} : mailbox[o] # box
           /\ errand' = [errand EXCEPT ![q].at = "look", ![q].who = p]
           /\ UNCHANGED <<workflow, page, counted>>
    <3>1. CASE InsertPerson(q)
      BY <1>2, <3>1, RosterAssumption DEF InsertPerson, MailboxFree
    <3>2. CASE Readdress(q)
      <4>1. errand[q].who \in People
        BY <2>1, <3>2 DEF Readdress, SoundErrand
      <4>2. [errand EXCEPT ![q].at = "look", ![q].who = errand[q].who] = [errand EXCEPT ![q].at = "look"]
        BY <2>1 DEF RosterErrands
      <4> QED
        BY <1>2, <3>2, <4>1, <4>2 DEF Readdress, MailboxFree, TurnTo
    <3> QED
      BY <3>1, <3>2
  <2> DEFINE e == [errand[q] EXCEPT !.at = "look", !.who = p]
  <2> HIDE DEF box
  <2>4. /\ mailbox' \in [People -> MaybeBoxes]
        /\ \A o \in People : mailbox'[o] = IF o = p THEN box ELSE mailbox[o]
    BY <2>1, <2>2, <2>3 DEF MaybeBoxes
  <2>5. e \in RosterErrands /\ e.heard = errand[q].heard /\ e.kind = errand[q].kind /\ e.sheet = errand[q].sheet
        /\ e.at = "look" /\ e.who = p /\ e.box = errand[q].box /\ e.want = errand[q].want
        /\ e.made = errand[q].made
    BY <2>1 DEF RosterErrands, ErrandStages, MaybePeople
  <2>6. errand' = [errand EXCEPT ![q] = e]
    BY <2>1, <2>3 DEF RosterErrands
  <2> HIDE DEF e
  <2>7. SoundErrand(mailbox', workflow, e)
    BY <2>1, <2>2, <2>4, <2>5 DEF SoundErrand, Listed
  <2>8. NoAddressTwice'
    BY <2>3, <2>4 DEF RosterInv, RosterIsSound, NoAddressTwice
  <2>9. ListedHaveAddresses' /\ \A o \in People : mailbox[o] # NoOne => mailbox'[o] # NoOne
    BY <2>2, <2>3, <2>4 DEF RosterInv, ListedHaveAddresses
  <2>10. workflow' = workflow /\ workflow \in [People -> Standings \cup {"none"}]
         /\ counted' = counted /\ counted \subseteq People /\ UNCHANGED page
    BY <2>3 DEF RosterInv, RosterTables
  <2> QED
    BY <2>4, <2>5, <2>6, <2>7, <2>8, <2>9, <2>10, WritingErrand
<1> QED
  BY <1>1, <1>2

\* A row is on the roster: its request goes on to the next one, or answers.
LEMMA ListingKeeps ==
    ASSUME RosterInv, NEW q \in Assistants, ListSpeaker(q) \/ UpdateSpeaker(q)
    PROVE  RosterInv'
<1>1. CASE Refused(q)
  BY <1>1, RefusalKeeps
<1>2. CASE ~Refused(q)
  <2> DEFINE o == errand[q]
             more == o.kind = "import" /\ o.row < Len(SheetRows[o.sheet])
             place == IF more THEN "person" ELSE "answer"
             row == IF more THEN o.row + 1 ELSE 0
             box == IF more THEN SheetRows[o.sheet][o.row + 1] ELSE NoOne
             made == IF more THEN o.made \cup {o.who} ELSE {}
             e == [o EXCEPT !.at = place, !.row = row, !.box = box, !.who = NoOne, !.made = made]
  <2>1. /\ o \in RosterErrands /\ SoundErrand(mailbox, workflow, o) /\ o.at \in {"list", "update"}
        /\ errand \in [Assistants -> RosterErrands]
        /\ workflow \in [People -> Standings \cup {"none"}]
    BY DEF RosterInv, RosterTables, ListSpeaker, UpdateSpeaker
  <2>2. o.who \in People /\ mailbox[o.who] # NoOne /\ o.want \in Standings /\ o.want # "none"
    BY <2>1, RosterAssumption DEF SoundErrand
  <2>3. /\ workflow' = [workflow EXCEPT ![o.who] = o.want]
        /\ RowDone(q) /\ UNCHANGED <<mailbox, page>>
    BY <1>2 DEF ListSpeaker, UpdateSpeaker, RowRefused
  <2>4. more => box \in Mailboxes
    <3> SUFFICES ASSUME more PROVE SheetRows[o.sheet][o.row + 1] \in Mailboxes
      OBVIOUS
    <3>1. o.sheet \in Sheets /\ o.row \in Nat
      BY <2>1 DEF SoundErrand, RosterErrands
    <3>2. Len(SheetRows[o.sheet]) \in Nat
      BY <3>1, SheetsAreRead
    <3>3. o.row + 1 \in 1..Len(SheetRows[o.sheet])
      BY <3>1, <3>2
    <3> QED
      BY <3>1, <3>3, SheetsAreRead
  <2>5. row \in Nat /\ place \in ErrandStages /\ box \in MaybeBoxes /\ made \in SUBSET People
    BY <2>1, <2>2, <2>4 DEF RosterErrands, ErrandStages, MaybeBoxes
  <2>6. errand' = [errand EXCEPT ![q].at = place, ![q].row = row, ![q].box = box, ![q].who = NoOne,
                                 ![q].made = made]
    BY <2>3 DEF RowDone
  <2>7. counted' \subseteq counted \cup o.made \cup {o.who}
    BY <2>3 DEF RowDone
  <2>8. place = "person" <=> more
    OBVIOUS
  <2>9. place \in {"person", "answer"} /\ made \subseteq o.made \cup {o.who}
    OBVIOUS
  <2> HIDE DEF place, row, box, made, more
  <2>10. e \in RosterErrands /\ e.heard = o.heard /\ e.kind = o.kind /\ e.sheet = o.sheet
         /\ e.at = place /\ e.box = box /\ e.want = o.want /\ e.made = made
    BY <2>1, <2>5 DEF RosterErrands, MaybePeople
  <2>11. errand' = [errand EXCEPT ![q] = e]
    BY <2>1, <2>6 DEF RosterErrands
  <2> HIDE DEF e
  <2>12. /\ workflow' \in [People -> Standings \cup {"none"}]
         /\ \A p \in People : workflow'[p] = IF p = o.who THEN o.want ELSE workflow[p]
    BY <2>1, <2>2, <2>3
  <2>13. \A p \in People : workflow[p] # "none" => workflow'[p] # "none"
    BY <2>2, <2>12
  <2>14. \A p \in o.made \cup {o.who} : Listed(mailbox, workflow', p)
    BY <2>1, <2>2, <2>12, <2>13 DEF SoundErrand, Listed
  <2>15. SoundErrand(mailbox, workflow', e)
    BY <2>1, <2>4, <2>8, <2>9, <2>10, <2>14 DEF SoundErrand
  <2>16. ListedHaveAddresses'
    BY <2>2, <2>3, <2>12 DEF RosterInv, ListedHaveAddresses
  <2>17. NoAddressTwice' /\ mailbox' = mailbox /\ mailbox \in [People -> MaybeBoxes]
    BY <2>3 DEF RosterInv, RosterTables, RosterIsSound, NoAddressTwice
  <2>18. counted' \subseteq People /\ \A p \in counted' : p \in counted \/ Listed(mailbox, workflow', p)
    BY <2>7, <2>14 DEF Listed, RosterInv, RosterTables
  <2>19. UNCHANGED page
    BY <2>3
  <2>20. SoundErrand(mailbox', workflow', e)
    BY <2>15, <2>17
  <2>21. \A p \in counted' : p \in counted \/ Listed(mailbox', workflow', p)
    BY <2>17, <2>18
  <2>22. \A p \in People : /\ mailbox[p] # NoOne => mailbox'[p] # NoOne
                           /\ workflow[p] # "none" => workflow'[p] # "none"
    BY <2>13, <2>17
  <2>23. mailbox' \in [People -> MaybeBoxes] /\ counted' \subseteq People
    BY <2>17, <2>18
  <2>24. e.heard => errand[q].heard /\ e.kind = errand[q].kind /\ e.sheet = errand[q].sheet
    BY <2>10
  <2> QED
    BY <2>10, <2>11, <2>12, <2>16, <2>17, <2>19, <2>20, <2>21, <2>22, <2>23, <2>24, WritingErrand
<1> QED
  BY <1>1, <1>2

LEMMA RosterGoesOn == RosterInv /\ [RosterNext]_rosterVars => RosterInv'
<1> SUFFICES ASSUME RosterInv, [RosterNext]_rosterVars PROVE RosterInv'
  OBVIOUS
<1>1. CASE UNCHANGED rosterVars
  BY <1>1 DEF rosterVars, RosterInv, RosterTables, ListedHaveAddresses, PreviewsAreOfTheText,
     RosterIsSound, NoAddressTwice, ReportedAreListed, ImportsArePreviewed
<1>2. CASE \E t \in Sheets : EditSheet(t)
  BY <1>2, SheetEditsKeep
<1>3. ASSUME NEW q \in Assistants,
             \/ AskPreview(q) \/ ShowAnswer(q) \/ StopListening(q) \/ Plan(q)
             \/ \E box \in Mailboxes, want \in Standings :
                   \/ AddSpeaker(q, box, want)
                   \/ \E p \in People : EditSpeaker(q, p, box, want)
             \/ \E want \in Standings :
                   \/ AskImport(q, want)
                   \/ \E t \in Sheets : ImportElsewhere(q, t, want)
             \/ ReadPerson(q) \/ InsertPerson(q) \/ CheckClash(q) \/ Readdress(q)
             \/ LookProfile(q) \/ ListSpeaker(q) \/ UpdateSpeaker(q)
      PROVE  RosterInv'
  BY <1>3, RequestsKeep, AnswersKeep, StoppingKeeps, StagesKeep, LookingKeeps, AddressesKeep, ListingKeeps
<1> QED
  BY <1>1, <1>2, <1>3 DEF RosterNext

\* Overlapping additions, edits and imports leave one person for an address,
\* report only who is listed, and import only what was previewed (roster.ts,
\* speaker-roster.tsx).
THEOREM RosterStaysSound == RosterSpec => []RosterIsSound
<1>1. RosterInv => RosterIsSound
  BY DEF RosterInv
<1> QED
  BY <1>1, RosterStarts, RosterGoesOn, PTL DEF RosterSpec

\* Whatever organizers import, add and edit at once, the roster's tables and
\* what a page and a request remember keep their types (roster.ts).
THEOREM RosterTypes == RosterSpec => []RosterTypeOK
<1>1. RosterInv => RosterTypeOK
  BY DEF RosterInv, RosterTables, Pages, RosterErrands, ErrandStages, MaybePeople, MaybeBoxes,
     MaybeSheets, RosterTypeOK
<1> QED
  BY <1>1, RosterStarts, RosterGoesOn, PTL DEF RosterSpec

-----------------------------------------------------------------------------

(***************************************************************************)
(* The eleven parts in one model (module MCWorkerDesks).                   *)
(***************************************************************************)

deskVars == <<desk, deliveryVars, importVars, draftVars, teamVars, filesVars, syncVars, reviewVars,
              standInVars, calendarVars, rosterVars, onboardingVars>>

\* A step of one desk is a step of its part, and the others stand still.
LEMMA EachDeskByItself ==
    ASSUME [DeskNext]_deskVars
    PROVE  /\ [DeliveryNext]_deliveryVars
           /\ [ImportNext]_importVars
           /\ [DraftNext]_draftVars
           /\ [TeamNext]_teamVars
           /\ [FilesNext]_filesVars
           /\ [SyncNext]_syncVars
           /\ [ReviewNext]_reviewVars
           /\ [StandInNext]_standInVars
           /\ [CalendarNext]_calendarVars
           /\ [RosterNext]_rosterVars
           /\ [OnboardingNext]_onboardingVars
BY DEF deskVars, DeskNext

\* The parts of the Worker in one model are the parts: whatever is proved of one
\* of them by itself holds of it there.
THEOREM DesksRunTheirParts ==
    DeskSpec => /\ DeliverySpec /\ ImportSpec /\ DraftSpec /\ TeamSpec /\ FilesSpec /\ SyncSpec
                /\ ReviewSpec /\ StandInSpec /\ CalendarSpec /\ RosterSpec /\ OnboardingSpec
BY EachDeskByItself, PTL
   DEF DeskSpec, DeskInit, deskVars, DeliverySpec, ImportSpec, DraftSpec, TeamSpec, FilesSpec,
       SyncSpec, ReviewSpec, StandInSpec, CalendarSpec, RosterSpec, OnboardingSpec

LEMMA SomeDeskMoves == DeskSpec => [](desk \in Desks)
<1>1. DeskInit => desk \in Desks
  BY OpenAreDesks DEF DeskInit
<1>2. desk \in Desks /\ [DeskNext]_deskVars => (desk \in Desks)'
  BY DEF DeskNext, deskVars
<1> QED
  BY <1>1, <1>2, PTL DEF DeskSpec, deskVars

\* At every desk of the Worker the tables, and what a request remembers between
\* its statements, keep their types.
THEOREM DesksKeepTheirTypes == DeskSpec => []DesksTypeOK
<1>1. (LedgerInv => DeliveryTypeOK) /\ (ImportInv => ImportTypeOK)
  BY DEF LedgerInv, ImportInv
<1>2. /\ desk \in Desks
      /\ DeliveryTypeOK /\ ImportTypeOK /\ DraftTypeOK /\ TeamTypeOK /\ FilesTypeOK /\ SyncTypeOK
      /\ ReviewTypeOK /\ StandInTypeOK /\ CalendarTypeOK /\ RosterTypeOK /\ OnboardingTypeOK
      => DesksTypeOK
  BY Zenon DEF Desks, DesksTypeOK
<1> QED
  BY <1>1, <1>2, DesksRunTheirParts, SomeDeskMoves, LedgerHolds, ImportHoldsItsInvariant, DraftTypes,
     TeamTypes, FilesTypes, SyncTypes, ReviewTypes, HandoffTypes, CalendarTypes, RosterTypes,
     OnboardingTypes, PTL

\* Every safety invariant that the run checks of one of the eleven desks holds of
\* the specification they check, whichever desks are open and for any number of
\* requests at every one of them; each says its own exceptions.
THEOREM DesksAreSafe ==
    DeskSpec => [](/\ LedgerIsTrue /\ ReportedSessionsAreReady /\ OneLinkInForce
                   /\ TeamIsSound /\ FilesAreKept /\ OutsideIsInStep /\ ReviewsHold
                   /\ AcksAreOfThisSlot /\ CalendarsFollow /\ RosterIsSound
                   /\ EveryoneHasTheirTasks)
BY DesksRunTheirParts, LedgerSafety, ReportedAreReady, LinkInForce, TeamHolds, FilesHold,
   NothingIsPushedTwice, ReviewsHoldTogether, AcksHold, CalendarsShowTheBooking, RosterStaysSound,
   NobodyGoesWithoutTasks, PTL

\* So does every action property: what one step of a request there may never do.
THEOREM DesksStepSafely ==
    DeskSpec => /\ SentIsFinal /\ OnlyTheOwnerWrites /\ NothingIsTakenBack
                /\ InvitersGrantWhatIsTheirs /\ AnsweredHandoffsStay
BY DesksRunTheirParts, SentStaysSent, OwnersWrite, DraftsTakeNothingBack, InvitersHold,
   HandoffsStay, PTL

=============================================================================
