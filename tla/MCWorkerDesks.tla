----------------------------- MODULE MCWorkerDesks -----------------------------
(***************************************************************************)
(* Eleven parts of the Worker that share no table, in one model: a         *)
(* behaviour is one of the part its desk names, and the others stand still.*)
(* What is checked of it is what is checked of each part by itself.  A run *)
(* opens the desks it names.                                               *)
(***************************************************************************)
EXTENDS EmailDelivery, SessionImport, CfpDrafts, EventTeam, SpeakerFiles,
        AcceleventsSync, ReviewRounds, SpeakerStandIns, CalendarMail, RosterDesk,
        Onboarding, TLC

CONSTANTS p1, p2, s1, t1, f1, r1, j1, j2, a1, a2, x1, x2, b1, b2, q1, q2

CONSTANT OpenDesks

Desks == {"mail", "import", "drafts", "team", "files", "sync", "reviews", "standins",
          "calendars", "roster", "onboarding"}

ASSUME OpenAreDesks == OpenDesks \subseteq Desks

VARIABLE desk

LineupOfTwo == s1 :> <<p1, p2>>
OneFace == t1 :> {f1}
OneRound == (j1 :> r1) @@ (j2 :> r1)
TwoSpeakers == <<b1, b2>>
TwoSheets == (x1 :> <<a1>>) @@ (x2 :> <<a2, a1>>)

\* The requests of every desk; nothing tells one from the other.
RequestsAreAlike == Permutations({q1, q2})

DeskInit ==
    /\ desk \in OpenDesks
    /\ DeliveryInit
    /\ ImportInit
    /\ DraftInit
    /\ TeamInit
    /\ FilesInit
    /\ SyncInit
    /\ ReviewInit
    /\ StandInInit
    /\ CalendarInit
    /\ RosterInit
    /\ OnboardingInit

DeskNext ==
    \/ /\ desk = "mail" /\ DeliveryNext
       /\ UNCHANGED <<desk, importVars, draftVars, teamVars, filesVars, syncVars,
                      reviewVars, standInVars, calendarVars, rosterVars, onboardingVars>>
    \/ /\ desk = "import" /\ ImportNext
       /\ UNCHANGED <<desk, deliveryVars, draftVars, teamVars, filesVars, syncVars,
                      reviewVars, standInVars, calendarVars, rosterVars, onboardingVars>>
    \/ /\ desk = "drafts" /\ DraftNext
       /\ UNCHANGED <<desk, deliveryVars, importVars, teamVars, filesVars, syncVars,
                      reviewVars, standInVars, calendarVars, rosterVars, onboardingVars>>
    \/ /\ desk = "team" /\ TeamNext
       /\ UNCHANGED <<desk, deliveryVars, importVars, draftVars, filesVars, syncVars,
                      reviewVars, standInVars, calendarVars, rosterVars, onboardingVars>>
    \/ /\ desk = "files" /\ FilesNext
       /\ UNCHANGED <<desk, deliveryVars, importVars, draftVars, teamVars, syncVars,
                      reviewVars, standInVars, calendarVars, rosterVars, onboardingVars>>
    \/ /\ desk = "sync" /\ SyncNext
       /\ UNCHANGED <<desk, deliveryVars, importVars, draftVars, teamVars, filesVars,
                      reviewVars, standInVars, calendarVars, rosterVars, onboardingVars>>
    \/ /\ desk = "reviews" /\ ReviewNext
       /\ UNCHANGED <<desk, deliveryVars, importVars, draftVars, teamVars, filesVars,
                      syncVars, standInVars, calendarVars, rosterVars, onboardingVars>>
    \/ /\ desk = "standins" /\ StandInNext
       /\ UNCHANGED <<desk, deliveryVars, importVars, draftVars, teamVars, filesVars,
                      syncVars, reviewVars, calendarVars, rosterVars, onboardingVars>>
    \/ /\ desk = "calendars" /\ CalendarNext
       /\ UNCHANGED <<desk, deliveryVars, importVars, draftVars, teamVars, filesVars,
                      syncVars, reviewVars, standInVars, rosterVars, onboardingVars>>
    \/ /\ desk = "roster" /\ RosterNext
       /\ UNCHANGED <<desk, deliveryVars, importVars, draftVars, teamVars, filesVars,
                      syncVars, reviewVars, standInVars, calendarVars, onboardingVars>>
    \/ /\ desk = "onboarding" /\ OnboardingNext
       /\ UNCHANGED <<desk, deliveryVars, importVars, draftVars, teamVars, filesVars,
                      syncVars, reviewVars, standInVars, calendarVars, rosterVars>>

DeskSpec ==
    DeskInit /\ [][DeskNext]_<<desk, deliveryVars, importVars, draftVars, teamVars,
                               filesVars, syncVars, reviewVars, standInVars, calendarVars,
                               rosterVars, onboardingVars>>

\* Bound of the run on drafts: of the tokens given out after the tick of the
\* calendar, the last one ends it.
FewLateLinks == hour = 0 \/ Len(tokens) < LastToken

\* Bound of the run on sync: one item is edited, whichever it is.
OneEdited == \A x, y \in Items : source[x] > 0 /\ source[y] > 0 => x = y

\* The other desks are as they began.
OwnTables ==
    CASE desk = "mail" -> <<desk, deliveryVars>>
      [] desk = "import" -> <<desk, importVars>>
      [] desk = "drafts" -> <<desk, draftVars>>
      [] desk = "team" -> <<desk, teamVars>>
      [] desk = "files" -> <<desk, filesVars>>
      [] desk = "sync" -> <<desk, syncVars>>
      [] desk = "reviews" -> <<desk, reviewVars>>
      [] desk = "standins" -> <<desk, standInVars>>
      [] desk = "calendars" -> <<desk, calendarVars>>
      [] desk = "roster" -> <<desk, rosterVars>>
      [] desk = "onboarding" -> <<desk, onboardingVars>>

\* The tables and what is remembered between their steps hold what their types
\* say, at the desk that moves.
DesksTypeOK ==
    CASE desk = "mail" -> DeliveryTypeOK
      [] desk = "import" -> ImportTypeOK
      [] desk = "drafts" -> DraftTypeOK
      [] desk = "team" -> TeamTypeOK
      [] desk = "files" -> FilesTypeOK
      [] desk = "sync" -> SyncTypeOK
      [] desk = "reviews" -> ReviewTypeOK
      [] desk = "standins" -> StandInTypeOK
      [] desk = "calendars" -> CalendarTypeOK
      [] desk = "roster" -> RosterTypeOK
      [] desk = "onboarding" -> OnboardingTypeOK
================================================================================
