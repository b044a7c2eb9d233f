\* Eleven parts of the Worker, each with two requests (uploads: three) at once.
SPECIFICATION DeskSpec
SYMMETRY RequestsAreAlike
VIEW OwnTables
CONSTANTS
    OpenDesks = {"mail", "import", "drafts", "team", "reviews", "files", "sync",
                 "standins", "calendars", "roster", "onboarding"}
    p1 = p1  p2 = p2  s1 = s1  t1 = t1  f1 = f1  r1 = r1  j1 = j1  j2 = j2
    a1 = a1  a2 = a2  x1 = x1  x2 = x2  b1 = b1  b2 = b2
    q1 = q1  q2 = q2
    \* EmailDelivery
    Keys = {k1}
    Workers = {q1, q2}
    Lease = 2
    Tries = 3
    MaxTime = 4
    \* SessionImport
    Sessions = {s1}
    FromCsv = {s1}
    Persons = {p1, p2}
    Lineup <- LineupOfTwo
    Importers = {q1, q2}
    ClaimLease = 1
    LastTick = 1
    \* CfpDrafts
    Fetches = {q1, q2}
    Grace = 0
    Ttl = 0
    LastEdit = 1
    LastToken = 3
    LastHour = 1
    \* EventTeam
    Accounts = {a1, a2}
    Founder = a1
    Team = {a1, a2}
    Links = {l1}
    Guests = {q1, q2}
    LinkTtl = 0
    LastMinute = 1
    \* SpeakerFiles
    Uploads = {q1, q2, q3}
    \* AcceleventsSync
    Talks = {t1}
    Faces = {f1}
    OnStage <- OneFace
    Runs = {q1, q2}
    LastVersion = 1
    Platforms = {g1, g2}
    LastConnection = 1
    \* ReviewRounds
    Rounds = {r1, r2}
    Judges = {j1, j2}
    RoundOf <- OneRound
    Papers = {c1}
    Cap = 1
    Clerks = {q1, q2}
    \* SpeakerStandIns
    Handoffs = {h1, h2}
    Taps = {q1, q2}
    LastSequence = 2
    \* CalendarMail
    Invitees = {i1, i2}
    Submitter = i1
    Inboxes = {i1}
    Spots = {x1, x2}
    Off = Off
    Notifiers = {q1, q2}
    LastEdition = 2
    \* RosterDesk
    People = {e1, e2}
    Mailboxes = {a1, a2}
    NoOne = NoOne
    Sheets = {x1, x2}
    SheetRows <- TwoSheets
    Standings = {"invited"}
    HeaderOnly = HeaderOnly
    Assistants = {q1, q2}
    \* Onboarding
    Billed <- TwoSpeakers
    Standard = {k1}
    Requested = {k2}
    Helpers = {q1, q2}
    LastDeed = 3
CONSTRAINTS
    FewLateLinks
    OneEdited
INVARIANTS
    DesksTypeOK
    LedgerIsTrue
    ReportedSessionsAreReady
    OneLinkInForce
    TeamIsSound
    ReviewsHold
    FilesAreKept
    OutsideIsInStep
    AcksAreOfThisSlot
    CalendarsFollow
    RosterIsSound
    EveryoneHasTheirTasks
PROPERTIES
    AnsweredHandoffsStay
    SentIsFinal
    OnlyTheOwnerWrites
    NothingIsTakenBack
    InvitersGrantWhatIsTheirs
\* Requests end, clocks and counters are bounded.
CHECK_DEADLOCK FALSE
