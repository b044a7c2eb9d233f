\* Invitations, contacts, the agenda page and a form, each with two requests at once.
SPECIFICATION OrganizerSpec
SYMMETRY RequestsAreAlike
VIEW AllButRetired
CONSTANTS
    OpenDesks = {"invitations", "contacts", "board", "forms"}
    b1 = b1  b2 = b2  g1 = g1  q1 = q1  q2 = q2
    \* CoSpeakers on EmailDelivery
    Speakers = {s1}
    MaxGeneration = 2
    Keys <- ClaimKeys
    Workers = {q1, q2}
    Lease = 1
    Tries = 1
    MaxTime = 1
    \* ContactBook
    Contacts = {c1, c2, c3}
    Addresses = {a1, a2}
    Jottings = {n1}
    Callers = {q1, q2}
    \* AgendaBoard
    Board <- TwoItems
    Halls <- TwoHalls
    DayEnd = 2
    RunsFor <- ShortAndLong
    Voices <- NobodySpeaks
    Themes = {m1}
    HardThemes = TRUE
    Fetchers = {q1, q2}
    LastClick = 2
    LastElsewhere = 1
    Unset = Unset
    \* FormDesk
    Fields = {f1, f2}
    FieldKeys = {k1, k2, k3}
    NoKey = NoKey
    Editors = {q1, q2}
    LastRevision = 1
    LastPaper = 1
CONSTRAINTS
    UntilCrossed
    OneFieldOnceShown
INVARIANTS
    OrganizerTypeOK
    LiveLinkIsClaimed
    BookIsWhole
    BoardAgrees
    FormIsWhole
PROPERTIES
    RotationIsJustified
    MergesGoThrough
    PlansAreAcceptable
CHECK_DEADLOCK FALSE
