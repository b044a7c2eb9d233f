\* What happens in the end: handlers, queue and cockpit, each at its own desk.
\* Sessions, operations and pages come to rest.
SPECIFICATION LiveSpec
CONSTANTS
    s1 = s1  s2 = s2  r1 = r1  r2 = r2  t1 = t1  p1 = p1
    c1 = c1  q1 = q1  q2 = q2
    o1 = o1  o2 = o2  o3 = o3
    Submissions = {s1}
    Private = {}
    Windows <- OneWindow
    HoursChoices <- AllHours
    Rooms = {r1}
    Tracks = {}
    People = {p1}
    Calls = {c1, q1, q2}
    Requests = {q1, q2}
    MaxSequence = 1
    NoSlot = NoSlot
    NoTrack = NoTrack
    Operations = {o1, o2, o3}
    AlreadyResolved = AlreadyResolved
    LastChange = 2
INVARIANTS
    OneAtATime
    InOrderOfArrival
    ConnectionsAreSound
PROPERTIES
    RequestsEnd
    EveryCallIsServed
    PollingCatchesUp
CHECK_DEADLOCK FALSE
