SPECIFICATION QuietSpec
CONSTANTS
    s1 = s1  s2 = s2  r1 = r1  r2 = r2  t1 = t1  p1 = p1
    c1 = c1  q1 = q1  q2 = q2
    Submissions = {s1}
    Private = {}
    Windows <- OneWindow
    HoursChoices <- AllHours
    Rooms = {r1}
    Tracks = {}
    People = {}
    Calls = {c1, q1}
    Requests = {q1}
    MaxSequence = 1
    NoSlot = NoSlot
    NoTrack = NoTrack
INVARIANTS
    WithdrawnHoldsNoSlot
