\* Placing with two callers, and every operation with one.
SPECIFICATION RoomSpec
CONSTANTS
    s1 = s1  s2 = s2  r1 = r1  r2 = r2  t1 = t1  t2 = t2  p1 = p1
    c1 = c1  c2 = c2
    Submissions = {s1, s2}
    Private <- OnePrivate
    Windows <- ThreeWindows
    HoursChoices <- HoursOfBoth
    Rooms = {r1, r2}
    Tracks = {t1, t2}
    People = {p1}
    Calls = {c1, c2}
    MaxSequence = 2
    NoSlot = NoSlot
    NoTrack = NoTrack
SYMMETRY Symmetry
INVARIANTS
    TypeOK
    RoomsNotDoubleBooked
    SpeakersNotDoubleBooked
    SlotsFitTheEvent
PROPERTIES
    SlotChangesBumpSequence
    HardTracksHold
    PublishedTextIsApproved
