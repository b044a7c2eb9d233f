\* Two speakers, an acceptance and a confirmation at once.
SPECIFICATION OnboardingSpec
CONSTANTS
    b1 = b1  b2 = b2
    Billed <- TwoSpeakers
    Standard = {k1}
    Requested = {k2}
    Helpers = {q1, q2}
    LastDeed = 2
INVARIANT NobodyIsPassedOver
CHECK_DEADLOCK FALSE
