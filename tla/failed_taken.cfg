\* A message the provider has taken on is recorded as a confirmed failure.
CONSTANTS
    Keys = {k1}
    Workers = {w1, w2}
    Lease = 2
    Tries = 3
    MaxTime = 4
SPECIFICATION DeliverySpec
INVARIANT FailedWasNotTaken
