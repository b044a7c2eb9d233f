\* One request at a time: the old link of a revived speaker works again.
CONSTANTS
    Speakers = {s1}
    MaxGeneration = 2
    Keys <- MCKeys
    Workers = {w1}
    Lease = 1
    Tries = 1
    MaxTime = 1
SPECIFICATION Spec
INVARIANT RetiredLinkIsDead
