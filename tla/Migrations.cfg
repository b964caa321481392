SPECIFICATION Spec
CONSTANTS
    w1 = w1
    w2 = w2
    Workers = {w1, w2}
    Releases <- MCReleases
    MaxKills = 1
    MaxLeft = 1
    Nobody = Nobody
INVARIANTS ServesCurrentSchema StartsUnlessOvertaken
PROPERTIES NothingLost
SYMMETRY Symmetry
CHECK_DEADLOCK FALSE
