CONSTANTS
    Nodes = {self, n1, n2}
    Self = self
    MaxChanges = 4
    EtcdMayFail = TRUE
SPECIFICATION FairSpec
INVARIANTS TypeOK RingIsSnapshot BehindIsNotified
PROPERTY RingFollowsUnlessLost
\* The endpoints may stop changing, or the process have panicked.
CHECK_DEADLOCK FALSE
