CONSTANTS
    Nodes = {self, n1}
    Self = self
    MaxChanges = 2
    EtcdMayFail = FALSE
SPECIFICATION FairSpec
PROPERTY RingFollows
CHECK_DEADLOCK FALSE
