CONSTANTS
    p1 = p1
    n1 = n1
    n2 = n2
    None = None
    Partitions = {p1}
    Assignments = {{p1}}
    Nodes = {n1}
    RebalanceCb = TRUE
    AutoCommit = TRUE
    CommitThread = FALSE
    AssignAnytime = FALSE
    MaxRetries = 0
    MaxQueries = 1
    MaxCommits = 1
    MaxRebalances = 1
    MaxFaults = 0
    MaxSubscribes = 1
    MaxCalls = 2
SPECIFICATION FairSpec
CHECK_DEADLOCK FALSE
INVARIANTS Bookkeeping RebalanceOrderly
PROPERTIES Consumes IsGroupMember
