CONSTANTS
    p1 = p1
    n1 = n1
    n2 = n2
    None = None
    Partitions = {p1}
    Assignments = {{p1}}
    Nodes = {n1, n2}
    RebalanceCb = TRUE
    AutoCommit = FALSE
    CommitThread = FALSE
    AssignAnytime = TRUE
    MaxRetries = 1
    MaxQueries = 1
    MaxCommits = 1
    MaxRebalances = 0
    MaxFaults = 1
    MaxSubscribes = 1
    MaxCalls = 1
SPECIFICATION FairSpec
CHECK_DEADLOCK FALSE
PROPERTIES Closes
