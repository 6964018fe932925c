SPECIFICATION DecisionsSpec
CONSTANTS
    Approvals = {1, 2}
    Commands = {rm}
    ShellCommands = {rm}
    Callers = {c1, c2}
    Ttls = {1}
    MaxTime = 2
    Users = {u1, u2, u3}
    Options = {o1, o2}
    NoOption = NoOption
SYMMETRY CallerSymmetry
CHECK_DEADLOCK FALSE
INVARIANTS
    UsedOnce
    FollowUpTruthful
    AcceptedResumes
