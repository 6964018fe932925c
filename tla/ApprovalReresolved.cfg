SPECIFICATION Spec
CONSTANTS
    Approvals = {1}
    Commands = {rm, patch}
    ShellCommands = {rm}
    Callers = {c1, c2}
    Ttls = {1}
    MaxTime = 1
PROPERTIES ResolutionFinal
