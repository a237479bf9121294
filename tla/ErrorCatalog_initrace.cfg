\* Two first callers: the loser of the gate looks its name up before the winner has seeded the table.
CONSTANTS
    Threads = {t1, t2}
    Names <- MCNames
    SqlStates <- MCSqlStates
    Paths = {"module", "dir"}
    ModulePath = "module"
    DirPath = "dir"
    EnvPath = ""
    NoPath = ""
    Defaults <- MCDefaults
    Content <- MCContent
    InitFile <- MCInitFile
    Ops = {"translate"}
    MaxVersion = 0
    MaxTime = 1
    MaxCalls = 1
SPECIFICATION Spec
INVARIANT ClassifiedAgainstSeededCatalog
