\* Two threads race through their first FromTrinoJson calls; the override
\* file is not edited (it may be deleted).
CONSTANTS
    Threads = {t1, t2}
    Names <- MCNames
    SqlStates <- MCSqlStates
    Paths = {"module", "dir"}
    ModulePath = "module"
    DirPath = "dir"
    EnvPath = ""
    NoPath = ""
    Defaults <- MCDefaults
    Content <- MCContent
    InitFile <- MCInitFile
    Ops = {"translate"}
    MaxVersion = 0
    MaxTime = 1
    MaxCalls = 2
SPECIFICATION Spec
PROPERTY OverrideEventuallyInEffect
