\* A translation reads its row while another thread's reload rewrites it.
CONSTANTS
    Threads = {t1, t2}
    Names <- MCNames
    SqlStates <- MCSqlStates
    Paths = {"module", "dir"}
    ModulePath = "module"
    DirPath = "dir"
    EnvPath = ""
    NoPath = ""
    Defaults <- MCDefaults
    Content <- MCContent
    InitFile <- MCInitFile
    Ops = {"translate", "reload"}
    MaxVersion = 1
    MaxTime = 2
    MaxCalls = 1
SPECIFICATION Spec
INVARIANT NoTornRead
