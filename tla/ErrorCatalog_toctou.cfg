\* One caller and an editor saving the file while a reload parses it.
CONSTANTS
    Threads = {t1}
    Names <- MCNames
    SqlStates <- MCSqlStates
    Paths = {"module", "dir"}
    ModulePath = "module"
    DirPath = "dir"
    EnvPath = ""
    NoPath = ""
    Defaults <- MCDefaults
    Content <- MCContent
    InitFile <- MCInitFile
    Ops = {"translate"}
    MaxVersion = 1
    MaxTime = 2
    MaxCalls = 2
SPECIFICATION Spec
INVARIANT RecordedMtimeIsLoadedVersion
