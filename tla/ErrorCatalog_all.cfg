\* All public operations, two threads, one edit of each file.
CONSTANTS
    Threads = {t1, t2}
    Names <- MCNames
    SqlStates <- MCSqlStates
    Paths = {"module", "dir"}
    ModulePath = "module"
    DirPath = "dir"
    EnvPath = ""
    NoPath = ""
    Defaults <- MCDefaults
    Content <- MCContent
    InitFile <- MCInitFile
    Ops = {"translate", "reload", "setdir"}
    MaxVersion = 1
    MaxTime = 2
    MaxCalls = 2
SPECIFICATION Spec
SYMMETRY ThreadSymmetry
INVARIANT TypeOK
INVARIANT SeededOnce
PROPERTY EntriesNeverDropped
PROPERTY CatalogRefinement
