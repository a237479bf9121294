---------------------------- MODULE ErrorCatalog ----------------------------
(***************************************************************************)
(* The process-wide Trino error catalog of                                 *)
(* src/src/trinoAPIWrapper/TrinoOdbcErrorHandler.cpp: the table           *)
(* g_catalog (error name -> SQLSTATE row), the one-shot gate              *)
(* g_initialized, the reload bookkeeping (g_effective_path, g_last_mtime, *)
(* g_loaded_once, g_config_dir) and the override file on disk.            *)
(*                                                                         *)
(* Caller threads run the public operations FromTrinoJson (only its       *)
(* catalog part: ensureInitialized, maybeAutoReloadFromDisk and the row   *)
(* lookup), ReloadMappingFromJson and SetConfigDirectory.  Every          *)
(* section the code runs under g_mutex is one atomic step, except that    *)
(* the two writers of the table (buildCompiledDefaults and the merge loop *)
(* of ReloadMappingFromJson) take the lock in one step and write in the   *)
(* next, so that an unlocked reader can overlap the write.  The file is   *)
(* edited by the environment at any time.                                  *)
(*                                                                         *)
(* Data is abstracted to one field per row, the SQLSTATE (the trino_code  *)
(* and description fields are merged by the same rule); a file version   *)
(* is what json::parse and the 'entries' check make of it.               *)
(***************************************************************************)
EXTENDS Integers, FiniteSets

CONSTANTS
    Threads,     \* caller threads of the driver
    Names,       \* canonical Trino error names (catalog keys)
    SqlStates,   \* SQLSTATE values a row may carry ("" means: fall back)
    Paths,       \* locations a trino_odbc_errors.json may be at
    ModulePath,  \* module_dir() joined with the default file name
    DirPath,     \* g_config_dir joined with the default file name
    EnvPath,     \* TRINO_ODBC_ERRORMAP_PATH, or NoPath when unset
    NoPath,      \* the empty path string
    Defaults,    \* kDefaults: [Names -> SqlStates \cup {NoEntry}]
    Content,     \* Content[p][v]: what parsing version v of file p yields
    InitFile,    \* the files on disk when the process starts
    Ops,         \* which public operations the callers use
    MaxVersion,  \* bound on edits of one file
    MaxTime,     \* bound on the file-system clock
    MaxCalls     \* bound on calls per thread

NoEntry == "no-row"      \* g_catalog.find(name) == end()
NoTime  == -1            \* file_time_type::min(), last_write_time failed
Torn    == "torn-read"   \* a row read while it is written or freed
None    == "none"        \* no thread holds g_mutex

(* An entry of the 'entries' array for one name: its "sqlstate" string,  *)
(* "inherit" when the entry has no well-typed "sqlstate", or "absent"    *)
(* when the file has no entry with that name.                            *)
Override == SqlStates \cup {"inherit", "absent"}
Parsed   == [Names -> Override]
NoChange == [n \in Names |-> "absent"]
Versions == 0..MaxVersion
Times    == 0..MaxTime
FileRec  == [exists : BOOLEAN, version : Versions, mtime : Times]

ASSUME /\ "" \in SqlStates
       /\ {ModulePath, DirPath} \subseteq Paths
       /\ EnvPath \in Paths \cup {NoPath}
       /\ Defaults \in [Names -> SqlStates \cup {NoEntry}]
       /\ \A p \in Paths, v \in Versions : Content[p][v] \in [valid : BOOLEAN, entries : Parsed]
       /\ InitFile \in [Paths -> FileRec]
       /\ Ops \subseteq {"translate", "reload", "setdir"}

VARIABLES
    catalog,        \* g_catalog: [Names -> SqlStates \cup {NoEntry}]
    initialized,    \* g_initialized
    dirPinned,      \* g_config_dir is non-empty
    effectivePath,  \* g_effective_path
    lastMtime,      \* g_last_mtime
    loadedOnce,     \* g_loaded_once
    holder,         \* thread holding g_mutex across a two-step write
    file,           \* the files on disk
    now,            \* file-system clock, stamps each edit
    pc,             \* where each thread is in its current call
    lc,             \* each thread's locals
    calls,          \* calls each thread has made
    seeds,          \* history: buildCompiledDefaults runs completed
    loadedFrom      \* history: file and version the last merge applied

vars == <<catalog, initialized, dirPinned, effectivePath, lastMtime,
          loadedOnce, holder, file, now, pc, lc, calls, seeds, loadedFrom>>

PCs == {"idle", "cas", "seed", "fill", "parse", "apply", "write",
        "probe", "lookup", "read"}

Local == [op : Ops \cup {"none"}, req : Paths \cup {NoPath},
          path : Paths \cup {NoPath}, k : {"resume", "lookup", "idle"},
          parsed : Parsed, version : Versions,
          name : Names, found : BOOLEAN, seedsAt : Nat,
          seen : SqlStates \cup {NoEntry, Torn, None}]

-----------------------------------------------------------------------------
(* resolve_default_json_path: environment variable, then the pinned       *)
(* directory, then the module directory.                                  *)
Resolve == IF EnvPath # NoPath THEN EnvPath
           ELSE IF dirPinned THEN DirPath ELSE ModulePath

(* Variant of Merge with a plausible mistake: an entry's field is taken  *)
(* as it is in the file, without the is_string test and the fallback to *)
(* the existing row.                                                     *)
MergeRaw(cat, parsed) ==
    [n \in Names |-> IF parsed[n] = "absent" THEN cat[n] ELSE parsed[n]]

(* Variant of Merge with a plausible mistake: the reload rebuilds each   *)
(* row from kDefaults and the file instead of upserting into the table.  *)
MergeRebuild(cat, parsed) ==
    [n \in Names |->
        IF parsed[n] = "absent" THEN Defaults[n]
        ELSE IF parsed[n] = "inherit"
             THEN IF cat[n] = NoEntry THEN "" ELSE cat[n]
             ELSE parsed[n]]

(* Variant of Merge with a plausible mistake: an insert-only upsert (as  *)
(* with std::map::emplace) that never overwrites a row already present.  *)
MergeInsertOnly(cat, parsed) ==
    [n \in Names |->
        IF parsed[n] = "absent" \/ cat[n] # NoEntry THEN cat[n]
        ELSE IF parsed[n] = "inherit" THEN "" ELSE parsed[n]]

(* The merge loop of ReloadMappingFromJson: an upsert by name in which a *)
(* missing field inherits the existing row, or "" for a new row.         *)
Merge(cat, parsed) ==
    [n \in Names |->
        IF parsed[n] = "absent" THEN cat[n]
        ELSE IF parsed[n] = "inherit"
             THEN IF cat[n] = NoEntry THEN "" ELSE cat[n]
             ELSE parsed[n]]

(* Start ReloadMappingFromJson(p); k is where the caller resumes.         *)
StartLoad(t, p, k) ==
    /\ pc' = [pc EXCEPT ![t] = "parse"]
    /\ lc' = [lc EXCEPT ![t].path = p, ![t].k = k]

(* What a call does once ensureInitialized has returned.                  *)
Resume(t) ==
    IF lc[t].op = "translate"
    THEN pc' = [pc EXCEPT ![t] = "probe"] /\ UNCHANGED lc
    ELSE StartLoad(t, lc[t].req, "idle")

(* A thread's locals between calls; only the last row read is kept.      *)
Between(seen) ==
    [op |-> "none", req |-> NoPath, path |-> NoPath, k |-> "idle",
     parsed |-> NoChange, version |-> 0, name |-> CHOOSE n \in Names : TRUE,
     found |-> FALSE, seedsAt |-> 0, seen |-> seen]

(* Return to the caller of a reload: resume, go on to the lookup, or     *)
(* return from the public call.                                          *)
Continue(t, k) ==
    \/ k = "resume" /\ Resume(t)
    \/ k = "lookup" /\ pc' = [pc EXCEPT ![t] = "lookup"] /\ UNCHANGED lc
    \/ k = "idle" /\ pc' = [pc EXCEPT ![t] = "idle"]
                  /\ lc' = [lc EXCEPT ![t] = Between(None)]

-----------------------------------------------------------------------------
Init ==
    /\ catalog = [n \in Names |-> NoEntry]
    /\ initialized = FALSE
    /\ dirPinned = FALSE
    /\ effectivePath = NoPath
    /\ lastMtime = 0
    /\ loadedOnce = FALSE
    /\ holder = None
    /\ file = InitFile
    /\ now = 1
    /\ pc = [t \in Threads |-> "idle"]
    /\ lc = [t \in Threads |-> Between(None)]
    /\ calls = [t \in Threads |-> 0]
    /\ seeds = 0
    /\ loadedFrom = [path |-> NoPath, version |-> 0]

Bookkeeping == <<effectivePath, lastMtime, loadedOnce>>
Disk == <<file, now>>

(* FromTrinoJson(err, queryId) for an error named n.                      *)
BeginTranslate(t, n) ==
    /\ "translate" \in Ops
    /\ pc[t] = "idle" /\ calls[t] < MaxCalls
    /\ pc' = [pc EXCEPT ![t] = "cas"]
    /\ lc' = [lc EXCEPT ![t].op = "translate", ![t].name = n, ![t].seen = None]
    /\ calls' = [calls EXCEPT ![t] = @ + 1]
    /\ UNCHANGED <<catalog, initialized, dirPinned, Bookkeeping, holder,
                   Disk, seeds, loadedFrom>>

(* ReloadMappingFromJson(p), p = NoPath for the default search order.     *)
BeginReload(t, p) ==
    /\ "reload" \in Ops
    /\ pc[t] = "idle" /\ calls[t] < MaxCalls
    /\ pc' = [pc EXCEPT ![t] = "cas"]
    /\ lc' = [lc EXCEPT ![t].op = "reload", ![t].req = p, ![t].seen = None]
    /\ calls' = [calls EXCEPT ![t] = @ + 1]
    /\ UNCHANGED <<catalog, initialized, dirPinned, Bookkeeping, holder,
                   Disk, seeds, loadedFrom>>

(* SetConfigDirectory(dir): pins a directory (TRUE) or clears it.         *)
SetConfigDirectory(t, pinned) ==
    /\ "setdir" \in Ops
    /\ pc[t] = "idle" /\ calls[t] < MaxCalls /\ holder = None
    /\ dirPinned' = pinned
    /\ calls' = [calls EXCEPT ![t] = @ + 1]
    /\ UNCHANGED <<catalog, initialized, Bookkeeping, holder, Disk, pc, lc,
                   seeds, loadedFrom>>

(* Variant of EnsureInitialized with a plausible mistake: the gate is    *)
(* tested but never claimed.                                              *)
EnsureInitializedUnclaimed(t) ==
    /\ pc[t] = "cas"
    /\ IF ~initialized
       THEN /\ pc' = [pc EXCEPT ![t] = "seed"]
            /\ UNCHANGED lc
       ELSE Resume(t)
    /\ UNCHANGED <<initialized, catalog, dirPinned, Bookkeeping, holder, Disk,
                   calls, seeds, loadedFrom>>

(* ensureInitialized: compare_exchange_strong on g_initialized.           *)
EnsureInitialized(t) ==
    /\ pc[t] = "cas"
    /\ IF ~initialized
       THEN /\ initialized' = TRUE
            /\ pc' = [pc EXCEPT ![t] = "seed"]
            /\ UNCHANGED lc
       ELSE /\ Resume(t)
            /\ UNCHANGED initialized
    /\ UNCHANGED <<catalog, dirPinned, Bookkeeping, holder, Disk, calls,
                   seeds, loadedFrom>>

(* Variant of Fill with a plausible mistake: ensureInitialized seeds the *)
(* table but makes no initial ReloadMappingFromJson({}).                  *)
FillNoInitialLoad(t) ==
    /\ pc[t] = "fill"
    /\ catalog' = Defaults
    /\ seeds' = seeds + 1
    /\ holder' = None
    /\ Resume(t)
    /\ UNCHANGED <<initialized, dirPinned, Bookkeeping, Disk, calls, loadedFrom>>

(* buildCompiledDefaults takes g_mutex ...                                 *)
SeedLock(t) ==
    /\ pc[t] = "seed" /\ holder = None
    /\ holder' = t
    /\ pc' = [pc EXCEPT ![t] = "fill"]
    /\ UNCHANGED <<catalog, initialized, dirPinned, Bookkeeping, Disk, lc,
                   calls, seeds, loadedFrom>>

(* ... clears g_catalog and fills it from kDefaults; ensureInitialized    *)
(* then makes its best-effort ReloadMappingFromJson({}).                  *)
Fill(t) ==
    /\ pc[t] = "fill"
    /\ catalog' = Defaults
    /\ seeds' = seeds + 1
    /\ holder' = None
    /\ StartLoad(t, NoPath, "resume")
    /\ UNCHANGED <<initialized, dirPinned, Bookkeeping, Disk, calls, loadedFrom>>

(* ReloadMappingFromJson up to the lock: resolve the path, check it       *)
(* exists, open and parse it, check for the 'entries' array.  Any         *)
(* failure returns false with nothing changed.                            *)
ParseFile(t) ==
    /\ pc[t] = "parse"
    /\ LET p == IF lc[t].path = NoPath THEN Resolve ELSE lc[t].path
           c == Content[p][file[p].version]
       IN IF file[p].exists /\ c.valid
          THEN /\ pc' = [pc EXCEPT ![t] = "apply"]
               /\ lc' = [lc EXCEPT ![t].path = p, ![t].parsed = c.entries,
                                   ![t].version = file[p].version]
          ELSE Continue(t, lc[t].k)
    /\ UNCHANGED <<catalog, initialized, dirPinned, Bookkeeping, holder,
                   Disk, calls, seeds, loadedFrom>>

(* ReloadMappingFromJson takes g_mutex for the merge ...                  *)
ApplyLock(t) ==
    /\ pc[t] = "apply" /\ holder = None
    /\ holder' = t
    /\ pc' = [pc EXCEPT ![t] = "write"]
    /\ UNCHANGED <<catalog, initialized, dirPinned, Bookkeeping, Disk, lc,
                   calls, seeds, loadedFrom>>

(* ... upserts every entry, then records the file's mtime as it is now,   *)
(* the path and g_loaded_once, and returns true.                          *)
WriteCatalog(t) ==
    /\ pc[t] = "write"
    /\ LET p == lc[t].path IN
       /\ catalog' = Merge(catalog, lc[t].parsed)
       /\ lastMtime' = IF file[p].exists THEN file[p].mtime ELSE NoTime
       /\ effectivePath' = p
       /\ loadedOnce' = TRUE
       /\ loadedFrom' = [path |-> p, version |-> lc[t].version]
    /\ holder' = None
    /\ Continue(t, lc[t].k)
    /\ UNCHANGED <<initialized, dirPinned, Disk, calls, seeds>>

(* maybeAutoReloadFromDisk: reload when the resolved file exists and it  *)
(* was never loaded or its mtime differs from g_last_mtime.              *)
Probe(t) ==
    /\ pc[t] = "probe"
    /\ LET p == Resolve IN
       IF file[p].exists /\ (~loadedOnce \/ file[p].mtime # lastMtime)
       THEN StartLoad(t, p, "lookup")
       ELSE pc' = [pc EXCEPT ![t] = "lookup"] /\ UNCHANGED lc
    /\ UNCHANGED <<catalog, initialized, dirPinned, Bookkeeping, holder,
                   Disk, calls, seeds, loadedFrom>>

(* LookupEntryByName: find under g_mutex, return a pointer to the row.    *)
LookupEntryByName(t) ==
    /\ pc[t] = "lookup" /\ holder = None
    /\ lc' = [lc EXCEPT ![t].found = (catalog[lc[t].name] # NoEntry),
                        ![t].seedsAt = seeds]
    /\ pc' = [pc EXCEPT ![t] = "read"]
    /\ UNCHANGED <<catalog, initialized, dirPinned, Bookkeeping, holder,
                   Disk, calls, seeds, loadedFrom>>

(* FromTrinoJson reads row->sqlstate through the pointer after the lock  *)
(* is released.  While another thread rewrites that row, or after       *)
(* buildCompiledDefaults freed it, the read is a data race: any bytes.  *)
ReadRow(t) ==
    /\ pc[t] = "read"
    /\ LET n == lc[t].name
           racing == \E u \in Threads \ {t} :
                        \/ pc[u] = "fill"
                        \/ pc[u] = "write" /\ lc[u].parsed[n] # "absent"
           freed == seeds # lc[t].seedsAt
       IN \E v \in IF ~lc[t].found THEN {NoEntry}
                   ELSE IF freed THEN {Torn}
                   ELSE IF racing THEN {catalog[n], Torn}
                   ELSE {catalog[n]} :
             lc' = [lc EXCEPT ![t] = Between(v)]
    /\ pc' = [pc EXCEPT ![t] = "idle"]
    /\ UNCHANGED <<catalog, initialized, dirPinned, Bookkeeping, holder,
                   Disk, calls, seeds, loadedFrom>>

(* Someone saves a new version of file p; the clock stamps it.            *)
EditFile(p) ==
    /\ file[p].version < MaxVersion /\ now < MaxTime
    /\ now' = now + 1
    /\ file' = [file EXCEPT ![p] = [exists |-> TRUE,
                                    version |-> @.version + 1,
                                    mtime |-> now + 1]]
    /\ UNCHANGED <<catalog, initialized, dirPinned, Bookkeeping, holder,
                   pc, lc, calls, seeds, loadedFrom>>

(* Someone deletes file p.                                                *)
DeleteFile(p) ==
    /\ file[p].exists
    /\ file' = [file EXCEPT ![p].exists = FALSE]
    /\ UNCHANGED <<catalog, initialized, dirPinned, Bookkeeping, holder,
                   now, pc, lc, calls, seeds, loadedFrom>>

(* Every step of a call already under way.                                *)
Running(t) ==
    \/ EnsureInitialized(t) \/ SeedLock(t) \/ Fill(t) \/ ParseFile(t)
    \/ ApplyLock(t) \/ WriteCatalog(t) \/ Probe(t)
    \/ LookupEntryByName(t) \/ ReadRow(t)

Caller(t) ==
    \/ \E n \in Names : BeginTranslate(t, n)
    \/ \E p \in Paths \cup {NoPath} : BeginReload(t, p)
    \/ \E b \in BOOLEAN : SetConfigDirectory(t, b)

(* The callers have made all their calls: the process idles.              *)
Finished ==
    /\ \A t \in Threads : pc[t] = "idle" /\ calls[t] = MaxCalls
    /\ UNCHANGED vars

Next ==
    \/ \E t \in Threads : Caller(t) \/ Running(t)
    \/ \E p \in Paths : EditFile(p) \/ DeleteFile(p)
    \/ Finished

(* A thread inside a call is scheduled until the call returns; callers   *)
(* and the file's editor are under no obligation to act.                 *)
Fairness == \A t \in Threads : WF_vars(Running(t))

Spec == Init /\ [][Next]_vars /\ Fairness

-----------------------------------------------------------------------------
TypeOK ==
    /\ catalog \in [Names -> SqlStates \cup {NoEntry}]
    /\ initialized \in BOOLEAN /\ dirPinned \in BOOLEAN
    /\ effectivePath \in Paths \cup {NoPath}
    /\ lastMtime \in Times \cup {NoTime}
    /\ loadedOnce \in BOOLEAN
    /\ holder \in Threads \cup {None}
    /\ file \in [Paths -> FileRec] /\ now \in Times
    /\ pc \in [Threads -> PCs] /\ lc \in [Threads -> Local]
    /\ calls \in [Threads -> 0..MaxCalls]
    /\ seeds \in Nat

-----------------------------------------------------------------------------
(* The one-shot gate of ensureInitialized: however the first calls of    *)
(* several threads interleave, buildCompiledDefaults (which clears the   *)
(* table) runs at most once in the life of the process.                  *)
SeededOnce == seeds <= 1

(* Once the compiled defaults are in, no step of any call removes a row: *)
(* a reload is an upsert, so a name that an older version of the file    *)
(* added survives a newer version that no longer mentions it.            *)
EntriesNeverDropped ==
    [][seeds > 0 => \A n \in Names :
                      catalog[n] # NoEntry => catalog'[n] # NoEntry]_catalog

(* The override file the default search order finds, when it exists and *)
(* parses, is in effect: merging it again would change nothing.          *)
OverrideInEffect ==
    LET p == Resolve IN
    (file[p].exists /\ Content[p][file[p].version].valid)
        => Merge(catalog, Content[p][file[p].version].entries) = catalog

(* Once any thread has called in, the override file ends up in effect    *)
(* for good, even when the first callers race through ensureInitialized  *)
(* and a loser's reload is wiped by the winner's buildCompiledDefaults.  *)
OverrideEventuallyInEffect ==
    (\E t \in Threads : pc[t] # "idle") ~> []OverrideInEffect

(* A thread never looks its error name up in a table that                *)
(* buildCompiledDefaults has not filled yet.                             *)
ClassifiedAgainstSeededCatalog ==
    \A t \in Threads : pc[t] = "read" => lc[t].seedsAt > 0

(* When g_last_mtime equals the mtime of the effective file, the version *)
(* the last merge applied is that file's current version; otherwise      *)
(* maybeAutoReloadFromDisk never picks the current version up.           *)
RecordedMtimeIsLoadedVersion ==
    (/\ loadedOnce /\ effectivePath # NoPath
     /\ file[effectivePath].exists
     /\ file[effectivePath].mtime = lastMtime)
        => loadedFrom = [path |-> effectivePath,
                         version |-> file[effectivePath].version]

(* FromTrinoJson never reads a row while it is rewritten or after it is  *)
(* freed (the spec: readers never observe a torn or partial write).      *)
NoTornRead == \A t \in Threads : lc[t].seen # Torn

(* maybeAutoReloadFromDisk skips the reload of an existing file only     *)
(* when that file is the one last loaded.                                *)
ProbeSkipsOnlyLoadedFile ==
    [][\A t \in Threads :
         (pc[t] = "probe" /\ pc'[t] = "lookup" /\ file[Resolve].exists)
            => effectivePath = Resolve]_vars


-----------------------------------------------------------------------------
(* The abstract catalog of spec.md, seen through the table, the gate,     *)
(* the file versions on disk and the version the last merge applied.      *)
CS == INSTANCE CatalogSpec WITH
        table <- catalog,
        seeded <- seeds > 0,
        disk <- [p \in Paths |-> file[p].version],
        loaded <- loadedFrom,
        Compiled <- Defaults,
        InitDisk <- [p \in Paths |-> InitFile[p].version]

(* However the callers' steps interleave with each other and with edits  *)
(* of the files, g_catalog only ever changes as CatalogSpec allows: one  *)
(* seeding by buildCompiledDefaults, and whole upserts of a well-formed  *)
(* file version by ReloadMappingFromJson, each recorded as the effective *)
(* file, merged by the rule spec.md 4.1 states.                          *)
CatalogRefinement == CS!Spec

=============================================================================
