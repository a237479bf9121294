# TLA+ models of the Trino ODBC driver: errors, configuration and device-flow login

This directory holds TLA+ models of the driver sources under `src/src/`, the
TLC configurations that check them, and `PROJECT.json`. That file lists the
components, runs, mutants, the mapping from definitions to source lines,
the findings and the hazards.

## 1. The system

| Part | Source | State | Operations | Interacts with |
|---|---|---|---|---|
| Error catalog | `trinoAPIWrapper/TrinoOdbcErrorHandler.cpp` 18-76, 142-564 | process globals `g_catalog`, `g_mutex`, `g_initialized` (atomic), `g_config_dir`, `g_effective_path`, `g_last_mtime`, `g_loaded_once`; the override JSON files on disk | `ensureInitialized` (CAS, `buildCompiledDefaults`, initial `ReloadMappingFromJson({})`), `ReloadMappingFromJson`, `maybeAutoReloadFromDisk`, `LookupEntryByName`, `SetConfigDirectory`, `GetEffectiveConfigPath` | called by every translation, on any thread |
| Error translator | same file, 82-138, 566-685 | none (pure, apart from the catalog read) | `FromTrinoJson`, `fallbackByType`, `isWarning`, `humanize_name`, `OdbcErrorToString` | reads the catalog; its output is what SQLGetDiagRec renders |
| Diagnostic retrieval | `driver/getDiagRec.cpp` | none (the partition is recomputed each call) | `SQLGetDiagRec` by handle type; the line chunker | reads the connection's `ErrorInfo` and the statement's stored error |
| Connection handle | `driver/handles/connHandle.cpp` | `errorInfo`, `connectionConfig` | `setError`, `getError`, `checkInputs`, `configure`, `disconnect` | written by the driver's API calls, read by SQLGetDiagRec |
| Driver configuration | `driver/config/driverConfig.cpp` | a `DriverConfig` record of strings and enums | string/enum setters, `driverConfigFromKVPs`, `driverConfigToKVPs` | filled by the profile reader and the DSN form; read by `Connection::configure` |
| Profile reader | `driver/config/profileReader.cpp` | the ODBC.INI profile | `readFromPrivateProfile`, `readDriverConfigFromProfile` | gives the DSN form its initial config |
| DSN form | `driver/config/dsnConfigForm.cpp` | the dialog's controls; `isSaved`; `configResult` | constructor, `UpdateDataFields`, the window callback (Save/Cancel), `ShowDSNForm` | round-trips a DriverConfig through the dialog |
| Device-flow auth | `trinoAPIWrapper/authProvider/deviceFlowAuthProvider.cpp` | the locals of `refreshDeviceCredAuth`: start time, interval | discovery, device authorization, the polling loop | the identity provider, the user's browser, the steady clock |
| Credential encryption | `util/cryptUtils.cpp` | none | DPAPI encrypt/decrypt at user or machine scope, base64, the user/system wrappers | Windows DPAPI; used by the profile reader and the DSN writer |

Of these, only the error catalog is shared mutable state, and threads reach
it concurrently. Its table is guarded by `g_mutex`. The one-shot
initialisation uses an atomic flag. The reload bookkeeping
(`g_loaded_once`, `g_last_mtime`) is read without the lock. Everything
else runs inside one call on one handle.

## 2. Modules

### ErrorCatalog (with MCErrorCatalog)

Models the catalog and the part of `FromTrinoJson` that reads it.

- **Variables.** Each global is a variable. `catalog` maps an error name to
  its SQLSTATE, or to `NoEntry` when the table has no row for it. `holder`
  is the thread holding `g_mutex`, or `None`. `file` records, per path,
  whether the file exists, its version and its mtime. `now` is the clock
  that stamps edits.
- **Thread state.** Each thread has a program counter `pc` and its locals
  `lc`. A public call is split at the points where another thread can
  act:
  - `EnsureInitialized`: the CAS on `g_initialized`.
  - `SeedLock` and `Fill`: `buildCompiledDefaults`, then the start of the
    initial reload.
  - `ParseFile`: exists / open / parse / shape check, all unlocked.
  - `ApplyLock` and `WriteCatalog`: the merge under the lock, then the
    recording of `last_write_time(file)`.
  - `Probe`: `maybeAutoReloadFromDisk`.
  - `LookupEntryByName`.
  - `ReadRow`: the read of `row->sqlstate` after the lock is released.
- **The file content.** `Content[p][v]` is the parsed content of version
  `v` of file `p`: valid or not, and for each name a SQLSTATE, "inherit"
  (the entry has no sqlstate field) or "absent" (no entry).
- **Merge.** `Merge` is the merge loop of lines 511-547. It is an upsert:
  a missing field keeps the existing value, or "" for a new row.
- **Data races.** The unlocked read in `ReadRow` is a data race while
  another thread rewrites the row. After `buildCompiledDefaults` has freed
  the row, it is a use-after-free. In either case the model lets it yield
  `Torn`, standing for whatever bytes the build reads.
- **Environment actions.** `EditFile` and `DeleteFile` change files under
  the running process.
- **History variables.** `seeds` counts `buildCompiledDefaults`.
  `loadedFrom` records the path and version of the last merge.

### DiagRec (with MCDiagRec)

Models `SQLGetDiagRec` and the error state it reads.

- **Abstraction.** A rendered line is reduced to its length, which is all
  the chunker looks at.
- **Chunker operators.**
  - `ChunkEnd` is the inner for-loop: where a chunk stops, and its length.
  - `SelectChunk` is the outer for-loop.
  - `CopyLen` is `min(chunk.size(), chunkSize)`.
  - `StmtDiag` and `Diag` are the whole function, dispatching on the
    handle type.
  - Both loops are RECURSIVE operators.
- **The non-terminating loop.** The outer loop may never end (a chunk that
  makes no progress, with `RecNumber <= 0`). That case is detected
  exactly: once a chunk makes no progress, every later iteration repeats
  it.
- **The application.** It makes single calls (`Request`) or runs the
  standard loop `RecNumber = 1, 2, ...` until `SQL_NO_DATA` (`BeginLoop`,
  `LoopCall`, `GiveUp`, `EndLoop`). A call that never returns leaves the
  application `hung`, stuttering (`Spin`).
- **The error state.**
  - `SetError` is `Connection::setError`.
  - `StmtExecuted` sets or clears the statement's stored error.
  - `Rerendered` changes the rendered line lengths between calls. The
    spec says `getError()` recomputes the text against the live catalog on
    every call.
  - The statement class is not under `src/`, so `StmtExecuted` and
    `Rerendered` are modelled from the spec.
- **The connection message.** On the connection path, the message is
  written by `writeNullTermStringToPtr`, which is given no buffer length.
  The model writes the whole message and its NUL.
- **Reference.** `RefChunks` is the greedy partition as the spec states
  it. It counts the leading "\n" the code puts in every chunk.
- **Renderings.** In `diag_stmt` a rendering is any sequence of up to
  `MaxLines` lengths. `diag_longline` replaces `Renderings` with
  `MCTranslatedRenderings`. These are the line lengths of real errors:
  `MCDiagRec` instantiates `ErrorTranslator` as `TR`, translates a
  TABLE_NOT_FOUND payload with `TR!FromTrinoJson`, and renders it with
  `TR!RenderLines`. The payload comes with and without the server's
  message, with no catalog row and with the compiled row. This composes
  the translator with the chunker, as `getDiagRec.cpp` 66-92 does.


### DriverConfig

Definitions only: no variables. The other modules build on them.

- **Setters.** `Converted(setter, t)` is the value a string setter stores.
  It is a singleton, or `{}` when the setter throws:
  - `setPort` runs `std::stoi` into a `uint16_t`, so the value is taken
    modulo 2^16. `Decimal` maps the port texts that start with digits to
    their value.
  - The name setters use `.at()`, which throws on an unknown name.
  - `setOidcEndpointMethod(string)` stores the one-character string of
    the enumerator (`OemChar`), and stores it in `oidcScope`.
- **Call sequences.** `ApplyCalls` runs a sequence of setter calls and
  stops at the first that throws, as a C++ exception does.
- **Key/value maps.** `DriverConfigFromKVPs` and `DriverConfigToKVPs` are
  the two conversions. They are written as tables in code order.
  `CallsFor` picks the keys present.
- **Encryption.** `EncryptString` and `DecryptString` are the DPAPI
  wrappers. A user-scope blob opens only for its user. A machine-scope
  blob opens for anyone, since both decrypt wrappers pass flags 0. Any
  other text fails.
- **Profile reader.** `ReadDriverConfigFromProfile` is the reader: the
  setters, then the secret, decrypted according to
  `secretEncryptionLevel`. `DefaultValues` is
  `DRIVER_CONFIG_DEFAULT_VALUES`.

### DSNForm (with MCDSNForm)

Models the DSN configuration dialog, from construction to the end of
`ShowDSNForm`.

- **Variables.**
  - `config` is `configResult`, which the window procedure shares by
    pointer.
  - `controls` and `enabled` are the dialog's controls.
  - `opened`, `edited`, `source` and `loaded` are history variables.
- **Actions.**
  - `Construct` is the constructor.
  - `ConfigureExisting` is `updateConfig` with the profile reader's
    result, followed by `setReadOnlyDSN`. It reads a section whose secret
    entries were written by some user, at some level.
  - `ShowDSNForm` fills some of the controls and runs
    `UpdateDataFields`.
  - `UserEdit` is a change to an enabled control, after which
    `UpdateDataFields` runs again.
  - `Save` runs the 14 setters in the window procedure's order.
  - `Cancel` is the Cancel button.
- **A setter that throws during Save.** It leaves `configResult` half
  written. The exception either ends the dialog (`aborted`) or is lost
  at the callback boundary, and the dialog stays open. Both outcomes are
  modelled.
- **Not in `src/`.** The DSN writer (`ConfigDSN`) is not under `src/`.
  `Sections` and `SectionMap` describe what it leaves in ODBC.INI: an
  encrypted secret and a level key. They are not mapped to code.

### DeviceFlow (with MCDeviceFlow)

Models `refreshDeviceCredAuth`, reached from `obtainAccessToken`.

- **The driver thread.** It steps through `phase`:
  - `Discover`: the discovery GET. A body that is not JSON, or that lacks
    an endpoint, throws.
  - `Authorize`: the device authorization POST. It throws on bad JSON, or
    on a response with no `interval`. With no
    `verification_uri_complete` it returns "". Otherwise polling starts
    at `startTime`.
  - `Check`: the expiry check at line 120.
  - `Poll`: the token request and its answer:
    - `access_token` returns the token;
    - `authorization_pending` goes on polling;
    - `slow_down` adds 5 to `interval`;
    - any other error returns "";
    - a body that is not JSON throws.
  - `Wake`: the end of `sleep_for`.
- **The identity provider.** `Answers` is its answer (RFC 8628 3.5):
  - `expired_token` once the code's `lifetime` is over;
  - `slow_down` to a client that polls faster than the interval it
    demands (`reqInterval`), or up to `MaxSlowDowns` times for load;
  - otherwise the user's decision.
- **Provider lifetimes.** The provider may expire the code a second
  before the client does (it issued the code before `startTime`), at the
  same time, or later than `expires_in` says.
- **The user.** `UserDecides` approves or denies, or never answers.
- **The clock.** `Tick` advances `now` between requests, up to
  `MaxTime = ExpiresIn + MaxInterval`. A request takes no time in the
  model.

### ErrorTranslator (with MCErrorTranslator)

Models `FromTrinoJson` (lines 566-658) and its helpers as operators.
The character helpers work on TLA+ strings one character at a time, as
the C++ loops do:

- `equalsIgnoreCase` and `ToLowerString` apply `std::tolower`.
- `isWarning` tests for the `01` class.
- `humanize_name` is the recursive `Humanize`.
- `fallbackByType` keeps the code's order.

`StackLines` and `LocationOf` are the failure-info and location parts.
`MessageOf` composes the message: engine tag, type, name, code, then the
query id and the server's message when present. `OdbcErrorToString`
prints the record one field per tab-indented line: `ret` as the
SQLRETURN number, and the location only when set. `GetLines` is the
`std::getline` split, and `RenderLines` the summary lines followed by
the tab-prefixed stack lines of `SQLGetDiagRec`.

A payload is a record that holds each member or `Absent` (JSON null is
`Null`). The catalog row is an input: any row an override may install,
or `NoEntry`. `Init` picks a payload, a query id and a row. `Translate`
is the one call. `SpecTranslation` restates spec.md 4.2 independently
of the code:

- a map of the two name overrides and the four category defaults;
- a positional title-casing folded with `FoldLeft`;
- the two stack blocks;
- the location lookup.

### DeviceGrant

The abstract device grant: `status` (pending or how it ended), `elapsed`
(the code's age, capped at `expires_in`) and `approval`. It has no code
of its own. `DeviceFlow` maps onto it:

- `GrantStatus` reads the result of `refreshDeviceCredAuth` from
  `phase`.
- `GrantElapsed` is `now - startTime`, capped at `ExpiresIn` (0 before
  polling).
- `approval` is the user's `decision`.

`DeviceGrantSpec == DG!Spec` is checked as a property of `device_poll`.

### CatalogSpec

The abstract error catalog, from spec.md 3, 4.1 and 7. Its state is
`table`, `seeded`, the version of each override file on `disk`, and
`loaded`, the file and version last applied (the spec's
`effectivePath()`). It has no code of its own. Its actions are:

- `Seed`: the one-shot seeding from the compiled table.
- `Reload(p, v)`: an upsert of every entry of a well-formed version `v`
  of file `p` that has been on disk, by the spec's merge rule (`Field`,
  `Upsert`). It also records `p` and `v` as loaded.
- `Edit(p)`: a new version of a file.

A failed reload is a stuttering step. The spec does not order a reload
before the seeding, so the module does not either.

`ErrorCatalog` maps onto it through `CS`:

- `table` is `catalog`;
- `seeded` is `seeds > 0`;
- `disk` is each file's version;
- `loaded` is the history variable `loadedFrom`.

`CatalogRefinement == CS!Spec` is checked as a property of
`catalog_all`.

## 3. Runs

| Run | Cfg | Expect | Properties |
|---|---|---|---|
| catalog_all | `ErrorCatalog_all.cfg` | pass | `TypeOK`, `SeededOnce`, `EntriesNeverDropped`, `CatalogRefinement` |
| catalog_init | `ErrorCatalog_init.cfg` | pass | `OverrideEventuallyInEffect` |
| catalog_initrace | `ErrorCatalog_initrace.cfg` | violation | `ClassifiedAgainstSeededCatalog` |
| catalog_toctou | `ErrorCatalog_toctou.cfg` | violation | `RecordedMtimeIsLoadedVersion` |
| catalog_torn | `ErrorCatalog_torn.cfg` | violation | `NoTornRead` |
| diag_stmt | `DiagRec_stmt.cfg` | pass | `TypeOK`, `ChunksMatchReference`, `StmtRecordFitsBuffer`, `CoverageOnNoData` |
| diag_longline | `DiagRec_longline.cfg` | violation | `RetrievalReachesNoData` |
| diag_conn | `DiagRec_conn.cfg` | violation | `ConnRecordFitsBuffer` |
| dsn_session | `DSNForm_session.cfg` | pass | `TypeOK`, `SavedFlagMeansSaveCompleted`, `SecretReadableIffPermitted` |
| dsn_save | `DSNForm_save.cfg` | violation | `SavedConfigReadsBackAsShown` |
| device_poll | `DeviceFlow_poll.cfg` | pass | `TypeOK`, `PollsRespectInterval`, `DeviceGrantSpec` |
| translator_ref | `ErrorTranslator_ref.cfg` | pass | `TypeOK`, `TranslationMatchesSpec` |

### Error catalog and diagnostics

- **catalog_all** (pass). Two threads translate, reload and pin the
  config directory while the files are edited and deleted. It checks:
  - `SeededOnce`: the defaults are built once.
  - `EntriesNeverDropped`: once seeded, no step removes a row.
  - `CatalogRefinement`: the table changes only as `CatalogSpec`
    allows. There is one seeding, and each successful reload is a whole
    upsert of a well-formed version that has been on disk, merged by
    spec.md's rule and recorded as the effective file. The unlocked
    parse, the later locked merge and the concurrent edits do not break
    this.
- **catalog_init** (pass). Checks `OverrideEventuallyInEffect`: after the
  first translation, the override file's mapping eventually holds for
  good. This stays true even when two first callers race and the winner's
  `buildCompiledDefaults` wipes the loser's load.
- **catalog_initrace** (violation). Checks `ClassifiedAgainstSeededCatalog`.
  The loser of the CAS looks its name up before the defaults exist, and
  `TABLE_NOT_FOUND` falls back by type.
- **catalog_toctou** (violation). Checks `RecordedMtimeIsLoadedVersion`.
  The file is edited between the unlocked parse and the recording of its
  mtime, and the new version is never loaded.
- **catalog_torn** (violation). Checks `NoTornRead`. A translation reads
  its row while a reload rewrites it.
- **diag_stmt** (pass). Covers:
  - every handle type;
  - BufferLength 0, 1, 5 and 7;
  - RecNumber -1, 1, 2 and 4;
  - re-rendering between calls.

  It checks:
  - `ChunksMatchReference`: when every line fits, each record is the
    greedy partition's chunk, and out-of-range records give
    `SQL_NO_DATA`.
  - `StmtRecordFitsBuffer`: the statement path never writes past the
    buffer.
  - `CoverageOnNoData`: a loop that reaches `SQL_NO_DATA`, and whose
    calls all saw the same rendering, received every line exactly once,
    in order. Each entry of `got` carries the rendering its call saw, so
    loops with a re-render between calls are in the state space but
    outside the property's premise.
- **diag_longline** (violation). Checks `RetrievalReachesNoData` on the
  rendering of a real TABLE_NOT_FOUND error. That rendering has ten
  lines. Its message line and stack frame are 88 characters each, and the
  first line is 60. With BufferLength 64, these lines are longer than
  the buffer, so the chunker gives endless bare-newline chunks, and
  `RecNumber <= 0` never returns. With 512 every line fits. Because the
  message line carries the query id and the server's whole message, an
  ordinary error is enough. No contrived line is needed.
- **diag_conn** (violation). Checks `ConnRecordFitsBuffer`. A connection
  message longer than the buffer is written past its end.

### Configuration

- **dsn_session** (pass). The dialog for a new DSN, for a fully specified
  OIDC DSN, and for a DSN whose port cannot be parsed, each either:
  - shown directly, or
  - first configured from an existing profile section with every
    combination of secret, level and writing user.

  The user makes up to two edits, with overflowing, zero and non-numeric
  ports, then saves or cancels. It checks:
  - `SavedFlagMeansSaveCompleted`: `isSaved` is set exactly when Save
    ran every setter. A Save that throws halfway never leaves the flag
    set.
  - `SecretReadableIffPermitted`: reading an existing DSN succeeds
    exactly when the level is known and the secret is empty,
    machine-scoped, or written by the same user. When it succeeds, the
    secret is the one written.
- **dsn_save** (violation). Checks `SavedConfigReadsBackAsShown`: a saved
  configuration, serialised by `driverConfigToKVPs` and read back by
  `driverConfigFromKVPs`, equals the configuration the dialog opened on,
  with the values on screen. TLC finds four independent defects, at
  depth 4 for the first. In a scratch copy, repairing each in turn
  exposes the next:
  1. `setOidcEndpointMethod(string)` writes `oidcScope`
     (`driverConfig.cpp:247`).
  2. `ShowDSNForm` leaves the token and auth endpoints, user name and
     password boxes empty, so Save erases them (`dsnConfigForm.cpp:413`).
  3. `driverConfigToKVPs` never writes `granttype`
     (`driverConfig.cpp:330`).
  4. A typed port of 65537 is saved as port 1 (`driverConfig.cpp:121`).

  With all four repaired, the property holds.

### Device flow

- **device_poll** (pass). Covers:
  - provider intervals 0 and 2;
  - a 7-second code that the provider expires after 6 s, 7 s, or not
    within the bound;
  - one load-driven slow_down;
  - a user who approves, denies or never answers;
  - garbled bodies at each request.

  It checks:
  - `PollsRespectInterval` (action property): no token request follows
    the previous one sooner than the interval the provider currently
    demands. The 5 seconds added by every slow_down count for all later
    requests.
  - `DeviceGrantSpec` (refinement): the loop implements `DeviceGrant`
    under the mapping `GrantStatus`/`GrantElapsed`. It is granted only
    after approval. It reports expiry only once `expires_in` seconds
    have passed since polling began. And it always ends, which is the
    abstract fairness on `Elapse` and `Expire`. With a provider that keeps
    the code past `expires_in`, only the client's own expiry check at line
    120 ends the loop.

### Error translator

- **translator_ref** (pass). Covers every payload built from:
  - four names: the two that have a fixed fallback, a catalog name, and
    `sYNTAX__error_` (mixed case, a doubled and a trailing separator);
  - the four known types and one unknown type;
  - a code;
  - failure info with no stack, an empty stack, or two frames; a cause
    with or without a stack; a nested location or none;
  - a top-level location that is full, partial, null or absent;
  - each required member missing.

  It also covers two query ids and seven catalog rows: no entry, and
  every combination of an empty or set description with an empty,
  error-class or warning-class SQLSTATE.

  It checks `TranslationMatchesSpec`: `FromTrinoJson` gives the result of
  spec.md 4.2, which `SpecTranslation` restates in its own terms. This
  covers the classification and its fallback order, the numeric code,
  the severity, the description, the stack blocks, the location and the
  query id. For a payload with a missing member, only the fields the
  spec fixes are compared. The message is not compared: the spec does
  not give its separators.

### Mutants

Each property of a passing run has a mutant in `PROJECT.json`: a variant
of a mapped definition with a plausible bug, which TLC must catch.

**Error catalog and diagnostics**

- `MergeRaw`: the "no sqlstate field" marker is stored as the row's
  SQLSTATE.
- `EnsureInitializedUnclaimed`: the gate is tested but not claimed.
- `MergeRebuild`: a reload rebuilds rows instead of upserting them.
- `FillNoInitialLoad`: no initial autoload.
- `MergeInsertOnly`: an insert-only upsert (`emplace` for `operator[]`)
  that never overwrites an existing row. No other property of
  `catalog_all` notices this. The refinement does: the effective file
  changes while the table keeps the old row.
- `ChunkEndFits`: `>=` for `>`.
- `CopyLenUnbounded`: no `min`.
- `SelectChunkSkip`: the next chunk starts one line late.
- `StmtExecutedKeep`: a cleared statement error keeps its old text.

**Configuration**

- `ConvertedNoWrap`: the port is not truncated to 16 bits.
- `SaveFlagFirst`: `isSaved` is set before the setters run.
- `EncryptStringUserScope`: the machine flag is ignored.

**Device flow**

- `AuthorizeNoStart`: `startTime` is not recorded.
- `PollSlowDownOnce`: the extra 5 seconds apply to one sleep only.
- `CheckEarly`: the expiry check fires a second early (`ExpiresIn - 1`).

**Error translator**

- `fallbackByTypeTypeFirst`: the type defaults are tested before the
  two name overrides.
- `LocationOfNoContains`: the location members are read without the
  `contains` test, so a missing `lineNumber` becomes a value.

### Bounds and why they suffice

**ErrorCatalog.**

- **Threads and files.** Two threads are enough for every race in the
  code: the CAS, the lock, and the unlocked reads. There are two files
  (module directory and pinned directory), each with one edit. That
  allows a parse/edit/record interleaving and a directory switch.
- **Names.** Two names: one row from `kDefaults` and one that only the
  file adds. This separates "default kept", "override applied" and "row
  added".
- **SQLSTATEs.** Four values, including "" (an entry with an empty code)
  and a warning.
- **Calls.** `MaxCalls = 2` per thread, so a thread can both reload and
  translate.
- **Symmetry.** The safety run uses symmetry over threads. This is sound
  because nothing distinguishes one thread from another.

**DiagRec.**

- **Line lengths.** {0, 3} with up to 3 lines. Together with BufferLength
  {0, 1, 5, 7}, this gives chunk budgets 0, 4 and 6. Under them:
  - a 3-character line (cost 4, plus the leading newline) is too long for
    budget 4;
  - the same line fits exactly under budget 6 with an empty line before it;
  - so pairs, exact fits and oversize lines all occur.
- **Record numbers.** RecNumber covers -1, 1, 2 and 4 (beyond any chunk
  count).
- **Giving up.** The loop gives up after `MaxRec = MaxLines + 1` records.
  Under the spec no partition has more chunks than lines.
- **Real renderings** (`diag_longline`). There are four renderings of one
  error: with and without the message, with and without a catalog row.
  BufferLength 64 is shorter than the message line, and 512
  (`SQL_MAX_MESSAGE_LENGTH`) is longer than every line. `MaxLines = 10`
  and `MaxRec = 11` keep the bound of `RetrievalReachesNoData` at one
  record more than the rendering has lines. With 64 bytes, the first
  three chunks hold lines 1, 2-4 and 5, and record 4 is the first that
  makes no progress.

**DSNForm.**

- **Texts.** Two non-empty texts and "", which separates kept, changed
  and cleared values.
- **Users.** Two users: the writer and another.
- **Port texts.** One that overflows 16 bits, zero, and one with no
  digits.
- **Edits.** `MaxEdits = 2` distinct controls. One edit changes a combo
  and a second changes a field that the combo enables or disables.

**DeviceFlow.**

- **Expiry.** `ExpiresIn = 7` leaves room for a slow_down (interval
  2 + 5) followed by more polls before expiry.
- **Interval 0.** An interval of 0 is the loop that polls without
  sleeping.
- **Clock bound.** `MaxTime` is the last moment a sleep can end, since
  the last check passes before `ExpiresIn`. The clock bound therefore
  never cuts a behaviour short.

### Fairness

- **ErrorCatalog.** Weak fairness on each thread's in-progress steps
  (`Running(t)`). Once a thread is inside a call, the code runs it to the
  end with no waits other than the mutex. The callers and the file
  editor are not fair: they need not act.
- **DeviceFlow.**
  - Weak fairness on the driver thread's steps: one thread runs the
    function with no waits other than the sleep.
  - Strong fairness on `Tick`. With interval 0, `Tick` is enabled only
    between requests, yet `steady_clock` never stops.
  - No fairness on the user or the provider's load-driven slow_down.
  - `DeviceGrant` asks for weak fairness on `Elapse` and `Expire`. The
    detailed fairness implies both, which `DeviceGrantSpec` checks.
- **ErrorTranslator.** Weak fairness on `Translate`. The call returns.
- **DiagRec and DSNForm.** Their runs check safety only. `ShowDSNForm`
  returns once the dialog is saved, cancelled or aborted, and
  `refreshDeviceCredAuth` returns or throws. Those final states have no
  successor, so `dsn_session` and `device_poll` do not check deadlock.

## 4. Stated but not run

TLC runs are limited to one configuration per distinct question. One
property that TLC violates is stated in a module and recorded as a
hazard, but has no run of its own:

- **`ProbeSkipsOnlyLoadedFile`** (ErrorCatalog). After
  `SetConfigDirectory`, a file in the new directory with the same mtime as
  the old one is skipped by `maybeAutoReloadFromDisk`.

The remaining plans:

- **Long SQLSTATE.** A SQLSTATE longer than 5 characters, from an
  override file, reaching the 6-byte `SqlStatePtr`.

## 5. Not modelled

- **Translator inputs outside a Trino server's payloads.** These are not
  in `translator_ref`'s sets, and they disagree with the spec:
  - A member of the wrong JSON type, such as a string `errorCode` or a
    non-string frame, makes `get<>` throw out of `FromTrinoJson`. spec.md
    7 says nothing escapes the translation path.
  - A cause with a stack but no `type` has its stack dropped (lines
    625-627). spec.md 4.2 step 6 asks only for the stack.

  Trino always sends the `type` of a cause and well-typed members.
- **Wording of the summary lines.** `diag_stmt` checks the chunker over
  every sequence of line lengths, not over the text, so the wording of
  `OdbcErrorToString` matters only to `diag_longline`, through the
  lengths of its lines.
- **`Connection::checkInputs`, `configure`, `disconnect`, `getServerVersion`.** `checkInputs` only guards `configure`.
  `configure` passes 10 arguments to the `ConnectionConfig` constructor,
  but `connectionConfig.hpp` declares it with 14. The two files come from
  different revisions, and `ConnectionConfig`'s members are only stored.
  `connHandle.hpp` is not in the sources either. Nothing under `src/`
  calls these three, so the order of the calls on a handle is not known.
  Two hazards are therefore listed without a property:
  - a second `configure` leaks the first object;
  - `disconnect` on a handle that was never configured dereferences
    `connectionConfig`.

- **Credential encryption internals.** DPAPI is modelled by whom a blob
  opens for. base64 and the blob bytes are left out.
- **Device-flow surroundings.**
  - The token cache base class that calls `obtainAccessToken` is not
    under `src/`.
  - The browser launch is only logged on failure.
  - `getDeviceFlowAuthProvider` only builds the object. Its token-cache
    name is always `clientId + "__" + oidcScope`. It ignores
    `connectionName`, although the comment says to substitute it only
    when the name is empty. The name can also collide across clients.
    This is listed as a hazard. The cache that would show the collision
    is in the base class.
  - A request that never returns (curl without a timeout) is not
    modelled: requests take no time.
- **DSN writer.** `ConfigDSN` and the ODBC.INI writer are not under
  `src/`. The DSN form's result is checked through the key/value
  conversions instead.
- **Merging maps.** No caller in `src/` merges DSN and connection-string
  maps, so the lowercase-over-camelCase order of `driverConfigFromKVPs`
  is not exercised by a run.
- **Network and logging.** The network connection behind
  `ConnectionConfig` is not modelled, and neither is logging.
- **Window creation and layout** in the DSN form. Only its data flow is
  modelled.
- **Catalog fields other than the SQLSTATE.** The catalog's `trino_code`
  and `description` only change text, not control.
