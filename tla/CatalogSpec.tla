----------------------------- MODULE CatalogSpec -----------------------------
(***************************************************************************)
(* What the error catalog promises (spec.md 3, 4.1 and 7), without locks, *)
(* threads or parsing: the table changes only                              *)
(*   - by seeding it from the compiled table, at most once per process,   *)
(*   - or by upserting, as one step, every entry of a well-formed version *)
(*     of an override file that has been on disk, which also becomes the  *)
(*     effective (last loaded) file;                                       *)
(* a failed reload changes nothing.  The override files are edited by the *)
(* environment.  ErrorCatalog refines it (ErrorCatalog!CatalogRefinement).  *)
(*                                                                         *)
(* The spec orders no reload before the seeding, so neither does this     *)
(* module.                                                                 *)
(***************************************************************************)
EXTENDS Naturals, TLC

CONSTANTS
    Names,       \* canonical error names
    SqlStates,   \* classification codes ("" means: fall back)
    NoEntry,     \* no row for a name
    NoPath,      \* no file loaded yet
    Compiled,    \* the compiled table: [Names -> SqlStates \cup {NoEntry}]
    Paths,       \* override file locations
    Content,     \* Content[p][v]: [valid, entries] of version v of file p
    InitDisk,    \* version of each file at process start
    MaxVersion   \* bound on edits of one file

VARIABLES
    table,    \* name -> classification code
    seeded,   \* the one-shot seeding has happened
    disk,     \* current version of each override file
    loaded    \* effectivePath(): the file, and its version, last applied

vars == <<table, seeded, disk, loaded>>

(* Merge rule of spec.md 4.1 for one entry: the entry's well-typed        *)
(* classification, else the prior one, else the empty default.  An entry  *)
(* is an element of SqlStates, "inherit" (no well-typed classification)  *)
(* or "absent" (no entry with that name).                                 *)
Field(prior, entry) ==
    IF entry \in SqlStates THEN entry
    ELSE IF prior = NoEntry THEN "" ELSE prior

(* Applying an override payload: an upsert by name (spec.md 3).           *)
Upsert(t, entries) ==
    LET named == {n \in Names : entries[n] # "absent"}
    IN [n \in named |-> Field(t[n], entries[n])] @@ t

Init ==
    /\ table = [n \in Names |-> NoEntry]
    /\ seeded = FALSE
    /\ disk = InitDisk
    /\ loaded = [path |-> NoPath, version |-> 0]

(* ensureInitialized: the one-shot seeding from the compiled table.       *)
Seed ==
    /\ ~seeded
    /\ seeded' = TRUE
    /\ table' = Compiled
    /\ UNCHANGED <<disk, loaded>>

(* A successful reload of version v of file p, a version that has been on *)
(* disk (versions only grow).                                             *)
Reload(p, v) ==
    /\ v <= disk[p]
    /\ Content[p][v].valid
    /\ table' = Upsert(table, Content[p][v].entries)
    /\ loaded' = [path |-> p, version |-> v]
    /\ UNCHANGED <<seeded, disk>>

(* Someone saves a new version of file p.                                  *)
Edit(p) ==
    /\ disk[p] < MaxVersion
    /\ disk' = [disk EXCEPT ![p] = @ + 1]
    /\ UNCHANGED <<table, seeded, loaded>>

Next ==
    \/ Seed
    \/ \E p \in Paths, v \in 0..MaxVersion : Reload(p, v)
    \/ \E p \in Paths : Edit(p)

Spec == Init /\ [][Next]_vars

=============================================================================
