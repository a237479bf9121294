--------------------------- MODULE MCErrorCatalog ---------------------------
(* Instantiates ErrorCatalog with two error names: TABLE_NOT_FOUND, a    *)
(* row of kDefaults, and CUSTOM_ERROR, a name only override files add.   *)
EXTENDS ErrorCatalog, TLC

(* Threads are interchangeable model values.                              *)
ThreadSymmetry == Permutations(Threads)

MCNames == {"TABLE_NOT_FOUND", "CUSTOM_ERROR"}
MCSqlStates == {"", "42S02", "42000", "01000"}

MCDefaults == [n \in MCNames |->
                  IF n = "TABLE_NOT_FOUND" THEN "42S02" ELSE NoEntry]

Valid(entries) == [valid |-> TRUE, entries |-> entries]
(* Invalid JSON, or no 'entries' array.                                   *)
Malformed == [valid |-> FALSE, entries |-> [n \in MCNames |-> "absent"]]

(* Versions of the module-directory file: v0 adds CUSTOM_ERROR, v1       *)
(* remaps TABLE_NOT_FOUND and drops CUSTOM_ERROR, v2 is malformed.        *)
ModuleVersions ==
    <<Valid([n \in MCNames |-> IF n = "CUSTOM_ERROR" THEN "42000" ELSE "absent"]),
      Valid([n \in MCNames |-> IF n = "CUSTOM_ERROR" THEN "absent" ELSE "42000"]),
      Malformed>>

(* The pinned directory's file: an entry without "sqlstate" for          *)
(* TABLE_NOT_FOUND, a warning class for CUSTOM_ERROR.                     *)
DirVersions ==
    <<Valid([n \in MCNames |-> IF n = "CUSTOM_ERROR" THEN "01000" ELSE "inherit"]),
      Valid([n \in MCNames |-> IF n = "CUSTOM_ERROR" THEN "42000" ELSE "absent"]),
      Malformed>>

MCContent ==
    [p \in {"module", "dir"} |->
        [v \in 0..MaxVersion |->
            IF p = "module" THEN ModuleVersions[v + 1] ELSE DirVersions[v + 1]]]

(* Both files were installed together: same mtime.                        *)
MCInitFile == [p \in {"module", "dir"} |-> [exists |-> TRUE, version |-> 0, mtime |-> 1]]
=============================================================================
