----------------------------- MODULE MCDiagRec -----------------------------
(* Values for DiagRec's constants.  BufferLength covers the boundaries 0   *)
(* and 1 (chunkSize 0), a buffer too small for the longest line, and one   *)
(* that holds every line and some pairs; RecNumber covers -1 and one past  *)
(* the largest number of chunks.                                          *)
EXTENDS DiagRec, Sequences

MCLineLens == {0, 3}
MCBufLens == {0, 1, 5, 7}
MCRecNums == {-1, 1, 2, 4}
MCConnMsgLens == {3}
MCLongBufLens == {1, 7}
MCFitBufLens == {5, 7}
MCFitLineLens == {0, 2}

(* The statement errors of a real query: FromTrinoJson's record for a     *)
(* TABLE_NOT_FOUND payload, with and without the server's message, with  *)
(* no catalog row and with the compiled one, rendered by                 *)
(* OdbcErrorToString and split into lines as SQLGetDiagRec does.  Only   *)
(* the translator's operators are used.                                  *)
CONSTANTS TrAbsent, TrNull, TrNoEntry, TrUnset   \* model values

TR == INSTANCE ErrorTranslator WITH
        Absent <- TrAbsent, Null <- TrNull, NoEntry <- TrNoEntry,
        Unset <- TrUnset, None <- "none",
        Payloads <- {}, QueryIds <- {}, Rows <- {},
        payload <- "none", queryId <- "none", row <- "none", out <- "none"

MCQueryId == "20240101_123456_00001_abcde"

MCFailureInfo ==
    [stack |-> <<"io.trino.sql.analyzer.SemanticExceptions.semanticException(SemanticExceptions.java:48)">>,
     cause |-> TrAbsent,
     errorLocation |-> [lineNumber |-> 1, columnNumber |-> 15]]

MCTrinoPayloads ==
    {[errorName |-> "TABLE_NOT_FOUND", errorType |-> "USER_ERROR", errorCode |-> 46,
      failureInfo |-> MCFailureInfo, errorLocation |-> TrAbsent],
     [errorName |-> "TABLE_NOT_FOUND", errorType |-> "USER_ERROR", errorCode |-> 46,
      message |-> "line 1:15: Table 'hive.default.orders' does not exist",
      failureInfo |-> MCFailureInfo, errorLocation |-> TrAbsent]}

MCTrinoRows == {TrNoEntry, [sqlstate |-> "42S02", description |-> "Table not found"]}

(* Each rendering as DiagRec sees it: the length of every line.           *)
MCTranslatedRenderings ==
    {LET ls == TR!RenderLines(TR!FromTrinoJson(p, MCQueryId, r))
     IN [j \in 1..Len(ls) |-> Len(ls[j])] : p \in MCTrinoPayloads, r \in MCTrinoRows}

(* A buffer shorter than a rendered line, and SQL_MAX_MESSAGE_LENGTH.     *)
MCTrinoBufLens == {64, 512}

=============================================================================
