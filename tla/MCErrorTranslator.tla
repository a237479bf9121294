------------------------- MODULE MCErrorTranslator -------------------------
EXTENDS ErrorTranslator

\* Names: the two with a fixed fallback, a catalog name, and one with
\* mixed case, a doubled and a trailing separator.
MCNames == {"ALREADY_EXISTS", "NOT_FOUND", "TABLE_NOT_FOUND", "sYNTAX__error_"}
\* The four known categories, and a type the driver does not know.
MCTypes == {"USER_ERROR", "INSUFFICIENT_RESOURCES", "EXTERNAL", "INTERNAL_ERROR", "UNKNOWN"}

MCLocations ==
    {[lineNumber |-> 5, columnNumber |-> 6], [lineNumber |-> Absent, columnNumber |-> 2]}

MCCauses == {Absent} \cup [type : {"io.trino.X"}, stack : {Absent, <<"g1">>}]

MCFailureInfos ==
    {Absent} \cup [stack : {Absent, <<>>, <<"f1", "f2">>},
                   cause : MCCauses,
                   errorLocation : {Absent, [lineNumber |-> 3, columnNumber |-> Absent]}]

MCPayloads ==
    [errorName : MCNames \cup {Absent},
     errorType : MCTypes \cup {Absent},
     errorCode : {46, Absent},
     failureInfo : MCFailureInfos,
     errorLocation : MCLocations \cup {Absent, Null}]

\* Rows an override may install: a full row, a warning-class row, and rows
\* with an empty sqlstate or description.
MCRows == {NoEntry} \cup [sqlstate : {"", "42S02", "01000"}, description : {"", "Table not found"}]

MCQueryIds == {"", "20240101_q"}
=============================================================================
