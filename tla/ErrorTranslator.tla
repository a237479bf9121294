--------------------------- MODULE ErrorTranslator ---------------------------
(***************************************************************************)
(* TrinoOdbcErrorHandler::FromTrinoJson and its helpers                    *)
(* (src/src/trinoAPIWrapper/TrinoOdbcErrorHandler.cpp): one Trino error    *)
(* payload, the query id, and the catalog row LookupEntryByName returns    *)
(* for the payload's errorName become the OdbcError record of              *)
(* TrinoOdbcErrorHandler.hpp.                                              *)
(*                                                                         *)
(* A payload is a record whose fields hold the JSON member, or Absent when *)
(* the member is missing; JSON null is Null.  Payloads are those a Trino   *)
(* coordinator sends: when a member is there it has the type Trino gives   *)
(* it (names and types strings, codes integers, a cause with its "type"), *)
(* and the optional "message" is a field only payloads that carry one     *)
(* have.  The catalog is ErrorCatalog's: the row is any row an override file *)
(* may install for the name, or NoEntry.  Strings are TLA+ strings, and    *)
(* the character-wise helpers work on them character by character.       *)
(***************************************************************************)
EXTENDS Integers, Sequences, SequencesExt, TLC

CONSTANTS
    Absent,     \* a JSON member that is not there
    Null,       \* JSON null
    NoEntry,    \* LookupEntryByName returned nullptr
    Unset,      \* an empty std::optional<int>
    None,       \* no call has returned yet
    Payloads,   \* the error payloads the server may send
    QueryIds,   \* values of the queryId argument
    Rows        \* catalog rows [sqlstate, description], and NoEntry

VARIABLES
    payload,    \* the "error" object of the query result
    queryId,    \* the argument queryId
    row,        \* LookupEntryByName(name)
    out         \* the returned OdbcError, None before the call

vars == <<payload, queryId, row, out>>

-----------------------------------------------------------------------------
(* Character helpers: std::tolower and std::toupper on ASCII.              *)

Lowers == "abcdefghijklmnopqrstuvwxyz"
Uppers == "ABCDEFGHIJKLMNOPQRSTUVWXYZ"

\* The character at position i of a string.
CharAt(s, i) == SubSeq(s, i, i)

\* The character of `to' at the position c has in `from', or c itself.
MapChar(c, from, to) ==
    IF \E i \in 1..Len(from) : CharAt(from, i) = c
    THEN CharAt(to, CHOOSE i \in 1..Len(from) : CharAt(from, i) = c)
    ELSE c

ToLowerChar(c) == MapChar(c, Uppers, Lowers)
ToUpperChar(c) == MapChar(c, Lowers, Uppers)

RECURSIVE ToLowerString(_)
ToLowerString(s) ==
    IF s = "" THEN "" ELSE ToLowerChar(Head(s)) \o ToLowerString(Tail(s))

\* Lines 82-89: both sides through std::tolower, then ==.
equalsIgnoreCase(a, b) == ToLowerString(a) = ToLowerString(b)

\* Lines 91-94: a class "01" SQLSTATE is a warning.
isWarning(sqlstate) ==
    Len(sqlstate) >= 2 /\ CharAt(sqlstate, 1) = "0" /\ CharAt(sqlstate, 2) = "1"

\* Lines 96-113: '_' becomes ' ' and starts a new word; the first
\* character of a word is upper-cased, every other one lower-cased.
RECURSIVE Humanize(_, _)
Humanize(s, newWord) ==
    IF s = "" THEN ""
    ELSE IF Head(s) = "_" THEN " " \o Humanize(Tail(s), TRUE)
    ELSE (IF newWord THEN ToUpperChar(Head(s)) ELSE ToLowerChar(Head(s)))
         \o Humanize(Tail(s), FALSE)

humanize_name(name) == Humanize(name, TRUE)

fallbackByTypeTypeFirst(trinoName, trinoType) ==
    CASE equalsIgnoreCase(trinoType, "USER_ERROR")             -> "42000"
      [] equalsIgnoreCase(trinoType, "INSUFFICIENT_RESOURCES") -> "HY001"
      [] equalsIgnoreCase(trinoType, "EXTERNAL")               -> "HY000"
      [] trinoName = "ALREADY_EXISTS"                        -> "42S01"
      [] trinoName = "NOT_FOUND"                             -> "42S02"
      [] OTHER                                               -> "HY000"

\* Lines 117-138: the two name overrides, then the error type compared
\* without case, INTERNAL_ERROR and unknown types last.
fallbackByType(trinoName, trinoType) ==
    CASE trinoName = "ALREADY_EXISTS"                        -> "42S01"
      [] trinoName = "NOT_FOUND"                             -> "42S02"
      [] equalsIgnoreCase(trinoType, "USER_ERROR")             -> "42000"
      [] equalsIgnoreCase(trinoType, "INSUFFICIENT_RESOURCES") -> "HY001"
      [] equalsIgnoreCase(trinoType, "EXTERNAL")               -> "HY000"
      [] OTHER                                               -> "HY000"

-----------------------------------------------------------------------------
(* FromTrinoJson, lines 566-658.                                           *)

\* Lines 574-582: the record returned when a required member is missing.
MissingFieldsError ==
    [ret |-> "SQL_ERROR", sqlstate |-> "HY000", native |-> 0,
     message |-> "[Trino] Unexpected error payload (missing fields).",
     description |-> "Unexpected error payload", stack |-> <<>>,
     lineNumber |-> Unset, columnNumber |-> Unset, queryId |-> ""]

\* Lines 619-621 and 629-631: each frame of a JSON stack array, behind a tab.
Frames(stack) == [i \in 1..Len(stack) |-> "\t" \o stack[i]]

\* Lines 612-633: the "Stack:" block when failureInfo has a stack, then
\* the "Caused By:" block when its cause has both a type and a stack.
StackLines(err) ==
    LET fi == err.failureInfo IN
    IF fi = Absent THEN <<>>
    ELSE (IF fi.stack # Absent THEN <<"Stack:">> \o Frames(fi.stack) ELSE <<>>)
         \o (IF fi.cause # Absent /\ fi.cause.type # Absent /\ fi.cause.stack # Absent
             THEN <<"Caused By:">> \o Frames(fi.cause.stack) ELSE <<>>)

LocationOfNoContains(err) ==
    LET Read(loc) == [lineNumber |-> loc.lineNumber, columnNumber |-> loc.columnNumber]
    IN CASE err.errorLocation \notin {Absent, Null}                    -> Read(err.errorLocation)
         [] err.failureInfo # Absent /\ err.failureInfo.errorLocation # Absent
                                                                      -> Read(err.failureInfo.errorLocation)
         [] OTHER -> [lineNumber |-> Unset, columnNumber |-> Unset]

\* Lines 635-654: line and column of the first location object found.
LocationOf(err) ==
    LET Read(loc) == [lineNumber |-> IF loc.lineNumber # Absent THEN loc.lineNumber ELSE Unset,
                      columnNumber |-> IF loc.columnNumber # Absent THEN loc.columnNumber ELSE Unset]
    IN CASE err.errorLocation \notin {Absent, Null}                    -> Read(err.errorLocation)
         [] err.failureInfo # Absent /\ err.failureInfo.errorLocation # Absent
                                                                      -> Read(err.failureInfo.errorLocation)
         [] OTHER -> [lineNumber |-> Unset, columnNumber |-> Unset]

\* Lines 596-604: "[Trino] type: name (code)", then the query id and the
\* server's message when there are any.
MessageOf(err, qid) ==
    "[Trino] " \o err.errorType \o ": " \o err.errorName
        \o " (" \o ToString(err.errorCode) \o ")"
        \o (IF qid # "" THEN " [queryId=" \o qid \o "]" ELSE "")
        \o (IF "message" \in DOMAIN err THEN " - " \o err.message ELSE "")

\* Lines 566-658 (ensureInitialized and maybeAutoReloadFromDisk are the
\* catalog's, modelled in ErrorCatalog).
FromTrinoJson(err, qid, entry) ==
    IF \E f \in {"errorName", "errorType", "errorCode"} : err[f] = Absent
    THEN MissingFieldsError
    ELSE LET sqlstate == IF entry # NoEntry /\ entry.sqlstate # ""
                         THEN entry.sqlstate
                         ELSE fallbackByType(err.errorName, err.errorType)
         IN [ret |-> IF isWarning(sqlstate) THEN "SQL_SUCCESS_WITH_INFO" ELSE "SQL_ERROR",
             sqlstate |-> sqlstate,
             native |-> err.errorCode,
             message |-> MessageOf(err, qid),
             description |-> IF entry # NoEntry /\ entry.description # ""
                             THEN entry.description
                             ELSE humanize_name(err.errorName),
             stack |-> StackLines(err),
             queryId |-> qid]
            @@ LocationOf(err)

\* OdbcErrorToString, lines 660-684: one "\t"-indented line per field; ret
\* is printed as the SQLRETURN number, the location only when set, and the
\* stack lines only when asked for.
OdbcErrorToString(err, include_stack) ==
    LET ret == IF err.ret = "SQL_ERROR" THEN -1 ELSE 1
        Opt(label, v) == IF v = Unset THEN "" ELSE "\t" \o label \o ":" \o ToString(v) \o "\n"
    IN "Trino Error Information(queryId:" \o err.queryId \o ")\n"
       \o "\tret: " \o ToString(ret) \o "\n"
       \o "\tsqlstate: " \o err.sqlstate \o "\n"
       \o "\tnative: " \o ToString(err.native) \o "\n"
       \o "\tdescription: " \o err.description \o "\n"
       \o "\tmessage: " \o err.message \o "\n"
       \o Opt("lineNumber", err.lineNumber) \o Opt("columnNumber", err.columnNumber)
       \o (IF include_stack
           THEN FoldLeft(LAMBDA acc, e : acc \o "\t" \o e \o "\n", "", err.stack)
           ELSE "")

\* std::getline over the text (getDiagRec.cpp 83-88): the text before each
\* "\n" is a line, and text after the last "\n", if any, is one more.
RECURSIVE GetLines(_)
GetLines(text) ==
    IF text = "" THEN <<>>
    ELSE LET breaks == {i \in 1..Len(text) : CharAt(text, i) = "\n"}
             end == IF breaks = {} THEN Len(text) + 1 ELSE Min(breaks)
         IN <<SubSeq(text, 1, end - 1)>> \o GetLines(SubSeq(text, end + 1, Len(text)))

\* The lines SQLGetDiagRec chunks (getDiagRec.cpp 80-92): the summary of
\* OdbcErrorToString without the stack, then each stack line behind a tab.
RenderLines(err) ==
    GetLines(OdbcErrorToString(err, FALSE)) \o [i \in 1..Len(err.stack) |-> "\t" \o err.stack[i]]

-----------------------------------------------------------------------------

\* A statement's query has failed: the server's payload, the query id and
\* the catalog's row are any of those possible.
Init ==
    /\ payload \in Payloads
    /\ queryId \in QueryIds
    /\ row \in Rows
    /\ out = None

\* The statement's query object (TrinoQuery, whose source is not in this
\* repository) hands the payload to FromTrinoJson.
Translate ==
    /\ out = None
    /\ out' = FromTrinoJson(payload, queryId, row)
    /\ UNCHANGED <<payload, queryId, row>>

-----------------------------------------------------------------------------
(* The translation as spec.md section 4.2 states it (the message, whose    *)
(* separators the spec does not give, aside).  The two name overrides and *)
(* the four category defaults are the spec's fixed codes, valued as in     *)
(* Trino's StandardErrorCode table the header cites.                       *)

SpecNameOverrides == ("ALREADY_EXISTS" :> "42S01") @@ ("NOT_FOUND" :> "42S02")

SpecCategoryDefaults ==
    ("USER_ERROR" :> "42000") @@ ("INSUFFICIENT_RESOURCES" :> "HY001")
    @@ ("EXTERNAL" :> "HY000") @@ ("INTERNAL_ERROR" :> "HY000")

\* Step 2: the catalog's code, else the ordered fallback.
SpecClassification(err, entry) ==
    IF entry # NoEntry /\ entry.sqlstate # "" THEN entry.sqlstate
    ELSE IF err.errorName \in DOMAIN SpecNameOverrides THEN SpecNameOverrides[err.errorName]
    ELSE IF err.errorType \in DOMAIN SpecCategoryDefaults THEN SpecCategoryDefaults[err.errorType]
    ELSE "HY000"

Concat(a, b) == a \o b

\* Step 5: split at the separator and title-case every word; a character
\* starts a word when it is the first or follows a separator.
SpecTitleCase(name) ==
    FoldLeft(Concat, "",
             [i \in 1..Len(name) |->
                IF CharAt(name, i) = "_" THEN " "
                ELSE IF i = 1 \/ CharAt(name, i - 1) = "_" THEN ToUpperChar(CharAt(name, i))
                ELSE ToLowerChar(CharAt(name, i))])

\* Step 6: the primary stack, then the cause's, each behind a header.
SpecStack(err) ==
    LET fi == err.failureInfo
        Block(header, frames) == <<header>> \o [i \in 1..Len(frames) |-> "\t" \o frames[i]]
    IN IF fi = Absent THEN <<>>
       ELSE (IF fi.stack = Absent THEN <<>> ELSE Block("Stack:", fi.stack))
            \o (IF fi.cause = Absent \/ fi.cause.stack = Absent THEN <<>>
                ELSE Block("Caused By:", fi.cause.stack))

\* Step 7: the top-level location if present, else the nested one.
SpecLocation(err) ==
    LET loc == IF err.errorLocation \notin {Absent, Null} THEN err.errorLocation
               ELSE IF err.failureInfo # Absent THEN err.failureInfo.errorLocation
               ELSE Absent
        Field(f) == IF loc = Absent THEN Unset
                    ELSE IF loc[f] = Absent THEN Unset ELSE loc[f]
    IN [lineNumber |-> Field("lineNumber"), columnNumber |-> Field("columnNumber")]

\* Steps 1-7, restricted to the fields the spec fixes.
SpecTranslation(err, qid, entry) ==
    IF err.errorName = Absent \/ err.errorType = Absent \/ err.errorCode = Absent
    THEN [sqlstate |-> "HY000", native |-> 0, ret |-> "SQL_ERROR"]
    ELSE LET code == SpecClassification(err, entry) IN
         [sqlstate |-> code,
          native |-> err.errorCode,
          ret |-> IF SubSeq(code, 1, 2) = "01" THEN "SQL_SUCCESS_WITH_INFO" ELSE "SQL_ERROR",
          description |-> IF entry # NoEntry /\ entry.description # ""
                          THEN entry.description ELSE SpecTitleCase(err.errorName),
          stack |-> SpecStack(err),
          queryId |-> qid]
         @@ SpecLocation(err)

-----------------------------------------------------------------------------

TypeOK ==
    out = None \/
    /\ DOMAIN out = {"ret", "sqlstate", "native", "message", "description", "stack",
                     "lineNumber", "columnNumber", "queryId"}
    /\ out.ret \in {"SQL_ERROR", "SQL_SUCCESS_WITH_INFO"}
    /\ out.sqlstate \in STRING /\ out.description \in STRING /\ out.queryId \in STRING
    /\ out.message \in STRING
    /\ out.native \in Int
    /\ out.stack \in Seq(STRING)
    /\ out.lineNumber \in Int \cup {Unset} /\ out.columnNumber \in Int \cup {Unset}

\* FromTrinoJson returns, for every payload a Trino server sends, every
\* query id and every catalog row, the classification, native code,
\* severity, description, stack lines, location and query id that the
\* spec's algorithm gives: the ordered fallback of fallbackByType, the
\* warning test of isWarning and the words of humanize_name included.
TranslationMatchesSpec ==
    out # None =>
        LET spec == SpecTranslation(payload, queryId, row)
        IN \A f \in DOMAIN spec : out[f] = spec[f]

Next == Translate

Spec == Init /\ [][Next]_vars /\ WF_vars(Translate)

=============================================================================
