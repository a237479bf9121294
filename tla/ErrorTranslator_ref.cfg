\* FromTrinoJson over every payload, query id and catalog row of the
\* MC sets, compared with the spec's translation algorithm.
CONSTANTS
    Absent = Absent
    Null = Null
    NoEntry = NoEntry
    Unset = Unset
    None = None
    Payloads <- MCPayloads
    QueryIds <- MCQueryIds
    Rows <- MCRows
SPECIFICATION Spec
INVARIANT TypeOK TranslationMatchesSpec
\* One call per payload: the translation returns and nothing follows.
CHECK_DEADLOCK FALSE
