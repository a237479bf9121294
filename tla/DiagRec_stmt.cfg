\* Single calls and loops on every handle type, with the statement's text
\* re-rendered between calls (and within a loop).
CONSTANTS
    TrAbsent = TrAbsent
    TrNull = TrNull
    TrNoEntry = TrNoEntry
    TrUnset = TrUnset
    LineLens <- MCLineLens
    MaxLines = 3
    BufLens <- MCBufLens
    RecNums <- MCRecNums
    ConnMsgLens <- MCConnMsgLens
    MaxRec = 4
    Rerender = TRUE
SPECIFICATION Spec
INVARIANT TypeOK ChunksMatchReference StmtRecordFitsBuffer CoverageOnNoData
