\* Connection diagnostics with a message longer than the buffer.
CONSTANTS
    TrAbsent = TrAbsent
    TrNull = TrNull
    TrNoEntry = TrNoEntry
    TrUnset = TrUnset
    LineLens <- MCFitLineLens
    MaxLines = 1
    BufLens <- MCBufLens
    RecNums <- MCRecNums
    ConnMsgLens <- MCConnMsgLens
    MaxRec = 2
    Rerender = FALSE
SPECIFICATION Spec
INVARIANT ConnRecordFitsBuffer
