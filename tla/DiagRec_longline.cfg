\* A loop over RecNumber on the rendering of a real Trino error, with a
\* buffer shorter than its message line and one that holds every line.
CONSTANTS
    TrAbsent = TrAbsent
    TrNull = TrNull
    TrNoEntry = TrNoEntry
    TrUnset = TrUnset
    LineLens <- MCLineLens
    MaxLines = 10
    BufLens <- MCTrinoBufLens
    Renderings <- MCTranslatedRenderings
    RecNums <- MCRecNums
    ConnMsgLens <- MCConnMsgLens
    MaxRec = 11
    Rerender = FALSE
SPECIFICATION Spec
INVARIANT RetrievalReachesNoData
