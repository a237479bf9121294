------------------------------ MODULE DiagRec ------------------------------
(***************************************************************************)
(* SQLGetDiagRec (src/src/driver/getDiagRec.cpp) and the error state it    *)
(* reads: the connection's ErrorInfo (connHandle.cpp setError/getError)    *)
(* and the statement's stored Trino error, rendered to text lines.         *)
(*                                                                         *)
(* A rendered line is abstracted to its length: the chunker only ever      *)
(* looks at lines[j].size().  A chunk is the range of line indices it      *)
(* holds, plus its byte length including the leading "\n" the code puts    *)
(* in front of every chunk.                                                *)
(*                                                                         *)
(* The application either asks for one record number (random access) or   *)
(* runs the usual loop RecNumber = 1, 2, ... until SQL_NO_DATA, giving up  *)
(* after MaxRec records.  A call that never returns is phase "hung".       *)
(***************************************************************************)
EXTENDS Integers, Sequences

CONSTANTS
    LineLens,     \* lengths a rendered line may have
    MaxLines,     \* most lines in one rendered statement error
    BufLens,      \* BufferLength values the application passes (SQLSMALLINT)
    RecNums,      \* RecNumber values of single requests (SQLSMALLINT)
    ConnMsgLens,  \* lengths of a connection error message
    MaxRec,       \* the application's loop gives up after MaxRec records
    Rerender      \* whether the stored error may render differently between calls

ASSUME LineLens \subseteq Nat /\ MaxLines \in Nat \ {0} /\ MaxRec \in Nat
ASSUME BufLens \subseteq Int /\ RecNums \subseteq Int /\ ConnMsgLens \subseteq Nat
ASSUME Rerender \in BOOLEAN

Handles == {"SQL_HANDLE_ENV", "SQL_HANDLE_DBC", "SQL_HANDLE_STMT",
            "SQL_HANDLE_DESC", "OTHER"}
Rets == {"SQL_SUCCESS", "SQL_NO_DATA", "SQL_ERROR", "hang"}

\* Every text a statement error can render to: 1..MaxLines lines.
Renderings == UNION {[1..n -> LineLens] : n \in 1..MaxLines}

MinOf(a, b) == IF a < b THEN a ELSE b
MaxOf(a, b) == IF a > b THEN a ELSE b

(***************************************************************************)
(* The chunker, lines 95-127.                                              *)
(***************************************************************************)
\* size_t chunkSize = BufferLength > 0 ? BufferLength - 1 : 0
ChunkSize(buf) == IF buf > 0 THEN buf - 1 ELSE 0

\* The inner for-loop (lines 103-115) from line j with tempLen bytes so far:
\* the index it stops at and the chunk's length.  The guard "tempLen > 0"
\* is always true, so a line that does not fit stops the loop even when the
\* chunk holds nothing but its leading "\n".
RECURSIVE ChunkEndFits(_, _, _, _)
ChunkEndFits(ls, size, j, tempLen) ==
    IF j > Len(ls) \/ tempLen + ls[j] + 1 >= size
    THEN <<j, tempLen>>
    ELSE ChunkEndFits(ls, size, j + 1, tempLen + ls[j] + 1)

RECURSIVE ChunkEnd(_, _, _, _)
ChunkEnd(ls, size, j, tempLen) ==
    IF j > Len(ls) \/ tempLen + ls[j] + 1 > size
    THEN <<j, tempLen>>
    ELSE ChunkEnd(ls, size, j + 1, tempLen + ls[j] + 1)

Chunk(from, to, len) == [kind |-> "chunk", from |-> from, to |-> to, len |-> len]
NoChunk == [kind |-> "none", from |-> 1, to |-> 0, len |-> 0]
Hang    == [kind |-> "hang", from |-> 1, to |-> 0, len |-> 0]

\* The outer for-loop (lines 102-123): chunk number cur starts at line i.
\* currentChunk is compared with static_cast<size_t>(RecNumber), so a
\* RecNumber <= 0 never matches.  When a chunk makes no progress (j = i)
\* every later iteration builds the same "\n" chunk: it is returned once
\* currentChunk reaches RecNumber, and for RecNumber <= 0 the loop never
\* ends (2^64 iterations).
RECURSIVE SelectChunkSkip(_, _, _, _, _)
SelectChunkSkip(ls, size, rec, i, cur) ==
    IF i > Len(ls) THEN NoChunk
    ELSE LET e == ChunkEnd(ls, size, i, 1) IN
         IF cur = rec THEN Chunk(i, e[1] - 1, e[2])
         ELSE IF e[1] = i
              THEN IF rec > cur THEN Chunk(i, i - 1, 1) ELSE Hang
              ELSE SelectChunkSkip(ls, size, rec, e[1] + 1, cur + 1)

RECURSIVE SelectChunk(_, _, _, _, _)
SelectChunk(ls, size, rec, i, cur) ==
    IF i > Len(ls) THEN NoChunk
    ELSE LET e == ChunkEnd(ls, size, i, 1) IN
         IF cur = rec THEN Chunk(i, e[1] - 1, e[2])
         ELSE IF e[1] = i
              THEN IF rec > cur THEN Chunk(i, i - 1, 1) ELSE Hang
              ELSE SelectChunk(ls, size, rec, e[1], cur + 1)

\* The outcome of one call: status, chunk range and bytes written to
\* MessageTextPtr (terminating NUL included); MessageTextPtr is non-null.
Outcome(ret, from, to, written) ==
    [ret |-> ret, from |-> from, to |-> to, written |-> written]
NoData == Outcome("SQL_NO_DATA", 1, 0, 0)

\* toCopy = min(chunk.size(), chunkSize)
CopyLenUnbounded(len, size) == len
CopyLen(len, size) == MinOf(len, size)

\* SQL_HANDLE_STMT with a stored error, lines 66-142.  chunk.empty() is never
\* true (every chunk starts with "\n"), so only !found gives SQL_NO_DATA.
StmtDiag(ls, rec, buf) ==
    LET size == ChunkSize(buf)
        c    == SelectChunk(ls, size, rec, 1, 1)
        n    == CopyLen(c.len, size)
    IN  CASE c.kind = "chunk" ->
               Outcome("SQL_SUCCESS", c.from, c.to, IF buf > 0 THEN n + 1 ELSE 0)
          [] c.kind = "hang"  -> Outcome("hang", 1, 0, 0)
          [] OTHER            -> NoData

VARIABLES
    stmtError,  \* [has, lines]: trinoQuery->hasError() and the rendered lines
    connError,  \* [occurred, msgLen]: the connection's ErrorInfo
    phase,      \* the application: idle, loop, done, gaveup, hung
    call,       \* [handle, buf, rec] of the loop in progress
    got,        \* the chunks the loop has received, in order, with the
                \* rendering each call saw
    last        \* the last call: its arguments, its outcome, the lines it saw

vars == <<stmtError, connError, phase, call, got, last>>

\* The whole of SQLGetDiagRec (lines 29-158) for the current error state.
Diag(h, rec, buf) ==
    CASE h = "SQL_HANDLE_DBC" ->
           \* lines 42-57: the message is written by a helper that is given
           \* no buffer length, so all of it and its NUL are written.
           IF rec = 1 /\ connError.occurred
           THEN Outcome("SQL_SUCCESS", 1, 1, connError.msgLen + 1)
           ELSE NoData
      [] h = "SQL_HANDLE_STMT" ->
           IF stmtError.has THEN StmtDiag(stmtError.lines, rec, buf) ELSE NoData
      [] h \in {"SQL_HANDLE_ENV", "SQL_HANDLE_DESC"} -> NoData
      [] OTHER -> Outcome("SQL_ERROR", 1, 0, 0)

Record(h, rec, buf, r) ==
    [handle |-> h, rec |-> rec, buf |-> buf, lines |-> stmtError.lines,
     ret |-> r.ret, from |-> r.from, to |-> r.to, written |-> r.written]

Init ==
    /\ stmtError = [has |-> FALSE, lines |-> <<>>]
    /\ connError = [occurred |-> FALSE, msgLen |-> 0]
    /\ phase = "idle"
    /\ call = [handle |-> "SQL_HANDLE_STMT", buf |-> 0, rec |-> 1]
    /\ got = <<>>
    /\ last = Record("none", 0, 0, NoData)

(***************************************************************************)
(* The error state.                                                        *)
(***************************************************************************)
\* Variant of StmtExecuted with a plausible mistake: hasError() turns
\* false but the previous error's text is kept.
StmtExecutedKeep(has, ls) ==
    /\ phase = "idle"
    /\ stmtError' = [has |-> has, lines |-> IF has THEN ls ELSE stmtError.lines]
    /\ UNCHANGED <<connError, phase, call, got, last>>

\* The statement's query finishes, with or without a stored error; the
\* statement handle is not under src/, this is its observable effect.
StmtExecuted(has, ls) ==
    /\ phase = "idle"
    /\ stmtError' = IF has THEN [has |-> TRUE, lines |-> ls]
                           ELSE [has |-> FALSE, lines |-> <<>>]
    /\ UNCHANGED <<connError, phase, call, got, last>>

\* Connection::setError (connHandle.cpp 46-48).
SetError(occurred, m) ==
    /\ phase = "idle"
    /\ connError' = [occurred |-> occurred, msgLen |-> IF occurred THEN m ELSE 0]
    /\ UNCHANGED <<stmtError, phase, call, got, last>>

\* getError() recomputes the text from the stored payload and the live
\* catalog on every call, so a catalog reload between two calls changes
\* the lengths of the rendered lines (the number stays the same).
Rerendered(ls) ==
    /\ Rerender
    /\ stmtError.has
    /\ Len(ls) = Len(stmtError.lines)
    /\ ls # stmtError.lines
    /\ stmtError' = [stmtError EXCEPT !.lines = ls]
    /\ UNCHANGED <<connError, phase, call, got, last>>

(***************************************************************************)
(* The application's calls.                                                *)
(***************************************************************************)
\* One call for record rec; a call that loops forever leaves the caller hung.
Request(h, buf, rec) ==
    /\ phase = "idle"
    /\ LET r == Diag(h, rec, buf) IN
       /\ last' = Record(h, rec, buf, r)
       /\ phase' = IF r.ret = "hang" THEN "hung" ELSE "idle"
    /\ UNCHANGED <<stmtError, connError, call, got>>

BeginLoop(h, buf) ==
    /\ phase = "idle"
    /\ phase' = "loop"
    /\ call' = [handle |-> h, buf |-> buf, rec |-> 1]
    /\ got' = <<>>
    /\ UNCHANGED <<stmtError, connError, last>>

\* The next call of the loop: a record is kept and the next one asked for;
\* SQL_NO_DATA or SQL_ERROR ends the loop.
LoopCall ==
    /\ phase = "loop"
    /\ call.rec <= MaxRec
    /\ LET r == Diag(call.handle, call.rec, call.buf) IN
       /\ last' = Record(call.handle, call.rec, call.buf, r)
       /\ IF r.ret = "SQL_SUCCESS"
          THEN /\ got' = Append(got, [from |-> r.from, to |-> r.to, lines |-> stmtError.lines])
               /\ call' = [call EXCEPT !.rec = @ + 1]
               /\ UNCHANGED phase
          ELSE /\ phase' = IF r.ret = "hang" THEN "hung" ELSE "done"
               /\ UNCHANGED <<got, call>>
    /\ UNCHANGED <<stmtError, connError>>

GiveUp ==
    /\ phase = "loop"
    /\ call.rec > MaxRec
    /\ phase' = "gaveup"
    /\ UNCHANGED <<stmtError, connError, call, got, last>>

EndLoop ==
    /\ phase \in {"done", "gaveup"}
    /\ phase' = "idle"
    /\ call' = [handle |-> "SQL_HANDLE_STMT", buf |-> 0, rec |-> 1]
    /\ got' = <<>>
    /\ UNCHANGED <<stmtError, connError, last>>

\* A caller inside the endless loop of lines 102-123 stays there.
Spin ==
    /\ phase = "hung"
    /\ UNCHANGED vars

Next ==
    \/ \E has \in BOOLEAN, ls \in Renderings : StmtExecuted(has, ls)
    \/ \E occ \in BOOLEAN, m \in ConnMsgLens : SetError(occ, m)
    \/ \E ls \in Renderings : Rerendered(ls)
    \/ \E h \in Handles, b \in BufLens, k \in RecNums : Request(h, b, k)
    \/ \E h \in Handles, b \in BufLens : BeginLoop(h, b)
    \/ LoopCall
    \/ GiveUp
    \/ EndLoop
    \/ Spin

Spec == Init /\ [][Next]_vars

(***************************************************************************)
(* Properties.                                                             *)
(***************************************************************************)
Range1 == [from : Int, to : Int, lines : Seq(Int)]

TypeOK ==
    /\ stmtError \in [has : {TRUE}, lines : Renderings]
                       \cup {[has |-> FALSE, lines |-> <<>>]}
    /\ connError \in [occurred : BOOLEAN, msgLen : ConnMsgLens \cup {0}]
    /\ phase \in {"idle", "loop", "done", "gaveup", "hung"}
    /\ call \in [handle : Handles, buf : BufLens \cup {0}, rec : 1..(MaxRec + 1)]
    /\ got \in Seq(Range1)
    /\ Len(got) <= MaxRec
    /\ last.handle \in Handles \cup {"none"}
    /\ last.ret \in Rets

\* The greedy partition the chunking contract describes: a chunk takes
\* lines while they fit in chunkSize (counting the leading "\n" and one
\* "\n" per line); a line that does not fit even alone is placed alone.
RECURSIVE RefEnd(_, _, _, _, _)
RefEnd(ls, size, start, j, used) ==
    IF j > Len(ls) THEN j
    ELSE IF j = start \/ used + ls[j] + 1 <= size
         THEN RefEnd(ls, size, start, j + 1, used + ls[j] + 1)
         ELSE j

RECURSIVE RefChunks(_, _, _)
RefChunks(ls, size, i) ==
    IF i > Len(ls) THEN <<>>
    ELSE LET e == RefEnd(ls, size, i, i, 1) IN
         <<[from |-> i, to |-> e - 1]>> \o RefChunks(ls, size, e)

\* Every line fits in a chunk of its own.
AllLinesFit(ls, buf) == \A j \in 1..Len(ls) : 1 + ls[j] + 1 <= ChunkSize(buf)

\* When every line fits the buffer, the statement chunk SQLGetDiagRec
\* returns for RecNumber k is the k-th chunk of the greedy partition, and
\* a RecNumber outside 1..(number of chunks) gives SQL_NO_DATA (lines
\* 102-127).
ChunksMatchReference ==
    (last.handle = "SQL_HANDLE_STMT" /\ last.lines # <<>>
       /\ AllLinesFit(last.lines, last.buf)) =>
        LET R == RefChunks(last.lines, ChunkSize(last.buf), 1) IN
        IF last.rec \in 1..Len(R)
        THEN last.ret = "SQL_SUCCESS" /\ last.from = R[last.rec].from
                                      /\ last.to = R[last.rec].to
        ELSE last.ret = "SQL_NO_DATA"

\* The statement path never writes past BufferLength bytes into
\* MessageTextPtr, for any BufferLength including 0 and 1 (lines 130-137).
StmtRecordFitsBuffer ==
    (last.handle = "SQL_HANDLE_STMT" /\ last.ret = "SQL_SUCCESS") =>
        last.written <= MaxOf(last.buf, 0)

\* The connection path never writes past BufferLength bytes either
\* (lines 47-48).
ConnRecordFitsBuffer ==
    (last.handle = "SQL_HANDLE_DBC" /\ last.ret = "SQL_SUCCESS") =>
        last.written <= MaxOf(last.buf, 0)

\* A loop over RecNumber 1, 2, ... on a statement that ended in SQL_NO_DATA,
\* and whose calls all saw the same rendering of the error, received every
\* rendered line exactly once and in order: the chunks are consecutive
\* ranges from the first line to the last (the spec's chunking coverage).
CoverageOnNoData ==
    (/\ phase = "done" /\ call.handle = "SQL_HANDLE_STMT" /\ stmtError.has
     /\ \A k \in 1..Len(got) : got[k].lines = last.lines) =>
        /\ Len(got) >= 1
        /\ got[1].from = 1
        /\ got[Len(got)].to = Len(last.lines)
        /\ \A k \in 1..(Len(got) - 1) : got[k + 1].from = got[k].to + 1

\* Every call returns, and a loop over RecNumber 1, 2, ... reaches
\* SQL_NO_DATA within MaxRec records: the contract promises no more chunks
\* than lines, so MaxRec = MaxLines + 1 calls are always enough.
RetrievalReachesNoData == phase \notin {"gaveup", "hung"}

=============================================================================
