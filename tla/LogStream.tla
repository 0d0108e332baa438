----------------------------- MODULE LogStream ------------------------------
(***************************************************************************)
(* The runner's log buffer (LogBuffer in vllm-runner-rs/src/state.rs) and  *)
(* one reader of /stream (main.rs), which follows it by its length alone.  *)
(*                                                                         *)
(* Lines are numbered in the order in which they are written; a number     *)
(* stands for the text of its line. `view` is what the page of the reader  *)
(* shows: it empties on a "clear" event and appends every "data" event.    *)
(* Polls are 50 ms apart when the reader keeps up, further apart when its  *)
(* channel is full, so any number of lines may come in between.            *)
(***************************************************************************)
EXTENDS Naturals, Sequences

CONSTANTS
    Cap,        \* the buffer's limit (2000 in the code)
    Trim,       \* the lines dropped past it (500 in the code)
    MaxLines    \* bound: lines written in one behaviour

ASSUME LogStreamAssumption ==
    /\ Cap \in Nat \ {0}
    /\ Trim \in 1 .. Cap
    /\ MaxLines \in Nat

VARIABLES
    lines,      \* LogBuffer.lines
    written,    \* lines written so far
    seen,       \* the reader's `last`: the buffer's length at its last poll
    view,       \* what the reader shows
    open        \* the reader is connected

streamVars == <<lines, written, seen, view, open>>

LogStreamTypeOK ==
    /\ lines \in Seq(1 .. MaxLines) /\ Len(lines) <= Cap
    /\ view \in Seq(1 .. MaxLines)
    /\ written \in 0 .. MaxLines
    /\ seen \in 0 .. Cap
    /\ open \in BOOLEAN

LogStreamInit ==
    /\ lines = <<>>
    /\ written = 0
    /\ seen = 0
    /\ view = <<>>
    /\ open = FALSE

\* LogBuffer::from
From(s, i) == SubSeq(s, i + 1, Len(s))

Trimmed(s) == IF Len(s) > Cap THEN From(s, Trim) ELSE s

\* LogBuffer::append
AppendLine ==
    /\ written < MaxLines
    /\ written' = written + 1
    /\ lines' = Trimmed(Append(lines, written + 1))
    /\ UNCHANGED <<seen, view, open>>

\* LogBuffer::clear, when a launch starts
ClearBuffer ==
    /\ lines # <<>>
    /\ lines' = <<>>
    /\ UNCHANGED <<written, seen, view, open>>

\* A reader connects: the snapshot.
Connect ==
    /\ ~open
    /\ open' = TRUE
    /\ view' = lines
    /\ seen' = Len(lines)
    /\ UNCHANGED <<lines, written>>

\* Mutant: the last line already sent is sent again.
PollRepeats ==
    /\ open
    /\ view' = IF Len(lines) < seen THEN lines
               ELSE IF Len(lines) > seen /\ seen > 0
                    THEN view \o From(lines, seen - 1)
                    ELSE view \o From(lines, seen)
    /\ seen' = Len(lines)
    /\ UNCHANGED <<lines, written, open>>

\* A shorter buffer is a clear and a snapshot; a longer one, its tail.
Poll ==
    /\ open
    /\ view' = IF Len(lines) < seen THEN lines ELSE view \o From(lines, seen)
    /\ seen' = Len(lines)
    /\ UNCHANGED <<lines, written, open>>

Disconnect ==
    /\ open
    /\ open' = FALSE
    /\ view' = <<>>
    /\ seen' = 0
    /\ UNCHANGED <<lines, written>>

LogStreamNext == AppendLine \/ ClearBuffer \/ Connect \/ Poll \/ Disconnect

LogStreamSpec == LogStreamInit /\ [][LogStreamNext]_streamVars

-----------------------------------------------------------------------------
(* Properties *)

\* However polls, trims and clears interleave, a reader is never shown a line
\* twice nor two lines out of order.
InOrder == \A i, j \in 1 .. Len(view) : i < j => view[i] < view[j]

=============================================================================
