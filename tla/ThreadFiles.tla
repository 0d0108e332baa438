---------------------------- MODULE ThreadFiles ----------------------------
(***************************************************************************)
(* The files of a conversation, derived from its thread: the last complete *)
(* version of each, the continuations glued to a file that was cut, the    *)
(* edits, and the versions written by the server's tools.                  *)
(*                                                                         *)
(* An answer writes at most one file.  A text is its size, in units of     *)
(* about 500 characters, how many ends it holds (</html>), and the         *)
(* messages it was written by; "page" is an HTML file, "script" is not.    *)
(***************************************************************************)
EXTENDS Naturals, Sequences

CONSTANTS MaxThread, Sizes      \* bound on the turns; the sizes of a block

ASSUME ThreadAssumption == MaxThread \in Nat /\ Sizes \subseteq Nat \ {0}

VARIABLE thread     \* the messages

threadVars == <<thread>>

FileNames == {"page", "script"}
NoFile == [size |-> 0, ends |-> 0, by |-> {}]
Text(size, ends, by) == [size |-> size, ends |-> ends, by |-> by]

\* The user's side of a turn: a request, or the hidden message that asks to
\* continue (isResume)
Asked(resume) == [role |-> "user", resume |-> resume]

(***************************************************************************)
(* What an answer may be:                                                  *)
(*   "block"  a code block of file name, closed or not (an odd number of   *)
(*            fences), named by its fence or by the prose (cited); as an   *)
(*            answer to "continue", its text alone counts                  *)
(*   "edit"   an edit of the file, in the old protocol                     *)
(*   "tool"   a version the server's tool wrote (fileEdits)                *)
(* end: its text holds the end of the file; whole: it starts the file      *)
(* anew; truncated: the generation met the token limit.                    *)
(***************************************************************************)
Answer(kind, name, w, end, closed, cited, whole, truncated) ==
    [role |-> "assistant", kind |-> kind, name |-> name, w |-> w, end |-> end,
     closed |-> closed, cited |-> cited, whole |-> whole, truncated |-> truncated]

Answers ==
    {Answer("block", "page", w, e, c, p, h, ~c /\ ~e) :
        w \in Sizes, e \in BOOLEAN, c \in BOOLEAN, p \in BOOLEAN, h \in BOOLEAN}
    \cup {Answer("block", "script", w, FALSE, c, p, FALSE, ~c) :
        w \in Sizes, c \in BOOLEAN, p \in BOOLEAN}
    \cup {Answer(k, n, 1, FALSE, TRUE, FALSE, FALSE, FALSE) : k \in {"edit", "tool"}, n \in FileNames}

-----------------------------------------------------------------------------
EndsOf(m) == IF m.end /\ m.name = "page" THEN 1 ELSE 0

\* Mutant: every block is a version
isFragmentNever(old, w) == FALSE

\* isFragment: much shorter than a file that is already substantial
isFragment(old, w) == old.size >= 2 /\ 3 * w < 2 * old.size

\* isExcerptOf: a short block that prose names after an existing file
isExcerptOf(m, old) == m.cited /\ old.size > 0 /\ m.w = 1 /\ 3 * m.w < old.size

\* parseArtifacts: does the answer hold a file?
IsArtifact(m, files) == m.kind = "block" /\ ~isExcerptOf(m, files[m.name])

\* rejoin: a continuation that rewrites the whole page replaces it, any other
\* is glued to it (what it repeats is absorbed)
rejoin(base, m, i) ==
    IF m.whole /\ m.name = "page" /\ m.end /\ 2 * m.w >= base.size
    THEN Text(m.w, 1, {i})
    ELSE Text(base.size + m.w, base.ends + EndsOf(m), base.by \cup {i})

\* incompleteResponse of a rebuilt file, which has no fences left
FusionIncomplete(name, f) == name = "page" /\ f.ends = 0

\* incompleteResponse of a message: an open block that is not a page with its
\* end, or a page without one
incompleteResponse(m) ==
    /\ m.kind = "block"
    /\ IF m.closed THEN m.name = "page" /\ ~m.end ELSE ~(m.name = "page" /\ m.end)

(***************************************************************************)
(* filesUntil, one message: the files, and the one left unfinished.        *)
(***************************************************************************)
Resumed(msgs, i) == i > 1 /\ msgs[i - 1].role = "user" /\ msgs[i - 1].resume

\* Mutant: with no file left open, the last page is taken for it
ContinuedLast(st, m, i) ==
    LET n == IF st.unfinished = "" THEN "page" ELSE st.unfinished
        fusion == rejoin(st.files[n], [m EXCEPT !.name = n], i)
    IN IF st.files[n] = NoFile THEN [st EXCEPT !.unfinished = ""]
       ELSE [files |-> [st.files EXCEPT ![n] = fusion],
             unfinished |-> IF m.truncated \/ FusionIncomplete(n, fusion) THEN n ELSE ""]

\* A continuation.  It completes the file left unfinished, or is no file.
Continued(st, m, i) ==
    LET n == st.unfinished
        fusion == rejoin(st.files[n], [m EXCEPT !.name = n], i)
    IN IF n = "" \/ st.files[n] = NoFile THEN [st EXCEPT !.unfinished = ""]
       ELSE [files |-> [st.files EXCEPT ![n] = fusion],
             unfinished |-> IF m.truncated \/ FusionIncomplete(n, fusion) THEN n ELSE ""]

\* The version a block gives its file: the one being written when the cut left
\* it open (unless it is a stub), otherwise whole, unless a fragment
Version(old, m, open, i) ==
    IF \/ open /\ (old = NoFile \/ 4 * m.w >= old.size)
       \/ ~isFragment(old, m.w)
    THEN Text(m.w, EndsOf(m), {i}) ELSE old

\* Any other message: its block, its edit, its tool's version
Written(st, m, i) ==
    LET is == IsArtifact(m, st.files)
        open == is /\ ~m.closed
        old == st.files[m.name]
        new == IF is THEN Version(old, m, open, i)
               ELSE IF m.kind = "edit" /\ old # NoFile THEN [old EXCEPT !.by = @ \cup {i}]
               ELSE IF m.kind = "tool"
               THEN Text(IF old = NoFile THEN m.w ELSE old.size, old.ends, old.by \cup {i})
               ELSE old
    IN [files |-> [st.files EXCEPT ![m.name] = new],
        unfinished |-> IF open THEN m.name ELSE ""]

Walk(msgs) ==
    LET st[i \in 0..Len(msgs)] ==
        IF i = 0 THEN [files |-> [n \in FileNames |-> NoFile], unfinished |-> ""]
        ELSE IF msgs[i].role = "user" THEN st[i - 1]
        ELSE IF Resumed(msgs, i) /\ msgs[i].kind # "edit" THEN Continued(st[i - 1], msgs[i], i)
        ELSE Written(st[i - 1], msgs[i], i)
    IN st

filesUntil(msgs, i) == Walk(msgs)[i].files

\* messageMerge: what a continuation completed
messageMerge(msgs, i) ==
    IF ~Resumed(msgs, i) THEN {}
    ELSE {n \in FileNames : filesUntil(msgs, i - 1)[n] \notin {NoFile, filesUntil(msgs, i)[n]}}

\* fileLeftOpen: of a continuation, only the rebuilt file decides
fileLeftOpen(msgs, i) ==
    IF Resumed(msgs, i)
    THEN \E n \in messageMerge(msgs, i) : FusionIncomplete(n, filesUntil(msgs, i)[n])
    ELSE incompleteResponse(msgs[i])

\* forSave, then fromSaved: the versions of the tools are not saved
Reloaded(msgs) ==
    [i \in DOMAIN msgs |->
        IF msgs[i].role = "assistant" /\ msgs[i].kind = "tool"
        THEN [msgs[i] EXCEPT !.kind = "talk"] ELSE msgs[i]]

-----------------------------------------------------------------------------
ThreadInit == thread = <<>>

LastMsg == Len(thread)

\* A turn: the page asks to continue only what it takes for cut
Turn(resume, m) ==
    /\ LastMsg < 2 * MaxThread
    /\ resume => LastMsg > 0 /\ (fileLeftOpen(thread, LastMsg) \/ thread[LastMsg].truncated)
    /\ m.whole => resume
    /\ thread' = thread \o <<Asked(resume), m>>

ThreadNext == \E resume \in BOOLEAN, m \in Answers : Turn(resume, m)

ThreadSpec == ThreadInit /\ [][ThreadNext]_threadVars

-----------------------------------------------------------------------------
ThreadTypeOK == \A i \in DOMAIN thread : thread[i] \in Answers \cup {Asked(TRUE), Asked(FALSE)}

\* A file that is known stays known, and no message guts it: an excerpt, a
\* fragment, a stub or a hasty continuation never leaves less than a quarter
KeepsFiles ==
    \A n \in FileNames :
        LET old == filesUntil(thread, LastMsg)[n]
            new == filesUntil(thread', Len(thread'))[n]
        IN old # NoFile => new # NoFile /\ 4 * new.size >= old.size

NeverGutted == [][KeepsFiles]_threadVars

\* A stub that a cut left open, too short to replace the version before it
StubLeft(i) ==
    /\ i > 0 /\ thread[i].role = "assistant" /\ thread[i].kind = "block" /\ ~thread[i].closed
    /\ 4 * thread[i].w < filesUntil(thread, i - 1)[thread[i].name].size

\* A continuation is glued to a file really left open: no page gets a second
\* end, except after a stub, whose continuation goes to the version before it
OneEnd ==
    \A n \in FileNames :
        filesUntil(thread, LastMsg)[n].ends > 1 => \E i \in 1..LastMsg : StubLeft(i)

\* Nothing that can go out of sync: reloading the conversation rebuilds exactly
\* the same state
ReloadRebuilds == filesUntil(Reloaded(thread), LastMsg) = filesUntil(thread, LastMsg)
=============================================================================
