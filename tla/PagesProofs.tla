----------------------------- MODULE PagesProofs ----------------------------
(*****************************************************************************)
(* The invariants of the pages people write in: dictation, the image and     *)
(* video pages, voice cloning, the decisions page, the users of the          *)
(* administration, the message box, the preferences and the document         *)
(* panel; with the files of a conversation, the text of a model and the      *)
(* OCR page. Each holds when the page is mounted (...InitInv) and is kept    *)
(* by each of its steps (...Step).                                           *)
(*****************************************************************************)
EXTENDS Dictation, ThreadFiles, ModelText, Scan, Studio, VoiceClone, Workbench,
        AdminUsers, Composer, Preferences, DocPanel, FiniteSetTheorems,
        SequenceTheorems, WellFoundedInduction, TLAPS

-----------------------------------------------------------------------------
(* Dictation                                                               *)

\* The field of a dictation, and the state of the hook.
Heard == 0 .. MaxSpeech
SentOrNone == 0 .. MaxMessages
FieldRec == [typed : SentOrNone, said : [msg : SentOrNone, upto : Heard, last : BOOLEAN]]
DictRec ==
    [mounted : BOOLEAN, isRecording : BOOLEAN, finishing : Int, rec : {0} \cup Recorders,
     run : Nat, pollRun : Nat, busy : BOOLEAN, base : FieldRec, value : FieldRec,
     msg : SentOrNone \ {0}]
PassRec == [kind : {"poll", "final"}, run : Nat, upto : Heard, msg : SentOrNone]

\* What was typed before the recorder opened is of the message being written.
FreshBase == dict.base.typed \in {0, dict.msg}

\* Every pass that may still write is of the message being written, and so is
\* the text in front of which it writes.
DictInv ==
    /\ dict \in DictRec /\ passes \in SUBSET PassRec
    /\ recs \in [Recorders -> [st : {"none", "opening", "on", "off"}, speech : Heard]]
    /\ SentNeverReturns
    /\ dict.rec # 0 => FreshBase
    /\ \A p \in passes : p.run <= dict.run
    /\ \A p \in passes : Current(p) => p.msg = dict.msg /\ FreshBase

\* The bounds of a dictation, and its empty field.
LEMMA DictSets == /\ 0 \in Heard /\ 0 \in SentOrNone /\ 1 \in SentOrNone \ {0}
                  /\ Heard \subseteq Nat /\ SentOrNone \subseteq Nat
                  /\ EmptyField \in FieldRec /\ EmptyField.typed = 0
                  /\ EmptyField.said.msg = 0
<1>1. /\ 0 \in Heard /\ 0 \in SentOrNone /\ 1 \in SentOrNone \ {0}
      /\ Heard \subseteq Nat /\ SentOrNone \subseteq Nat
  BY DictationAssumption DEF Heard, SentOrNone
<1> QED
  BY <1>1 DEF EmptyField, Field, NothingSaid, Said, FieldRec

\* A field with nothing dictated yet is within the invariant.
LEMMA DictInitInv == DictInit => DictInv
<1> SUFFICES ASSUME DictInit PROVE DictInv
  OBVIOUS
<1>1. dict \in DictRec /\ dict.rec = 0 /\ dict.value = EmptyField
  BY DictSets DEF DictInit, DictRec
<1> QED
  BY <1>1, DictSets DEF DictInit, DictInv, SentNeverReturns

\* Every step keeps it: sending a message makes all passes under way old.
LEMMA DictStep == ASSUME DictInv, [DictNext]_dictVars PROVE DictInv'
<1> USE DEF DictInv, SentNeverReturns, FreshBase, Current
<1>1. CASE TypeText
  BY <1>1 DEF TypeText, DictRec, FieldRec
<1>2. CASE Poll
  <2> DEFINE a == [kind |-> "poll", run |-> dict.pollRun, upto |-> recs[dict.rec].speech,
                   msg |-> dict.msg]
  <2>1. a \in PassRec /\ a.run = dict.run /\ a.msg = dict.msg /\ FreshBase
    BY <1>2 DEF Poll, DictRec, PassRec
  <2>2. /\ dict' \in DictRec /\ dict'.rec = dict.rec /\ dict'.base = dict.base
        /\ dict'.run = dict.run /\ dict'.msg = dict.msg /\ dict'.value = dict.value
    BY <1>2 DEF Poll, DictRec
  <2>3. passes' = passes \cup {a} /\ recs' = recs /\ dict.run \in Nat
    BY <1>2 DEF Poll, DictRec
  <2> HIDE DEF a
  <2> QED
    BY <2>1, <2>2, <2>3
<1>3. CASE StopDictation
  <2> DEFINE a == [kind |-> "final", run |-> dict.run, upto |-> recs[dict.rec].speech,
                   msg |-> dict.msg]
  <2>1. ASSUME dict.rec # 0
        PROVE  a \in PassRec /\ a.run = dict.run /\ a.msg = dict.msg /\ FreshBase
    BY <2>1 DEF DictRec, PassRec
  <2>2. /\ dict' \in DictRec /\ dict'.rec = 0 /\ dict'.base = dict.base
        /\ dict'.run = dict.run /\ dict'.msg = dict.msg /\ dict'.value = dict.value
    <3> DEFINE f == IF dict.rec = 0 THEN dict.finishing ELSE dict.finishing + 1
    <3>1. dict \in DictRec /\ f \in Int
      BY DEF DictRec
    <3>2. dict' = [dict EXCEPT !.rec = 0, !.isRecording = FALSE, !.finishing = f]
      BY <1>3 DEF StopDictation
    <3> HIDE DEF f
    <3> QED
      BY ONLY <3>1, <3>2 DEF DictRec
  <2>3. recs' \in [Recorders -> [st : {"none", "opening", "on", "off"}, speech : Heard]]
    BY <1>3 DEF StopDictation, Released, DictRec
  <2>4. passes' = IF dict.rec = 0 THEN passes ELSE passes \cup {a}
    BY <1>3 DEF StopDictation
  <2>5. dict.run \in Nat
    BY DEF DictRec
  <2> HIDE DEF a
  <2> QED
    BY <2>1, <2>2, <2>3, <2>4, <2>5
<1>4. CASE SendField
  <2>1. EmptyField \in FieldRec /\ EmptyField.typed = 0 /\ EmptyField.said.msg = 0
    BY DictSets
  <2>2. /\ dict' \in DictRec /\ dict'.rec = 0 /\ dict'.value = EmptyField
        /\ dict'.run = dict.run + 1
    <3> DEFINE n == dict.run + 1
               m == dict.msg + 1
    <3>1. dict \in DictRec /\ n \in Nat /\ m \in SentOrNone \ {0}
      <4>1. dict.msg \in SentOrNone \ {0} /\ dict.run \in Nat /\ dict.msg < MaxMessages
        BY <1>4 DEF SendField, DictRec
      <4> QED
        BY <4>1, DictationAssumption DEF SentOrNone
    <3>2. dict' = [dict EXCEPT !.run = n, !.rec = 0, !.isRecording = FALSE,
                               !.value = EmptyField, !.msg = m]
      BY <1>4 DEF SendField, Cancelled, DictRec
    <3> HIDE DEF n, m
    <3>3. dict' \in DictRec /\ dict'.rec = 0 /\ dict'.value = EmptyField /\ dict'.run = n
      BY ONLY <2>1, <3>1, <3>2 DEF DictRec
    <3> QED
      BY <3>3 DEF n
  <2>3. recs' \in [Recorders -> [st : {"none", "opening", "on", "off"}, speech : Heard]]
    BY <1>4 DEF SendField, Released, DictRec
  <2>4. passes' = passes /\ dict.run \in Nat /\ \A p \in passes : p.run \in Nat
    BY <1>4 DEF SendField, DictRec, PassRec
  <2> QED
    BY <2>1, <2>2, <2>3, <2>4
<1>5. CASE Unmount
  BY <1>5 DEF Unmount, DictRec, Released
<1>6. ASSUME NEW r \in Recorders, StartDictation(r) PROVE DictInv'
  BY <1>6 DEF StartDictation
<1>7. ASSUME NEW r \in Recorders, RecorderOpens(r) PROVE DictInv'
  <2> DEFINE n == IF dict.isRecording THEN dict.pollRun ELSE dict.run
  <2>1. dict \in DictRec /\ n \in Nat
    BY DEF DictRec
  <2>2. dict' = [dict EXCEPT !.rec = r, !.base = dict.value, !.isRecording = TRUE, !.pollRun = n]
    BY <1>7 DEF RecorderOpens
  <2> HIDE DEF n
  <2>3. /\ dict' \in DictRec /\ dict'.base = dict.value /\ dict'.value = dict.value
        /\ dict'.run = dict.run /\ dict'.msg = dict.msg
    BY ONLY <2>1, <2>2 DEF DictRec
  <2> QED
    BY <1>7, <2>3 DEF RecorderOpens
<1>8. ASSUME NEW r \in Recorders, RecorderRefused(r) PROVE DictInv'
  BY <1>8 DEF RecorderRefused
<1>9. ASSUME NEW r \in Recorders, Speak(r) PROVE DictInv'
  <2>1. recs[r].speech + 1 \in Heard
    BY <1>9, DictationAssumption DEF Speak, Heard
  <2> QED
    BY <1>9, <2>1 DEF Speak
<1>10. ASSUME NEW p \in passes, NEW ok \in BOOLEAN, PassAnswers(p, ok) PROVE DictInv'
  <2>1. Wrote(p) \in FieldRec
    BY DEF Wrote, Field, Said, DictRec, FieldRec, PassRec
  <2>2. Wrote(p).typed \in {0, dict.msg} /\ Wrote(p).said.msg \in {0, dict.msg}
    BY DEF Wrote, Field, Said
  <2>3. /\ dict' \in DictRec /\ dict'.rec = dict.rec /\ dict'.base = dict.base
        /\ dict'.run = dict.run /\ dict'.msg = dict.msg
        /\ dict'.value \in {dict.value, Wrote(p)}
    <3> DEFINE v == IF ok THEN Wrote(p) ELSE dict.value
               b == IF p.kind = "poll" THEN FALSE ELSE dict.busy
               f == IF p.kind = "final" THEN dict.finishing - 1 ELSE dict.finishing
    <3>1. v \in FieldRec /\ b \in BOOLEAN /\ f \in Int /\ v \in {dict.value, Wrote(p)}
      <4>1. dict.value \in FieldRec /\ dict.busy \in BOOLEAN /\ dict.finishing \in Int
        BY DEF DictRec
      <4>2. f \in Int
        BY ONLY <4>1
      <4> QED
        BY ONLY <2>1, <4>1, <4>2
    <3>2. dict' = [dict EXCEPT !.value = v, !.busy = b, !.finishing = f]
      BY <1>10 DEF PassAnswers
    <3>3. dict \in DictRec
      OBVIOUS
    <3> HIDE DEF v, b, f
    <3> QED
      BY ONLY <3>1, <3>2, <3>3 DEF DictRec
  <2> QED
    BY <1>10, <2>2, <2>3 DEF PassAnswers
<1>11. CASE UNCHANGED dictVars
  BY <1>11 DEF dictVars
<1> QED
  BY <1>1, <1>2, <1>3, <1>4, <1>5, <1>6, <1>7, <1>8, <1>9, <1>10, <1>11 DEF DictNext

\* The invariant gives the property the runs check, and the type.
LEMMA DictIs == DictInv => SentNeverReturns /\ DictTypeOK
<1> SUFFICES ASSUME DictInv PROVE SentNeverReturns /\ DictTypeOK
  OBVIOUS
<1>1. dict.rec \in {0} \cup Recorders /\ dict.msg \in SentOrNone \ {0} /\ dict.value \in FieldRec
  BY DEF DictInv, DictRec
<1>2. dict.value.typed \in SentOrNone /\ dict.value.said.upto \in Heard
  BY <1>1 DEF FieldRec
<1>3. dict.rec \in 0 .. MaxRecorders /\ dict.msg \in 1 .. MaxMessages
  BY <1>1, DictationAssumption DEF Recorders, SentOrNone
<1>4. \A r \in Recorders : recs[r].st \in {"none", "opening", "on", "off"}
  BY DEF DictInv
<1> QED
  BY <1>2, <1>3, <1>4 DEF DictInv, DictTypeOK, SentOrNone, Heard

-----------------------------------------------------------------------------
(* The files of a conversation (ThreadFiles)                               *)

-----------------------------------------------------------------------------
(* The files of a conversation                                             *)

\* A set of numbers that holds 0 and the successor of each member holds all.
LEMMA NumbersAre ==
  ASSUME NEW S \in SUBSET Nat, 0 \in S, \A n \in S : n + 1 \in S
  PROVE  S = Nat
<1> SUFFICES ASSUME S # Nat PROVE FALSE
  OBVIOUS
<1> DEFINE T == Nat \ S
<1>1. PICK x \in T : \A y \in T : ~(<<y, x>> \in OpToRel(<, Nat))
  <2>1. T # {} /\ T \subseteq Nat
    OBVIOUS
  <2> QED
    BY <2>1, NatLessThanWellFounded, WFMin
<1>2. x \in Nat /\ x \notin S /\ x # 0
  OBVIOUS
<1>3. x - 1 \in Nat /\ x - 1 < x /\ (x - 1) + 1 = x
  BY <1>2
<1>4. x - 1 \in T
  BY <1>2, <1>3
<1>5. <<x - 1, x>> \in OpToRel(<, Nat)
  BY <1>2, <1>3 DEF OpToRel
<1> QED
  BY <1>1, <1>4, <1>5

\* The files before any message, and after message i of msgs.
NoFiles == [files |-> [n \in FileNames |-> NoFile], unfinished |-> ""]
After(msgs, i, s) ==
  IF msgs[i].role = "user" THEN s
  ELSE IF Resumed(msgs, i) /\ msgs[i].kind # "edit" THEN Continued(s, msgs[i], i)
  ELSE Written(s, msgs[i], i)

\* The walk over the messages is the recursion it is written as: there is a
\* function that satisfies it, built one message after the other.
LEMMA WalkIs ==
  ASSUME NEW msgs, Len(msgs) \in Nat
  PROVE  Walk(msgs) = [i \in 0 .. Len(msgs) |->
                         IF i = 0 THEN NoFiles ELSE After(msgs, i, Walk(msgs)[i - 1])]
<1> DEFINE Walked(f, n) == [i \in 0 .. n |-> IF i = 0 THEN NoFiles ELSE After(msgs, i, f[i - 1])]
           S == {n \in Nat : \E f : f = Walked(f, n)}
<1>1. 0 \in S
  <2> DEFINE f == [i \in 0 .. 0 |-> NoFiles]
  <2>1. \A i \in 0 .. 0 : i = 0
    OBVIOUS
  <2>2. f = Walked(f, 0)
    BY <2>1
  <2> QED
    BY <2>2
<1>2. ASSUME NEW n \in S PROVE n + 1 \in S
  <2>1. PICK f : f = Walked(f, n)
    OBVIOUS
  <2> DEFINE g == [i \in 0 .. n + 1 |-> IF i = n + 1 THEN After(msgs, n + 1, f[n]) ELSE f[i]]
  <2>2. \A i \in 0 .. n + 1 : g[i] = Walked(g, n + 1)[i]
    <3> SUFFICES ASSUME NEW i \in 0 .. n + 1 PROVE g[i] = Walked(g, n + 1)[i]
      OBVIOUS
    <3>0. n \in Nat
      OBVIOUS
    <3>1. CASE i = 0
      <4>1. f[0] = NoFiles /\ 0 # n + 1
        BY <2>1, <3>0
      <4> QED
        BY <3>0, <3>1, <4>1
    <3>2. CASE i = n + 1
      <4>1. g[n] = f[n] /\ i # 0 /\ i - 1 = n
        BY <3>0, <3>2
      <4> QED
        BY <3>0, <3>2, <4>1
    <3>3. CASE i # 0 /\ i # n + 1
      <4>1. i \in 0 .. n /\ i - 1 \in 0 .. n + 1 /\ i - 1 # n + 1
        BY <3>0, <3>3
      <4>2. f[i] = After(msgs, i, f[i - 1])
        BY <2>1, <3>3, <4>1
      <4>3. g[i] = f[i] /\ g[i - 1] = f[i - 1]
        BY <3>3, <4>1
      <4> QED
        BY <3>3, <4>2, <4>3
    <3> QED
      BY <3>1, <3>2, <3>3
  <2>3. g = Walked(g, n + 1)
    BY <2>2
  <2>4. n + 1 \in Nat
    OBVIOUS
  <2> HIDE DEF g, Walked
  <2> QED
    BY <2>3, <2>4
<1>3. S = Nat
  <2> HIDE DEF S
  <2>1. S \in SUBSET Nat
    BY DEF S
  <2> QED
    BY <1>1, <1>2, <2>1, NumbersAre
<1>4. \E f : f = Walked(f, Len(msgs))
  BY <1>3
<1> QED
  BY <1>4 DEF Walk, After, NoFiles

\* A message of a conversation, a file, and what a walk knows.
ThreadMsgs == Answers \cup {Asked(TRUE), Asked(FALSE)}
FileRec == [size : Nat, ends : Nat, by : SUBSET Nat]
WalkRec == [files : [FileNames -> FileRec], unfinished : FileNames \cup {""}]

\* What an answer may say of itself.
AnswerSound(m) ==
  /\ m.role = "assistant" /\ m.kind \in {"block", "edit", "tool"} /\ m.name \in FileNames /\ m.w \in Nat /\ m.w > 0
  /\ m.end \in BOOLEAN /\ m.closed \in BOOLEAN /\ m.cited \in BOOLEAN /\ m.whole \in BOOLEAN /\ m.truncated \in BOOLEAN
  /\ m.truncated => ~m.end

\* Every answer is sound.
LEMMA AnswersAre == \A m \in Answers : AnswerSound(m)
<1> USE ThreadAssumption
<1>1. \A w \in Sizes : w \in Nat /\ w > 0
  OBVIOUS
<1> DEFINE Pages == {Answer("block", "page", w, e, c, p, h, ~c /\ ~e) :
                       w \in Sizes, e \in BOOLEAN, c \in BOOLEAN, p \in BOOLEAN, h \in BOOLEAN}
           Scripts == {Answer("block", "script", w, FALSE, c, p, FALSE, ~c) :
                         w \in Sizes, c \in BOOLEAN, p \in BOOLEAN}
           Edits == {Answer(k, n, 1, FALSE, TRUE, FALSE, FALSE, FALSE) : k \in {"edit", "tool"}, n \in FileNames}
<1>5. ASSUME NEW m \in Pages PROVE AnswerSound(m)
  <2>1. PICK w \in Sizes, e \in BOOLEAN, c \in BOOLEAN, p \in BOOLEAN, h \in BOOLEAN :
          m = Answer("block", "page", w, e, c, p, h, ~c /\ ~e)
    BY DEF Answer
  <2>2. w \in Nat /\ w > 0
    BY <1>1
  <2> HIDE DEF Pages, Scripts, Edits
  <2> QED
    BY <2>1, <2>2, Zenon DEF AnswerSound, Answer, FileNames
<1>6. ASSUME NEW m \in Scripts PROVE AnswerSound(m)
  <2>1. PICK w \in Sizes, c \in BOOLEAN, p \in BOOLEAN : m = Answer("block", "script", w, FALSE, c, p, FALSE, ~c)
    BY DEF Answer
  <2>2. w \in Nat /\ w > 0
    BY <1>1
  <2> HIDE DEF Pages, Scripts, Edits
  <2> QED
    BY <2>1, <2>2, Zenon DEF AnswerSound, Answer, FileNames
<1>7. ASSUME NEW m \in Edits PROVE AnswerSound(m)
  <2>1. PICK k \in {"edit", "tool"}, n \in FileNames : m = Answer(k, n, 1, FALSE, TRUE, FALSE, FALSE, FALSE)
    BY DEF Answer
  <2>2. 1 \in Nat /\ 1 > 0
    OBVIOUS
  <2> HIDE DEF Pages, Scripts, Edits
  <2> QED
    BY <2>1, <2>2, Zenon DEF AnswerSound, Answer, FileNames
<1>8. Answers = (Pages \cup Scripts) \cup Edits
  BY DEF Answers
<1> HIDE DEF Pages, Scripts, Edits
<1> QED
  BY <1>5, <1>6, <1>7, <1>8

\* The walk, message by message.
LEMMA WalkAt ==
  ASSUME NEW msgs \in Seq(ThreadMsgs)
  PROVE  /\ Walk(msgs)[0] = NoFiles
         /\ \A i \in 1 .. Len(msgs) : Walk(msgs)[i] = After(msgs, i, Walk(msgs)[i - 1])
<1> DEFINE n == Len(msgs)
           W == Walk(msgs)
<1>1. n \in Nat
  BY LenProperties
<1>2. W = [i \in 0 .. n |-> IF i = 0 THEN NoFiles ELSE After(msgs, i, W[i - 1])]
  BY <1>1, WalkIs
<1>3. 0 \in 0 .. n /\ \A i \in 1 .. n : i \in 0 .. n /\ i # 0
  BY <1>1
<1> HIDE DEF W, n
<1>4. W[0] = NoFiles
  BY <1>2, <1>3
<1>5. \A i \in 1 .. n : W[i] = After(msgs, i, W[i - 1])
  BY <1>2, <1>3
<1> QED
  BY <1>4, <1>5 DEF W, n

\* What a conversation goes on to say does not change what it said before.
LEMMA WalkPrefix ==
  ASSUME NEW msgs \in Seq(ThreadMsgs), NEW more \in Seq(ThreadMsgs), Len(msgs) <= Len(more),
         \A i \in 1 .. Len(msgs) : more[i] = msgs[i]
  PROVE  \A i \in 0 .. Len(msgs) : Walk(more)[i] = Walk(msgs)[i]
<1> DEFINE n == Len(msgs)
           S == {i \in Nat : i <= n => Walk(more)[i] = Walk(msgs)[i]}
<1>1. n \in Nat /\ Len(more) \in Nat
  BY LenProperties
<1>2. 0 \in S
  BY WalkAt
<1>3. ASSUME NEW i \in S PROVE i + 1 \in S
  <2> SUFFICES ASSUME i + 1 <= n PROVE Walk(more)[i + 1] = Walk(msgs)[i + 1]
    OBVIOUS
  <2>1. i \in Nat /\ i <= n /\ i + 1 \in 1 .. n /\ i + 1 \in 1 .. Len(more) /\ (i + 1) - 1 = i /\ (i + 1 > 1 => i \in 1 .. n)
    BY <1>1
  <2>2. Walk(more)[i] = Walk(msgs)[i]
    BY <2>1
  <2>3. more[i + 1] = msgs[i + 1] /\ (i + 1 > 1 => more[i] = msgs[i])
    BY <2>1
  <2>4. Resumed(more, i + 1) = Resumed(msgs, i + 1)
    BY <2>1, <2>3 DEF Resumed
  <2>5. After(more, i + 1, Walk(msgs)[i]) = After(msgs, i + 1, Walk(msgs)[i])
    BY <2>3, <2>4 DEF After
  <2>6. /\ Walk(more)[i + 1] = After(more, i + 1, Walk(more)[i])
        /\ Walk(msgs)[i + 1] = After(msgs, i + 1, Walk(msgs)[i])
    <3>1. /\ Walk(more)[i + 1] = After(more, i + 1, Walk(more)[(i + 1) - 1])
          /\ Walk(msgs)[i + 1] = After(msgs, i + 1, Walk(msgs)[(i + 1) - 1])
      BY <2>1, WalkAt
    <3> QED
      BY <2>1, <3>1
  <2> QED
    BY <2>2, <2>5, <2>6
<1>4. S = Nat
  <2>1. S \in SUBSET Nat
    OBVIOUS
  <2> HIDE DEF S
  <2> QED
    BY <1>2, <1>3, <2>1, NumbersAre
<1> QED
  BY <1>1, <1>4

\* A file g after a file f: known if f was, and not gutted.
Grown(f, g) == f # NoFile => g # NoFile /\ 4 * g.size >= f.size

\* A text of the model is a file, and one with an author is known.
LEMMA TextIs ==
  ASSUME NEW size \in Nat, NEW ends \in Nat, NEW by \in SUBSET Nat
  PROVE  /\ Text(size, ends, by) \in FileRec
         /\ Text(size, ends, by).size = size /\ Text(size, ends, by).ends = ends /\ Text(size, ends, by).by = by
         /\ by # {} => Text(size, ends, by) # NoFile
<1>1. /\ Text(size, ends, by) \in FileRec
      /\ Text(size, ends, by).size = size /\ Text(size, ends, by).ends = ends /\ Text(size, ends, by).by = by
  BY DEF Text, FileRec
<1>2. NoFile.by = {}
  BY DEF NoFile
<1> QED
  BY <1>1, <1>2

\* No file is a file of size 0.
LEMMA NoFileIs == NoFile \in FileRec /\ NoFile.size = 0 /\ NoFile.ends = 0 /\ NoFiles \in WalkRec
<1>1. NoFile \in FileRec /\ NoFile.size = 0 /\ NoFile.ends = 0
  <2>1. 0 \in Nat /\ {} \in SUBSET Nat
    OBVIOUS
  <2> QED
    BY <2>1 DEF NoFile, FileRec
<1> QED
  BY <1>1 DEF NoFiles, WalkRec

\* A file that stays as it is.
LEMMA GrownSame == \A f \in FileRec : Grown(f, f)
<1> SUFFICES ASSUME NEW f \in FileRec PROVE Grown(f, f)
  OBVIOUS
<1>1. f.size \in Nat
  BY DEF FileRec
<1>2. 4 * f.size >= f.size
  BY <1>1
<1> QED
  BY <1>2 DEF Grown

\* rejoin: what a continuation makes of the file it is glued to.
LEMMA RejoinIs ==
  ASSUME NEW f \in FileRec, NEW m, AnswerSound(m), NEW i \in Nat
  PROVE  /\ rejoin(f, m, i) \in FileRec /\ Grown(f, rejoin(f, m, i))
         /\ rejoin(f, m, i).ends \in {1, f.ends + EndsOf(m)}
         /\ ~m.end => rejoin(f, m, i).ends = f.ends
         /\ EndsOf(m) \in {0, 1}
<1> DEFINE g == rejoin(f, m, i)
           whole == m.whole /\ m.name = "page" /\ m.end /\ 2 * m.w >= f.size
<1>1. f.size \in Nat /\ f.ends \in Nat /\ f.by \in SUBSET Nat /\ m.w \in Nat /\ m.w > 0 /\ 1 \in Nat
  BY DEF FileRec, AnswerSound
<1>2. EndsOf(m) \in {0, 1} /\ (~m.end => EndsOf(m) = 0)
  BY DEF EndsOf
<1>3. CASE whole
  <2>1. g = Text(m.w, 1, {i})
    BY <1>3 DEF rejoin
  <2>2. g \in FileRec /\ g.size = m.w /\ g.ends = 1 /\ g # NoFile
    <3>1. {i} \in SUBSET Nat /\ {i} # {}
      OBVIOUS
    <3> HIDE DEF g, whole
    <3> QED
      BY <1>1, <2>1, <3>1, TextIs
  <2>3. 4 * g.size >= f.size /\ m.end
    BY <1>1, <1>3, <2>2
  <2> HIDE DEF g
  <2>4. Grown(f, g)
    BY <2>2, <2>3 DEF Grown
  <2> QED
    BY <1>2, <2>2, <2>3, <2>4 DEF g
<1>4. CASE ~whole
  <2> DEFINE a == f.size + m.w
             b == f.ends + EndsOf(m)
             c == f.by \cup {i}
  <2>1. g = Text(a, b, c)
    BY <1>4 DEF rejoin
  <2>2. a \in Nat /\ b \in Nat /\ c \in SUBSET Nat /\ c # {}
    BY <1>1, <1>2
  <2>3. g \in FileRec /\ g.size = f.size + m.w /\ g.ends = f.ends + EndsOf(m) /\ g # NoFile
    <3> HIDE DEF g, whole, a, b, c
    <3>1. g \in FileRec /\ g.size = a /\ g.ends = b /\ g # NoFile
      BY <2>1, <2>2, TextIs
    <3> QED
      BY <3>1 DEF a, b
  <2>4. 4 * g.size >= f.size
    BY <1>1, <2>3
  <2> HIDE DEF g
  <2>5. Grown(f, g)
    BY <2>3, <2>4 DEF Grown
  <2>6. ~m.end => g.ends = f.ends
    BY <1>1, <1>2, <2>3
  <2> QED
    BY <1>2, <2>3, <2>5, <2>6 DEF g
<1> QED
  BY <1>3, <1>4

\* Version: a block that an open fence or its length makes a version, or the file
\* as it was; when a cut left the block open and it is not taken, it is a stub.
LEMMA VersionIs ==
  ASSUME NEW f \in FileRec, NEW m, AnswerSound(m), NEW open \in BOOLEAN, NEW i \in Nat
  PROVE  /\ Version(f, m, open, i) \in FileRec /\ Grown(f, Version(f, m, open, i))
         /\ Version(f, m, open, i).ends \in {f.ends, EndsOf(m)} /\ EndsOf(m) \in {0, 1}
         /\ open => Version(f, m, open, i).ends = EndsOf(m) \/ 4 * m.w < f.size
<1> DEFINE g == Version(f, m, open, i)
           taken == (open /\ (f = NoFile \/ 4 * m.w >= f.size)) \/ ~isFragment(f, m.w)
<1>1. f.size \in Nat /\ f.ends \in Nat /\ m.w \in Nat /\ m.w > 0
  BY DEF FileRec, AnswerSound
<1>2. EndsOf(m) \in {0, 1} /\ EndsOf(m) \in Nat
  BY DEF EndsOf
<1>3. CASE taken
  <2>1. g = Text(m.w, EndsOf(m), {i})
    BY <1>3 DEF Version
  <2>2. g \in FileRec /\ g.size = m.w /\ g.ends = EndsOf(m) /\ g # NoFile
    <3>1. {i} \in SUBSET Nat /\ {i} # {}
      OBVIOUS
    <3> QED
      BY <1>1, <1>2, <2>1, <3>1, TextIs
  <2>3. f # NoFile => 4 * m.w >= f.size
    BY <1>1, <1>3 DEF isFragment
  <2> HIDE DEF g
  <2>4. Grown(f, g)
    BY <2>2, <2>3 DEF Grown
  <2> QED
    BY <1>2, <2>2, <2>4 DEF g
<1>4. CASE ~taken
  <2>1. g = f
    BY <1>4 DEF Version
  <2>2. Grown(f, f)
    BY <1>1 DEF Grown
  <2>3. open => 4 * m.w < f.size
    BY <1>1, <1>4
  <2> HIDE DEF g
  <2> QED
    BY <1>2, <2>1, <2>2, <2>3 DEF g
<1> QED
  BY <1>3, <1>4

\* Continued: a continuation changes the file left unfinished, if there is one.
LEMMA ContinuedIs ==
  ASSUME NEW s \in WalkRec, NEW m, AnswerSound(m), NEW i \in Nat
  PROVE  /\ Continued(s, m, i) \in WalkRec
         /\ \A n \in FileNames : Grown(s.files[n], Continued(s, m, i).files[n])
         /\ (s.unfinished # "" => s.files[s.unfinished].ends = 0) /\ (\A n \in FileNames : s.files[n].ends <= 1) =>
              /\ \A n \in FileNames : Continued(s, m, i).files[n].ends <= 1
              /\ LET n == Continued(s, m, i).unfinished IN n # "" => Continued(s, m, i).files[n].ends = 0
<1> DEFINE n == s.unfinished
           f == s.files[n]
           k == [m EXCEPT !.name = n]
           g == rejoin(f, k, i)
           u == IF m.truncated \/ FusionIncomplete(n, g) THEN n ELSE ""
           c == Continued(s, m, i)
<1>0. n \in FileNames \cup {""} /\ s.files \in [FileNames -> FileRec]
  BY DEF WalkRec
<1>1. CASE n = "" \/ s.files[n] = NoFile
  <2>1. c = [s EXCEPT !.unfinished = ""]
    BY <1>1 DEF Continued
  <2>2. c \in WalkRec /\ c.files = s.files /\ c.unfinished = ""
    BY <2>1 DEF WalkRec
  <2>3. \A x \in FileNames : Grown(s.files[x], s.files[x])
    BY <1>0, GrownSame
  <2> HIDE DEF c
  <2> QED
    BY <2>2, <2>3 DEF c
<1>2. CASE n # "" /\ s.files[n] # NoFile
  <2>1. c = [files |-> [s.files EXCEPT ![n] = g], unfinished |-> u]
    BY <1>2 DEF Continued
  <2>2. n \in FileNames /\ f \in FileRec
    BY <1>0, <1>2
  <2>3. AnswerSound(k) /\ k.end = m.end
    BY <2>2 DEF AnswerSound
  <2> HIDE DEF k
  <2>4. /\ g \in FileRec /\ Grown(f, g) /\ g.ends \in {1, f.ends + EndsOf(k)}
        /\ ~m.end => g.ends = f.ends
        /\ EndsOf(k) \in {0, 1}
    BY <2>2, <2>3, RejoinIs
  <2> HIDE DEF g
  <2>5. u \in {n, ""} /\ (u # "" => m.truncated \/ g.ends = 0)
    BY DEF FusionIncomplete
  <2>6. m.truncated => ~m.end
    BY DEF AnswerSound
  <2> HIDE DEF u
  <2>7. c \in WalkRec /\ c.unfinished = u /\ c.files[n] = g /\ \A x \in FileNames : x # n => c.files[x] = s.files[x]
    <3> DEFINE fs == [s.files EXCEPT ![n] = g]
    <3>1. fs \in [FileNames -> FileRec] /\ fs[n] = g /\ \A x \in FileNames : x # n => fs[x] = s.files[x]
      BY <1>0, <2>2, <2>4
    <3>2. c = [files |-> fs, unfinished |-> u] /\ u \in FileNames \cup {""}
      BY <2>1, <2>2, <2>5
    <3> HIDE DEF fs, c, n
    <3> QED
      BY <3>1, <3>2 DEF WalkRec
  <2> HIDE DEF c
  <2>8. \A x \in FileNames : Grown(s.files[x], c.files[x])
    <3>1. \A x \in FileNames : Grown(s.files[x], s.files[x])
      BY <1>0, GrownSame
    <3> QED
      BY <2>4, <2>7, <3>1
  <2>9. ASSUME f.ends = 0, \A x \in FileNames : s.files[x].ends <= 1
        PROVE  /\ \A x \in FileNames : c.files[x].ends <= 1
               /\ c.unfinished # "" => c.files[c.unfinished].ends = 0
    <3>1. g.ends <= 1
      BY <2>4, <2>9
    <3>2. u # "" => g.ends = 0 /\ u = n
      BY <2>4, <2>5, <2>6, <2>9
    <3> QED
      BY <2>7, <2>9, <3>1, <3>2
  <2> QED
    BY <1>2, <2>7, <2>8, <2>9 DEF c
<1> QED
  BY <1>1, <1>2

\* Written: any other message changes the file it names.
LEMMA WrittenIs ==
  ASSUME NEW s \in WalkRec, NEW m, AnswerSound(m), NEW i \in Nat
  PROVE  /\ Written(s, m, i) \in WalkRec
         /\ \A n \in FileNames : Grown(s.files[n], Written(s, m, i).files[n])
         /\ (\A n \in FileNames : s.files[n].ends <= 1) => \A n \in FileNames : Written(s, m, i).files[n].ends <= 1
         /\ LET n == Written(s, m, i).unfinished
            IN  n # "" => /\ m.kind = "block" /\ ~m.closed /\ n = m.name
                          /\ Written(s, m, i).files[n].ends = EndsOf(m) \/ 4 * m.w < s.files[n].size
<1> DEFINE is == IsArtifact(m, s.files)
           open == is /\ ~m.closed
           f == s.files[m.name]
           g == IF is THEN Version(f, m, open, i)
                ELSE IF m.kind = "edit" /\ f # NoFile THEN [f EXCEPT !.by = @ \cup {i}]
                ELSE IF m.kind = "tool" THEN Text(IF f = NoFile THEN m.w ELSE f.size, f.ends, f.by \cup {i})
                ELSE f
           u == IF open THEN m.name ELSE ""
           c == Written(s, m, i)
<1>0. m.name \in FileNames /\ s.files \in [FileNames -> FileRec] /\ f \in FileRec /\ m.w \in Nat
  BY DEF WalkRec, AnswerSound
<1>1. c = [files |-> [s.files EXCEPT ![m.name] = g], unfinished |-> u]
  BY DEF Written
<1>2. /\ g \in FileRec /\ Grown(f, g) /\ g.ends \in {f.ends, EndsOf(m)} /\ EndsOf(m) \in {0, 1}
      /\ open => g.ends = EndsOf(m) \/ 4 * m.w < f.size
  <2>0. EndsOf(m) \in {0, 1} /\ f.size \in Nat /\ f.ends \in Nat /\ f.by \in SUBSET Nat
    BY <1>0 DEF EndsOf, FileRec
  <2>1. CASE is
    <3>1. g = Version(f, m, open, i) /\ open \in BOOLEAN
      BY <2>1
    <3> HIDE DEF g, open, is, f
    <3> QED
      BY <1>0, <3>1, VersionIs
  <2>2. CASE ~is /\ m.kind = "edit" /\ f # NoFile
    <3>1. g = [f EXCEPT !.by = @ \cup {i}]
      BY <2>2
    <3> HIDE DEF g, f, is, open
    <3>2. g \in FileRec /\ g.size = f.size /\ g.ends = f.ends /\ i \in g.by
      BY <1>0, <3>1 DEF FileRec
    <3>3. g # NoFile
      BY <3>2 DEF NoFile
    <3>4. Grown(f, g)
      BY <2>0, <3>2, <3>3 DEF Grown
    <3> QED
      BY <2>0, <2>2, <3>2, <3>4 DEF open
  <2>3. CASE ~is /\ m.kind = "tool"
    <3> DEFINE a == IF f = NoFile THEN m.w ELSE f.size
               b == f.by \cup {i}
    <3>1. g = Text(a, f.ends, b)
      BY <2>3
    <3>2. a \in Nat /\ b \in SUBSET Nat /\ b # {} /\ (f # NoFile => a = f.size)
      BY <1>0, <2>0
    <3> HIDE DEF g, a, b, f, is
    <3>3. g \in FileRec /\ g.size = a /\ g.ends = f.ends /\ g # NoFile
      BY <2>0, <3>1, <3>2, TextIs
    <3>4. Grown(f, g)
      BY <2>0, <3>2, <3>3 DEF Grown
    <3> QED
      BY <2>0, <2>3, <3>3, <3>4
  <2>4. CASE ~is /\ ~(m.kind = "edit" /\ f # NoFile) /\ m.kind # "tool"
    <3>1. g = f
      BY <2>4
    <3>2. Grown(f, f)
      BY <2>0 DEF Grown
    <3> HIDE DEF g
    <3> QED
      BY <1>0, <2>0, <2>4, <3>1, <3>2
  <2> QED
    BY <2>1, <2>2, <2>3, <2>4
<1> HIDE DEF g
<1>3. u \in {m.name, ""} /\ (u # "" => open) /\ (open => m.kind = "block" /\ ~m.closed)
  BY DEF IsArtifact
<1> HIDE DEF u
<1>4. c \in WalkRec /\ c.unfinished = u /\ c.files[m.name] = g /\ \A x \in FileNames : x # m.name => c.files[x] = s.files[x]
  <2> DEFINE fs == [s.files EXCEPT ![m.name] = g]
  <2>1. fs \in [FileNames -> FileRec] /\ fs[m.name] = g /\ \A x \in FileNames : x # m.name => fs[x] = s.files[x]
    BY <1>0, <1>2
  <2>2. c = [files |-> fs, unfinished |-> u] /\ u \in FileNames \cup {""}
    BY <1>0, <1>1, <1>3
  <2> HIDE DEF fs, c
  <2> QED
    BY <2>1, <2>2 DEF WalkRec
<1> HIDE DEF c, open, is
<1>5. \A x \in FileNames : Grown(s.files[x], c.files[x])
  <2>1. \A x \in FileNames : Grown(s.files[x], s.files[x])
    BY <1>0, GrownSame
  <2> QED
    BY <1>2, <1>4, <2>1
<1>6. ASSUME \A x \in FileNames : s.files[x].ends <= 1 PROVE \A x \in FileNames : c.files[x].ends <= 1
  <2>1. g.ends <= 1
    BY <1>0, <1>2, <1>6
  <2> QED
    BY <1>4, <1>6, <2>1
<1>7. c.unfinished # "" => /\ m.kind = "block" /\ ~m.closed /\ c.unfinished = m.name
                           /\ c.files[c.unfinished].ends = EndsOf(m) \/ 4 * m.w < s.files[c.unfinished].size
  BY <1>2, <1>3, <1>4
<1> QED
  BY <1>4, <1>5, <1>6, <1>7 DEF c

\* The page would ask to continue message i (Turn).
Resumable(msgs, i) == i > 0 /\ (fileLeftOpen(msgs, i) \/ msgs[i].truncated)

\* No page has two ends, and one that is left unfinished after its end is not
\* one the page asks to continue.
EndsOnce(msgs, s) ==
  /\ \A n \in FileNames : s.files[n].ends <= 1
  /\ s.unfinished # "" /\ s.files[s.unfinished].ends # 0 => ~Resumable(msgs, Len(msgs))

\* The inductive invariant: what the walk found at the end of the conversation,
\* and that a second end comes after a stub.
ThreadInv ==
  /\ thread \in Seq(ThreadMsgs) /\ Walk(thread)[Len(thread)] \in WalkRec
  /\ (\E i \in 1 .. Len(thread) : StubLeft(i)) \/ EndsOnce(thread, Walk(thread)[Len(thread)])

\* A conversation starts with no message and no file.
LEMMA ThreadInitInv == ThreadInit => ThreadInv
<1> SUFFICES ASSUME ThreadInit PROVE ThreadInv
  OBVIOUS
<1>1. thread \in Seq(ThreadMsgs) /\ Len(thread) = 0
  BY DEF ThreadInit
<1>2. Walk(thread)[0] = NoFiles
  BY <1>1, WalkAt
<1>3. NoFiles \in WalkRec /\ NoFiles.unfinished = "" /\ \A n \in FileNames : NoFiles.files[n].ends <= 1
  <2>1. NoFiles.files = [n \in FileNames |-> NoFile] /\ NoFiles.unfinished = ""
    BY DEF NoFiles
  <2>2. \A n \in FileNames : NoFiles.files[n] = NoFile
    BY <2>1
  <2>3. NoFile.ends <= 1
    BY NoFileIs
  <2> QED
    BY <2>1, <2>2, <2>3, NoFileIs
<1> QED
  BY <1>1, <1>2, <1>3 DEF ThreadInv, EndsOnce

\* The conversation after a turn: the walk goes on from where it was.
LEMMA TurnWalks ==
  ASSUME thread \in Seq(ThreadMsgs), NEW resume \in BOOLEAN, NEW m \in Answers, Turn(resume, m)
  PROVE  /\ thread' \in Seq(ThreadMsgs) /\ Len(thread') = Len(thread) + 2
         /\ \A i \in 1 .. Len(thread) : thread'[i] = thread[i]
         /\ thread'[Len(thread) + 2] = m /\ (Resumed(thread', Len(thread) + 2) <=> resume)
         /\ \A i \in 0 .. Len(thread) : Walk(thread')[i] = Walk(thread)[i]
         /\ Walk(thread')[Len(thread) + 1] = Walk(thread)[Len(thread)]
         /\ Walk(thread')[Len(thread) + 2] =
              IF resume /\ m.kind # "edit" THEN Continued(Walk(thread)[Len(thread)], m, Len(thread) + 2)
              ELSE Written(Walk(thread)[Len(thread)], m, Len(thread) + 2)
<1> DEFINE n == Len(thread)
           a == Asked(resume)
           t == <<a, m>>
<1>0. n \in Nat /\ AnswerSound(m) /\ m.role = "assistant"
  BY LenProperties, AnswersAre DEF AnswerSound
<1>1. a \in ThreadMsgs /\ m \in ThreadMsgs /\ a.role = "user" /\ a.resume = resume
  <2>1. a.role = "user" /\ a.resume = resume
    BY DEF Asked
  <2>2. resume = TRUE \/ resume = FALSE
    OBVIOUS
  <2>3. a \in ThreadMsgs
    <3>1. CASE resume = TRUE
      BY <3>1 DEF ThreadMsgs
    <3>2. CASE resume = FALSE
      BY <3>2 DEF ThreadMsgs
    <3> QED
      BY <2>2, <3>1, <3>2
  <2> QED
    BY <2>1, <2>3 DEF ThreadMsgs
<1> HIDE DEF a
<1>2. t \in Seq(ThreadMsgs) /\ Len(t) = 2 /\ t[1] = a /\ t[2] = m
  BY <1>1
<1>3. thread' = thread \o t
  BY DEF Turn, a
<1> HIDE DEF t
<1>4. thread' \in Seq(ThreadMsgs) /\ Len(thread') = n + 2
  <2>1. thread \o t \in Seq(ThreadMsgs) /\ Len(thread \o t) = Len(thread) + Len(t)
    BY <1>2, ConcatProperties
  <2> QED
    BY <1>2, <1>3, <2>1
<1>5. \A i \in 1 .. n : thread'[i] = thread[i]
  BY <1>0, <1>2, <1>3, ConcatProperties
<1>6. thread'[n + 1] = a /\ thread'[n + 2] = m
  <2>1. \A i \in 1 .. n + 2 : thread'[i] = IF i <= n THEN thread[i] ELSE t[i - n]
    BY <1>0, <1>2, <1>3, ConcatProperties
  <2>2. /\ n + 1 \in 1 .. n + 2 /\ n + 2 \in 1 .. n + 2 /\ ~(n + 1 <= n) /\ ~(n + 2 <= n)
        /\ (n + 1) - n = 1 /\ (n + 2) - n = 2
    BY <1>0
  <2> QED
    BY <1>2, <2>1, <2>2
<1>7. \A i \in 0 .. n : Walk(thread')[i] = Walk(thread)[i]
  <2>1. n <= Len(thread')
    BY <1>0, <1>4
  <2> QED
    BY <1>4, <1>5, <2>1, WalkPrefix
<1>8. /\ n + 1 \in 1 .. Len(thread') /\ n + 2 \in 1 .. Len(thread') /\ (n + 1) - 1 = n /\ (n + 2) - 1 = n + 1 /\ n + 2 > 1
      /\ n \in 0 .. n
  BY <1>0, <1>4
<1>9. Resumed(thread', n + 2) <=> resume
  BY <1>1, <1>6, <1>8 DEF Resumed
<1>10. Walk(thread')[n + 1] = Walk(thread)[n]
  <2>1. Walk(thread')[n + 1] = After(thread', n + 1, Walk(thread')[(n + 1) - 1])
    BY <1>4, <1>8, WalkAt
  <2>2. After(thread', n + 1, Walk(thread')[n]) = Walk(thread')[n]
    BY <1>1, <1>6 DEF After
  <2> QED
    BY <1>7, <1>8, <2>1, <2>2
<1>11. Walk(thread')[n + 2] =
         IF resume /\ m.kind # "edit" THEN Continued(Walk(thread)[n], m, n + 2) ELSE Written(Walk(thread)[n], m, n + 2)
  <2>1. Walk(thread')[n + 2] = After(thread', n + 2, Walk(thread')[(n + 2) - 1])
    BY <1>4, <1>8, WalkAt
  <2>2. Walk(thread')[(n + 2) - 1] = Walk(thread)[n]
    BY <1>8, <1>10
  <2> QED
    BY <1>0, <1>6, <1>9, <2>1, <2>2 DEF After
<1> QED
  BY <1>4, <1>5, <1>6, <1>7, <1>9, <1>10, <1>11

\* A turn keeps the invariant and every file.
LEMMA TurnKeeps ==
  ASSUME ThreadInv, NEW resume \in BOOLEAN, NEW m \in Answers, Turn(resume, m)
  PROVE  ThreadInv' /\ KeepsFiles
<1> DEFINE n == Len(thread)
           W == Walk(thread)[n]
           V == Walk(thread')[n + 2]
<1>0. /\ thread \in Seq(ThreadMsgs) /\ W \in WalkRec /\ n \in Nat /\ n + 2 \in Nat /\ AnswerSound(m)
      /\ n + 2 \in 1 .. n + 2 /\ (n + 2) - 1 = n + 1
  BY LenProperties, AnswersAre DEF ThreadInv
<1>1. /\ thread' \in Seq(ThreadMsgs) /\ Len(thread') = n + 2
      /\ \A i \in 1 .. n : thread'[i] = thread[i]
      /\ thread'[n + 2] = m /\ (Resumed(thread', n + 2) <=> resume)
      /\ \A i \in 0 .. n : Walk(thread')[i] = Walk(thread)[i]
      /\ Walk(thread')[n + 1] = W
      /\ V = IF resume /\ m.kind # "edit" THEN Continued(W, m, n + 2) ELSE Written(W, m, n + 2)
  BY <1>0, TurnWalks
<1>2. Resumable(thread, n) \/ ~resume
  BY DEF Turn, Resumable, LastMsg
<1> HIDE DEF W, V, n
<1>3. V \in WalkRec /\ \A x \in FileNames : Grown(W.files[x], V.files[x])
  <2>1. CASE resume /\ m.kind # "edit"
    BY <1>0, <1>1, <2>1, ContinuedIs
  <2>2. CASE ~(resume /\ m.kind # "edit")
    BY <1>0, <1>1, <2>2, WrittenIs
  <2> QED
    BY <2>1, <2>2
<1>4. KeepsFiles
  BY <1>1, <1>3 DEF KeepsFiles, filesUntil, LastMsg, Grown, W, V, n
<1>5. ASSUME NEW i \in 1 .. n, StubLeft(i) PROVE \E j \in 1 .. n + 2 : StubLeft(j)'
  <2>1. i \in 1 .. n + 2 /\ i - 1 \in 0 .. n /\ thread'[i] = thread[i]
    BY <1>0, <1>1
  <2>2. filesUntil(thread', i - 1) = filesUntil(thread, i - 1)
    BY <1>1, <2>1 DEF filesUntil
  <2>3. StubLeft(i)'
    BY <1>5, <2>1, <2>2 DEF StubLeft
  <2> QED
    BY <2>1, <2>3
<1>6. ASSUME EndsOnce(thread, W) PROVE (\E j \in 1 .. n + 2 : StubLeft(j)') \/ EndsOnce(thread', V)
  <2>0. \A x \in FileNames : W.files[x].ends <= 1
    BY <1>6 DEF EndsOnce
  <2>1. CASE resume /\ m.kind # "edit"
    <3>1. W.unfinished # "" => W.files[W.unfinished].ends = 0
      BY <1>2, <1>6, <2>1 DEF EndsOnce, n
    <3>2. (\A x \in FileNames : V.files[x].ends <= 1) /\ (V.unfinished # "" => V.files[V.unfinished].ends = 0)
      BY <1>0, <1>1, <2>0, <2>1, <3>1, ContinuedIs
    <3> QED
      BY <3>2 DEF EndsOnce
  <2>2. CASE ~(resume /\ m.kind # "edit")
    <3>1. /\ \A x \in FileNames : V.files[x].ends <= 1
          /\ V.unfinished # "" => /\ m.kind = "block" /\ ~m.closed /\ V.unfinished = m.name
                                  /\ V.files[m.name].ends = EndsOf(m) \/ 4 * m.w < W.files[m.name].size
      <4>1. V = Written(W, m, n + 2)
        BY <1>1, <2>2
      <4> QED
        BY <1>0, <2>0, <4>1, WrittenIs
    <3>2. CASE V.unfinished # "" /\ 4 * m.w < W.files[m.name].size
      <4>0. PICK k \in 1 .. n + 2 : k = n + 2
        BY <1>0
      <4>1. filesUntil(thread', k - 1) = W.files
        BY <1>0, <1>1, <4>0 DEF filesUntil
      <4>2. StubLeft(k)'
        <5>0. m.role = "assistant" /\ k > 0
          BY <1>0, <4>0 DEF AnswerSound
        <5>1. thread'[k] = m /\ m.kind = "block" /\ ~m.closed
          BY <1>1, <3>1, <3>2, <4>0
        <5> QED
          BY <3>2, <4>1, <5>0, <5>1 DEF StubLeft
      <4> QED
        BY <1>0, <4>2
    <3>3. CASE V.unfinished # "" /\ V.files[m.name].ends = EndsOf(m) /\ EndsOf(m) # 0
      <4>1. m.kind = "block" /\ ~m.closed /\ m.name = "page" /\ m.end /\ ~m.truncated
        BY <1>0, <3>1, <3>3 DEF EndsOf, AnswerSound
      <4>2. ~resume
        BY <2>2, <4>1
      <4>3. ~fileLeftOpen(thread', n + 2)
        BY <1>1, <4>1, <4>2 DEF fileLeftOpen, incompleteResponse
      <4>4. ~Resumable(thread', n + 2)
        BY <1>1, <4>1, <4>3 DEF Resumable
      <4> QED
        BY <1>1, <3>1, <4>4 DEF EndsOnce
    <3>4. CASE V.unfinished # "" /\ V.files[m.name].ends = EndsOf(m) /\ EndsOf(m) = 0
      BY <3>1, <3>4 DEF EndsOnce
    <3>5. CASE V.unfinished = ""
      BY <3>1, <3>5 DEF EndsOnce
    <3> QED
      BY <3>1, <3>2, <3>3, <3>4, <3>5
  <2> QED
    BY <2>1, <2>2
<1>7. (\E j \in 1 .. n + 2 : StubLeft(j)') \/ EndsOnce(thread', V)
  <2>1. (\E i \in 1 .. n : StubLeft(i)) \/ EndsOnce(thread, W)
    BY DEF ThreadInv, n, W
  <2> QED
    BY <1>5, <1>6, <2>1
<1>8. ThreadInv'
  BY <1>1, <1>3, <1>7 DEF ThreadInv, V
<1> QED
  BY <1>4, <1>8

\* Every step of a conversation keeps the invariant and the files.
LEMMA ThreadStep == ThreadInv /\ [ThreadNext]_threadVars => ThreadInv' /\ KeepsFiles
<1> SUFFICES ASSUME ThreadInv, [ThreadNext]_threadVars PROVE ThreadInv' /\ KeepsFiles
  OBVIOUS
<1>1. CASE ThreadNext
  BY <1>1, TurnKeeps DEF ThreadNext
<1>2. CASE UNCHANGED threadVars
  <2>1. thread' = thread
    BY <1>2 DEF threadVars
  <2>2. KeepsFiles
    <3>1. \A x \in FileNames : Grown(Walk(thread)[Len(thread)].files[x], Walk(thread)[Len(thread)].files[x])
      BY GrownSame DEF ThreadInv, WalkRec
    <3> QED
      BY <2>1, <3>1 DEF KeepsFiles, filesUntil, LastMsg, Grown
  <2>3. ThreadInv'
    BY <2>1 DEF ThreadInv, StubLeft, EndsOnce
  <2> QED
    BY <2>2, <2>3
<1> QED
  BY <1>1, <1>2

\* The invariant gives the property the runs check, and the type.
LEMMA ThreadIs == ThreadInv => OneEnd /\ ThreadTypeOK
<1> SUFFICES ASSUME ThreadInv PROVE OneEnd /\ ThreadTypeOK
  OBVIOUS
<1>1. ThreadTypeOK
  <2>1. \A i \in DOMAIN thread : thread[i] \in ThreadMsgs
    BY ElementOfSeq, LenProperties DEF ThreadInv
  <2> QED
    BY <2>1 DEF ThreadTypeOK, ThreadMsgs
<1>2. OneEnd
  <2> DEFINE W == Walk(thread)[Len(thread)]
  <2>1. CASE EndsOnce(thread, W)
    <3>1. \A x \in FileNames : W.files[x].ends <= 1 /\ W.files[x].ends \in Nat
      BY <2>1 DEF EndsOnce, ThreadInv, WalkRec, FileRec
    <3> QED
      BY <3>1 DEF OneEnd, filesUntil, LastMsg
  <2> QED
    BY <2>1 DEF ThreadInv, OneEnd, LastMsg
<1> QED
  BY <1>1, <1>2

-----------------------------------------------------------------------------
(* The text a model wrote (ModelText)                                      *)

-----------------------------------------------------------------------------
(* The text of a model                                                     *)

\* A token of either kind of text, and a text as it is written.
Tokens == ScriptTokens \cup JsonTokens
TextInv ==
  written \in [what : {"script", "json"}, s : Seq(Tokens)] /\ Len(written.s) <= MaxText

\* A text starts empty.
LEMMA TextInitInv == TextInit => TextInv
<1> SUFFICES ASSUME TextInit PROVE TextInv
  OBVIOUS
<1>1. <<>> \in Seq(Tokens) /\ Len(<<>>) <= MaxText
  BY TextAssumption
<1> QED
  BY <1>1 DEF TextInit, TextInv

\* A text is written token by token.
LEMMA TextStep == TextInv /\ [TextNext]_textVars => TextInv'
<1> SUFFICES ASSUME TextInv, [TextNext]_textVars PROVE TextInv'
  OBVIOUS
<1>0. written.s \in Seq(Tokens) /\ written.what \in {"script", "json"} /\ Len(written.s) \in Nat /\ MaxText \in Nat
  BY LenProperties, TextAssumption DEF TextInv
<1>1. ASSUME NEW tok \in Tokens, Len(written.s) < MaxText
      PROVE  Append(written.s, tok) \in Seq(Tokens) /\ Len(Append(written.s, tok)) <= MaxText
  <2>1. Append(written.s, tok) \in Seq(Tokens) /\ Len(Append(written.s, tok)) = Len(written.s) + 1
    BY <1>0, AppendProperties
  <2> QED
    BY <1>0, <1>1, <2>1
<1>2. ASSUME NEW tok \in ScriptTokens, WriteScript(tok) PROVE TextInv'
  <2>1. tok \in Tokens /\ Len(written.s) < MaxText
    BY <1>2 DEF WriteScript, Tokens
  <2> DEFINE t == Append(written.s, tok)
  <2>2. t \in Seq(Tokens) /\ Len(t) <= MaxText
    BY <1>1, <2>1
  <2>3. written' = [written EXCEPT !.s = t]
    BY <1>2 DEF WriteScript
  <2> HIDE DEF t
  <2> QED
    BY <2>2, <2>3 DEF TextInv
<1>3. ASSUME NEW tok \in JsonTokens, WriteJson(tok) PROVE TextInv'
  <2>1. tok \in Tokens /\ Len(written.s) < MaxText
    BY <1>3 DEF WriteJson, Tokens
  <2> DEFINE t == Append(written.s, tok)
  <2>2. t \in Seq(Tokens) /\ Len(t) <= MaxText
    BY <1>1, <2>1
  <2>3. written' = [what |-> "json", s |-> t]
    BY <1>3 DEF WriteJson
  <2> HIDE DEF t
  <2> QED
    BY <2>2, <2>3 DEF TextInv
<1>4. CASE UNCHANGED textVars
  BY <1>4 DEF TextInv, textVars
<1> QED
  BY <1>2, <1>3, <1>4 DEF TextNext

\* The invariant gives the type.
LEMMA WrittenTypes == TextInv => TextTypeOK
<1> SUFFICES ASSUME TextInv PROVE TextTypeOK
  OBVIOUS
<1>1. written.s \in Seq(Tokens) /\ written.what \in {"script", "json"} /\ Len(written.s) <= MaxText
  BY DEF TextInv
<1>2. \A i \in DOMAIN written.s : written.s[i] \in Tokens
  BY <1>1, ElementOfSeq, LenProperties
<1>3. ToSet(written.s) \subseteq Tokens
  BY <1>2 DEF ToSet
<1> QED
  BY <1>1, <1>3 DEF TextTypeOK, Tokens

-----------------------------------------------------------------------------
(* The OCR page (Scan)                                                     *)

-----------------------------------------------------------------------------
(* The OCR page                                                            *)

\* A piece of the text shown, and the page.
PieceRec == [run : 0 .. MaxScans, node : ScanNode]
ScanRec ==
  [avail : BOOLEAN, image : BOOLEAN, loading : BOOLEAN, text : Seq(PieceRec), beside : 0 .. MaxScans,
   view : {"text", "boxes"}, run : 0 .. MaxScans, doc : [1 .. MaxNodes -> ScanNode],
   history : SUBSET (1 .. MaxScans), mixed : BOOLEAN]

\* The inductive invariant: the text is of the image beside it, and so is what a
\* stream will add unless a row was opened over it.
ScanInv ==
  /\ scan \in ScanRec /\ OneSource
  /\ scan.loading => scan.run \in 1 .. MaxScans
  /\ scan.loading /\ ~scan.mixed => scan.beside = scan.run

\* The page opens with no text.
LEMMA ScanInitInv == ScanInit => ScanInv
<1> SUFFICES ASSUME ScanInit PROVE ScanInv
  OBVIOUS
<1> USE ScanAssumption
<1>1. PICK first \in ScanNode, rest \in [2 .. MaxNodes -> Paragraph], avail \in BOOLEAN :
        scan = [avail |-> avail, image |-> FALSE, loading |-> FALSE, text |-> <<>>,
                beside |-> 0, view |-> "text", run |-> 0,
                doc |-> [i \in 1 .. MaxNodes |-> IF i = 1 THEN first ELSE rest[i]],
                history |-> {}, mixed |-> FALSE]
  BY DEF ScanInit
<1> DEFINE d == [i \in 1 .. MaxNodes |-> IF i = 1 THEN first ELSE rest[i]]
<1>2. d \in [1 .. MaxNodes -> ScanNode]
  <2>1. Paragraph \subseteq ScanNode
    BY DEF ScanNode
  <2>2. \A i \in 1 .. MaxNodes : i # 1 => i \in 2 .. MaxNodes
    OBVIOUS
  <2> HIDE DEF d
  <2>3. \A i \in 1 .. MaxNodes : (IF i = 1 THEN first ELSE rest[i]) \in ScanNode
    BY <2>1, <2>2
  <2> QED
    BY <2>3 DEF d
<1> HIDE DEF d
<1>3. scan = [avail |-> avail, image |-> FALSE, loading |-> FALSE, text |-> <<>>,
              beside |-> 0, view |-> "text", run |-> 0, doc |-> d, history |-> {}, mixed |-> FALSE]
  BY <1>1 DEF d
<1>4. 0 \in 0 .. MaxScans /\ <<>> \in Seq(PieceRec) /\ {} \in SUBSET (1 .. MaxScans)
  OBVIOUS
<1>5. scan \in ScanRec
  BY <1>2, <1>3, <1>4, Zenon DEF ScanRec
<1>6. scan.text = <<>> /\ ~scan.loading
  BY <1>3
<1> QED
  BY <1>5, <1>6 DEF ScanInv, OneSource

\* What was received of the extraction under way.
LEMMA ReceivedIs == scan \in ScanRec => Received \in Nat
<1> SUFFICES ASSUME scan \in ScanRec PROVE Received \in Nat
  OBVIOUS
<1> DEFINE S == {i \in DOMAIN scan.text : scan.text[i].run = scan.run}
<1>1. scan.text \in Seq(PieceRec) /\ Len(scan.text) \in Nat /\ DOMAIN scan.text = 1 .. Len(scan.text)
  BY LenProperties DEF ScanRec
<1>2. IsFiniteSet(1 .. Len(scan.text)) /\ S \subseteq 1 .. Len(scan.text)
  BY <1>1, FS_Interval
<1>3. IsFiniteSet(S)
  BY <1>2, FS_Subset
<1> HIDE DEF S
<1>4. Cardinality(S) \in Nat
  BY <1>3, FS_CardinalityType
<1> QED
  BY <1>4 DEF Received, S

\* Every step of the page keeps the invariant, one case per action.
LEMMA ScanStep == ScanInv /\ [ScanNext]_scanVars => ScanInv'
<1> SUFFICES ASSUME ScanInv, [ScanNext]_scanVars PROVE ScanInv'
  OBVIOUS
<1> USE ScanAssumption
<1>0. /\ scan \in ScanRec /\ scan.text \in Seq(PieceRec) /\ scan.run \in 0 .. MaxScans /\ scan.beside \in 0 .. MaxScans
      /\ scan.doc \in [1 .. MaxNodes -> ScanNode] /\ scan.history \in SUBSET (1 .. MaxScans)
      /\ scan.view \in {"text", "boxes"}
  BY DEF ScanInv, ScanRec
<1>b. scan.image \in BOOLEAN /\ scan.loading \in BOOLEAN /\ scan.mixed \in BOOLEAN
  BY <1>0 DEF ScanRec
<1>1. CASE PickImage
  <2> DEFINE b == ~scan.image
  <2>1. scan' = [scan EXCEPT !.image = b] /\ b \in BOOLEAN
    BY <1>1 DEF PickImage
  <2> HIDE DEF b
  <2>2. /\ scan' \in ScanRec /\ scan'.text = scan.text /\ scan'.run = scan.run /\ scan'.beside = scan.beside
        /\ scan'.loading = scan.loading /\ scan'.mixed = scan.mixed
    BY <1>0, <2>1 DEF ScanRec
  <2> QED
    BY <2>2 DEF ScanInv, OneSource
<1>2. CASE Extract
  <2> DEFINE r == scan.run + 1
             t == <<>>
  <2>0. t \in Seq(PieceRec) /\ DOMAIN t = {}
    OBVIOUS
  <2>1. /\ scan' = [scan EXCEPT !.loading = TRUE, !.text = t, !.view = "text", !.run = r, !.beside = r, !.mixed = FALSE]
        /\ r \in 1 .. MaxScans /\ r \in 0 .. MaxScans
    BY <1>0, <1>2 DEF Extract
  <2> HIDE DEF r, t
  <2>2. scan' \in ScanRec /\ scan'.text = t /\ scan'.run = r /\ scan'.beside = r
    BY <1>0, <2>0, <2>1 DEF ScanRec
  <2> QED
    BY <2>0, <2>1, <2>2 DEF ScanInv, OneSource
<1>3. CASE ScanChunk
  <2> DEFINE e == [run |-> scan.run, node |-> scan.doc[Received + 1]]
             t == Append(scan.text, e)
  <2>1. scan' = [scan EXCEPT !.text = t] /\ scan.loading
    BY <1>3 DEF ScanChunk
  <2>2. e \in PieceRec /\ e.run = scan.run
    <3>1. Received + 1 \in 1 .. MaxNodes
      BY <1>0, <1>3, ReceivedIs DEF ScanChunk
    <3> QED
      BY <1>0, <3>1 DEF PieceRec
  <2> HIDE DEF e
  <2>3. /\ t \in Seq(PieceRec) /\ Len(t) = Len(scan.text) + 1 /\ Len(scan.text) \in Nat
        /\ \A i \in 1 .. Len(scan.text) : t[i] = scan.text[i]
        /\ t[Len(scan.text) + 1] = e
    BY <1>0, <2>2, AppendProperties, LenProperties
  <2> HIDE DEF t
  <2>4. /\ scan' \in ScanRec /\ scan'.text = t /\ scan'.run = scan.run /\ scan'.beside = scan.beside
        /\ scan'.loading = scan.loading /\ scan'.mixed = scan.mixed
    BY <1>0, <2>1, <2>3 DEF ScanRec
  <2>5. ASSUME ~scan.mixed PROVE \A i \in DOMAIN t : t[i].run = scan.beside
    <3>1. DOMAIN t = 1 .. Len(scan.text) + 1 /\ DOMAIN scan.text = 1 .. Len(scan.text)
      BY <1>0, <2>3, LenProperties
    <3>2. e.run = scan.beside
      BY <2>1, <2>2, <2>5 DEF ScanInv
    <3>3. \A i \in 1 .. Len(scan.text) : scan.text[i].run = scan.beside
      BY <2>5, <3>1 DEF ScanInv, OneSource
    <3>4. \A i \in 1 .. Len(scan.text) + 1 : i \in 1 .. Len(scan.text) \/ i = Len(scan.text) + 1
      BY <2>3
    <3> QED
      BY <2>3, <3>1, <3>2, <3>3, <3>4
  <2> QED
    BY <2>4, <2>5 DEF ScanInv, OneSource
<1>4. CASE StreamEnds
  <2> DEFINE h == IF Received = MaxNodes THEN scan.history \cup {scan.run} ELSE scan.history
  <2>1. scan' = [scan EXCEPT !.loading = FALSE, !.history = h] /\ h \in SUBSET (1 .. MaxScans)
    BY <1>0, <1>4 DEF StreamEnds, ScanInv
  <2> HIDE DEF h
  <2>2. /\ scan' \in ScanRec /\ scan'.text = scan.text /\ scan'.run = scan.run /\ scan'.beside = scan.beside
        /\ scan'.loading = FALSE /\ scan'.mixed = scan.mixed
    BY <1>0, <2>1 DEF ScanRec
  <2> QED
    BY <2>2 DEF ScanInv, OneSource
<1>5. ASSUME NEW h \in scan.history, OpenRow(h) PROVE ScanInv'
  <2> DEFINE t == [i \in 1 .. MaxNodes |-> [run |-> h, node |-> scan.doc[i]]]
  <2>1. scan' = [scan EXCEPT !.text = t, !.beside = h, !.view = "text", !.mixed = scan.loading]
    BY <1>5 DEF OpenRow
  <2>2. h \in 1 .. MaxScans /\ h \in 0 .. MaxScans
    BY <1>0
  <2>3. t \in [1 .. MaxNodes -> PieceRec] /\ \A i \in 1 .. MaxNodes : t[i].run = h
    BY <1>0, <2>2 DEF PieceRec
  <2>4. t \in Seq(PieceRec) /\ DOMAIN t = 1 .. MaxNodes
    BY <2>3, SeqDef
  <2> HIDE DEF t
  <2>5. /\ scan' \in ScanRec /\ scan'.text = t /\ scan'.run = scan.run /\ scan'.beside = h
        /\ scan'.loading = scan.loading /\ scan'.mixed = scan.loading
    BY <1>0, <1>b, <2>1, <2>2, <2>4 DEF ScanRec
  <2> QED
    BY <2>3, <2>4, <2>5 DEF ScanInv, OneSource
<1>6. CASE ToggleView
  <2> DEFINE v == IF scan.view = "text" THEN "boxes" ELSE "text"
  <2>1. scan' = [scan EXCEPT !.view = v] /\ v \in {"text", "boxes"}
    BY <1>6 DEF ToggleView
  <2> HIDE DEF v
  <2>2. /\ scan' \in ScanRec /\ scan'.text = scan.text /\ scan'.run = scan.run /\ scan'.beside = scan.beside
        /\ scan'.loading = scan.loading /\ scan'.mixed = scan.mixed
    BY <1>0, <2>1 DEF ScanRec
  <2> QED
    BY <2>2 DEF ScanInv, OneSource
<1>7. CASE UNCHANGED scanVars
  BY <1>7 DEF ScanInv, OneSource, scanVars
<1> QED
  BY <1>1, <1>2, <1>3, <1>4, <1>5, <1>6, <1>7 DEF ScanNext

\* The invariant gives where the text was read, and the type.
LEMMA ScanIs == ScanInv => OneSource /\ ScanTypeOK
<1> SUFFICES ASSUME ScanInv PROVE OneSource /\ ScanTypeOK
  OBVIOUS
<1>1. scan.avail \in BOOLEAN /\ scan.image \in BOOLEAN /\ scan.loading \in BOOLEAN /\ scan.mixed \in BOOLEAN
  BY DEF ScanInv, ScanRec
<1>2. scan.view \in {"text", "boxes"} /\ scan.run \in 0 .. MaxScans
      /\ scan.beside \in 0 .. MaxScans /\ scan.history \subseteq 1 .. MaxScans
  BY DEF ScanInv, ScanRec
<1>3. {scan.avail, scan.image, scan.loading, scan.mixed} \subseteq BOOLEAN
  BY <1>1, Zenon
<1> QED
  BY <1>2, <1>3 DEF ScanInv, ScanTypeOK

-----------------------------------------------------------------------------
(* The image and video pages                                               *)

\* A job by its number, 0 for none; the state of a page, and of a call.
JobNr == 0 .. MaxJobs

StudioRec ==
  [page : {"image", "video"}, open : BOOLEAN, avail : BOOLEAN,
   status : JobStatus \cup {"idle"}, shown : JobNr, history : Seq(JobStatus),
   alive : SUBSET JobNr, ref : JobNr, cancelling : BOOLEAN, viewer : JobNr,
   deleted : SUBSET JobNr, viewed : BOOLEAN, late : BOOLEAN]

JobCallRec ==
  [kind : {"post", "poll", "cancel", "history", "delete"}, job : JobNr,
   says : JobStatus \cup {"ok", "failed"}]

\* A page that is busy with a job of its own waits for the POST, or polls the
\* job it shows.  A poll or a cancellation under way is not enough: either may
\* come to nothing.
Waits(s, cs) ==
  (s.open /\ s.status \in {"pending", "running"} /\ ~s.viewed /\ ~s.late) =>
    (\E c \in cs : c.kind = "post") \/ s.shown \in s.alive

\* The types of the two pages, and that what they name are jobs of the portal.
StudioShape ==
  /\ studio \in StudioRec /\ calls \in SUBSET JobCallRec
  /\ jobs \in Seq(JobStatus) /\ Len(jobs) <= MaxJobs
  /\ Len(studio.history) <= Len(jobs)
  /\ studio.alive \subseteq DOMAIN jobs /\ studio.shown \in {0} \cup DOMAIN jobs
  /\ \A c \in calls : /\ c.kind = "poll" => c.says \in JobStatus
                      /\ c.kind = "post" => c.job \in {0} \cup DOMAIN jobs

\* The inductive invariant: the types, and that a busy page is watched.
StudioInv == StudioShape /\ Waits(studio, calls)

\* A page that opens waits for nothing.
LEMMA StudioInitInv == StudioInit => StudioInv
<1> SUFFICES ASSUME StudioInit PROVE StudioInv
  OBVIOUS
<1>1. 0 \in JobNr
  BY StudioAssumption DEF JobNr
<1>2. jobs \in Seq(JobStatus) /\ Len(jobs) <= 1 /\ Len(jobs) \in Nat
  <2>1. CASE jobs = <<>>
    BY <2>1
  <2>2. CASE jobs \in {<<s>> : s \in {"running", "done", "error"}}
    <3>1. PICK s \in {"running", "done", "error"} : jobs = <<s>>
      BY <2>2
    <3>2. s \in JobStatus
      BY DEF JobStatus
    <3> QED
      BY <3>1, <3>2
  <2> QED
    BY <2>1, <2>2 DEF StudioInit
<1>3. PICK which \in {"image", "video"}, avail \in BOOLEAN :
       studio = [page |-> which, open |-> TRUE, avail |-> avail,
                 status |-> "idle", shown |-> 0, history |-> jobs,
                 alive |-> {}, ref |-> 0, cancelling |-> FALSE,
                 viewer |-> 0, deleted |-> {},
                 viewed |-> FALSE, late |-> FALSE]
  BY DEF StudioInit
<1>4. studio \in StudioRec
  BY <1>1, <1>2, <1>3 DEF StudioRec
<1>5. calls = {}
  BY DEF StudioInit
<1> QED
  BY <1>2, <1>3, <1>4, <1>5, StudioAssumption DEF StudioInv, StudioShape, Waits

\* stopPolling() only takes one interval away.
LEMMA StoppedIs ==
  ASSUME NEW s \in StudioRec
  PROVE  /\ Stopped(s) \in StudioRec /\ Stopped(s).alive = s.alive \ {s.ref}
         /\ Stopped(s).ref = 0
         /\ \A f \in DOMAIN s \ {"alive", "ref"} : Stopped(s)[f] = s[f]
<1>1. 0 \in JobNr
  BY StudioAssumption DEF JobNr
<1>2. s.alive \ {s.ref} \in SUBSET JobNr
  BY DEF StudioRec
<1> QED
  BY <1>1, <1>2 DEF Stopped, StudioRec

\* What happens to a page that was left is not on a screen.
LEMMA OnScreenIs ==
  ASSUME StudioShape, NEW s \in StudioRec
  PROVE  /\ OnScreen(s) \in StudioRec
         /\ studio.open => OnScreen(s) = s
         /\ ~studio.open => /\ ~OnScreen(s).open /\ OnScreen(s).shown = studio.shown
                            /\ OnScreen(s).history = studio.history
                            /\ OnScreen(s).alive = s.alive
  BY DEF OnScreen, StudioShape, StudioRec

\* An answer is applied to a page as s says, and the requests are calls'.
LEMMA StudioLands ==
  ASSUME StudioShape, UNCHANGED jobs, NEW s \in StudioRec, studio' = OnScreen(s),
         calls' \in SUBSET JobCallRec,
         \A c \in calls' : c \in calls \/ c = HistoryCall,
         Len(s.history) <= Len(jobs), s.alive \subseteq DOMAIN jobs,
         s.shown \in {0} \cup DOMAIN jobs, studio.open => Waits(s, calls')
  PROVE  StudioInv'
<1>1. /\ studio' \in StudioRec
      /\ studio.open => studio' = s
      /\ ~studio.open => /\ ~studio'.open /\ studio'.shown = studio.shown
                         /\ studio'.history = studio.history /\ studio'.alive = s.alive
  BY OnScreenIs
<1>2. HistoryCall.kind = "history" /\ HistoryCall.job = 0
  BY DEF HistoryCall
<1>3. StudioShape'
  <2>1. /\ jobs' = jobs /\ jobs \in Seq(JobStatus) /\ Len(jobs) <= MaxJobs
        /\ Len(studio'.history) <= Len(jobs)
        /\ studio'.alive \subseteq DOMAIN jobs /\ studio'.shown \in {0} \cup DOMAIN jobs
    BY <1>1 DEF StudioShape
  <2>2. \A c \in calls' : /\ c.kind = "poll" => c.says \in JobStatus
                          /\ c.kind = "post" => c.job \in {0} \cup DOMAIN jobs
    BY <1>2 DEF StudioShape
  <2> QED
    BY <1>1, <2>1, <2>2 DEF StudioShape
<1>4. Waits(studio', calls')
  BY <1>1 DEF Waits
<1> QED
  BY <1>3, <1>4 DEF StudioInv

\* Every step of the pages keeps the invariant, one case per action.
LEMMA StudioStep == ASSUME StudioInv, [StudioNext]_studioVars PROVE StudioInv'
<1>0. /\ StudioShape /\ Waits(studio, calls) /\ studio \in StudioRec /\ calls \in SUBSET JobCallRec
      /\ 0 \in JobNr /\ HistoryCall \in JobCallRec
  <2>1. 0 \in JobNr
    BY StudioAssumption DEF JobNr
  <2> QED
    BY <2>1 DEF StudioInv, StudioShape, HistoryCall, JobCallRec
<1>1. CASE Generate
  <2> DEFINE t == IF studio.page = "image" THEN Stopped(studio) ELSE studio
             s == Posting(studio)
  <2>1. DOMAIN studio = {"page", "open", "avail", "status", "shown", "history", "alive", "ref",
                         "cancelling", "viewer", "deleted", "viewed", "late"}
    BY <1>0 DEF StudioRec
  <2>2. t \in StudioRec /\ t.history = studio.history /\ t.alive \subseteq studio.alive
    BY <1>0, <2>1, StoppedIs
  <2>3. s = [t EXCEPT !.status = "pending", !.shown = 0, !.viewed = FALSE, !.late = FALSE]
    BY DEF Posting
  <2> HIDE DEF t, s
  <2>4. /\ s \in StudioRec /\ s.history = studio.history /\ s.alive = t.alive /\ s.shown = 0
    BY <1>0, <2>2, <2>3 DEF StudioRec, JobStatus
  <2>5. studio' = s
    BY <1>1 DEF Generate, s
  <2>6. /\ Len(jobs) \in Nat /\ DOMAIN jobs = 1 .. Len(jobs) /\ Len(studio.history) \in Nat
        /\ jobs \in Seq(JobStatus)
    BY <1>0 DEF StudioShape, StudioRec
  <2>7. CASE /\ jobs' = Append(jobs, "pending") /\ Len(jobs) < MaxJobs
             /\ calls' = calls \cup {[kind |-> "post", job |-> Len(jobs'), says |-> "ok"]}
    <3> DEFINE n == Len(jobs')
               a == [kind |-> "post", job |-> n, says |-> "ok"]
    <3>1. /\ jobs' \in Seq(JobStatus) /\ n = Len(jobs) + 1 /\ n \in JobNr
          /\ DOMAIN jobs' = 1 .. n /\ n \in DOMAIN jobs' /\ n <= MaxJobs
          /\ DOMAIN jobs \subseteq DOMAIN jobs'
      <4>1. "pending" \in JobStatus
        BY DEF JobStatus
      <4> QED
        BY <2>6, <2>7, <4>1, StudioAssumption DEF JobNr
    <3>2. calls' = calls \cup {a}
      BY <2>7
    <3> HIDE DEF n
    <3>3. a \in JobCallRec /\ a.kind = "post" /\ a.job = n
      BY <3>1 DEF JobCallRec
    <3> HIDE DEF a
    <3>4. Waits(s, calls')
      BY <3>2, <3>3 DEF Waits
    <3>5. \A c \in calls' : /\ c.kind = "poll" => c.says \in JobStatus
                            /\ c.kind = "post" => c.job \in {0} \cup DOMAIN jobs'
      BY <1>0, <3>1, <3>2, <3>3 DEF StudioShape
    <3>6. Len(s.history) <= Len(jobs')
      BY <1>0, <2>4, <2>6, <3>1 DEF StudioShape, n
    <3>7. Len(jobs') <= MaxJobs
      BY <3>1 DEF n
    <3>8. s.alive \subseteq DOMAIN jobs'
      BY <1>0, <2>2, <2>4, <3>1 DEF StudioShape
    <3>9. calls' \in SUBSET JobCallRec
      BY <1>0, <3>2, <3>3
    <3> QED
      BY <2>4, <2>5, <3>1, <3>4, <3>5, <3>6, <3>7, <3>8, <3>9 DEF StudioInv, StudioShape
  <2>8. CASE /\ UNCHANGED jobs
             /\ calls' = calls \cup {[kind |-> "post", job |-> 0, says |-> "failed"]}
    <3> DEFINE a == [kind |-> "post", job |-> 0, says |-> "failed"]
    <3>1. calls' = calls \cup {a}
      BY <2>8
    <3>2. a \in JobCallRec /\ a.kind = "post" /\ a.job = 0
      BY <1>0 DEF JobCallRec
    <3> HIDE DEF a
    <3>3. Waits(s, calls')
      BY <3>1, <3>2 DEF Waits
    <3>4. \A c \in calls' : /\ c.kind = "poll" => c.says \in JobStatus
                            /\ c.kind = "post" => c.job \in {0} \cup DOMAIN jobs
      BY <1>0, <3>1, <3>2 DEF StudioShape
    <3>5. calls' \in SUBSET JobCallRec
      BY <1>0, <3>1, <3>2
    <3> QED
      BY <1>0, <2>2, <2>4, <2>5, <2>8, <3>3, <3>4, <3>5 DEF StudioInv, StudioShape
  <2> QED
    BY <1>1, <2>7, <2>8 DEF Generate
<1>2. ASSUME NEW c \in calls, PostAnswers(c) PROVE StudioInv'
  <2>1. CASE c.job = 0
    <3> DEFINE s == [studio EXCEPT !.status = "error"]
    <3>1. /\ s \in StudioRec /\ s.status = "error" /\ s.history = studio.history
          /\ s.alive = studio.alive /\ s.shown = studio.shown
      BY <1>0 DEF StudioRec, JobStatus
    <3>2. studio' = OnScreen(s) /\ calls' = calls \ {c} /\ UNCHANGED jobs
      BY <1>2, <2>1 DEF PostAnswers
    <3> HIDE DEF s
    <3>3. Waits(s, calls')
      BY <3>1 DEF Waits
    <3> QED
      BY <1>0, <3>1, <3>2, <3>3, StudioLands DEF StudioShape
  <2>2. CASE c.job # 0
    <3> DEFINE u == [studio EXCEPT !.shown = c.job]
               t == IF u.page = "video" THEN Stopped(u) ELSE u
               s == Armed(u, c.job)
    <3>1. c.job \in DOMAIN jobs /\ c.job \in JobNr
      BY <1>0, <1>2, <2>2 DEF PostAnswers, StudioShape, JobCallRec
    <3>2. /\ u \in StudioRec /\ u.shown = c.job /\ u.history = studio.history
          /\ u.alive = studio.alive
      BY <1>0, <3>1 DEF StudioRec
    <3> HIDE DEF u
    <3>3. DOMAIN u = {"page", "open", "avail", "status", "shown", "history", "alive", "ref",
                      "cancelling", "viewer", "deleted", "viewed", "late"}
      BY <3>2 DEF StudioRec
    <3>4. /\ t \in StudioRec /\ t.shown = c.job /\ t.history = studio.history
          /\ t.alive \subseteq studio.alive
      BY <3>2, <3>3, StoppedIs
    <3>5. s = [t EXCEPT !.alive = t.alive \cup {c.job}, !.ref = c.job]
      BY DEF Armed
    <3> HIDE DEF t, s
    <3>6. /\ s \in StudioRec /\ s.shown = c.job /\ s.history = studio.history
          /\ s.alive = t.alive \cup {c.job}
      BY <3>1, <3>4, <3>5 DEF StudioRec
    <3>7. studio' = OnScreen(s) /\ calls' = (calls \ {c}) \cup {HistoryCall} /\ UNCHANGED jobs
      BY <1>2, <2>2 DEF PostAnswers, s, u
    <3>8. Waits(s, calls')
      BY <3>6 DEF Waits
    <3>9. s.alive \subseteq DOMAIN jobs
      BY <1>0, <3>1, <3>4, <3>6 DEF StudioShape
    <3> QED
      BY <1>0, <3>1, <3>6, <3>7, <3>8, <3>9, StudioLands DEF StudioShape
  <2> QED
    BY <2>1, <2>2
<1>3. ASSUME NEW j \in studio.alive, PollFires(j) PROVE StudioInv'
  <2> DEFINE a == [kind |-> "poll", job |-> j, says |-> jobs[j]]
  <2>1. j \in JobNr /\ j \in DOMAIN jobs /\ jobs[j] \in JobStatus
    BY <1>0 DEF StudioShape, StudioRec
  <2>2. a \in JobCallRec /\ a.job = j /\ a.says \in JobStatus
    BY <2>1 DEF JobCallRec
  <2>3. calls' = calls \cup {a} /\ UNCHANGED <<studio, jobs>>
    BY <1>3 DEF PollFires
  <2> HIDE DEF a
  <2> QED
    BY <1>0, <2>1, <2>2, <2>3 DEF StudioInv, StudioShape, Waits
<1>4. ASSUME NEW c \in calls, PollFails(c) PROVE StudioInv'
  BY <1>0, <1>4 DEF PollFails, StudioInv, StudioShape, Waits
<1>5. ASSUME NEW c \in calls, PollAnswers(c) PROVE StudioInv'
  <2> DEFINE ends == c.says \in {"done", "error"}
             t == IF ends THEN Stopped(studio) ELSE studio
             b == studio.late \/ c.job \notin studio.alive \/ c.job # studio.shown
             s == Polled(studio, c)
  <2>0. DOMAIN studio = {"page", "open", "avail", "status", "shown", "history", "alive", "ref",
                         "cancelling", "viewer", "deleted", "viewed", "late"}
    BY <1>0 DEF StudioRec
  <2>1. c.says \in JobStatus /\ c.kind = "poll"
    BY <1>0, <1>5 DEF PollAnswers, StudioShape
  <2>2. /\ t \in StudioRec /\ t.history = studio.history /\ t.shown = studio.shown
        /\ t.alive \subseteq studio.alive /\ t.late = studio.late
        /\ ~ends => t.alive = studio.alive
    BY <1>0, <2>0, StoppedIs
  <2>3. b \in BOOLEAN
    OBVIOUS
  <2>4. s = [t EXCEPT !.status = c.says, !.late = b]
    BY <2>2 DEF Polled
  <2> HIDE DEF t, s, b
  <2>5. /\ s \in StudioRec /\ s.history = studio.history /\ s.shown = studio.shown
        /\ s.alive = t.alive /\ s.status = c.says /\ s.late = b
    BY <2>1, <2>2, <2>3, <2>4 DEF StudioRec
  <2>6. Waits(s, calls')
    <3>1. CASE ends
      BY <2>5, <3>1 DEF Waits
    <3>2. CASE ~ends
      BY <2>2, <2>5, <3>2 DEF Waits, b
    <3> QED
      BY <3>1, <3>2
  <2>7. /\ studio' = OnScreen(s) /\ UNCHANGED jobs
        /\ calls' = (calls \ {c}) \cup (IF ends THEN {HistoryCall} ELSE {})
    BY <1>5 DEF PollAnswers, s
  <2>8. calls' \in SUBSET JobCallRec /\ \A d \in calls' : d \in calls \/ d = HistoryCall
    BY <1>0, <2>7
  <2>9. s.alive \subseteq DOMAIN jobs /\ s.shown \in {0} \cup DOMAIN jobs
    BY <1>0, <2>2, <2>5 DEF StudioShape
  <2> QED
    BY <1>0, <2>5, <2>6, <2>7, <2>8, <2>9, StudioLands DEF StudioShape
<1>6. ASSUME NEW c \in calls, HistoryAnswers(c) PROVE StudioInv'
  <2> DEFINE s == [studio EXCEPT !.history = jobs]
  <2>1. /\ s \in StudioRec /\ s.history = jobs /\ s.shown = studio.shown
        /\ s.alive = studio.alive /\ s.open = studio.open /\ s.status = studio.status
        /\ s.viewed = studio.viewed /\ s.late = studio.late
    BY <1>0 DEF StudioShape, StudioRec
  <2>2. studio' = OnScreen(s) /\ calls' = calls \ {c} /\ UNCHANGED jobs /\ c.kind # "post"
    BY <1>6 DEF HistoryAnswers
  <2> HIDE DEF s
  <2>3. Waits(s, calls')
    BY <1>0, <2>1, <2>2 DEF Waits
  <2>4. Len(s.history) <= Len(jobs)
    BY <1>0, <2>1 DEF StudioShape
  <2> QED
    BY <1>0, <2>1, <2>2, <2>3, <2>4, StudioLands DEF StudioShape
<1>7. ASSUME NEW h \in Rows, ViewItem(h) PROVE StudioInv'
  <2>1. /\ h \in DOMAIN jobs /\ h \in JobNr /\ studio.history[h] \in JobStatus
    BY <1>0, StudioAssumption DEF Rows, StudioShape, StudioRec, JobNr
  <2>2. DOMAIN studio = {"page", "open", "avail", "status", "shown", "history", "alive", "ref",
                         "cancelling", "viewer", "deleted", "viewed", "late"}
    BY <1>0 DEF StudioRec
  <2> DEFINE t == Stopped(studio)
  <2>3. /\ t \in StudioRec /\ t.history = studio.history /\ t.alive \subseteq studio.alive
    BY <1>0, <2>2, StoppedIs
  <2> HIDE DEF t
  <2>4. /\ studio' = [t EXCEPT !.shown = h, !.status = studio.history[h], !.viewed = TRUE]
        /\ UNCHANGED <<jobs, calls>>
    BY <1>7 DEF ViewItem, t
  <2>5. /\ studio' \in StudioRec /\ studio'.history = studio.history /\ studio'.shown = h
        /\ studio'.alive = t.alive /\ studio'.viewed = TRUE
    BY <2>1, <2>3, <2>4 DEF StudioRec
  <2> QED
    BY <1>0, <2>1, <2>3, <2>4, <2>5 DEF StudioInv, StudioShape, Waits
<1>8. CASE Cancel
  <2>1. /\ studio' = [studio EXCEPT !.cancelling = TRUE] /\ studio.shown \in DOMAIN jobs
    BY <1>0, <1>8 DEF Cancel, StopOffered, StudioShape
  <2>2. /\ studio' \in StudioRec /\ studio'.history = studio.history
        /\ studio'.shown = studio.shown /\ studio'.alive = studio.alive
        /\ studio'.open = studio.open /\ studio'.status = studio.status
        /\ studio'.viewed = studio.viewed /\ studio'.late = studio.late
    BY <1>0, <2>1 DEF StudioRec
  <2>3. /\ jobs' \in Seq(JobStatus) /\ Len(jobs') = Len(jobs) /\ DOMAIN jobs' = DOMAIN jobs
    <3>1. "cancelled" \in JobStatus
      BY DEF JobStatus
    <3> QED
      BY <1>0, <1>8, <2>1, <3>1 DEF Cancel, StudioShape
  <2>4. PICK says \in {"ok", "failed"} :
          calls' = calls \cup {[kind |-> "cancel", job |-> studio.shown, says |-> says]}
    BY <1>8 DEF Cancel
  <2> DEFINE a == [kind |-> "cancel", job |-> studio.shown, says |-> says]
  <2>5. a \in JobCallRec /\ a.kind = "cancel" /\ a.job = studio.shown
    BY <1>0 DEF JobCallRec, StudioRec
  <2> HIDE DEF a
  <2>6. calls' = calls \cup {a} /\ calls' \in SUBSET JobCallRec
    BY <1>0, <2>4, <2>5 DEF a
  <2>7. Waits(studio', calls')
    BY <1>0, <2>2, <2>6 DEF Waits
  <2>8. \A c \in calls' : /\ c.kind = "poll" => c.says \in JobStatus
                          /\ c.kind = "post" => c.job \in {0} \cup DOMAIN jobs'
    BY <1>0, <2>1, <2>3, <2>5, <2>6 DEF StudioShape
  <2> QED
    BY <1>0, <2>2, <2>3, <2>6, <2>7, <2>8 DEF StudioInv, StudioShape
<1>9. ASSUME NEW c \in calls, CancelAnswers(c) PROVE StudioInv'
  <2>1. c.kind = "cancel" /\ UNCHANGED jobs
    BY <1>9 DEF CancelAnswers
  <2>2. CASE c.says = "ok"
    <3> DEFINE t == Stopped(studio)
               b == studio.late \/ c.job # studio.shown
               s == [t EXCEPT !.status = "cancelled", !.cancelling = FALSE, !.late = b]
    <3>1. DOMAIN studio = {"page", "open", "avail", "status", "shown", "history", "alive", "ref",
                           "cancelling", "viewer", "deleted", "viewed", "late"}
      BY <1>0 DEF StudioRec
    <3>2. /\ t \in StudioRec /\ t.history = studio.history /\ t.alive \subseteq studio.alive
          /\ t.shown = studio.shown /\ t.late = studio.late
      BY <1>0, <3>1, StoppedIs
    <3>3. studio' = OnScreen(s) /\ calls' = (calls \ {c}) \cup {HistoryCall}
      BY <1>9, <2>2, <3>2 DEF CancelAnswers
    <3>4. b \in BOOLEAN
      OBVIOUS
    <3> HIDE DEF t, b
    <3>5. /\ s \in StudioRec /\ s.history = studio.history /\ s.alive = t.alive
          /\ s.shown = studio.shown /\ s.status = "cancelled"
      BY <3>2, <3>4 DEF StudioRec, JobStatus
    <3> HIDE DEF s
    <3>6. Waits(s, calls')
      BY <3>5 DEF Waits
    <3> QED
      BY <1>0, <2>1, <3>2, <3>3, <3>5, <3>6, StudioLands DEF StudioShape
  <2>3. CASE c.says # "ok"
    <3> DEFINE s == [studio EXCEPT !.cancelling = FALSE]
    <3>1. studio' = OnScreen(s) /\ calls' = calls \ {c}
      BY <1>9, <2>3 DEF CancelAnswers
    <3>2. /\ s \in StudioRec /\ s.history = studio.history /\ s.alive = studio.alive
          /\ s.shown = studio.shown /\ s.open = studio.open /\ s.status = studio.status
          /\ s.viewed = studio.viewed /\ s.late = studio.late
      BY <1>0 DEF StudioRec
    <3> HIDE DEF s
    <3>3. Waits(s, calls')
      BY <1>0, <2>1, <3>1, <3>2 DEF Waits
    <3> QED
      BY <1>0, <2>1, <3>1, <3>2, <3>3, StudioLands DEF StudioShape
  <2> QED
    BY <2>2, <2>3
<1>10. CASE OpenViewer \/ Delete
  <2>1. CASE OpenViewer
    BY <1>0, <2>1 DEF OpenViewer, StudioInv, StudioShape, StudioRec, Waits
  <2>2. CASE Delete
    <3>1. PICK says \in {"ok", "failed"} :
            calls' = calls \cup {[kind |-> "delete", job |-> studio.viewer, says |-> says]}
      BY <2>2 DEF Delete
    <3>2. UNCHANGED <<studio, jobs>>
      BY <2>2 DEF Delete
    <3> DEFINE a == [kind |-> "delete", job |-> studio.viewer, says |-> says]
    <3>3. a \in JobCallRec /\ a.kind = "delete" /\ a.job = studio.viewer
      BY <1>0 DEF JobCallRec, StudioRec
    <3> HIDE DEF a
    <3>4. calls' = calls \cup {a} /\ calls' \in SUBSET JobCallRec
      BY <1>0, <3>1, <3>3 DEF a
    <3>5. Waits(studio', calls')
      BY <1>0, <3>2, <3>4 DEF Waits
    <3> QED
      BY <1>0, <3>2, <3>3, <3>4, <3>5 DEF StudioInv, StudioShape
  <2> QED
    BY <1>10, <2>1, <2>2
<1>11. ASSUME NEW c \in calls, DeleteAnswers(c) PROVE StudioInv'
  <2>1. c.kind = "delete" /\ UNCHANGED jobs /\ calls' = calls \ {c}
    BY <1>11 DEF DeleteAnswers
  <2>2. CASE c.says = "ok"
    <3> DEFINE s == [studio EXCEPT !.deleted = @ \cup {c.job}, !.viewer = 0]
    <3>1. studio' = OnScreen(s)
      BY <1>11, <2>2 DEF DeleteAnswers
    <3>2. /\ s \in StudioRec /\ s.history = studio.history /\ s.alive = studio.alive
          /\ s.shown = studio.shown /\ s.open = studio.open /\ s.status = studio.status
          /\ s.viewed = studio.viewed /\ s.late = studio.late
      <4>1. c.job \in JobNr
        BY <1>0 DEF JobCallRec
      <4>2. studio.deleted \cup {c.job} \in SUBSET JobNr
        BY <1>0, <4>1 DEF StudioRec
      <4> QED
        BY <1>0, <4>2 DEF StudioRec
    <3> HIDE DEF s
    <3>3. Waits(s, calls')
      BY <1>0, <2>1, <3>2 DEF Waits
    <3> QED
      BY <1>0, <2>1, <3>1, <3>2, <3>3, StudioLands DEF StudioShape
  <2>3. CASE c.says # "ok"
    BY <1>0, <1>11, <2>1, <2>3 DEF DeleteAnswers, StudioInv, StudioShape, Waits
  <2> QED
    BY <2>2, <2>3
<1>12. CASE Leave
  <2>1. DOMAIN studio = {"page", "open", "avail", "status", "shown", "history", "alive", "ref",
                         "cancelling", "viewer", "deleted", "viewed", "late"}
    BY <1>0 DEF StudioRec
  <2> DEFINE t == Stopped(studio)
  <2>2. /\ t \in StudioRec /\ t.history = studio.history /\ t.alive \subseteq studio.alive
        /\ t.shown = studio.shown
    BY <1>0, <2>1, StoppedIs
  <2> HIDE DEF t
  <2>3. studio' = [t EXCEPT !.open = FALSE] /\ UNCHANGED <<jobs, calls>>
    BY <1>12 DEF Leave, t
  <2>4. /\ studio' \in StudioRec /\ studio'.history = studio.history
        /\ studio'.shown = studio.shown /\ studio'.alive = t.alive /\ ~studio'.open
    BY <2>2, <2>3 DEF StudioRec
  <2> QED
    BY <1>0, <2>2, <2>3, <2>4 DEF StudioInv, StudioShape, Waits
<1>13. ASSUME NEW j \in DOMAIN jobs, JobAdvances(j) PROVE StudioInv'
  <2>1. /\ jobs' \in Seq(JobStatus) /\ Len(jobs') = Len(jobs) /\ DOMAIN jobs' = DOMAIN jobs
    <3>1. {"running", "done", "error", "cancelled"} \subseteq JobStatus
      BY DEF JobStatus
    <3> QED
      BY <1>0, <1>13, <3>1 DEF JobAdvances, StudioShape
  <2> QED
    BY <1>0, <1>13, <2>1 DEF JobAdvances, StudioInv, StudioShape, Waits
<1>14. CASE UNCHANGED studioVars
  BY <1>0, <1>14 DEF studioVars, StudioInv, StudioShape, Waits
<1> QED
  BY <1>1, <1>2, <1>3, <1>4, <1>5, <1>6, <1>7, <1>8, <1>9, <1>10, <1>11, <1>12, <1>13, <1>14
     DEF StudioNext

\* The invariant gives the property the runs check, and the type.
LEMMA StudioIs == StudioInv => WatchedWhileBusy /\ StudioTypeOK
<1> SUFFICES ASSUME StudioInv PROVE WatchedWhileBusy /\ StudioTypeOK
  OBVIOUS
<1>1. WatchedWhileBusy
  BY DEF StudioInv, Waits, WatchedWhileBusy, Busy
<1>2. /\ studio.status \in JobStatus \cup {"idle"} /\ studio.alive \subseteq JobNr /\ studio.deleted \subseteq JobNr
      /\ studio.viewer \in JobNr /\ studio.ref \in JobNr /\ studio.shown \in JobNr
  BY DEF StudioInv, StudioShape, StudioRec
<1>3. \A c \in calls : c.kind \in {"post", "poll", "cancel", "history", "delete"}
  BY DEF StudioInv, StudioShape, JobCallRec
<1>4. jobs \in Seq(JobStatus) /\ Len(jobs) <= MaxJobs
  BY DEF StudioInv, StudioShape
<1> QED
  BY <1>1, <1>2, <1>3, <1>4 DEF StudioTypeOK, JobNr

-----------------------------------------------------------------------------
(* The voice cloning page                                                  *)

\* The length of a sample, and the state of the page and of its recorders.
Seconds == 0 .. MaxSeconds
SampleRec == [from : {"none", "upload", "mic"}, seconds : Seconds]
Languages == {"auto", "en", "fr"}
BoothRec ==
  [open : BOOLEAN, mode : {"record", "upload"}, recording : BOOLEAN, elapsed : Nat,
   ref : Nat, starting : Nat, begun : Nat, files : SUBSET Nat, reference : SampleRec,
   loading : BOOLEAN, known : SUBSET Languages, language : Languages, raced : BOOLEAN]
MicRec == [on : BOOLEAN, heard : Seconds]

\* The microphones are numbered in the order they opened.
MicsAre(n) ==
  /\ n \in Nat /\ mics \in [1 .. n -> MicRec]
  /\ n + booth.starting <= booth.begun /\ booth.begun <= MaxMics
  /\ booth.ref <= n /\ booth.files \subseteq 1 .. n
  /\ booth.elapsed <= MaxSeconds + n
  /\ booth.recording => booth.elapsed < MaxSeconds + n

\* The recording on the page has one microphone, and the counter does not run
\* ahead of it, nor of the file made of it, nor of the sample it became.
OneCounter ==
  /\ booth.starting <= 1
  /\ booth.starting = 1 => /\ booth.reference = NoSample /\ booth.elapsed = 0
                           /\ booth.files = {} /\ ~booth.recording /\ booth.mode = "record"
  /\ booth.recording =>
       /\ booth.ref \in DOMAIN mics /\ mics[booth.ref].on /\ booth.files = {}
       /\ booth.elapsed <= mics[booth.ref].heard /\ booth.elapsed < MaxSeconds
       /\ booth.reference = NoSample /\ booth.mode = "record"
  /\ \A m \in booth.files : booth.elapsed <= mics[m].heard /\ booth.mode = "record"
  /\ (booth.reference # NoSample /\ booth.mode = "record") =>
       booth.reference.from = "mic" /\ booth.elapsed <= booth.reference.seconds

\* The inductive invariant: while no two openings raced, the counter on the
\* screen is the one of the recorder the page holds.
CloneInv ==
  /\ booth \in BoothRec
  /\ \E n \in Nat : MicsAre(n)
  /\ booth.open => (booth.recording <=> booth.ref # 0)
  /\ (booth.open /\ ~booth.raced) => OneCounter
  /\ booth.known # {} => booth.language \in booth.known
  /\ SampleLongEnough

\* The samples of the page, and their lengths.
LEMMA CloneSets ==
  /\ 0 \in Seconds /\ Seconds \subseteq Nat /\ MinSeconds \in Nat /\ MaxSeconds \in Nat
  /\ MaxSeconds > 0 /\ 0 \in Nat
  /\ NoSample \in SampleRec /\ FileSample \in SampleRec
  /\ \A n \in Seconds : /\ MicSample(n) \in SampleRec /\ MicSample(n) # NoSample
                        /\ MicSample(n).from = "mic" /\ MicSample(n).seconds = n
  /\ FileSample # NoSample
<1>1. /\ 0 \in Seconds /\ Seconds \subseteq Nat /\ MinSeconds \in Nat /\ MaxSeconds \in Nat
      /\ MaxSeconds > 0 /\ 0 \in Nat
  BY CloneAssumption DEF Seconds
<1> QED
  BY <1>1 DEF NoSample, FileSample, MicSample, SampleRec

\* The page opens with no sample.
LEMMA CloneInitInv == CloneInit => CloneInv
<1> SUFFICES ASSUME CloneInit PROVE CloneInv
  OBVIOUS
<1>1. booth \in BoothRec
  BY CloneSets DEF CloneInit, BoothRec, Languages
<1>2. /\ booth.starting = 0 /\ booth.begun = 0 /\ booth.ref = 0 /\ booth.files = {}
      /\ booth.elapsed = 0 /\ booth.recording = FALSE /\ booth.reference = NoSample
      /\ booth.known = {} /\ posted = {}
  BY DEF CloneInit
<1>3. mics \in [1 .. 0 -> MicRec]
  <2>1. 1 .. 0 = {}
    OBVIOUS
  <2> QED
    BY <2>1 DEF CloneInit
<1>4. MicsAre(0)
  BY <1>2, <1>3, CloneAssumption DEF MicsAre
<1>5. OneCounter
  BY <1>2 DEF OneCounter
<1> QED
  BY <1>1, <1>2, <1>4, <1>5 DEF CloneInv, SampleLongEnough

\* A recorder that is let go keeps what it heard.
LEMMA SilencedIs ==
  ASSUME NEW n \in Nat, NEW ms \in [1 .. n -> MicRec], NEW k
  PROVE  /\ Silenced(ms, k) \in [1 .. n -> MicRec]
         /\ \A x \in 1 .. n : Silenced(ms, k)[x].heard = ms[x].heard
  BY DEF Silenced, MicRec

\* stopRecording() makes a file of the recorder the page holds.
LEMMA StoppingIs ==
  ASSUME NEW b \in BoothRec
  PROVE  /\ Stopping(b) \in BoothRec
         /\ Stopping(b).ref = 0
         /\ b.ref = 0 => Stopping(b) = b
         /\ b.ref # 0 => ~Stopping(b).recording /\ Stopping(b).files = b.files \cup {b.ref}
         /\ Stopping(b).open = b.open /\ Stopping(b).mode = b.mode
         /\ Stopping(b).elapsed = b.elapsed /\ Stopping(b).starting = b.starting
         /\ Stopping(b).begun = b.begun /\ Stopping(b).reference = b.reference
         /\ Stopping(b).known = b.known /\ Stopping(b).language = b.language
         /\ Stopping(b).raced = b.raced
<1>1. b.files \cup {b.ref} \in SUBSET Nat
  BY DEF BoothRec
<1> QED
  BY <1>1, CloneSets DEF Stopping, BoothRec

\* What the page becomes; the microphones and what was posted are as they were.
LEMMA CloneStep == ASSUME CloneInv, [CloneNext]_cloneVars PROVE CloneInv'
<1>0. /\ booth \in BoothRec
      /\ booth.open => (booth.recording <=> booth.ref # 0)
      /\ (booth.open /\ ~booth.raced) => OneCounter
      /\ booth.known # {} => booth.language \in booth.known
      /\ SampleLongEnough
  BY DEF CloneInv
<1>n. PICK n \in Nat : MicsAre(n)
  BY DEF CloneInv
<1>d. DOMAIN mics = 1 .. n /\ Cardinality(DOMAIN mics) = n
  <2>1. DOMAIN mics = 1 .. n
    BY <1>n DEF MicsAre
  <2> QED
    BY <2>1, FS_Interval
<1>1. CASE InfoAnswers
  <2>1. PICK known \in Engines, ui \in {"fr", "en"} :
          booth' = OnPage([booth EXCEPT !.known = known,
                             !.language = initialLang(known, booth.language, ui)])
    BY <1>1 DEF InfoAnswers
  <2> DEFINE l == initialLang(known, booth.language, ui)
  <2>2. l \in known /\ l \in Languages /\ known \in SUBSET Languages /\ UNCHANGED <<mics, posted>>
    <3>1. known = {"en"} \/ known = {"auto", "en", "fr"}
      BY DEF Engines
    <3>2. l \in known
      BY <3>1 DEF initialLang
    <3>3. UNCHANGED <<mics, posted>>
      BY <1>1 DEF InfoAnswers
    <3> QED
      BY <3>1, <3>2, <3>3 DEF Languages
  <2> HIDE DEF l
  <2>3. booth' = booth \/ booth' = [booth EXCEPT !.known = known, !.language = l]
    BY <2>1 DEF OnPage, l
  <2>4. CASE booth' = [booth EXCEPT !.known = known, !.language = l]
    <3>1. /\ booth' \in BoothRec /\ booth'.known = known /\ booth'.language = l
          /\ booth'.open = booth.open /\ booth'.mode = booth.mode
          /\ booth'.recording = booth.recording /\ booth'.elapsed = booth.elapsed
          /\ booth'.ref = booth.ref /\ booth'.starting = booth.starting
          /\ booth'.begun = booth.begun /\ booth'.files = booth.files
          /\ booth'.reference = booth.reference /\ booth'.raced = booth.raced
      BY <1>0, <2>2, <2>4 DEF BoothRec
    <3>2. MicsAre(n)' /\ (OneCounter => OneCounter') /\ SampleLongEnough'
      BY <1>n, <1>0, <2>2, <3>1 DEF MicsAre, OneCounter, SampleLongEnough
    <3> QED
      BY <1>0, <2>2, <3>1, <3>2 DEF CloneInv
  <2>5. CASE booth' = booth
    BY <2>2, <2>5 DEF CloneInv, MicsAre, OneCounter, SampleLongEnough
  <2> QED
    BY <2>3, <2>4, <2>5
<1>2. CASE BeginRecording
  <2> DEFINE k == booth.starting + 1
             b == booth.begun + 1
             u == MicUnderWay
  <2>1. k \in Nat /\ b \in Nat /\ u \in BOOLEAN
    BY <1>0 DEF BoothRec, MicUnderWay
  <2>2. /\ booth' = [booth EXCEPT !.reference = NoSample, !.elapsed = 0, !.starting = k,
                                  !.begun = b, !.raced = u]
        /\ booth.mode = "record" /\ ~booth.recording /\ UNCHANGED <<mics, posted>>
        /\ booth.begun < MaxMics
    BY <1>2 DEF BeginRecording, RecordOffered
  <2> HIDE DEF k, b, u
  <2>3. /\ booth' \in BoothRec /\ booth'.known = booth.known
        /\ booth'.language = booth.language /\ booth'.open = booth.open
        /\ booth'.mode = "record" /\ ~booth'.recording /\ booth'.elapsed = 0
        /\ booth'.ref = booth.ref /\ booth'.starting = k
        /\ booth'.begun = b /\ booth'.files = booth.files
        /\ booth'.reference = NoSample /\ booth'.raced = u
    BY <1>0, <2>1, <2>2, CloneSets DEF BoothRec
  <2>4. MicsAre(n)'
    <3>1. booth.starting \in Nat /\ booth.begun \in Nat
      BY <1>0 DEF BoothRec
    <3>2. n + k <= b /\ b <= MaxMics /\ 0 <= MaxSeconds + n
      BY <1>n, <2>2, <3>1, CloneAssumption DEF MicsAre, k, b
    <3> QED
      BY <1>n, <2>2, <2>3, <3>2 DEF MicsAre
  <2>5. ~u => booth.starting = 0 /\ booth.files = {}
    BY <1>0 DEF u, MicUnderWay, BoothRec
  <2>6. ASSUME ~u PROVE OneCounter'
    <3>1. k = 1 /\ booth.files = {}
      BY <2>5, <2>6 DEF k
    <3> QED
      BY <2>3, <3>1 DEF OneCounter
  <2>7. SampleLongEnough'
    BY <1>0, <2>2 DEF SampleLongEnough
  <2>8. booth'.open => (booth'.recording <=> booth'.ref # 0)
    BY <1>0, <2>2, <2>3
  <2> QED
    BY <1>0, <2>3, <2>4, <2>6, <2>7, <2>8 DEF CloneInv
<1>3. CASE BoothMicOpens
  <2> DEFINE m == n + 1
             k == booth.starting - 1
  <2>1. /\ m \in Nat /\ k \in Nat /\ booth.starting > 0 /\ UNCHANGED posted /\ m # 0
        /\ mics' = [x \in 1 .. m |-> IF x = m THEN [on |-> TRUE, heard |-> 0] ELSE mics[x]]
        /\ booth' = IF booth.open
                    THEN [booth EXCEPT !.ref = m, !.recording = TRUE, !.starting = k]
                    ELSE [booth EXCEPT !.ref = m, !.starting = k]
    <3>1. (1 .. n) \cup {m} = 1 .. m
      BY <1>n
    <3>2. m \in Nat /\ m # 0
      BY <1>n
    <3>3. booth.starting > 0 /\ UNCHANGED posted
      BY <1>3 DEF BoothMicOpens
    <3>4. k \in Nat
      BY <1>0, <3>3 DEF BoothRec
    <3>5. Cardinality(DOMAIN mics) + 1 = m /\ DOMAIN mics \cup {m} = 1 .. m
      BY <1>d, <3>1
    <3>6. /\ mics' = [x \in DOMAIN mics \cup {m} |-> IF x = m THEN [on |-> TRUE, heard |-> 0] ELSE mics[x]]
          /\ booth' = IF booth.open
                      THEN [booth EXCEPT !.ref = m, !.recording = TRUE, !.starting = k]
                      ELSE [booth EXCEPT !.ref = m, !.starting = k]
      BY <1>3, <3>5, Zenon DEF BoothMicOpens
    <3> QED
      BY <3>2, <3>3, <3>4, <3>5, <3>6, Zenon
  <2>2. /\ mics' \in [1 .. m -> MicRec] /\ mics'[m].on /\ mics'[m].heard = 0 /\ m \in DOMAIN mics'
        /\ \A x \in 1 .. n : mics'[x] = mics[x]
    <3>1. [on |-> TRUE, heard |-> 0] \in MicRec
      BY CloneSets DEF MicRec
    <3>2. \A x \in 1 .. m : x # m => x \in 1 .. n
      BY <1>n
    <3>3. \A x \in 1 .. n : x # m /\ x \in 1 .. m
      BY <1>n
    <3>4. m \in 1 .. m
      BY <1>n
    <3>5. mics \in [1 .. n -> MicRec]
      BY <1>n DEF MicsAre
    <3> HIDE DEF m
    <3> QED
      BY <2>1, <3>1, <3>2, <3>3, <3>4, <3>5
  <2> HIDE DEF m, k
  <2>3. /\ booth' \in BoothRec /\ booth'.known = booth.known
        /\ booth'.language = booth.language /\ booth'.open = booth.open
        /\ booth'.mode = booth.mode /\ booth'.elapsed = booth.elapsed
        /\ booth'.ref = m /\ booth'.starting = k /\ booth'.begun = booth.begun
        /\ booth'.files = booth.files /\ booth'.reference = booth.reference
        /\ booth'.raced = booth.raced
        /\ booth'.recording = IF booth.open THEN TRUE ELSE booth.recording
    BY <1>0, <2>1 DEF BoothRec
  <2>4. MicsAre(m)'
    <3>1. /\ m + k <= booth.begun /\ m <= m /\ booth.elapsed < MaxSeconds + m
          /\ 1 .. n \subseteq 1 .. m
      <4>1. /\ n \in Nat /\ booth.starting \in Nat /\ booth.begun \in Nat /\ booth.elapsed \in Nat
            /\ n + booth.starting <= booth.begun /\ booth.elapsed <= MaxSeconds + n
        BY <1>0, <1>n DEF MicsAre, BoothRec
      <4> QED
        BY <4>1, CloneSets DEF m, k
    <3>2. booth.begun <= MaxMics /\ booth.files \subseteq 1 .. n /\ booth.elapsed \in Nat
      BY <1>0, <1>n DEF MicsAre, BoothRec
    <3>3. booth.elapsed <= MaxSeconds + m
      BY <2>1, <3>1, <3>2, CloneSets
    <3> QED
      BY <2>1, <2>2, <2>3, <3>1, <3>2, <3>3 DEF MicsAre
  <2>5. ASSUME booth.open /\ ~booth.raced PROVE OneCounter'
    <3>1. OneCounter /\ booth.starting = 1 /\ k = 0
      BY <1>0, <2>1, <2>5 DEF OneCounter, k, BoothRec
    <3>2. /\ booth.reference = NoSample /\ booth.elapsed = 0 /\ booth.files = {}
          /\ booth.mode = "record"
      BY <3>1 DEF OneCounter
    <3> QED
      BY <2>2, <2>3, <2>5, <3>1, <3>2, CloneSets DEF OneCounter
  <2>6. SampleLongEnough'
    BY <1>0, <2>1 DEF SampleLongEnough
  <2>7. booth'.open => (booth'.recording <=> booth'.ref # 0)
    BY <2>1, <2>3
  <2> QED
    BY <1>0, <2>1, <2>3, <2>4, <2>5, <2>6, <2>7 DEF CloneInv
<1>4. CASE BoothMicRefused
  <2> DEFINE k == booth.starting - 1
  <2>1. /\ k \in Nat /\ booth.starting > 0 /\ UNCHANGED <<mics, posted>>
        /\ booth' = [booth EXCEPT !.starting = k]
    BY <1>0, <1>4 DEF BoothMicRefused, BoothRec
  <2> HIDE DEF k
  <2>2. /\ booth' \in BoothRec /\ booth'.known = booth.known
        /\ booth'.language = booth.language /\ booth'.open = booth.open
        /\ booth'.mode = booth.mode /\ booth'.elapsed = booth.elapsed
        /\ booth'.ref = booth.ref /\ booth'.starting = k /\ booth'.begun = booth.begun
        /\ booth'.files = booth.files /\ booth'.reference = booth.reference
        /\ booth'.raced = booth.raced /\ booth'.recording = booth.recording
    BY <1>0, <2>1 DEF BoothRec
  <2>3. MicsAre(n)'
    BY <1>0, <1>n, <2>1, <2>2 DEF MicsAre, k, BoothRec
  <2>4. ASSUME OneCounter PROVE OneCounter'
    <3>1. booth.starting = 1 /\ k = 0
      BY <1>0, <2>1, <2>4 DEF OneCounter, k, BoothRec
    <3> QED
      BY <2>1, <2>2, <2>4, <3>1 DEF OneCounter
  <2>5. SampleLongEnough'
    BY <1>0, <2>1 DEF SampleLongEnough
  <2> QED
    BY <1>0, <2>2, <2>3, <2>4, <2>5 DEF CloneInv
<1>5. CASE StopRecording
  <2>1. /\ booth' = Stopping(booth) /\ mics' = Silenced(mics, booth.ref) /\ UNCHANGED posted
        /\ booth.ref # 0 /\ booth.ref \in 1 .. n /\ booth.open
    BY <1>0, <1>n, <1>5 DEF StopRecording, StopRecordOffered, MicsAre, BoothRec
  <2>2. mics \in [1 .. n -> MicRec]
    BY <1>n DEF MicsAre
  <2>3. /\ mics' \in [1 .. n -> MicRec]
        /\ \A x \in 1 .. n : mics'[x].heard = mics[x].heard
    BY <2>1, <2>2, SilencedIs
  <2>4. /\ booth' \in BoothRec /\ booth'.ref = 0
        /\ ~booth'.recording /\ booth'.files = booth.files \cup {booth.ref}
        /\ booth'.open = booth.open /\ booth'.mode = booth.mode
        /\ booth'.elapsed = booth.elapsed /\ booth'.starting = booth.starting
        /\ booth'.begun = booth.begun /\ booth'.reference = booth.reference
        /\ booth'.known = booth.known /\ booth'.language = booth.language
        /\ booth'.raced = booth.raced
    BY <1>0, <2>1, StoppingIs
  <2>5. MicsAre(n)'
    BY <1>n, <2>1, <2>3, <2>4 DEF MicsAre
  <2>6. ASSUME OneCounter PROVE OneCounter'
    BY <1>0, <1>n, <2>1, <2>3, <2>4, <2>6 DEF OneCounter, MicsAre
  <2>7. SampleLongEnough'
    BY <1>0, <2>1 DEF SampleLongEnough
  <2> QED
    BY <1>0, <2>4, <2>5, <2>6, <2>7 DEF CloneInv
<1>6. CASE Second
  <2> DEFINE heard == [m \in DOMAIN mics |->
                         IF mics[m].on /\ mics[m].heard < MaxSeconds
                         THEN [mics[m] EXCEPT !.heard = @ + 1] ELSE mics[m]]
             next  == booth.elapsed + 1
             b == [booth EXCEPT !.elapsed = next]
  <2>1. /\ heard \in [1 .. n -> MicRec]
        /\ \A x \in 1 .. n : /\ mics[x].heard <= heard[x].heard /\ heard[x].on = mics[x].on
                             /\ mics[x].on => \/ heard[x].heard = mics[x].heard + 1
                                              \/ heard[x].heard = MaxSeconds
                             /\ mics[x].heard \in Nat /\ heard[x].heard \in Nat
    <3> SUFFICES ASSUME NEW x \in 1 .. n
                 PROVE  /\ heard[x] \in MicRec
                        /\ mics[x].heard <= heard[x].heard /\ heard[x].on = mics[x].on
                        /\ mics[x].on => \/ heard[x].heard = mics[x].heard + 1
                                         \/ heard[x].heard = MaxSeconds
                        /\ mics[x].heard \in Nat /\ heard[x].heard \in Nat
      BY <1>d
    <3>1. mics[x] \in MicRec
      BY <1>n DEF MicsAre
    <3>2. mics[x].heard \in 0 .. MaxSeconds /\ mics[x].on \in BOOLEAN
      BY <3>1 DEF MicRec, Seconds
    <3>3. CASE mics[x].on /\ mics[x].heard < MaxSeconds
      <4> DEFINE h == mics[x].heard + 1
      <4>1. h \in 0 .. MaxSeconds /\ mics[x].heard <= h /\ h \in Nat
        BY <3>2, <3>3, CloneSets
      <4>2. heard[x] = [mics[x] EXCEPT !.heard = h]
        BY <1>d, <3>3
      <4> HIDE DEF h, heard
      <4>3. heard[x] \in MicRec /\ heard[x].on = mics[x].on /\ heard[x].heard = h
        BY <3>1, <4>1, <4>2 DEF MicRec, Seconds
      <4> QED
        BY <3>2, <4>1, <4>3 DEF h
    <3>4. CASE ~(mics[x].on /\ mics[x].heard < MaxSeconds)
      <4>1. heard[x] = mics[x]
        BY <1>d, <3>4
      <4>2. mics[x].on => mics[x].heard = MaxSeconds
        BY <3>2, <3>4, CloneSets
      <4> HIDE DEF heard
      <4> QED
        BY <3>1, <3>2, <4>1, <4>2, CloneSets
    <3> QED
      BY <3>3, <3>4
  <2>2. /\ UNCHANGED posted
        /\ \/ ~(booth.open /\ booth.recording) /\ mics' = heard /\ booth' = booth
           \/ /\ booth.open /\ booth.recording /\ next >= MaxSeconds
              /\ booth' = Stopping(b) /\ mics' = Silenced(heard, booth.ref)
           \/ /\ booth.open /\ booth.recording /\ ~(next >= MaxSeconds)
              /\ booth' = b /\ mics' = heard
    BY <1>6, Zenon DEF Second
  <2>3. next \in Nat /\ booth.elapsed \in Nat /\ next > booth.elapsed
    BY <1>0 DEF BoothRec
  <2>4. /\ b \in BoothRec /\ b.elapsed = next /\ b.known = booth.known
        /\ b.language = booth.language /\ b.open = booth.open
        /\ b.mode = booth.mode /\ b.ref = booth.ref /\ b.starting = booth.starting
        /\ b.begun = booth.begun /\ b.files = booth.files
        /\ b.reference = booth.reference /\ b.raced = booth.raced
        /\ b.recording = booth.recording
    <3> HIDE DEF next
    <3> QED
      BY <1>0, <2>3 DEF BoothRec
  <2>5. SampleLongEnough'
    BY <1>0, <2>2 DEF SampleLongEnough
  <2>6. /\ n \in Nat /\ mics \in [1 .. n -> MicRec]
        /\ n + booth.starting <= booth.begun /\ booth.begun <= MaxMics
        /\ booth.ref <= n /\ booth.files \subseteq 1 .. n
        /\ booth.elapsed <= MaxSeconds + n
        /\ booth.recording => booth.elapsed < MaxSeconds + n
    BY <1>n DEF MicsAre
  <2>7. booth.recording => next <= MaxSeconds + n
    BY <2>3, <2>6, CloneSets
  <2>8. ~(next >= MaxSeconds) => next < MaxSeconds + n /\ next < MaxSeconds
    BY <2>3, <2>6, CloneSets
  \* One second more of the recording on the page leaves its counter behind.
  <2>9. ASSUME OneCounter, booth.recording
        PROVE  /\ booth.ref \in 1 .. n /\ heard[booth.ref].on /\ next <= heard[booth.ref].heard
               /\ booth.files = {} /\ booth.reference = NoSample /\ booth.mode = "record"
               /\ booth.starting # 1
    <3>1. /\ booth.ref \in 1 .. n /\ mics[booth.ref].on /\ booth.files = {}
          /\ booth.elapsed <= mics[booth.ref].heard /\ booth.elapsed < MaxSeconds
          /\ booth.reference = NoSample /\ booth.mode = "record" /\ booth.starting # 1
      BY <2>9, <1>d DEF OneCounter
    <3> QED
      BY <2>1, <2>3, <3>1, CloneSets
  <2> HIDE DEF heard, next, b
  <2>10. CASE ~(booth.open /\ booth.recording) /\ mics' = heard /\ booth' = booth
    <3>1. MicsAre(n)'
      BY <2>1, <2>6, <2>10 DEF MicsAre
    <3>2. ASSUME OneCounter, booth.open PROVE OneCounter'
      <4>1. \A m \in booth.files : booth.elapsed <= heard[m].heard
        BY <2>1, <2>3, <2>6, <3>2 DEF OneCounter
      <4> QED
        BY <2>10, <3>2, <4>1 DEF OneCounter
    <3> QED
      BY <1>0, <2>5, <2>10, <3>1, <3>2 DEF CloneInv
  <2>11. CASE booth.open /\ booth.recording /\ booth' = b /\ mics' = heard /\ ~(next >= MaxSeconds)
    <3>1. MicsAre(n)'
      BY <2>1, <2>4, <2>6, <2>7, <2>8, <2>11 DEF MicsAre
    <3>2. ASSUME OneCounter PROVE OneCounter'
      <4>1. DOMAIN mics' = 1 .. n
        BY <2>1, <2>11
      <4> QED
        BY <2>4, <2>8, <2>9, <2>11, <3>2, <4>1 DEF OneCounter
    <3>3. booth' \in BoothRec /\ (booth'.open => (booth'.recording <=> booth'.ref # 0))
      BY <1>0, <2>4, <2>11
    <3> QED
      BY <1>0, <2>4, <2>5, <2>11, <3>1, <3>2, <3>3 DEF CloneInv
  <2>12. CASE /\ booth.open /\ booth.recording
              /\ booth' = Stopping(b) /\ mics' = Silenced(heard, booth.ref)
    <3>1. /\ mics' \in [1 .. n -> MicRec]
          /\ \A x \in 1 .. n : mics'[x].heard = heard[x].heard
      BY <2>1, <2>6, <2>12, SilencedIs
    <3>2. booth.ref # 0 /\ booth.ref \in 1 .. n
      BY <1>0, <2>6, <2>12 DEF BoothRec
    <3>3. /\ booth' \in BoothRec /\ booth'.ref = 0
          /\ ~booth'.recording /\ booth'.files = booth.files \cup {booth.ref}
          /\ booth'.open = booth.open /\ booth'.mode = booth.mode
          /\ booth'.elapsed = next /\ booth'.starting = booth.starting
          /\ booth'.begun = booth.begun /\ booth'.reference = booth.reference
          /\ booth'.known = booth.known /\ booth'.language = booth.language
          /\ booth'.raced = booth.raced
      BY <2>4, <2>12, <3>2, StoppingIs
    <3>4. MicsAre(n)'
      BY <2>6, <2>7, <2>12, <3>1, <3>2, <3>3 DEF MicsAre
    <3>5. ASSUME OneCounter PROVE OneCounter'
      BY <2>9, <2>12, <3>1, <3>3, <3>5 DEF OneCounter
    <3> QED
      BY <1>0, <2>5, <3>3, <3>4, <3>5 DEF CloneInv
  <2> QED
    BY <2>2, <2>10, <2>11, <2>12
<1>7. ASSUME NEW m \in booth.files, FileReady(m) PROVE CloneInv'
  <2> DEFINE s == MicSample(mics[m].heard)
             f == booth.files \ {m}
  <2>1. m \in 1 .. n /\ mics[m].heard \in Seconds /\ f \in SUBSET Nat
    BY <1>0, <1>n DEF MicsAre, MicRec, BoothRec
  <2>2. /\ s \in SampleRec /\ s # NoSample /\ s.from = "mic" /\ s.seconds = mics[m].heard
    BY <2>1, CloneSets
  <2>3. /\ UNCHANGED <<mics, posted>>
        /\ booth' = IF booth.open THEN [booth EXCEPT !.reference = s, !.files = f]
                    ELSE [booth EXCEPT !.files = f]
    BY <1>0, <1>7 DEF FileReady, OnPage, BoothRec
  <2> HIDE DEF s, f
  <2>4. /\ booth' \in BoothRec /\ booth'.known = booth.known
        /\ booth'.language = booth.language /\ booth'.open = booth.open
        /\ booth'.mode = booth.mode /\ booth'.elapsed = booth.elapsed
        /\ booth'.ref = booth.ref /\ booth'.starting = booth.starting
        /\ booth'.begun = booth.begun /\ booth'.files = f
        /\ booth'.raced = booth.raced /\ booth'.recording = booth.recording
        /\ booth.open => booth'.reference = s
    BY <1>0, <2>1, <2>2, <2>3 DEF BoothRec
  <2>5. MicsAre(n)'
    BY <1>n, <2>3, <2>4 DEF MicsAre, f
  <2>6. ASSUME OneCounter, booth.open PROVE OneCounter'
    BY <2>2, <2>3, <2>4, <2>6 DEF OneCounter, f
  <2>7. SampleLongEnough'
    BY <1>0, <2>3 DEF SampleLongEnough
  <2> QED
    BY <1>0, <2>4, <2>5, <2>6, <2>7 DEF CloneInv
<1>8. ASSUME NEW m \in booth.files, FileFails(m) PROVE CloneInv'
  <2> DEFINE f == booth.files \ {m}
  <2>1. f \in SUBSET Nat
    BY <1>0 DEF BoothRec
  <2>3. UNCHANGED <<mics, posted>> /\ booth' = [booth EXCEPT !.files = f]
    BY <1>8 DEF FileFails
  <2> HIDE DEF f
  <2>4. /\ booth' \in BoothRec /\ booth'.known = booth.known
        /\ booth'.language = booth.language /\ booth'.open = booth.open
        /\ booth'.mode = booth.mode /\ booth'.elapsed = booth.elapsed
        /\ booth'.ref = booth.ref /\ booth'.starting = booth.starting
        /\ booth'.begun = booth.begun /\ booth'.files = f
        /\ booth'.raced = booth.raced /\ booth'.recording = booth.recording
        /\ booth'.reference = booth.reference
    BY <1>0, <2>1, <2>3 DEF BoothRec
  <2>5. MicsAre(n)'
    BY <1>n, <2>3, <2>4 DEF MicsAre, f
  <2>6. ASSUME OneCounter PROVE OneCounter'
    BY <2>3, <2>4, <2>6 DEF OneCounter, f
  <2>7. SampleLongEnough'
    BY <1>0, <2>3 DEF SampleLongEnough
  <2> QED
    BY <1>0, <2>4, <2>5, <2>6, <2>7 DEF CloneInv
<1>9. CASE SwitchMode
  <2> DEFINE d == IF booth.mode = "record" THEN "upload" ELSE "record"
             u == MicUnderWay
  <2>1. d \in {"record", "upload"} /\ u \in BOOLEAN
    BY DEF MicUnderWay
  <2>2. /\ booth' = [booth EXCEPT !.mode = d, !.ref = 0, !.recording = FALSE, !.elapsed = 0,
                                  !.reference = NoSample, !.raced = u]
        /\ mics' = Silenced(mics, booth.ref) /\ UNCHANGED posted
    BY <1>9 DEF SwitchMode
  <2> HIDE DEF d, u
  <2>3. /\ booth' \in BoothRec /\ booth'.known = booth.known
        /\ booth'.language = booth.language /\ booth'.open = booth.open
        /\ booth'.elapsed = 0 /\ booth'.ref = 0 /\ booth'.starting = booth.starting
        /\ booth'.begun = booth.begun /\ booth'.files = booth.files
        /\ booth'.raced = u /\ ~booth'.recording /\ booth'.reference = NoSample
    BY <1>0, <2>1, <2>2, CloneSets DEF BoothRec
  <2>4. mics' \in [1 .. n -> MicRec]
    BY <1>n, <2>2, SilencedIs DEF MicsAre
  <2>5. MicsAre(n)'
    BY <1>n, <2>3, <2>4, CloneSets DEF MicsAre
  <2>6. ASSUME ~u PROVE OneCounter'
    <3>1. booth.starting = 0 /\ booth.files = {}
      BY <1>0, <2>6 DEF u, MicUnderWay, BoothRec
    <3> QED
      BY <2>3, <3>1 DEF OneCounter
  <2>7. SampleLongEnough'
    BY <1>0, <2>2 DEF SampleLongEnough
  <2> QED
    BY <1>0, <2>3, <2>5, <2>6, <2>7 DEF CloneInv
<1>10. CASE PickFile
  <2>1. /\ booth' = [booth EXCEPT !.reference = FileSample] /\ UNCHANGED <<mics, posted>>
        /\ booth.mode = "upload"
    BY <1>10 DEF PickFile, UploadOffered
  <2>2. /\ booth' \in BoothRec /\ booth'.known = booth.known
        /\ booth'.language = booth.language /\ booth'.open = booth.open
        /\ booth'.mode = booth.mode /\ booth'.elapsed = booth.elapsed
        /\ booth'.ref = booth.ref /\ booth'.starting = booth.starting
        /\ booth'.begun = booth.begun /\ booth'.files = booth.files
        /\ booth'.raced = booth.raced /\ booth'.recording = booth.recording
    BY <1>0, <2>1, CloneSets DEF BoothRec
  <2>3. MicsAre(n)'
    BY <1>n, <2>1, <2>2 DEF MicsAre
  <2>4. ASSUME OneCounter PROVE OneCounter'
    BY <2>1, <2>2, <2>4 DEF OneCounter
  <2>5. SampleLongEnough'
    BY <1>0, <2>1 DEF SampleLongEnough
  <2> QED
    BY <1>0, <2>2, <2>3, <2>4, <2>5 DEF CloneInv
<1>11. CASE Clone
  <2> DEFINE p == [sample |-> booth.reference, mode |-> booth.mode, language |-> booth.language,
                   known |-> booth.known, raced |-> booth.raced]
  <2>1. /\ booth' = [booth EXCEPT !.loading = TRUE] /\ UNCHANGED mics /\ posted' = {p}
        /\ booth.open /\ booth.reference # NoSample
        /\ booth.mode = "record" => booth.elapsed >= MinSeconds
    BY <1>11 DEF Clone, CloneOffered
  <2>2. /\ booth' \in BoothRec /\ booth'.known = booth.known
        /\ booth'.language = booth.language /\ booth'.open = booth.open
        /\ booth'.mode = booth.mode /\ booth'.elapsed = booth.elapsed
        /\ booth'.ref = booth.ref /\ booth'.starting = booth.starting
        /\ booth'.begun = booth.begun /\ booth'.files = booth.files
        /\ booth'.raced = booth.raced /\ booth'.recording = booth.recording
        /\ booth'.reference = booth.reference
    BY <1>0, <2>1 DEF BoothRec
  <2>3. MicsAre(n)'
    BY <1>n, <2>1, <2>2 DEF MicsAre
  <2>4. ASSUME OneCounter PROVE OneCounter'
    BY <2>1, <2>2, <2>4 DEF OneCounter
  <2>5. SampleLongEnough'
    <3>1. ASSUME booth.mode = "record", ~booth.raced
          PROVE  booth.reference.from = "mic" /\ booth.reference.seconds >= MinSeconds
      <4>1. /\ booth.reference.from = "mic" /\ booth.elapsed <= booth.reference.seconds
            /\ booth.elapsed >= MinSeconds
        BY <1>0, <2>1, <3>1 DEF OneCounter
      <4>2. booth.elapsed \in Nat /\ booth.reference.seconds \in Nat
        BY <1>0, CloneSets DEF BoothRec, SampleRec
      <4> QED
        BY <4>1, <4>2, CloneSets
    <3>2. /\ p.sample = booth.reference /\ p.mode = booth.mode /\ p.language = booth.language
          /\ p.known = booth.known /\ p.raced = booth.raced
      OBVIOUS
    <3> HIDE DEF p
    <3> QED
      BY <1>0, <2>1, <3>1, <3>2 DEF SampleLongEnough
  <2> QED
    BY <1>0, <2>2, <2>3, <2>4, <2>5 DEF CloneInv
<1>12. CASE CloneAnswers
  <2>1. booth' = [booth EXCEPT !.loading = FALSE] /\ UNCHANGED <<mics, posted>>
    BY <1>12 DEF CloneAnswers
  <2>2. /\ booth' \in BoothRec /\ booth'.known = booth.known
        /\ booth'.language = booth.language /\ booth'.open = booth.open
        /\ booth'.mode = booth.mode /\ booth'.elapsed = booth.elapsed
        /\ booth'.ref = booth.ref /\ booth'.starting = booth.starting
        /\ booth'.begun = booth.begun /\ booth'.files = booth.files
        /\ booth'.raced = booth.raced /\ booth'.recording = booth.recording
        /\ booth'.reference = booth.reference
    BY <1>0, <2>1 DEF BoothRec
  <2>3. MicsAre(n)'
    BY <1>n, <2>1, <2>2 DEF MicsAre
  <2>4. ASSUME OneCounter PROVE OneCounter'
    BY <2>1, <2>2, <2>4 DEF OneCounter
  <2>5. SampleLongEnough'
    BY <1>0, <2>1 DEF SampleLongEnough
  <2> QED
    BY <1>0, <2>2, <2>3, <2>4, <2>5 DEF CloneInv
<1>13. CASE LeaveBooth
  <2>1. /\ booth' = [booth EXCEPT !.open = FALSE, !.ref = 0]
        /\ mics' = Silenced(mics, booth.ref) /\ UNCHANGED posted
    BY <1>13 DEF LeaveBooth
  <2>2. /\ booth' \in BoothRec /\ booth'.known = booth.known
        /\ booth'.language = booth.language /\ ~booth'.open
        /\ booth'.elapsed = booth.elapsed /\ booth'.ref = 0 /\ booth'.starting = booth.starting
        /\ booth'.begun = booth.begun /\ booth'.files = booth.files
        /\ booth'.recording = booth.recording
    BY <1>0, <2>1, CloneSets DEF BoothRec
  <2>3. mics' \in [1 .. n -> MicRec]
    BY <1>n, <2>1, SilencedIs DEF MicsAre
  <2>4. MicsAre(n)'
    BY <1>n, <2>2, <2>3 DEF MicsAre
  <2>5. SampleLongEnough'
    BY <1>0, <2>1 DEF SampleLongEnough
  <2> QED
    BY <1>0, <2>2, <2>4, <2>5 DEF CloneInv
<1>14. CASE UNCHANGED cloneVars
  BY <1>14 DEF cloneVars, CloneInv, MicsAre, OneCounter, SampleLongEnough
<1> QED
  BY <1>1, <1>2, <1>3, <1>4, <1>5, <1>6, <1>7, <1>8, <1>9, <1>10, <1>11, <1>12, <1>13, <1>14
  DEF CloneNext

\* The invariant gives the property the runs check, and the type.
LEMMA CloneIs == CloneInv => SampleLongEnough /\ CloneTypeOK
<1> SUFFICES ASSUME CloneInv PROVE SampleLongEnough /\ CloneTypeOK
  OBVIOUS
<1>1. PICK n \in Nat : MicsAre(n)
  BY DEF CloneInv
<1>2. booth.elapsed \in Nat /\ booth.ref \in Nat /\ booth.starting \in Nat /\ booth.begun \in Nat
  BY DEF CloneInv, BoothRec
<1>3. MaxMics \in Nat /\ MaxSeconds \in Nat /\ n <= MaxMics
  BY <1>1, <1>2, CloneAssumption DEF MicsAre
<1>4. booth.elapsed \in 0 .. MaxSeconds + MaxMics /\ booth.starting \in 0 .. MaxMics /\ booth.ref \in 0 .. MaxMics
  BY <1>1, <1>2, <1>3 DEF MicsAre
<1>5. mics \in [1 .. n -> MicRec] /\ booth.files \subseteq 1 .. n
  BY <1>1 DEF MicsAre
<1>6. DOMAIN mics = 1 .. n /\ \A m \in 1 .. n : mics[m].heard \in 0 .. MaxSeconds
  BY <1>5 DEF MicRec, Seconds
<1> QED
  BY <1>4, <1>5, <1>6 DEF CloneInv, CloneTypeOK

-----------------------------------------------------------------------------
(* The decisions page                                                      *)

\* A payload with no criteria, and the state of the page.
AbsentCriteria == [shape |-> "absent", n |-> 0, texts |-> TRUE]

BenchRec ==
  [form : Forms, result : Forms, error : BOOLEAN, busy : BOOLEAN, examples : BOOLEAN,
   up : BOOLEAN, runs : SUBSET [nr : 1 .. MaxRuns, form : Forms], made : 0 .. MaxRuns]

\* What the workbench keeps: PortalAccepts with the types of the page.
BenchInv == bench \in BenchRec /\ PortalAccepts

\* An example and the empty form are forms.
LEMMA BenchSets == Example \in Forms /\ NoForm \in Forms /\ AbsentCriteria \in Criteria
<1>1. AbsentCriteria \in Criteria
  BY DEF AbsentCriteria, Criteria
<1>2. Example \in Forms
  BY <1>1 DEF Example, Forms, States, Kinds, Instructions, AbsentCriteria
<1> QED
  BY <1>1, <1>2 DEF NoForm, Forms, States

\* The body of a form the page lets go is a form, and the portal accepts it but
\* for the two things the page does not look at.
LEMMA BodyAccepted ==
  ASSUME NEW f \in Forms
  PROVE  /\ Body(f) \in Forms
         /\ (/\ validatePayload(f) /\ Body(f).state # "null"
             /\ Body(f).kind = "choice" => Body(f).criteria.texts)
            => validate(Body(f))
<1>1. CASE f.kind = "noul"
  <2>1. Body(f) = [f EXCEPT !.criteria = AbsentCriteria]
    BY <1>1 DEF Body, AbsentCriteria
  <2>2. /\ Body(f) \in Forms /\ Body(f).state = f.state /\ Body(f).count = f.count
        /\ Body(f).id = f.id /\ Body(f).kind = f.kind /\ Body(f).says = f.says
        /\ Body(f).criteria = AbsentCriteria
    BY <2>1, BenchSets DEF Forms
  <2>3. checkNoul(Body(f))
    BY <2>2 DEF checkNoul, AbsentCriteria
  <2> QED
    BY <1>1, <2>2, <2>3 DEF validatePayload, parseState, oneQuestion, validate
<1>2. CASE f.kind # "noul"
  <2>1. Body(f) = f
    BY <1>2 DEF Body
  <2>2. f.kind \in {"choice", "score", "unknown"}
    BY <1>2 DEF Forms, Kinds
  <2> QED
    BY <2>1, <2>2 DEF validatePayload, parseState, oneQuestion, validate
<1> QED
  BY <1>1, <1>2

\* The page opens with nothing sent.
LEMMA BenchInitInv == BenchInit => BenchInv
<1> SUFFICES ASSUME BenchInit PROVE BenchInv
  OBVIOUS
<1>1. PICK f \in Forms :
        bench = [form |-> f, result |-> NoForm, error |-> FALSE, busy |-> FALSE,
                 examples |-> FALSE, up |-> TRUE, runs |-> {}, made |-> 0]
  BY DEF BenchInit
<1>2. 0 \in 0 .. MaxRuns
  BY BenchAssumption
<1>3. bench \in BenchRec
  BY <1>1, <1>2, BenchSets DEF BenchRec
<1> QED
  BY <1>3 DEF BenchInit, BenchInv, PortalAccepts

\* Every step of the page keeps the invariant: a form is validated before it is
\* sent.
LEMMA BenchStep == ASSUME BenchInv, [BenchNext]_benchVars PROVE BenchInv'
<1>0. bench \in BenchRec /\ PortalAccepts
  BY DEF BenchInv
<1>1. CASE Run /\ validatePayload(bench.form)
  <2> DEFINE g == Body(bench.form)
             n == bench.made + 1
             r == [nr |-> n, form |-> g]
             R == bench.runs \cup {r}
  <2>1. /\ g \in Forms
        /\ (/\ g.state # "null"
            /\ g.kind = "choice" => g.criteria.texts) => validate(g)
    BY <1>0, <1>1, BodyAccepted DEF BenchRec
  <2>2. n \in 0 .. MaxRuns /\ n \in 1 .. MaxRuns
    BY <1>0, <1>1, BenchAssumption DEF BenchRec, Run
  <2>3. /\ bench' = [bench EXCEPT !.error = FALSE, !.busy = TRUE, !.examples = FALSE,
                       !.result = NoForm, !.made = n, !.runs = R]
        /\ sent' = sent \cup {g}
    BY <1>1 DEF Run
  <2> HIDE DEF g, n
  <2>4. R \in SUBSET [nr : 1 .. MaxRuns, form : Forms]
    BY <1>0, <2>1, <2>2 DEF BenchRec
  <2> HIDE DEF R
  <2>5. bench' \in BenchRec
    BY <1>0, <2>2, <2>3, <2>4, BenchSets DEF BenchRec
  <2> QED
    BY <1>0, <2>1, <2>3, <2>5 DEF BenchInv, PortalAccepts
<1>2. CASE Run /\ ~validatePayload(bench.form)
  <2>1. bench' = [bench EXCEPT !.error = TRUE, !.examples = FALSE] /\ UNCHANGED sent
    BY <1>2 DEF Run
  <2> QED
    BY <1>0, <2>1 DEF BenchInv, BenchRec, PortalAccepts
<1>3. ASSUME NEW r \in bench.runs, RunAnswers(r) PROVE BenchInv'
  <2> DEFINE R == bench.runs \ {r}
  <2>1. R \in SUBSET [nr : 1 .. MaxRuns, form : Forms] /\ r.form \in Forms
    BY <1>0 DEF BenchRec
  <2> HIDE DEF R
  <2>2. /\ UNCHANGED sent
        /\ \/ bench' = [bench EXCEPT !.result = r.form, !.busy = FALSE, !.runs = R]
           \/ \E up \in BOOLEAN :
                bench' = [bench EXCEPT !.error = TRUE, !.busy = FALSE, !.up = up, !.runs = R]
    BY <1>3 DEF RunAnswers, R
  <2>3. bench' \in BenchRec
    BY <1>0, <2>1, <2>2, Zenon DEF BenchRec
  <2> QED
    BY <1>0, <2>2, <2>3 DEF BenchInv, PortalAccepts
<1>4. CASE OpenExamples \/ CloseExamples \/ Format \/ PickExample
  <2> DEFINE e == bench.error \/ bench.form.state = "text"
  <2>1. e \in BOOLEAN
    OBVIOUS
  <2>2. /\ UNCHANGED sent
        /\ \/ bench' = [bench EXCEPT !.examples = TRUE, !.error = FALSE]
           \/ bench' = [bench EXCEPT !.examples = FALSE]
           \/ bench' = [bench EXCEPT !.error = e]
           \/ bench' = [bench EXCEPT !.form = Example, !.examples = FALSE,
                                     !.result = NoForm, !.error = FALSE]
    BY <1>4 DEF OpenExamples, CloseExamples, Format, PickExample
  <2> HIDE DEF e
  <2>3. bench' \in BenchRec
    BY <1>0, <2>1, <2>2, BenchSets DEF BenchRec
  <2> QED
    BY <1>0, <2>2, <2>3 DEF BenchInv, PortalAccepts
<1>5. CASE UNCHANGED benchVars
  BY <1>0, <1>5 DEF benchVars, BenchInv, PortalAccepts
<1> QED
  BY <1>1, <1>2, <1>3, <1>4, <1>5 DEF BenchNext

\* The invariant gives the property the runs check, and the type.
LEMMA BenchIs == BenchInv => PortalAccepts /\ BenchTypeOK
<1> SUFFICES ASSUME BenchInv PROVE PortalAccepts /\ BenchTypeOK
  OBVIOUS
<1>1. bench.form \in Forms /\ bench.made \in 0 .. MaxRuns /\ bench.runs \in SUBSET [nr : 1 .. MaxRuns, form : Forms]
  BY DEF BenchInv, BenchRec
<1>2. bench.error \in BOOLEAN /\ bench.busy \in BOOLEAN /\ bench.examples \in BOOLEAN /\ bench.up \in BOOLEAN
  BY DEF BenchInv, BenchRec
<1>3. {bench.error, bench.busy, bench.examples, bench.up} \subseteq BOOLEAN
  BY <1>2, Zenon
<1>4. {r.nr : r \in bench.runs} \subseteq 1 .. MaxRuns
  BY <1>1
<1> QED
  BY <1>1, <1>3, <1>4 DEF BenchInv, BenchTypeOK

-----------------------------------------------------------------------------
(* The users of the administration                                         *)

\* The directory, the dialogs of the page, and the requests it made.
PersonRec == [known : BOOLEAN, enabled : BOOLEAN, blocked : BOOLEAN]
DirectoryIs == [Accounts -> PersonRec]
FormRec == [kind : AccountForms \cup {"none"}, who : SomeAccount, text : BOOLEAN, for : SomeAccount]
UserKinds == AccountForms \cup UserReads \cup
             {"enable", "unblock", "create", "group", "group-delete", "revoke"}
PostRec == [kind : UserKinds, who : SomeAccount, stage : {"sent", "back"},
            says : {"ok", "warning", "refused", "lost"}, saw : DirectoryIs, nr : Nat]
SentRec == [kind : AccountForms \cup {"none", "revoke"}, who : SomeAccount, for : SomeAccount]
TableRec ==
  [local : BOOLEAN, data : DirectoryIs, form : FormRec, busy : SUBSET AccountForms,
   creating : {"none", "create", "group", "group-edit"},
   warning : SomeAccount \cup {"create", "group"}, delWarning : SomeAccount,
   detail : SomeAccount, detailOf : SomeAccount, revoking : BOOLEAN, made : Nat, sent : SentRec]

\* The text of a dialog was typed for the account the dialog names, and what
\* names an account is a dialog.
FieldIsOwn(m) ==
  /\ m.text => m.who \in {m.for, NoAccount}
  /\ m.kind = "none" => m.who = NoAccount

\* The inductive invariant: the types, and that a field is typed for the account
\* its dialog names.
UsersInv ==
  /\ directory \in DirectoryIs /\ table \in TableRec /\ post \in SUBSET PostRec
  /\ FieldIsOwn(table.form)
  /\ TypedForThisAccount

\* The closed dialog and the empty directory have their types.
LEMMA UsersSets ==
  /\ Nobody \in PersonRec /\ Empty \in DirectoryIs /\ Closed \in FormRec
  /\ NoAccount \in SomeAccount /\ Accounts \subseteq SomeAccount
  /\ FieldIsOwn(Closed)
<1>1. Nobody \in PersonRec
  BY DEF Nobody, PersonRec
<1>2. NoAccount \in SomeAccount /\ Accounts \subseteq SomeAccount
  BY DEF SomeAccount
<1>3. Closed \in FormRec
  BY <1>2 DEF Closed, FormRec
<1> QED
  BY <1>1, <1>2, <1>3 DEF Empty, DirectoryIs, FieldIsOwn, Closed

\* The page opens with no dialog.
LEMMA UsersInitInv == UsersInit => UsersInv
<1> SUFFICES ASSUME UsersInit PROVE UsersInv
  OBVIOUS
<1>1. directory \in DirectoryIs /\ post = {}
  BY DEF UsersInit, DirectoryIs, PersonRec
<1> DEFINE s == [kind |-> "none", who |-> NoAccount, for |-> NoAccount]
<1>2. PICK local \in BOOLEAN :
     table = [local |-> local, data |-> directory, form |-> Closed, busy |-> {},
              creating |-> "none", warning |-> NoAccount, delWarning |-> NoAccount,
              detail |-> NoAccount, detailOf |-> NoAccount, revoking |-> FALSE, made |-> 0, sent |-> s]
  BY DEF UsersInit
<1>3. s \in SentRec /\ s.kind = "none" /\ 0 \in Nat
  BY UsersSets DEF SentRec
<1> HIDE DEF s
<1>4. table \in TableRec /\ table.form = Closed /\ table.sent = s
  BY <1>1, <1>2, <1>3, UsersSets DEF TableRec
<1>5. TypedForThisAccount
  BY <1>3, <1>4 DEF TypedForThisAccount, AccountForms
<1> QED
  BY <1>1, <1>4, <1>5, UsersSets DEF UsersInv

\* A letter is one of the kinds the section writes.
LEMMA LetterIs ==
  ASSUME NEW kind \in UserKinds, NEW who \in SomeAccount, NEW nr \in Nat
  PROVE  UserLetter(kind, who, nr) \in PostRec
  BY UsersSets DEF UserLetter, PostRec

\* What a request leaves of the table that sent it.
LEMMA SendsIs ==
  ASSUME NEW t \in TableRec, FieldIsOwn(t.form), post \in SUBSET PostRec, table \in TableRec,
         t.sent.kind \in AccountForms => t.sent.who = t.sent.for, directory \in DirectoryIs,
         t.made = table.made, NEW kind \in UserKinds, NEW who \in SomeAccount, Sends(t, kind, who)
  PROVE  UsersInv'
<1> DEFINE n == table.made + 1
           L == UserLetter(kind, who, n)
<1>1. n \in Nat
  BY DEF TableRec
<1>2. table' = [t EXCEPT !.made = n] /\ post' = post \cup {L} /\ UNCHANGED directory
  BY DEF Sends
<1>3. L \in PostRec
  BY <1>1, LetterIs
<1> HIDE DEF n, L
<1>4. table' \in TableRec /\ table'.form = t.form /\ table'.sent = t.sent
  BY <1>1, <1>2 DEF TableRec
<1> QED
  BY <1>2, <1>3, <1>4 DEF UsersInv, TypedForThisAccount

\* So does the table read again.
LEMMA RefreshIs ==
  ASSUME NEW t \in TableRec, FieldIsOwn(t.form), table \in TableRec, NEW rest \in SUBSET PostRec,
         t.sent.kind \in AccountForms => t.sent.who = t.sent.for, directory \in DirectoryIs,
         t.made = table.made, refreshUsers(t, rest)
  PROVE  UsersInv'
<1> DEFINE n == table.made + 1
           L == UserLetter("users", NoAccount, n)
<1>1. n \in Nat
  BY DEF TableRec
<1>2. table' = [t EXCEPT !.made = n] /\ post' = rest \cup {L} /\ UNCHANGED directory
  BY DEF refreshUsers
<1>3. L \in PostRec
  BY <1>1, LetterIs, UsersSets DEF UserKinds, UserReads
<1> HIDE DEF n, L
<1>4. table' \in TableRec /\ table'.form = t.form /\ table'.sent = t.sent
  BY <1>1, <1>2 DEF TableRec
<1> QED
  BY <1>2, <1>3, <1>4 DEF UsersInv, TypedForThisAccount

\* The portal's answer leaves accounts.
LEMMA FormOutcomeIs ==
  ASSUME NEW d \in DirectoryIs, NEW c \in PostRec
  PROVE  UserOutcome(d, c) \in DirectoryIs
<1> DEFINE p == [Nobody EXCEPT !.known = TRUE, !.enabled = TRUE]
<1>1. p \in PersonRec /\ Nobody \in PersonRec
  BY UsersSets DEF Nobody, PersonRec
<1>2. \A e \in BOOLEAN : /\ [d EXCEPT ![c.who].enabled = e] \in DirectoryIs
                         /\ [d EXCEPT ![c.who].blocked = e] \in DirectoryIs
  BY DEF DirectoryIs, PersonRec
<1>3. [d EXCEPT ![c.who].enabled = ~@] = [d EXCEPT ![c.who].enabled = ~d[c.who].enabled]
  OBVIOUS
<1>4. [d EXCEPT ![c.who] = Nobody] \in DirectoryIs /\ [d EXCEPT ![c.who] = p] \in DirectoryIs
  BY <1>1 DEF DirectoryIs
<1> QED
  BY <1>2, <1>3, <1>4 DEF UserOutcome

\* Every step of the page keeps the invariant, one case per action.
LEMMA UsersStep == ASSUME UsersInv, [UsersNext]_userVars PROVE UsersInv'
<1>0. /\ directory \in DirectoryIs /\ table \in TableRec /\ post \in SUBSET PostRec
      /\ FieldIsOwn(table.form) /\ TypedForThisAccount
      /\ table.sent.kind \in AccountForms => table.sent.who = table.sent.for
  BY DEF UsersInv, TypedForThisAccount
<1>t. ASSUME table' \in TableRec, FieldIsOwn(table'.form), table'.sent = table.sent,
             post' \in SUBSET PostRec, directory' \in DirectoryIs
      PROVE  UsersInv'
  BY <1>0, <1>t DEF UsersInv, TypedForThisAccount
<1>1. ASSUME NEW c \in post, UserMailArrives(c) PROVE UsersInv'
  <2>1. PICK says \in {"ok", "warning", "refused", "lost"}, done \in BOOLEAN :
          /\ directory' = IF done /\ c.who \in Accounts THEN UserOutcome(directory, c) ELSE directory
          /\ post' = (post \ {c}) \cup {[c EXCEPT !.stage = "back", !.says = says,
                                           !.saw = IF c.kind = "users" THEN directory ELSE @]}
          /\ UNCHANGED table
    BY <1>1 DEF UserMailArrives
  <2>2. directory' \in DirectoryIs
    BY <1>0, <2>1, FormOutcomeIs
  <2> DEFINE s == IF c.kind = "users" THEN directory ELSE c.saw
             d == [c EXCEPT !.stage = "back", !.says = says, !.saw = s]
  <2>3. s \in DirectoryIs
    BY <1>0 DEF PostRec
  <2>4. post' = (post \ {c}) \cup {d}
    BY <2>1
  <2> HIDE DEF s
  <2>5. d \in PostRec
    BY <1>0, <2>3 DEF PostRec
  <2> HIDE DEF d
  <2> QED
    BY <1>0, <1>t, <2>1, <2>2, <2>4, <2>5
<1>2. ASSUME NEW c \in post, UsersLand(c) PROVE UsersInv'
  <2>1. /\ table' = IF c.says = "ok" THEN [table EXCEPT !.data = c.saw] ELSE table
        /\ post' = post \ {c} /\ UNCHANGED directory
    BY <1>2 DEF UsersLand
  <2>2. c.saw \in DirectoryIs
    BY <1>0 DEF PostRec
  <2>3. table' \in TableRec /\ table'.form = table.form /\ table'.sent = table.sent
    BY <1>0, <2>1, <2>2 DEF TableRec
  <2> QED
    BY <1>0, <1>t, <2>1, <2>3
<1>3. ASSUME NEW c \in post, FormFails(c) PROVE UsersInv'
  <2> DEFINE B == table.busy \ {c.kind}
  <2>1. /\ table' = table \/ table' = [table EXCEPT !.busy = B]
        /\ post' = post \ {c} /\ UNCHANGED directory
    BY <1>3 DEF FormFails, Freed
  <2>2. B \in SUBSET AccountForms
    BY <1>0 DEF TableRec
  <2> HIDE DEF B
  <2>3. table' \in TableRec /\ table'.form = table.form /\ table'.sent = table.sent
    BY <1>0, <2>1, <2>2 DEF TableRec
  <2> QED
    BY <1>0, <1>t, <2>1, <2>3
<1>4. ASSUME NEW c \in post, FormDone(c) PROVE UsersInv'
  <2> DEFINE B == table.busy \ {c.kind}
             m == table.form
             m1 == Shut(m, c.kind)
             m2 == FormEmptied(m, "delete")
             m3 == FormEmptied(m, "password")
             w == IF c.kind = "password" THEN NoAccount ELSE table.warning
             v == IF c.kind = "delete" THEN NoAccount ELSE table.delWarning
             t1 == [table EXCEPT !.busy = B, !.form = m1, !.warning = w, !.delWarning = v]
             t2 == [table EXCEPT !.busy = B, !.form = m2, !.delWarning = c.who]
             t3 == [table EXCEPT !.busy = B, !.form = m3, !.warning = c.who]
  <2>1. B \in SUBSET AccountForms /\ c.who \in SomeAccount
    BY <1>0 DEF TableRec, PostRec
  <2>2. /\ m \in FormRec /\ FieldIsOwn(m)
        /\ w \in SomeAccount \cup {"create", "group"} /\ v \in SomeAccount
    BY <1>0, UsersSets DEF TableRec
  <2>3. /\ m1 \in FormRec /\ FieldIsOwn(m1) /\ m2 \in FormRec /\ FieldIsOwn(m2)
        /\ m3 \in FormRec /\ FieldIsOwn(m3)
    BY <2>2, UsersSets DEF Shut, FormEmptied, FieldIsOwn, FormRec
  <2>4. \E t \in {t1, t2, t3} : refreshUsers(t, post \ {c})
    <3> DEFINE f == Freed(table, c.kind)
               T == CASE c.says = "ok" -> [f EXCEPT !.form = Shut(@, c.kind),
                                             !.warning = IF c.kind = "password" THEN NoAccount ELSE @,
                                             !.delWarning = IF c.kind = "delete" THEN NoAccount ELSE @]
                      [] c.says = "warning" /\ c.kind = "delete" ->
                             [f EXCEPT !.form = FormEmptied(@, "delete"), !.delWarning = c.who]
                      [] OTHER -> [f EXCEPT !.form = FormEmptied(@, "password"), !.warning = c.who]
    <3>1. refreshUsers(T, post \ {c}) /\ c.says \in {"ok", "warning"}
      BY <1>4, Zenon DEF FormDone
    <3>2. f = [table EXCEPT !.busy = B] /\ f.form = m
          /\ f.warning = table.warning /\ f.delWarning = table.delWarning
      BY <1>0 DEF Freed, TableRec
    <3> HIDE DEF f
    <3>3. CASE c.says = "ok"
      <4>1. T = [f EXCEPT !.form = m1, !.warning = w, !.delWarning = v]
        BY <3>2, <3>3
      <4>2. T = t1
        BY <1>0, <3>2, <4>1 DEF TableRec
      <4> QED
        BY <3>1, <4>2
    <3>4. CASE c.says = "warning" /\ c.kind = "delete"
      <4>1. T = [f EXCEPT !.form = m2, !.delWarning = c.who]
        BY <3>2, <3>4
      <4>2. T = t2
        BY <1>0, <3>2, <4>1 DEF TableRec
      <4> QED
        BY <3>1, <4>2
    <3>5. CASE c.says = "warning" /\ c.kind # "delete"
      <4>1. T = [f EXCEPT !.form = m3, !.warning = c.who]
        BY <3>2, <3>5
      <4>2. T = t3
        BY <1>0, <3>2, <4>1 DEF TableRec
      <4> QED
        BY <3>1, <4>2
    <3> QED
      BY <3>1, <3>3, <3>4, <3>5
  <2>5. PICK t \in {t1, t2, t3} : refreshUsers(t, post \ {c})
    BY <2>4
  <2> HIDE DEF B, m1, m2, m3, w, v
  <2>6. /\ t1 \in TableRec /\ t1.form = m1 /\ t1.sent = table.sent /\ t1.made = table.made
        /\ t2 \in TableRec /\ t2.form = m2 /\ t2.sent = table.sent /\ t2.made = table.made
        /\ t3 \in TableRec /\ t3.form = m3 /\ t3.sent = table.sent /\ t3.made = table.made
    BY <1>0, <2>1, <2>2, <2>3 DEF TableRec
  <2> HIDE DEF t1, t2, t3
  <2>7. t \in TableRec /\ FieldIsOwn(t.form) /\ t.sent = table.sent /\ t.made = table.made
    BY <2>3, <2>6
  <2> QED
    BY <1>0, <2>5, <2>7, RefreshIs
<1>5. ASSUME NEW c \in post, MenuLands(c) PROVE UsersInv'
  <2>1. \/ refreshUsers(table, post \ {c})
        \/ post' = post \ {c} /\ UNCHANGED <<directory, table>>
    BY <1>5 DEF MenuLands
  <2> QED
    BY <1>0, <1>t, <2>1, RefreshIs
<1>6. ASSUME NEW c \in post, CreationLands(c) PROVE UsersInv'
  <2> DEFINE w == IF c.says = "warning" THEN c.kind ELSE NoAccount
             k == IF c.says = "warning" THEN table.creating
                  ELSE IF c.kind = "create" THEN (IF table.creating = "create" THEN "none" ELSE table.creating)
                  ELSE IF table.creating = "create" THEN table.creating ELSE "none"
             t == [table EXCEPT !.warning = w, !.creating = k]
  <2>1. \/ post' = post \ {c} /\ UNCHANGED <<directory, table>>
        \/ refreshUsers(t, post \ {c})
    BY <1>6 DEF CreationLands
  <2>2. /\ w \in SomeAccount \cup {"create", "group"}
        /\ k \in {"none", "create", "group", "group-edit"}
    BY <1>0, <1>6, UsersSets DEF CreationLands, TableRec
  <2> HIDE DEF w, k
  <2>3. t \in TableRec /\ t.form = table.form /\ t.sent = table.sent /\ t.made = table.made
    BY <1>0, <2>2 DEF TableRec
  <2> HIDE DEF t
  <2> QED
    BY <1>0, <1>t, <2>1, <2>3, RefreshIs
<1>7. ASSUME NEW c \in post, DetailLands(c) PROVE UsersInv'
  <2> DEFINE d == IF c.says = "ok" /\ table.detailOf # NoAccount THEN c.who ELSE table.detail
  <2>1. /\ table' = [table EXCEPT !.detail = d]
        /\ post' = post \ {c} /\ UNCHANGED directory
    BY <1>7 DEF DetailLands
  <2>2. d \in SomeAccount
    BY <1>0 DEF TableRec, PostRec
  <2> HIDE DEF d
  <2>3. table' \in TableRec /\ table'.form = table.form /\ table'.sent = table.sent
    BY <1>0, <2>1, <2>2 DEF TableRec
  <2> QED
    BY <1>0, <1>t, <2>1, <2>3
<1>8. ASSUME NEW c \in post, RevokeLands(c) PROVE UsersInv'
  <2> DEFINE n == table.made + 1
             L == UserLetter("detail", c.who, n)
  <2>1. /\ table' = [table EXCEPT !.revoking = FALSE, !.made = n] /\ UNCHANGED directory
        /\ post' = (post \ {c}) \cup IF c.says = "ok" THEN {L} ELSE {}
    BY <1>8 DEF RevokeLands
  <2>2. n \in Nat /\ c.who \in SomeAccount
    BY <1>0 DEF TableRec, PostRec
  <2>3. L \in PostRec
    BY <2>2, LetterIs DEF UserKinds, UserReads
  <2> HIDE DEF n, L
  <2>4. table' \in TableRec /\ table'.form = table.form /\ table'.sent = table.sent
    BY <1>0, <2>1, <2>2 DEF TableRec
  <2> QED
    BY <1>0, <1>t, <2>1, <2>3, <2>4
<1>9. ASSUME NEW u \in Accounts, ToggleEnabled(u) \/ unblockUser(u) \/ createUser(u) PROVE UsersInv'
  <2>1. u \in SomeAccount
    BY UsersSets
  <2>2. \E k \in {"enable", "unblock", "create"} : Sends(table, k, u)
    BY <1>9 DEF ToggleEnabled, unblockUser, createUser
  <2>3. {"enable", "unblock", "create"} \subseteq UserKinds
    BY DEF UserKinds
  <2> QED
    BY <1>0, <2>1, <2>2, <2>3, SendsIs
<1>10. ASSUME NEW u \in Accounts, openDetail(u) PROVE UsersInv'
  <2> DEFINE t == [table EXCEPT !.detail = NoAccount, !.detailOf = u]
  <2>1. u \in SomeAccount /\ "detail" \in UserKinds /\ Sends(t, "detail", u)
    BY <1>10, UsersSets DEF openDetail, UserKinds, UserReads
  <2>2. t \in TableRec /\ t.form = table.form /\ t.sent = table.sent /\ t.made = table.made
    BY <1>0, <2>1, UsersSets DEF TableRec
  <2> HIDE DEF t
  <2> QED
    BY <1>0, <2>1, <2>2, SendsIs
<1>11. ASSUME NEW f \in AccountForms, NEW u \in Accounts, OpenForm(f, u) PROVE UsersInv'
  <2> DEFINE m == [Closed EXCEPT !.kind = f, !.who = u]
             w == IF f = "password" THEN NoAccount ELSE table.warning
             v == IF f = "delete" THEN NoAccount ELSE table.delWarning
  <2>1. /\ table' = [table EXCEPT !.form = m, !.warning = w, !.delWarning = v]
        /\ UNCHANGED <<directory, post>>
    BY <1>11 DEF OpenForm
  <2>2. m \in FormRec /\ FieldIsOwn(m)
    BY UsersSets DEF Closed, FormRec, FieldIsOwn, AccountForms
  <2>3. w \in SomeAccount \cup {"create", "group"} /\ v \in SomeAccount
    BY <1>0, UsersSets DEF TableRec
  <2> HIDE DEF m, w, v
  <2>4. table' \in TableRec /\ table'.form = m /\ table'.sent = table.sent
    BY <1>0, <2>1, <2>2, <2>3 DEF TableRec
  <2> QED
    BY <1>0, <1>t, <2>1, <2>2, <2>4
<1>12. CASE TypeField
  <2> DEFINE m == [table.form EXCEPT !.text = TRUE, !.for = table.form.who]
  <2>1. table.form \in FormRec
    BY <1>0 DEF TableRec
  <2>2. table' = [table EXCEPT !.form = m] /\ UNCHANGED <<directory, post>>
    BY <1>0, <1>12, <2>1 DEF TypeField, TableRec, FormRec
  <2>3. m \in FormRec /\ FieldIsOwn(m)
    BY <1>0, <2>1 DEF FormRec, FieldIsOwn
  <2> HIDE DEF m
  <2>4. table' \in TableRec /\ table'.form = m /\ table'.sent = table.sent
    BY <1>0, <2>2, <2>3 DEF TableRec
  <2> QED
    BY <1>0, <1>t, <2>2, <2>3, <2>4
<1>13. CASE CloseForm
  <2> DEFINE m == [table.form EXCEPT !.who = NoAccount]
             w == IF table.form.kind = "password" THEN NoAccount ELSE table.warning
             v == IF table.form.kind = "delete" THEN NoAccount ELSE table.delWarning
  <2>1. table.form \in FormRec
    BY <1>0 DEF TableRec
  <2>2. /\ table' = [table EXCEPT !.form = m, !.warning = w, !.delWarning = v]
        /\ UNCHANGED <<directory, post>>
    BY <1>0, <1>13, <2>1 DEF CloseForm, TableRec, FormRec
  <2>3. m \in FormRec /\ FieldIsOwn(m)
    BY <2>1, UsersSets DEF FormRec, FieldIsOwn
  <2>4. w \in SomeAccount \cup {"create", "group"} /\ v \in SomeAccount
    BY <1>0, UsersSets DEF TableRec
  <2> HIDE DEF m, w, v
  <2>5. table' \in TableRec /\ table'.form = m /\ table'.sent = table.sent
    BY <1>0, <2>2, <2>3, <2>4 DEF TableRec
  <2> QED
    BY <1>0, <1>t, <2>2, <2>3, <2>5
<1>14. CASE Submit
  <2> DEFINE m == table.form
             B == table.busy \cup ({m.kind} \ {"password"})
             s == [kind |-> m.kind, who |-> m.who, for |-> IF m.text THEN m.for ELSE m.who]
             t == [table EXCEPT !.busy = B, !.sent = s]
  <2>1. /\ Sends(t, m.kind, m.who) /\ m.who # NoAccount
        /\ m.kind \notin table.busy /\ (m.text \/ m.kind = "block")
    BY <1>14 DEF Submit
  <2>2. m \in FormRec /\ FieldIsOwn(m)
    BY <1>0 DEF TableRec
  <2>3. m.kind \in AccountForms
    BY <2>1, <2>2 DEF FormRec, FieldIsOwn
  <2>4. /\ B \in SUBSET AccountForms /\ s \in SentRec /\ s.who = s.for
        /\ m.kind \in UserKinds /\ m.who \in SomeAccount
    BY <1>0, <2>1, <2>2, <2>3 DEF TableRec, FormRec, FieldIsOwn, SentRec, UserKinds
  <2> HIDE DEF B, s
  <2>5. t \in TableRec /\ t.form = m /\ t.sent = s /\ t.made = table.made
    BY <1>0, <2>4 DEF TableRec
  <2> HIDE DEF t
  <2> QED
    BY <1>0, <2>1, <2>2, <2>4, <2>5, SendsIs
<1>15. ASSUME NEW kind \in {"create", "group", "group-edit"}, OpenCreation(kind) PROVE UsersInv'
  <2> DEFINE w == IF kind = "group-edit" THEN table.warning ELSE NoAccount
  <2>1. /\ table' = [table EXCEPT !.creating = kind, !.warning = w]
        /\ UNCHANGED <<directory, post>>
    BY <1>15 DEF OpenCreation
  <2>2. w \in SomeAccount \cup {"create", "group"}
    BY <1>0, UsersSets DEF TableRec
  <2> HIDE DEF w
  <2>3. table' \in TableRec /\ table'.form = table.form /\ table'.sent = table.sent
    BY <1>0, <2>1, <2>2 DEF TableRec
  <2> QED
    BY <1>0, <1>t, <2>1, <2>3
<1>16. CASE CloseCreation \/ closeDetail
  <2>1. /\ UNCHANGED <<directory, post>>
        /\ \/ table' = [table EXCEPT !.creating = "none", !.warning = NoAccount]
           \/ table' = [table EXCEPT !.detailOf = NoAccount, !.detail = NoAccount]
    BY <1>16 DEF CloseCreation, closeDetail
  <2>2. table' \in TableRec /\ table'.form = table.form /\ table'.sent = table.sent
    BY <1>0, <2>1, UsersSets DEF TableRec
  <2> QED
    BY <1>0, <1>t, <2>1, <2>2
<1>17. CASE createGroup \/ deleteGroup
  <2>1. Sends(table, "group", NoAccount) \/ Sends(table, "group-delete", NoAccount)
    BY <1>17 DEF createGroup, deleteGroup
  <2>2. {"group", "group-delete"} \subseteq UserKinds
    BY DEF UserKinds
  <2> QED
    BY <1>0, <2>1, <2>2, SendsIs, UsersSets
<1>18. CASE revokeDetailSessions
  <2> DEFINE s == [kind |-> "revoke", who |-> table.detailOf, for |-> table.detail]
             t == [table EXCEPT !.revoking = TRUE, !.sent = s]
  <2>1. Sends(t, "revoke", table.detailOf)
    BY <1>18 DEF revokeDetailSessions
  <2>2. /\ s \in SentRec /\ s.kind \notin AccountForms
        /\ "revoke" \in UserKinds /\ table.detailOf \in SomeAccount
    BY <1>0 DEF TableRec, SentRec, UserKinds, AccountForms
  <2> HIDE DEF s
  <2>3. t \in TableRec /\ t.form = table.form /\ t.sent = s /\ t.made = table.made
    BY <1>0, <2>2 DEF TableRec
  <2> HIDE DEF t
  <2> QED
    BY <1>0, <2>1, <2>2, <2>3, SendsIs
<1>19. CASE UNCHANGED userVars
  BY <1>0, <1>t, <1>19 DEF userVars
<1> QED
  BY <1>1, <1>2, <1>3, <1>4, <1>5, <1>6, <1>7, <1>8, <1>9, <1>10, <1>11, <1>12, <1>13, <1>14,
     <1>15, <1>16, <1>17, <1>18, <1>19
  DEF UsersNext

\* The invariant gives the property the runs check, and the type.
LEMMA UsersAre == UsersInv => TypedForThisAccount /\ UsersTypeOK
<1> SUFFICES ASSUME UsersInv PROVE TypedForThisAccount /\ UsersTypeOK
  OBVIOUS
<1>1. directory \in [Accounts -> PersonRec] /\ table \in TableRec /\ post \in SUBSET PostRec
  BY DEF UsersInv, DirectoryIs
<1>2. /\ table.data \in DirectoryIs /\ table.form \in FormRec
      /\ {table.detail, table.detailOf, table.delWarning} \subseteq SomeAccount
      /\ table.warning \in SomeAccount \cup {"create", "group"}
      /\ table.creating \in {"none", "create", "group", "group-edit"}
      /\ table.busy \subseteq AccountForms
  BY <1>1 DEF TableRec
<1>3. \A c \in post : c.who \in SomeAccount /\ c.stage \in {"sent", "back"}
  BY <1>1 DEF PostRec
<1> QED
  BY <1>1, <1>2, <1>3 DEF UsersInv, UsersTypeOK, DirectoryIs, FormRec

-----------------------------------------------------------------------------
(* The message box                                                         *)

\* The rows of the menu, the turns, and the state of the box.
SkillRows == {"builtin", "custom", "package"}
TurnRec == [skill : {"none", "package"}, model : {"sees", "blind"}]
QueuedRec == [images : Nat, want : {"none", "package"}]
OutRec == [got : {"none", "package"}, want : {"none", "package"}, images : Nat,
           model : {"sees", "blind"}]
BoxReadRec == [image : Nat, text : Nat]
BoxRec ==
  [input : Drafts, sel : 0 .. 3, pkgs : {"loading", "ready", "none"}, custom : BOOLEAN,
   invoked : {"none", "package"}, images : Nat, texts : Nat, reading : BoxReadRec,
   picked : 0 .. MaxPicked, model : {"sees", "blind"}, streaming : BOOLEAN, turn : TurnRec,
   queue : Seq(QueuedRec), editing : BOOLEAN, creator : BOOLEAN, sent : Seq(OutRec),
   by : {"key", "other"}]

\* The messages that left the draft: sent, or in the queue.
GoneSoFar(b) == Len(b.sent) + Len(b.queue)

\* The inductive invariant: the types, and the bound on what left the draft.
BoxInv == box \in BoxRec /\ GoneSoFar(box) <= MaxSends

\* The empty values of the box have their types.
LEMMA BoxSets ==
  /\ 1 \in 0 .. 3 /\ "" \in Drafts /\ "text" \in Drafts /\ 0 \in Nat
  /\ NoTurn \in TurnRec /\ <<>> \in Seq(QueuedRec) /\ <<>> \in Seq(OutRec)
  BY DEF Drafts, NoTurn, TurnRec

\* Sums and comparisons the bound on the messages needs.
LEMMA BoxSums ==
  /\ \A x, y \in Nat : x + y \in Nat /\ x + (y + 1) = (x + y) + 1 /\ (x + 1) + y = (x + y) + 1
  /\ \A x, y, z \in Nat : z <= y => x + z <= x + y
  /\ \A x, y, z \in Nat : x <= y /\ y <= z => x <= z
  /\ \A x, y \in Nat : x < y => x + 1 <= y
  /\ \A x \in Nat : x + 1 > x
  OBVIOUS

\* What left the draft is counted.
LEMMA GoneIs ==
  ASSUME NEW b \in BoxRec
  PROVE  /\ b.sent \in Seq(OutRec) /\ b.queue \in Seq(QueuedRec)
         /\ Len(b.sent) \in Nat /\ Len(b.queue) \in Nat /\ GoneSoFar(b) \in Nat
<1>1. b.sent \in Seq(OutRec) /\ b.queue \in Seq(QueuedRec)
  BY DEF BoxRec
<1>2. Len(b.sent) \in Nat /\ Len(b.queue) \in Nat
  BY <1>1, LenProperties
<1> QED
  BY <1>1, <1>2, BoxSums, Zenon DEF GoneSoFar

\* The box opens empty.
LEMMA BoxInitInv == ComposerInit => BoxInv
<1> SUFFICES ASSUME ComposerInit PROVE BoxInv
  OBVIOUS
<1> DEFINE r == [image |-> 0, text |-> 0]
<1>1. r \in BoxReadRec /\ 0 \in 0 .. MaxPicked
  BY ComposerAssumption DEF BoxReadRec
<1>2. box = [input |-> "", sel |-> 1, pkgs |-> "loading", custom |-> TRUE, invoked |-> "none",
         images |-> 0, texts |-> 0, reading |-> r, picked |-> 0,
         model |-> "sees", streaming |-> FALSE, turn |-> NoTurn,
         queue |-> <<>>, editing |-> FALSE, creator |-> FALSE, sent |-> <<>>, by |-> "other"]
  BY DEF ComposerInit
<1> HIDE DEF r
<1>3. box \in BoxRec /\ box.sent = <<>> /\ box.queue = <<>>
  BY <1>1, <1>2, BoxSets DEF BoxRec
<1>4. GoneSoFar(box) <= MaxSends
  BY <1>3, ComposerAssumption DEF GoneSoFar
<1> QED
  BY <1>3, <1>4 DEF BoxInv

\* The menu has three rows of skills at most.
LEMMA MenuIs ==
  ASSUME NEW b, NEW d
  PROVE  Menu(b, d) \in Seq(SkillRows) /\ Len(Menu(b, d)) \in 0 .. 3
<1> DEFINE p == IF b.pkgs = "ready" THEN <<"package">> ELSE <<>>
           c == IF b.custom THEN <<"custom">> ELSE <<>>
           h == <<"builtin">>
<1>1. /\ <<"package">> \in Seq(SkillRows) /\ Len(<<"package">>) = 1
      /\ <<"custom">> \in Seq(SkillRows) /\ Len(<<"custom">>) = 1
      /\ h \in Seq(SkillRows) /\ Len(h) = 1
      /\ <<>> \in Seq(SkillRows) /\ Len(<<>>) = 0
  <2>1. /\ "package" \in SkillRows /\ "custom" \in SkillRows /\ "builtin" \in SkillRows
    BY DEF SkillRows
  <2> QED
    BY <2>1
<1>2. /\ p \in Seq(SkillRows) /\ Len(p) \in 0 .. 1
      /\ c \in Seq(SkillRows) /\ Len(c) \in 0 .. 1
  <2>1. 0 \in 0 .. 1 /\ 1 \in 0 .. 1
    OBVIOUS
  <2> QED
    BY <1>1, <2>1, Zenon
<1>3. Menu(b, d) = CASE d = "/" -> (h \o c) \o p
                     [] d = "/word" -> p
                     [] OTHER -> <<>>
  BY DEF Menu
<1> HIDE DEF p, c, h
<1>4. h \o c \in Seq(SkillRows) /\ Len(h \o c) = Len(h) + Len(c)
  BY <1>1, <1>2, ConcatProperties
<1>5. (h \o c) \o p \in Seq(SkillRows) /\ Len((h \o c) \o p) = Len(h \o c) + Len(p)
  BY <1>2, <1>4, ConcatProperties
<1>6. Len((h \o c) \o p) \in 0 .. 3 /\ Len(p) \in 0 .. 3 /\ Len(<<>>) \in 0 .. 3
  BY <1>1, <1>2, <1>4, <1>5
<1> QED
  BY <1>1, <1>2, <1>3, <1>5, <1>6, Zenon

\* A draft replaced, a menu row taken, the creator opened: nothing was sent.
LEMMA DraftIs ==
  ASSUME NEW b \in BoxRec
  PROVE  /\ \A d \in Drafts : /\ Draft(b, d) \in BoxRec
                              /\ Draft(b, d).sent = b.sent /\ Draft(b, d).queue = b.queue
         /\ Opens(b) \in BoxRec /\ Opens(b).sent = b.sent /\ Opens(b).queue = b.queue
         /\ \A s : /\ selectSkill(b, s) \in BoxRec
                   /\ selectSkill(b, s).sent = b.sent /\ selectSkill(b, s).queue = b.queue
<1>1. ASSUME NEW d \in Drafts
      PROVE  Draft(b, d) \in BoxRec /\ Draft(b, d).sent = b.sent /\ Draft(b, d).queue = b.queue
  <2> DEFINE s == IF isSlash(d) /\ d # b.input THEN 1 ELSE b.sel
  <2>1. s \in 0 .. 3
    BY BoxSets DEF BoxRec
  <2>2. Draft(b, d) = [b EXCEPT !.input = d, !.sel = s]
    BY DEF Draft
  <2> HIDE DEF s
  <2> QED
    BY <2>1, <2>2 DEF BoxRec
<1>2. Opens(b) \in BoxRec /\ Opens(b).sent = b.sent /\ Opens(b).queue = b.queue
  BY BoxSets DEF BoxRec, Opens
<1>3. ASSUME NEW s
      PROVE  /\ selectSkill(b, s) \in BoxRec
             /\ selectSkill(b, s).sent = b.sent /\ selectSkill(b, s).queue = b.queue
  BY BoxSets DEF BoxRec, selectSkill
<1> QED
  BY <1>1, <1>2, <1>3

\* A turn sends every message it is given.
LEMMA StreamIs ==
  ASSUME NEW b \in BoxRec, NEW t \in TurnRec, NEW msgs \in Seq(QueuedRec)
  PROVE  /\ Stream(b, t, msgs) \in BoxRec /\ Stream(b, t, msgs).queue = b.queue
         /\ Len(Stream(b, t, msgs).sent) = Len(b.sent) + Len(msgs)
         /\ Stream(b, t, msgs).input = b.input
<1> DEFINE o == [i \in DOMAIN msgs |-> [got |-> t.skill, want |-> msgs[i].want,
                                        images |-> msgs[i].images, model |-> t.model]]
           s == b.sent \o o
<1>1. ASSUME NEW i \in 1 .. Len(msgs) PROVE o[i] \in OutRec
  <2>1. msgs[i] \in QueuedRec /\ i \in DOMAIN msgs
    BY ElementOfSeq, LenProperties
  <2>2. o[i] = [got |-> t.skill, want |-> msgs[i].want, images |-> msgs[i].images, model |-> t.model]
    BY <2>1
  <2> QED
    BY <2>1, <2>2 DEF OutRec, QueuedRec, TurnRec
<1>2. o \in Seq(OutRec) /\ Len(o) = Len(msgs)
  <2>1. DOMAIN msgs = 1 .. Len(msgs) /\ Len(msgs) \in Nat
    BY LenProperties
  <2>2. o \in [1 .. Len(msgs) -> OutRec]
    BY <1>1, <2>1
  <2> HIDE DEF o
  <2> QED
    BY <2>1, <2>2
<1>3. b.sent \in Seq(OutRec)
  BY DEF BoxRec
<1> HIDE DEF o
<1>4. s \in Seq(OutRec) /\ Len(s) = Len(b.sent) + Len(msgs)
  <2>1. s \in Seq(OutRec) /\ Len(s) = Len(b.sent) + Len(o)
    BY <1>2, <1>3, ConcatProperties
  <2> QED
    BY <1>2, <2>1
<1>5. Stream(b, t, msgs) = [b EXCEPT !.streaming = TRUE, !.turn = t, !.invoked = "none", !.sent = s]
  BY DEF Stream, o
<1> HIDE DEF s
<1> QED
  BY <1>4, <1>5 DEF BoxRec

\* send() does nothing, or empties the draft and has one message more sent or
\* queued.
LEMMA SendIs ==
  ASSUME NEW b \in BoxRec
  PROVE  /\ send(b) \in BoxRec
         /\ \/ send(b) = b
            \/ GoneSoFar(send(b)) = GoneSoFar(b) + 1
         /\ b.input # "" => GoneSoFar(send(b)) = GoneSoFar(b) + 1
<1> DEFINE empty == b.input = "" /\ b.texts = 0 /\ Sendable(b) = 0
           clean == [b EXCEPT !.input = "", !.images = 0, !.texts = 0]
           msg == [images |-> Sendable(b), want |-> b.invoked]
           ready == [clean EXCEPT !.editing = FALSE]
           t == [skill |-> b.invoked, model |-> b.model]
           q == Append(b.queue, msg)
<1>1. msg \in QueuedRec /\ t \in TurnRec
  BY BoxSets DEF BoxRec, Sendable, QueuedRec, TurnRec
<1>2. /\ b.queue \in Seq(QueuedRec) /\ b.sent \in Seq(OutRec)
      /\ Len(b.queue) \in Nat /\ Len(b.sent) \in Nat
  BY DEF BoxRec
<1>3. /\ clean \in BoxRec /\ clean.queue = b.queue /\ clean.sent = b.sent
      /\ ready \in BoxRec /\ ready.queue = b.queue /\ ready.sent = b.sent
  BY BoxSets DEF BoxRec
<1>4. send(b) = IF empty THEN b
                ELSE IF b.streaming THEN [clean EXCEPT !.queue = q]
                ELSE Stream(ready, t, <<msg>>)
  <2>1. [clean EXCEPT !.queue = Append(@, msg)] = [clean EXCEPT !.queue = q]
    BY <1>3
  <2> QED
    BY <2>1 DEF send
<1> HIDE DEF msg, t, clean, ready
<1>5. q \in Seq(QueuedRec) /\ Len(q) = Len(b.queue) + 1
  BY <1>1, <1>2
<1>6. <<msg>> \in Seq(QueuedRec) /\ Len(<<msg>>) = 1
  BY <1>1
<1> HIDE DEF q
<1>7. /\ [clean EXCEPT !.queue = q] \in BoxRec
      /\ [clean EXCEPT !.queue = q].queue = q /\ [clean EXCEPT !.queue = q].sent = b.sent
  BY <1>3, <1>5 DEF BoxRec
<1>8. /\ Stream(ready, t, <<msg>>) \in BoxRec /\ Stream(ready, t, <<msg>>).queue = b.queue
      /\ Len(Stream(ready, t, <<msg>>).sent) = Len(b.sent) + 1
  <2>1. Stream(ready, t, <<msg>>).queue = ready.queue /\ Stream(ready, t, <<msg>>) \in BoxRec
        /\ Len(Stream(ready, t, <<msg>>).sent) = Len(ready.sent) + Len(<<msg>>)
    BY <1>1, <1>3, <1>6, StreamIs
  <2> QED
    BY <1>3, <1>6, <2>1
<1>9. CASE empty
  BY <1>4, <1>9
<1>10. CASE ~empty /\ b.streaming
  <2>1. send(b) = [clean EXCEPT !.queue = q]
    BY <1>4, <1>10
  <2>2. GoneSoFar(send(b)) = Len(b.sent) + (Len(b.queue) + 1)
    BY <1>5, <1>7, <2>1 DEF GoneSoFar
  <2>3. GoneSoFar(send(b)) = GoneSoFar(b) + 1
    BY <1>2, <2>2, BoxSums, Zenon DEF GoneSoFar
  <2> QED
    BY <1>7, <2>1, <2>3
<1>11. CASE ~empty /\ ~b.streaming
  <2>1. send(b) = Stream(ready, t, <<msg>>)
    BY <1>4, <1>11
  <2>2. GoneSoFar(send(b)) = (Len(b.sent) + 1) + Len(b.queue)
    BY <1>8, <2>1 DEF GoneSoFar
  <2>3. GoneSoFar(send(b)) = GoneSoFar(b) + 1
    BY <1>2, <2>2, BoxSums, Zenon DEF GoneSoFar
  <2> QED
    BY <1>8, <2>1, <2>3
<1> QED
  BY <1>9, <1>10, <1>11

\* Whose step it was changes nothing else.
LEMMA ByIs ==
  ASSUME NEW b \in BoxRec, NEW k \in {"key", "other"}
  PROVE  LET c == [b EXCEPT !.by = k]
         IN  /\ c \in BoxRec /\ c.sent = b.sent /\ c.queue = b.queue /\ c.input = b.input
             /\ c.by = k
  BY DEF BoxRec

\* Every step of the box keeps its invariant, and no key takes away a draft.
LEMMA BoxStep == ASSUME BoxInv, [ComposerNext]_box PROVE BoxInv' /\ KeepsDraft
<1>0. /\ box \in BoxRec /\ GoneSoFar(box) <= MaxSends /\ MaxSends \in Nat
      /\ box.sent \in Seq(OutRec) /\ box.queue \in Seq(QueuedRec)
      /\ Len(box.sent) \in Nat /\ Len(box.queue) \in Nat /\ GoneSoFar(box) \in Nat
  BY ComposerAssumption, GoneIs DEF BoxInv
\* What a step that sends, or takes from the queue, has to show.
<1>c. ASSUME box' \in BoxRec, GoneSoFar(box') <= MaxSends,
             box'.by = "other" \/ (box.input # "" => GoneSoFar(box') > GoneSoFar(box))
      PROVE  BoxInv' /\ KeepsDraft
  BY <1>c DEF BoxInv, KeepsDraft, GoneSoFar
\* A step of the mouse or of the page that sends nothing.
<1>a. ASSUME box' \in BoxRec, box'.by = "other", box'.sent = box.sent, box'.queue = box.queue
      PROVE  BoxInv' /\ KeepsDraft
  BY <1>0, <1>a DEF BoxInv, KeepsDraft, GoneSoFar
<1>b. ASSUME NEW b \in BoxRec, b.sent = box.sent, b.queue = box.queue, box' = [b EXCEPT !.by = "other"]
      PROVE  BoxInv' /\ KeepsDraft
  BY <1>a, <1>b, ByIs
<1>1. ASSUME NEW d \in Drafts \cup Commands, Type(d) PROVE BoxInv' /\ KeepsDraft
  <2>1. \/ box' = [Opens(box) EXCEPT !.by = "other"]
        \/ d \in Drafts /\ box' = [Draft(box, d) EXCEPT !.by = "other"]
    BY <1>1 DEF Type
  <2> QED
    BY <1>0, <1>b, <2>1, DraftIs
<1>2. CASE PackagesArrive
  <2>1. PICK p \in {"ready", "none"} : box' = [box EXCEPT !.pkgs = p, !.by = "other"]
    BY <1>2 DEF PackagesArrive
  <2>2. box' \in BoxRec /\ box'.by = "other" /\ box'.sent = box.sent /\ box'.queue = box.queue
    BY <1>0, <2>1 DEF BoxRec
  <2> QED
    BY <1>a, <2>2
<1>3. CASE SendButton
  <2>1. CanStart /\ send(box) # box /\ box' = [send(box) EXCEPT !.by = "other"]
    BY <1>3 DEF SendButton
  <2>2. /\ send(box) \in BoxRec
        /\ GoneSoFar(send(box)) = GoneSoFar(box) + 1
    BY <1>0, <2>1, SendIs
  <2>3. /\ box' \in BoxRec /\ box'.sent = send(box).sent /\ box'.queue = send(box).queue
        /\ box'.by = "other"
    BY <2>1, <2>2, ByIs
  <2>4. GoneSoFar(box') = GoneSoFar(box) + 1 /\ GoneSoFar(box) < MaxSends
    BY <2>1, <2>2, <2>3 DEF CanStart, GoneSoFar
  <2>5. GoneSoFar(box') <= MaxSends
    BY <1>0, <2>4
  <2> QED
    BY <1>c, <2>3, <2>5
<1>4. CASE TurnEnd
  <2>1. CASE box.queue = <<>>
    <3> DEFINE b == [box EXCEPT !.streaming = FALSE, !.turn = NoTurn]
    <3>1. box' = [b EXCEPT !.by = "other"]
      BY <1>4, <2>1 DEF TurnEnd
    <3>2. b \in BoxRec /\ b.sent = box.sent /\ b.queue = box.queue
      BY <1>0, BoxSets DEF BoxRec
    <3> HIDE DEF b
    <3> QED
      BY <1>b, <3>1, <3>2
  <2>2. CASE box.queue # <<>>
    <3> DEFINE b == [box EXCEPT !.queue = <<>>]
               s == Stream(b, box.turn, box.queue)
    <3>1. box' = [s EXCEPT !.by = "other"]
      BY <1>4, <2>2 DEF TurnEnd
    <3>2. b \in BoxRec /\ b.sent = box.sent /\ b.queue = <<>> /\ box.turn \in TurnRec
      BY <1>0, BoxSets DEF BoxRec
    <3> HIDE DEF b
    <3>3. s \in BoxRec /\ s.queue = <<>> /\ Len(s.sent) = Len(box.sent) + Len(box.queue)
      <4>1. s \in BoxRec /\ s.queue = b.queue /\ Len(s.sent) = Len(b.sent) + Len(box.queue)
        BY <1>0, <3>2, StreamIs
      <4> QED
        BY <3>2, <4>1
    <3> HIDE DEF s
    <3>4. box' \in BoxRec /\ box'.by = "other" /\ box'.sent = s.sent /\ box'.queue = <<>>
      BY <3>1, <3>3, ByIs
    <3>5. GoneSoFar(box') = GoneSoFar(box) + 0
      BY <3>3, <3>4, EmptySeq DEF GoneSoFar
    <3>6. GoneSoFar(box') <= MaxSends
      BY <1>0, <3>5
    <3> QED
      BY <1>c, <3>4, <3>6
  <2> QED
    BY <2>1, <2>2
<1>5. CASE editQueued \/ discardQueued
  <2> DEFINE q == Tail(box.queue)
  <2>1. q \in Seq(QueuedRec) /\ Len(q) <= Len(box.queue) /\ Len(q) \in Nat
    <3>1. box.queue # <<>>
      BY <1>5 DEF editQueued, discardQueued
    <3>2. q \in Seq(QueuedRec) /\ Len(q) = Len(box.queue) - 1
      BY <1>0, <3>1, HeadTailProperties
    <3>3. Len(q) \in Nat
      BY <3>2, LenProperties
    <3> QED
      BY <1>0, <3>2, <3>3
  <2>2. \/ box' = [box EXCEPT !.queue = q, !.input = "text", !.by = "other"]
        \/ box' = [box EXCEPT !.queue = q, !.by = "other"]
    BY <1>5 DEF editQueued, discardQueued
  <2> HIDE DEF q
  <2>3. box' \in BoxRec /\ box'.by = "other" /\ box'.sent = box.sent /\ box'.queue = q
    BY <1>0, <2>1, <2>2, BoxSets DEF BoxRec
  <2>4. GoneSoFar(box') = Len(box.sent) + Len(q) /\ GoneSoFar(box) = Len(box.sent) + Len(box.queue)
    BY <2>3 DEF GoneSoFar
  <2>5. GoneSoFar(box') <= GoneSoFar(box) /\ GoneSoFar(box') \in Nat
    <3> DEFINE x == Len(box.sent)
               y == Len(box.queue)
               z == Len(q)
               v == GoneSoFar(box')
               w == GoneSoFar(box)
    <3>1. x \in Nat /\ y \in Nat /\ z \in Nat /\ z <= y /\ v = x + z /\ w = x + y
      BY <1>0, <2>1, <2>4
    <3> HIDE DEF x, y, z, v, w
    <3>2. v <= w /\ v \in Nat
      BY <3>1
    <3> QED
      BY <3>2 DEF v, w
  <2>6. GoneSoFar(box') <= MaxSends
    BY <1>0, <2>5, BoxSums, Zenon
  <2> QED
    BY <1>c, <2>3, <2>6
<1>6. CASE editMessage
  <2> DEFINE n == box.sent[Len(box.sent)].images
  <2>1. n \in Nat
    <3>1. Len(box.sent) \in 1 .. Len(box.sent)
      BY <1>0, <1>6 DEF editMessage
    <3>2. box.sent[Len(box.sent)] \in OutRec
      BY <1>0, <3>1
    <3> QED
      BY <3>2 DEF OutRec
  <2>2. box' = [box EXCEPT !.editing = TRUE, !.input = "text", !.texts = 0, !.images = n, !.by = "other"]
    BY <1>6 DEF editMessage
  <2> HIDE DEF n
  <2>3. box' \in BoxRec /\ box'.by = "other" /\ box'.sent = box.sent /\ box'.queue = box.queue
    BY <1>0, <2>1, <2>2, BoxSets DEF BoxRec
  <2> QED
    BY <1>a, <2>3
<1>7. CASE CancelEditing \/ DeleteSkill \/ SaveCreated \/ LeaveCreator \/ DetachSkill
           \/ \E m \in {"sees", "blind"} : ChooseModel(m)
  <2>1. CASE CancelEditing
    <3>1. box' = [box EXCEPT !.editing = FALSE, !.input = "", !.by = "other"]
      BY <2>1 DEF CancelEditing
    <3> QED
      BY <1>0, <1>a, <3>1, BoxSets DEF BoxRec
  <2>2. CASE DeleteSkill
    <3>1. box' = [box EXCEPT !.custom = FALSE, !.by = "other"]
      BY <2>2 DEF DeleteSkill
    <3> QED
      BY <1>0, <1>a, <3>1, BoxSets DEF BoxRec
  <2>3. CASE SaveCreated
    <3>1. box' = [box EXCEPT !.custom = TRUE, !.by = "other"]
      BY <2>3 DEF SaveCreated
    <3> QED
      BY <1>0, <1>a, <3>1, BoxSets DEF BoxRec
  <2>4. CASE LeaveCreator
    <3>1. box' = [box EXCEPT !.creator = FALSE, !.by = "other"]
      BY <2>4 DEF LeaveCreator
    <3> QED
      BY <1>0, <1>a, <3>1, BoxSets DEF BoxRec
  <2>5. CASE DetachSkill
    <3>1. box' = [box EXCEPT !.invoked = "none", !.by = "other"]
      BY <2>5 DEF DetachSkill
    <3> QED
      BY <1>0, <1>a, <3>1, BoxSets DEF BoxRec
  <2>6. ASSUME NEW m \in {"sees", "blind"}, ChooseModel(m) PROVE BoxInv' /\ KeepsDraft
    <3>1. box' = [box EXCEPT !.model = m, !.by = "other"]
      BY <2>6 DEF ChooseModel
    <3> QED
      BY <1>0, <1>a, <3>1 DEF BoxRec
  <2> QED
    BY <1>7, <2>1, <2>2, <2>3, <2>4, <2>5, <2>6
<1>8. CASE Down \/ Up
  <2> DEFINE l == Len(Menu(box, box.input))
             s == IF box.sel + 1 <= l THEN box.sel + 1 ELSE l
             u == IF box.sel > 0 THEN box.sel - 1 ELSE 0
  <2>1. l \in 0 .. 3
    BY MenuIs
  <2>2. s \in 0 .. 3 /\ u \in 0 .. 3
    <3>1. box.sel \in 0 .. 3
      BY <1>0 DEF BoxRec
    <3> HIDE DEF l
    <3> QED
      BY <2>1, <3>1
  <2>3. \/ box' = [box EXCEPT !.by = "key", !.sel = s]
        \/ box' = [box EXCEPT !.by = "key", !.sel = u]
    BY <1>8 DEF Down, Up
  <2> HIDE DEF s, u, l
  <2>4. box' \in BoxRec /\ box'.sent = box.sent /\ box'.queue = box.queue
    BY <1>0, <2>2, <2>3 DEF BoxRec
  <2>5. Menu(box, box.input) # <<>>
    BY <1>8 DEF Down, Up
  <2> QED
    BY <1>0, <2>4, <2>5 DEF BoxInv, KeepsDraft, GoneSoFar
<1>9. CASE Enter
  <2> DEFINE hits == Menu(box, box.input)
             row == effectiveSel(box)
  <2>1. CanStart
    BY <1>9 DEF Enter
  <2>2. CASE hits = <<>>
    <3>1. box' = [send(box) EXCEPT !.by = "key"]
      BY <1>9, <2>2 DEF Enter
    <3>2. /\ send(box) \in BoxRec
          /\ \/ send(box) = box
             \/ GoneSoFar(send(box)) = GoneSoFar(box) + 1
          /\ box.input # "" => GoneSoFar(send(box)) = GoneSoFar(box) + 1
      BY <1>0, SendIs
    <3>3. box' \in BoxRec /\ box'.sent = send(box).sent /\ box'.queue = send(box).queue
      BY <3>1, <3>2, ByIs
    <3>4. GoneSoFar(box') = GoneSoFar(send(box)) /\ GoneSoFar(box) < MaxSends
      BY <2>1, <3>3 DEF CanStart, GoneSoFar
    <3>5. /\ GoneSoFar(box') <= MaxSends
          /\ box.input # "" => GoneSoFar(box') > GoneSoFar(box)
      <4> DEFINE x == GoneSoFar(box)
                 y == GoneSoFar(box')
      <4>1. /\ y = x \/ y = x + 1
            /\ x \in Nat /\ x < MaxSends /\ MaxSends \in Nat
        BY <1>0, <3>2, <3>4
      <4>4. box.input # "" => y = x + 1
        BY <3>2, <3>4
      <4> HIDE DEF x, y
      <4>2. y <= MaxSends
        BY <4>1
      <4>3. y = x + 1 => y > x
        BY <4>1
      <4> QED
        BY <4>2, <4>3, <4>4 DEF x, y
    <3> QED
      BY <1>c, <3>3, <3>5
  <2>3. CASE hits # <<>>
    <3>1. box' = [Opens(box) EXCEPT !.by = "key"] \/ box' = [selectSkill(box, hits[row]) EXCEPT !.by = "key"]
      BY <1>9, <2>3 DEF Enter
    <3>2. PICK b \in BoxRec : box' = [b EXCEPT !.by = "key"] /\ b.sent = box.sent /\ b.queue = box.queue
      <4> HIDE DEF hits, row
      <4> QED
        BY <1>0, <3>1, DraftIs
    <3>3. box' \in BoxRec /\ box'.sent = box.sent /\ box'.queue = box.queue
      BY <3>2, ByIs
    <3> QED
      BY <1>0, <2>3, <3>3 DEF BoxInv, KeepsDraft, GoneSoFar
  <2> QED
    BY <2>2, <2>3
<1>10. CASE Escape
  <2>1. box' = [box EXCEPT !.by = "key"]
    BY <1>10 DEF Escape
  <2>2. box' \in BoxRec /\ box'.sent = box.sent /\ box'.queue = box.queue /\ box'.input = box.input
    BY <1>0, <2>1, ByIs
  <2> QED
    BY <1>0, <2>2 DEF BoxInv, KeepsDraft, GoneSoFar
<1>11. CASE ClickSkill
  <2>1. PICK i \in DOMAIN Menu(box, box.input) :
          box' = [selectSkill(box, Menu(box, box.input)[i]) EXCEPT !.by = "other"]
    BY <1>11 DEF ClickSkill
  <2> QED
    BY <1>0, <1>b, <2>1, DraftIs
<1>12. CASE OpenCreator
  <2> DEFINE b == [box EXCEPT !.creator = TRUE]
  <2>1. box' = [Opens(box) EXCEPT !.by = "other"] \/ box' = [b EXCEPT !.by = "other"]
    BY <1>12 DEF OpenCreator
  <2>2. b \in BoxRec /\ b.sent = box.sent /\ b.queue = box.queue
    BY <1>0 DEF BoxRec
  <2> HIDE DEF b
  <2> QED
    BY <1>0, <1>b, <2>1, <2>2, DraftIs
<1>13. CASE insertSnippet
  <2>1. box' = [Draft(box, "text") EXCEPT !.by = "other"]
    BY <1>13 DEF insertSnippet
  <2> QED
    BY <1>0, <1>b, <2>1, DraftIs, BoxSets
<1>14. ASSUME NEW n \in 0 .. (MaxImages + 1), handleFiles(n) PROVE BoxInv' /\ KeepsDraft
  <2> DEFINE room == IF MaxImages > box.images THEN MaxImages - box.images ELSE 0
             taken == IF box.model = "blind" THEN 0 ELSE IF n < room THEN n ELSE room
             k == box.picked + 1
             x == IF n = 0 THEN box.reading.text + 1 ELSE box.reading.text
             y == IF n = 0 THEN box.reading.image ELSE box.reading.image + taken
             r == [box.reading EXCEPT !.text = x, !.image = y]
  <2>2. /\ box.images \in Nat /\ box.picked \in 0 .. MaxPicked /\ box.reading \in BoxReadRec
        /\ MaxImages \in Nat /\ MaxPicked \in Nat /\ box.picked < MaxPicked
        /\ box.reading.text \in Nat /\ box.reading.image \in Nat
    BY <1>0, <1>14, ComposerAssumption DEF BoxRec, handleFiles, BoxReadRec
  <2>3. taken \in Nat /\ k \in 0 .. MaxPicked
    BY <2>2
  <2>1. box' = [box EXCEPT !.picked = k, !.by = "other", !.reading = r]
    <3>1. box' = [box EXCEPT !.picked = k, !.by = "other", !.reading.text = x, !.reading.image = y]
      BY <1>0, <1>14, <2>2, Zenon DEF handleFiles
    <3> HIDE DEF x, y, k
    <3> QED
      BY <1>0, <2>2, <3>1 DEF BoxRec, BoxReadRec
  <2>4. r \in BoxReadRec
    <3> HIDE DEF taken
    <3>1. x \in Nat /\ y \in Nat
      BY <2>2, <2>3
    <3> HIDE DEF x, y
    <3> QED
      BY <2>2, <3>1 DEF BoxReadRec
  <2> HIDE DEF k, r
  <2>5. box' \in BoxRec /\ box'.by = "other" /\ box'.sent = box.sent /\ box'.queue = box.queue
    BY <1>0, <2>1, <2>3, <2>4 DEF BoxRec
  <2> QED
    BY <1>a, <2>5
<1>15. CASE FileRead
  <2>0. box.reading \in BoxReadRec /\ box.images \in Nat /\ box.texts \in Nat
    BY <1>0 DEF BoxRec
  <2>1. PICK r \in BoxReadRec, i \in Nat, t \in Nat :
          box' = [box EXCEPT !.reading = r, !.images = i, !.texts = t, !.by = "other"]
    <3>1. CASE /\ box.reading.image > 0
               /\ \E k \in {0, 1} :
                    box' = [box EXCEPT !.reading.image = @ - 1, !.images = @ + k, !.by = "other"]
      <4>1. PICK k \in {0, 1} :
                    box' = [box EXCEPT !.reading.image = @ - 1, !.images = @ + k, !.by = "other"]
        BY <3>1
      <4> DEFINE v == box.reading.image - 1
                 i == box.images + k
                 r == [box.reading EXCEPT !.image = v]
      <4>2. v \in Nat /\ i \in Nat
        BY <2>0, <3>1 DEF BoxReadRec
      <4>3. box' = [box EXCEPT !.reading = r, !.images = i, !.by = "other"]
        BY <1>0, <2>0, <4>1 DEF BoxRec, BoxReadRec
      <4> HIDE DEF v, i
      <4>4. r \in BoxReadRec
        BY <2>0, <4>2 DEF BoxReadRec
      <4> HIDE DEF r
      <4>5. box' = [box EXCEPT !.reading = r, !.images = i, !.texts = box.texts, !.by = "other"]
        BY <1>0, <4>3 DEF BoxRec
      <4> QED
        BY <2>0, <4>2, <4>4, <4>5
    <3>2. CASE /\ box.reading.text > 0
               /\ \E k \in {0, 1} :
                    box' = [box EXCEPT !.reading.text = @ - 1, !.texts = @ + k, !.by = "other"]
      <4>1. PICK k \in {0, 1} :
                    box' = [box EXCEPT !.reading.text = @ - 1, !.texts = @ + k, !.by = "other"]
        BY <3>2
      <4> DEFINE v == box.reading.text - 1
                 i == box.texts + k
                 r == [box.reading EXCEPT !.text = v]
      <4>2. v \in Nat /\ i \in Nat
        BY <2>0, <3>2 DEF BoxReadRec
      <4>3. box' = [box EXCEPT !.reading = r, !.texts = i, !.by = "other"]
        BY <1>0, <2>0, <4>1 DEF BoxRec, BoxReadRec
      <4> HIDE DEF v, i
      <4>4. r \in BoxReadRec
        BY <2>0, <4>2 DEF BoxReadRec
      <4> HIDE DEF r
      <4>5. box' = [box EXCEPT !.reading = r, !.images = box.images, !.texts = i, !.by = "other"]
        BY <1>0, <4>3 DEF BoxRec
      <4> QED
        BY <2>0, <4>2, <4>4, <4>5
    <3> QED
      BY <1>15, <3>1, <3>2 DEF FileRead
  <2>2. box' \in BoxRec /\ box'.by = "other" /\ box'.sent = box.sent /\ box'.queue = box.queue
    BY <1>0, <2>1 DEF BoxRec
  <2> QED
    BY <1>a, <2>2
<1>16. CASE RemoveFile
  <2> DEFINE i == box.images - 1
             t == box.texts - 1
  <2>1. \/ i \in Nat /\ box' = [box EXCEPT !.images = i, !.by = "other"]
        \/ t \in Nat /\ box' = [box EXCEPT !.texts = t, !.by = "other"]
    BY <1>0, <1>16 DEF RemoveFile, BoxRec
  <2> HIDE DEF i, t
  <2>2. box' \in BoxRec /\ box'.by = "other" /\ box'.sent = box.sent /\ box'.queue = box.queue
    BY <1>0, <2>1 DEF BoxRec
  <2> QED
    BY <1>a, <2>2
<1>17. CASE UNCHANGED box
  BY <1>0, <1>17 DEF BoxInv, KeepsDraft, GoneSoFar
<1> QED
  BY <1>1, <1>2, <1>3, <1>4, <1>5, <1>6, <1>7, <1>8, <1>9, <1>10, <1>11, <1>12, <1>13, <1>14,
     <1>15, <1>16, <1>17
  DEF ComposerNext

\* The invariant gives the type.
LEMMA BoxIs == BoxInv => ComposerTypeOK
  BY DEF BoxInv, BoxRec, GoneSoFar, ComposerTypeOK

-----------------------------------------------------------------------------
(* Preferences, skills and snippets                                        *)

\* The settings of a page, the lists, and the browser's store.
PageLevels == {"auto", "on"}
TabRec == [system : Prompts, level : PageLevels]
WinRec ==
  [open : {TRUE}, system : Prompts, prov : Provenances, level : PageLevels, tabs : Seq(TabRec),
   active : Nat, lists : Lists, panel : BOOLEAN, pressed : {"no", "gear", "panel", "page"},
   had : BOOLEAN, creator : BOOLEAN, editing : 0 .. MaxSkills]
WinSet == {p \in WinRec : p.active \in 1 .. Len(p.tabs)}
StoreRec ==
  [works : BOOLEAN, system : Prompts, prov : {"persona", "manual"}, level : Levels,
   lists : Lists, own : Prompts, crowded : BOOLEAN, made : Nat]

\* What a reload would find of one page.
Reloads(st, p) ==
  /\ st.lists = p.lists
  /\ loadSettings(st).level = p.level
  /\ st.system = st.own
  /\ p.prov # "skill" => st.system = p.system

\* The inductive invariant: a page alone in its browser is one a reload brings
\* back.
PrefInv ==
  /\ store \in StoreRec /\ win \in [Windows -> {Gone} \cup WinSet]
  /\ ~store.crowded => \A v, w \in Windows : win[v].open /\ win[w].open => v = w
  /\ \A w \in Windows : (win[w].open /\ store.works /\ ~store.crowded) => Reloads(store, win[w])

\* A page and its lists, field by field.
LEMMA PrefSets ==
  /\ NoLists \in Lists /\ Gone.open = FALSE
  /\ \A p \in WinSet : /\ p \in WinRec /\ p.open = TRUE /\ p.lists \in Lists /\ p.level \in PageLevels
                       /\ p.system \in Prompts /\ p.prov \in Provenances
                       /\ p.tabs \in Seq(TabRec) /\ p.active \in 1 .. Len(p.tabs)
<1>1. NoLists \in Lists
  <2> DEFINE s == [x \in 1 .. MaxSkills |-> 0]
  <2>1. 0 \in 0 .. 2
    OBVIOUS
  <2>2. s \in [1 .. MaxSkills -> 0 .. 2]
    BY <2>1
  <2> HIDE DEF s
  <2>3. NoLists = [pins |-> {}, snips |-> {}, names |-> {}, skills |-> s]
    BY DEF NoLists, s
  <2> QED
    BY <2>2, <2>3 DEF Lists
<1> QED
  BY <1>1 DEF Gone, WinSet, WinRec

\* No window is open before the first one loads.
LEMMA PrefInitInv == PrefInit => PrefInv
<1> SUFFICES ASSUME PrefInit PROVE PrefInv
  OBVIOUS
<1>1. store \in StoreRec
  <2>1. store \in [works : BOOLEAN, system : {"", "persona"}, prov : {"manual"},
                   level : {"auto", "bad"}, lists : {NoLists}, own : {""}, crowded : {FALSE},
                   made : {0}]
    BY DEF PrefInit
  <2>2. /\ "" \in Prompts /\ "persona" \in Prompts /\ "auto" \in Levels /\ "bad" \in Levels /\ 0 \in Nat
    BY DEF Prompts, Levels
  <2> QED
    BY <2>1, <2>2, PrefSets DEF StoreRec
<1>2. win \in [Windows -> {Gone} \cup WinSet] /\ \A w \in Windows : ~win[w].open
  BY PrefSets DEF PrefInit
<1> QED
  BY <1>1, <1>2 DEF PrefInv

\* What the stored settings load to.
LEMMA LoadIs ==
  ASSUME NEW st \in StoreRec
  PROVE  /\ loadSettings(st).system = st.system /\ loadSettings(st).system \in Prompts
         /\ loadSettings(st).level \in PageLevels
         /\ st.level # "bad" => loadSettings(st).level = st.level
         /\ loadSettings(st).prov \in {"persona", "manual"}
  BY DEF loadSettings, StoreRec, Levels, PageLevels

\* What saving a page's settings leaves in the store.
LEMMA SaveIs ==
  ASSUME NEW st \in StoreRec, NEW s, s.system \in Prompts, s.level \in PageLevels, s.prov \in Provenances
  PROVE  /\ saveSettings(st, s) \in StoreRec
         /\ saveSettings(st, s).works = st.works /\ saveSettings(st, s).lists = st.lists
         /\ saveSettings(st, s).own = st.own /\ saveSettings(st, s).made = st.made
         /\ saveSettings(st, s).crowded = st.crowded
         /\ st.works => saveSettings(st, s).level = s.level
         /\ (st.works /\ s.prov # "skill") => saveSettings(st, s).system = s.system
         /\ s.prov = "skill" => saveSettings(st, s).system = st.system
<1> DEFINE q == loadSettings(st).system
           r == loadSettings(st).prov
<1>0. q \in Prompts /\ r \in {"persona", "manual"} /\ q = st.system
  BY LoadIs
<1>1. s.level \in Levels
  BY DEF PageLevels, Levels
<1>2. \/ ~st.works /\ saveSettings(st, s) = st
      \/ /\ st.works /\ s.prov = "skill"
         /\ saveSettings(st, s) = [st EXCEPT !.level = s.level, !.system = q, !.prov = r]
      \/ /\ st.works /\ s.prov # "skill"
         /\ saveSettings(st, s) = [st EXCEPT !.level = s.level, !.system = s.system, !.prov = s.prov]
  BY DEF saveSettings
<1>3. s.prov # "skill" => s.prov \in {"persona", "manual"}
  BY DEF Provenances
<1> HIDE DEF q, r
<1> QED
  BY <1>0, <1>1, <1>2, <1>3 DEF StoreRec

\* A change of what is on a page and is not kept.
LEMMA PageOnly ==
  ASSUME PrefInv, NEW w \in Windows, win[w].open, NEW p \in WinSet,
         p.system = win[w].system, p.level = win[w].level, p.prov = win[w].prov,
         p.lists = win[w].lists, win' = [win EXCEPT ![w] = p], UNCHANGED store
  PROVE  PrefInv'
<1>0. /\ store \in StoreRec /\ win \in [Windows -> {Gone} \cup WinSet]
      /\ ~store.crowded => \A v, x \in Windows : win[v].open /\ win[x].open => v = x
      /\ \A x \in Windows : (win[x].open /\ store.works /\ ~store.crowded) => Reloads(store, win[x])
  BY DEF PrefInv
<1>1. win' \in [Windows -> {Gone} \cup WinSet]
  BY <1>0
<1>2. \A x \in Windows : (win'[x].open <=> win[x].open) /\ (x # w => win'[x] = win[x]) /\ win'[w] = p
  BY <1>0, PrefSets
<1>3. Reloads(store, win[w]) => Reloads(store, p)
  BY DEF Reloads
<1> QED
  BY <1>0, <1>1, <1>2, <1>3 DEF PrefInv

\* A change of the settings is saved.
LEMMA SetsIs ==
  ASSUME PrefInv, NEW w \in Windows, win[w].open, NEW s \in WinSet, s.lists = win[w].lists, Sets(w, s)
  PROVE  PrefInv'
<1>0. /\ store \in StoreRec /\ win \in [Windows -> {Gone} \cup WinSet]
      /\ ~store.crowded => \A v, x \in Windows : win[v].open /\ win[x].open => v = x
      /\ \A x \in Windows : (win[x].open /\ store.works /\ ~store.crowded) => Reloads(store, win[x])
  BY DEF PrefInv
<1> DEFINE o == IF s.prov = "skill" THEN store.own ELSE s.system
           n == store.made + 1
           v == saveSettings(store, s)
<1>1. win' = [win EXCEPT ![w] = s] /\ s.prov \in Provenances /\ s.system \in Prompts /\ s.level \in PageLevels
  BY PrefSets DEF Sets
<1>2. o \in Prompts /\ n \in Nat /\ store.crowded \in BOOLEAN
  BY <1>0, <1>1 DEF StoreRec
<1>3. /\ v \in StoreRec /\ v.own = store.own /\ v.made = store.made /\ v.crowded = store.crowded
      /\ v.works = store.works /\ v.lists = store.lists
      /\ store.works => v.level = s.level
      /\ (store.works /\ s.prov # "skill") => v.system = s.system
      /\ s.prov = "skill" => v.system = store.system
  BY <1>0, <1>1, SaveIs
<1>4. store' = [v EXCEPT !.made = n, !.own = o]
  <2>1. store' = [v EXCEPT !.made = v.made + 1, !.own = IF s.prov = "skill" THEN v.own ELSE s.system]
    BY DEF Sets
  <2> HIDE DEF v
  <2> QED
    BY <1>3, <2>1
<1> HIDE DEF o, n, v
<1>5. /\ store' \in StoreRec /\ store'.own = o /\ store'.crowded = store.crowded
      /\ store'.works = store.works /\ store'.lists = store.lists /\ store'.level = v.level
      /\ (store.works /\ s.prov # "skill") => store'.system = s.system
      /\ s.prov = "skill" => store'.system = store.system
  BY <1>2, <1>3, <1>4 DEF StoreRec
<1>10. store.works => loadSettings(store').level = s.level
  BY <1>1, <1>3, <1>5, LoadIs DEF PageLevels
<1>6. \A x \in Windows : (win'[x].open <=> win[x].open) /\ (x # w => win'[x] = win[x]) /\ win'[w] = s
  BY <1>0, <1>1, PrefSets
<1>7. (store.works /\ Reloads(store, win[w])) => Reloads(store', s)
  BY <1>5, <1>10 DEF Reloads, o
<1>8. win' \in [Windows -> {Gone} \cup WinSet]
  BY <1>0, <1>1
<1>9. ~store.crowded => \A x \in Windows : win[x].open => x = w
  BY <1>0
<1> QED
  BY <1>0, <1>5, <1>6, <1>7, <1>8, <1>9 DEF PrefInv

\* A list is written whole.
LEMMA WritesIs ==
  ASSUME PrefInv, NEW w \in Windows, win[w].open, NEW l \in Lists, Writes(w, l)
  PROVE  PrefInv'
<1>0. /\ store \in StoreRec /\ win \in [Windows -> {Gone} \cup WinSet]
      /\ ~store.crowded => \A v, x \in Windows : win[v].open /\ win[x].open => v = x
      /\ \A x \in Windows : (win[x].open /\ store.works /\ ~store.crowded) => Reloads(store, win[x])
  BY DEF PrefInv
<1>1. win[w] \in WinSet
  BY <1>0, PrefSets
<1> DEFINE p == [win[w] EXCEPT !.lists = l]
           n == store.made + 1
<1>2. win' = [win EXCEPT ![w] = p]
  BY <1>0, <1>1 DEF Writes
<1>3. p \in WinSet /\ p.open = TRUE /\ p.lists = l /\ p.system = win[w].system /\ p.level = win[w].level
      /\ p.prov = win[w].prov
  BY <1>1 DEF WinSet, WinRec
<1>4. n \in Nat
  BY <1>0 DEF StoreRec
<1>5. store' = IF store.works THEN [store EXCEPT !.lists = l, !.made = n] ELSE [store EXCEPT !.made = n]
  BY <1>0 DEF Writes, saveLists, StoreRec
<1> HIDE DEF p, n
<1>6. /\ store' \in StoreRec /\ store'.crowded = store.crowded /\ store'.works = store.works
      /\ store'.system = store.system /\ store'.own = store.own /\ store'.level = store.level
      /\ store.works => store'.lists = l
  BY <1>0, <1>4, <1>5 DEF StoreRec
<1>7. loadSettings(store').level = loadSettings(store).level
  BY <1>6 DEF loadSettings
<1>8. \A x \in Windows : (win'[x].open <=> win[x].open) /\ (x # w => win'[x] = win[x]) /\ win'[w] = p
  BY <1>0, <1>2, <1>3
<1>9. (store.works /\ Reloads(store, win[w])) => Reloads(store', p)
  BY <1>3, <1>6, <1>7 DEF Reloads
<1>10. win' \in [Windows -> {Gone} \cup WinSet]
  BY <1>0, <1>2, <1>3
<1>11. ~store.crowded => \A x \in Windows : win[x].open => x = w
  BY <1>0
<1> QED
  BY <1>0, <1>6, <1>8, <1>9, <1>10, <1>11 DEF PrefInv

\* The tabs after a freeze, and after one is closed.
LEMMA FrozenIs ==
  ASSUME NEW p \in WinSet
  PROVE  Frozen(p) \in Seq(TabRec) /\ Len(Frozen(p)) = Len(p.tabs) /\ Len(p.tabs) \in Nat
<1> DEFINE t == [system |-> p.system, level |-> p.level]
<1>1. t \in TabRec /\ p.tabs \in Seq(TabRec) /\ p.active \in 1 .. Len(p.tabs)
  BY PrefSets DEF TabRec
<1>2. Frozen(p) = [p.tabs EXCEPT ![p.active] = t]
  BY DEF Frozen
<1> HIDE DEF t
<1>3. Frozen(p) \in Seq(TabRec) /\ Len(Frozen(p)) = Len(p.tabs)
  BY <1>1, <1>2, ExceptSeq
<1> QED
  BY <1>1, <1>3, LenProperties

\* The tabs without one of them.
LEMMA RestIs ==
  ASSUME NEW t \in Seq(TabRec), NEW i \in 1 .. Len(t)
  PROVE  LET rest == SubSeq(t, 1, i - 1) \o SubSeq(t, i + 1, Len(t))
         IN  rest \in Seq(TabRec) /\ Len(rest) = Len(t) - 1
<1>1. Len(t) \in Nat /\ i \in Int /\ i \in Nat /\ i <= Len(t) /\ i >= 1
  BY LenProperties
<1>2. i - 1 \in Int /\ i + 1 \in Int /\ Len(t) \in Int /\ 1 \in Int
  BY <1>1
<1>3. /\ \A j \in 1 .. (i - 1) : j \in 1 .. Len(t)
      /\ \A j \in (i + 1) .. Len(t) : j \in 1 .. Len(t)
  BY <1>1
<1>4. /\ \A j \in 1 .. (i - 1) : t[j] \in TabRec
      /\ \A j \in (i + 1) .. Len(t) : t[j] \in TabRec
  BY <1>3, ElementOfSeq
<1> DEFINE a == SubSeq(t, 1, i - 1)
           b == SubSeq(t, i + 1, Len(t))
<1>5. a \in Seq(TabRec) /\ Len(a) = IF 1 <= i - 1 THEN (i - 1) - 1 + 1 ELSE 0
  BY <1>2, <1>4, SubSeqProperties
<1>6. b \in Seq(TabRec) /\ Len(b) = IF i + 1 <= Len(t) THEN Len(t) - (i + 1) + 1 ELSE 0
  BY <1>2, <1>4, SubSeqProperties
<1> HIDE DEF a, b
<1>7. a \o b \in Seq(TabRec) /\ Len(a \o b) = Len(a) + Len(b)
  BY <1>5, <1>6, ConcatProperties
<1>8. Len(a) = i - 1 /\ Len(b) = Len(t) - i
  BY <1>1, <1>5, <1>6
<1>9. Len(a \o b) = Len(t) - 1
  BY <1>1, <1>7, <1>8
<1> QED
  BY <1>7, <1>9 DEF a, b

\* A page that shows another of its tabs.
LEMMA ShowsIs ==
  ASSUME NEW p \in WinSet, NEW y \in Prompts, NEW l \in PageLevels, NEW u \in Seq(TabRec),
         NEW i \in 1 .. Len(u)
  PROVE  /\ [p EXCEPT !.system = y, !.level = l, !.active = i, !.tabs = u] \in WinSet
         /\ [p EXCEPT !.system = y, !.level = l, !.active = i, !.tabs = u].lists = p.lists
<1> DEFINE s == [p EXCEPT !.system = y, !.level = l, !.active = i, !.tabs = u]
<1>1. s \in WinRec /\ s.active = i /\ s.tabs = u /\ s.lists = p.lists
  <2>1. i \in Nat /\ p \in WinRec
    BY PrefSets
  <2> QED
    BY <2>1 DEF WinRec
<1> HIDE DEF s
<1>2. s \in WinSet
  BY <1>1 DEF WinSet
<1> QED
  BY <1>1, <1>2 DEF s

\* Every step of a window keeps the invariant, one case per action.
LEMMA PrefStep == ASSUME PrefInv, [PrefNext]_prefVars PROVE PrefInv'
<1>0. /\ store \in StoreRec /\ win \in [Windows -> {Gone} \cup WinSet]
      /\ ~store.crowded => \A v, w \in Windows : win[v].open /\ win[w].open => v = w
      /\ \A w \in Windows : (win[w].open /\ store.works /\ ~store.crowded) => Reloads(store, win[w])
  BY DEF PrefInv
<1>w. \A w \in Windows : win[w].open => win[w] \in WinSet /\ win[w] \in WinRec /\ win[w].lists \in Lists
  BY <1>0, PrefSets
<1>1. ASSUME NEW w \in Windows, Mount(w) PROVE PrefInv'
  <2> DEFINE s == loadSettings(store)
             t == [system |-> s.system, level |-> s.level]
             p == [open |-> TRUE, system |-> s.system, prov |-> s.prov, level |-> s.level,
                   tabs |-> <<t>>, active |-> 1,
                   lists |-> loadLists(store), panel |-> FALSE, pressed |-> "no", had |-> FALSE,
                   creator |-> FALSE, editing |-> 0]
             c == store.crowded \/ \E v \in Windows : win[v].open
             v == saveSettings(store, s)
  <2>1. /\ s.system \in Prompts /\ s.level \in PageLevels /\ s.prov \in {"persona", "manual"}
        /\ s.system = store.system /\ s.prov # "skill" /\ s.prov \in Provenances
    BY <1>0, LoadIs DEF Provenances
  <2>2. /\ win' = [win EXCEPT ![w] = p] /\ ~win[w].open
        /\ store' = [v EXCEPT !.own = s.system, !.crowded = v.crowded \/ \E x \in Windows : win[x].open]
    BY <1>1 DEF Mount
  <2> HIDE DEF s
  <2>3. t \in TabRec /\ store.lists \in Lists /\ 0 \in 0 .. MaxSkills /\ store.made \in Nat
    BY <1>0, <2>1 DEF TabRec, StoreRec, MaxSkills
  <2> HIDE DEF t
  <2>4. <<t>> \in Seq(TabRec) /\ Len(<<t>>) = 1 /\ 1 \in 1 .. 1 /\ 1 \in Nat
    BY <2>3
  <2>5. p \in WinRec /\ p.active = 1 /\ p.tabs = <<t>>
    BY <2>1, <2>3, <2>4 DEF WinRec, loadLists
  <2>6. p \in WinSet /\ p.open = TRUE /\ p.lists = store.lists /\ p.level = s.level
        /\ p.system = s.system /\ p.prov = s.prov
    BY <2>4, <2>5 DEF WinSet, loadLists
  <2> HIDE DEF p
  <2>7. /\ v.crowded = store.crowded /\ v \in StoreRec /\ v.works = store.works /\ v.lists = store.lists
        /\ store.works => v.level = s.level
        /\ store.works => v.system = s.system
    BY <1>0, <2>1, SaveIs
  <2>8. store' = [v EXCEPT !.own = s.system, !.crowded = c] /\ c \in BOOLEAN
    <3>2. c \in BOOLEAN
      BY <1>0 DEF StoreRec
    <3> HIDE DEF v
    <3> QED
      BY <2>2, <2>7, <3>2
  <2> HIDE DEF c, v
  <2>9. /\ store' \in StoreRec /\ store'.own = s.system /\ store'.crowded = c /\ store'.works = store.works
        /\ store'.lists = store.lists /\ store'.level = v.level
        /\ store.works => store'.system = s.system
    BY <2>1, <2>7, <2>8 DEF StoreRec
  <2>13. store.works => loadSettings(store').level = s.level
    BY <2>1, <2>7, <2>9, LoadIs DEF PageLevels
  <2>10. /\ win' \in [Windows -> {Gone} \cup WinSet] /\ win'[w] = p
         /\ \A x \in Windows : x # w => win'[x] = win[x]
    BY <1>0, <2>2, <2>6
  <2>11. ~c => \A x \in Windows : ~win[x].open
    BY DEF c
  <2>12. store.works => Reloads(store', p)
    BY <2>6, <2>9, <2>13 DEF Reloads
  <2> QED
    BY <2>9, <2>10, <2>11, <2>12 DEF PrefInv
<1>2. ASSUME NEW w \in Windows, Unload(w) PROVE PrefInv'
  <2>1. win' = [win EXCEPT ![w] = Gone] /\ UNCHANGED store
    BY <1>2 DEF Unload
  <2>2. /\ win' \in [Windows -> {Gone} \cup WinSet]
        /\ \A x \in Windows : win'[x].open => win'[x] = win[x]
    BY <1>0, <2>1, PrefSets
  <2> QED
    BY <1>0, <2>1, <2>2 DEF PrefInv
<1>3. ASSUME NEW w \in Windows, NEW p \in {"", "persona"}, ChoosePersona(w, p) PROVE PrefInv'
  <2> DEFINE v == IF p = "persona" THEN "persona" ELSE "manual"
             s == [win[w] EXCEPT !.system = p, !.prov = v]
  <2>1. win[w].open /\ Sets(w, s)
    BY <1>3 DEF ChoosePersona
  <2>2. v \in Provenances /\ p \in Prompts
    BY DEF Provenances, Prompts
  <2> HIDE DEF v
  <2>3. s \in WinSet /\ s.lists = win[w].lists
    BY <1>w, <2>1, <2>2, ZenonT(60) DEF WinSet, WinRec
  <2> HIDE DEF s
  <2> QED
    BY <2>1, <2>3, SetsIs
<1>4. ASSUME NEW w \in Windows, NEW p \in {"", "typed"}, TypePrompt(w, p) PROVE PrefInv'
  <2> DEFINE s == [win[w] EXCEPT !.system = p, !.prov = "manual"]
  <2>1. win[w].open /\ Sets(w, s)
    BY <1>4 DEF TypePrompt
  <2>2. "manual" \in Provenances /\ p \in Prompts
    BY DEF Provenances, Prompts
  <2>3. s \in WinSet /\ s.lists = win[w].lists
    BY <1>w, <2>1, <2>2, ZenonT(60) DEF WinSet, WinRec
  <2> HIDE DEF s
  <2> QED
    BY <2>1, <2>3, SetsIs
<1>5. ASSUME NEW w \in Windows, SetLevel(w) PROVE PrefInv'
  <2> DEFINE l == IF win[w].level = "on" THEN "auto" ELSE "on"
             s == [win[w] EXCEPT !.level = l]
  <2>1. win[w].open /\ Sets(w, s)
    BY <1>5 DEF SetLevel
  <2>2. l \in PageLevels
    BY DEF PageLevels
  <2> HIDE DEF l
  <2>3. s \in WinSet /\ s.lists = win[w].lists
    BY <1>w, <2>1, <2>2, ZenonT(60) DEF WinSet, WinRec
  <2> HIDE DEF s
  <2> QED
    BY <2>1, <2>3, SetsIs
<1>6. ASSUME NEW w \in Windows, SelectSkillPrompt(w) PROVE PrefInv'
  <2> DEFINE s == [win[w] EXCEPT !.system = "skill", !.prov = "skill"]
  <2>1. win[w].open /\ Sets(w, s)
    BY <1>6 DEF SelectSkillPrompt
  <2>2. "skill" \in Provenances /\ "skill" \in Prompts
    BY DEF Provenances, Prompts
  <2>3. s \in WinSet /\ s.lists = win[w].lists
    BY <1>w, <2>1, <2>2, ZenonT(60) DEF WinSet, WinRec
  <2> HIDE DEF s
  <2> QED
    BY <2>1, <2>3, SetsIs
<1>7. ASSUME NEW w \in Windows, NEW where \in {"gear", "panel", "page"}, Press(w, where) PROVE PrefInv'
  <2> DEFINE l == win[w].panel /\ where = "panel"
             p == [win[w] EXCEPT !.pressed = where, !.had = win[w].panel, !.panel = l]
  <2>1. win[w].open /\ win' = [win EXCEPT ![w] = p] /\ UNCHANGED store
    BY <1>0, <1>7, <1>w DEF Press, WinRec
  <2>2. l \in BOOLEAN /\ win[w].panel \in BOOLEAN
    BY <1>w, <2>1 DEF WinRec
  <2> HIDE DEF l
  <2>3. /\ p \in WinSet /\ p.system = win[w].system /\ p.level = win[w].level /\ p.prov = win[w].prov
        /\ p.lists = win[w].lists
    BY <1>w, <2>1, <2>2, ZenonT(60) DEF WinSet, WinRec
  <2> HIDE DEF p
  <2> QED
    BY <2>1, <2>3, PageOnly
<1>8. ASSUME NEW w \in Windows, Click(w) PROVE PrefInv'
  <2> DEFINE l == IF win[w].pressed = "gear" THEN ~win[w].panel ELSE win[w].panel
             p == [win[w] EXCEPT !.pressed = "no", !.had = FALSE, !.panel = l]
  <2>1. win[w].open /\ win' = [win EXCEPT ![w] = p] /\ UNCHANGED store
    BY <1>0, <1>8, <1>w DEF Click, WinRec
  <2>2. l \in BOOLEAN
    BY <1>w, <2>1 DEF WinRec
  <2> HIDE DEF l
  <2>3. /\ p \in WinSet /\ p.system = win[w].system /\ p.level = win[w].level /\ p.prov = win[w].prov
        /\ p.lists = win[w].lists
    BY <1>w, <2>1, <2>2, ZenonT(60) DEF WinSet, WinRec
  <2> HIDE DEF p
  <2> QED
    BY <2>1, <2>3, PageOnly
<1>9. ASSUME NEW w \in Windows, ClosePanel(w) PROVE PrefInv'
  <2> DEFINE p == [win[w] EXCEPT !.panel = FALSE]
  <2>1. win[w].open /\ win' = [win EXCEPT ![w] = p] /\ UNCHANGED store
    BY <1>0, <1>9 DEF ClosePanel
  <2>3. /\ p \in WinSet /\ p.system = win[w].system /\ p.level = win[w].level /\ p.prov = win[w].prov
        /\ p.lists = win[w].lists
    BY <1>w, <2>1 DEF WinSet, WinRec
  <2> HIDE DEF p
  <2> QED
    BY <2>1, <2>3, PageOnly
<1>10. ASSUME NEW w \in Windows, NewTab(w) PROVE PrefInv'
  <2> DEFINE x == [system |-> win[w].system, level |-> win[w].level]
             t == Append(Frozen(win[w]), x)
             n == Len(win[w].tabs) + 1
             p == [win[w] EXCEPT !.tabs = t, !.active = n]
  <2>1. win[w].open /\ win' = [win EXCEPT ![w] = p] /\ UNCHANGED store
    BY <1>0, <1>10, <1>w DEF NewTab, WinRec
  <2>2. x \in TabRec
    BY <1>w, <2>1, PrefSets DEF TabRec
  <2>3. Frozen(win[w]) \in Seq(TabRec) /\ Len(Frozen(win[w])) = Len(win[w].tabs) /\ Len(win[w].tabs) \in Nat
    BY <1>w, <2>1, FrozenIs
  <2> HIDE DEF x
  <2>4. t \in Seq(TabRec) /\ Len(t) = n /\ n \in Nat /\ n \in 1 .. n
    BY <2>2, <2>3
  <2> HIDE DEF t, n
  <2>5. /\ p \in WinSet /\ p.system = win[w].system /\ p.level = win[w].level /\ p.prov = win[w].prov
        /\ p.lists = win[w].lists
    BY <1>w, <2>1, <2>4 DEF WinSet, WinRec
  <2> HIDE DEF p
  <2> QED
    BY <2>1, <2>5, PageOnly
<1>11. ASSUME NEW w \in Windows, NEW i \in 1 .. MaxTabs, SwitchTab(w, i) PROVE PrefInv'
  <2> DEFINE u == Frozen(win[w])
             t == win[w].tabs
             y == t[i].system
             l == t[i].level
             s == [win[w] EXCEPT !.system = y, !.level = l, !.active = i, !.tabs = u]
  <2>1. win[w].open /\ i \in DOMAIN t /\ Sets(w, s)
    BY <1>11 DEF SwitchTab, Shows
  <2>2. win[w] \in WinSet /\ t \in Seq(TabRec) /\ u \in Seq(TabRec) /\ Len(u) = Len(t)
    BY <1>w, <2>1, FrozenIs, PrefSets
  <2>3. i \in 1 .. Len(t) /\ i \in 1 .. Len(u)
    BY <2>1, <2>2, LenProperties
  <2>5. t[i] \in TabRec
    BY <2>2, <2>3, ElementOfSeq
  <2>6. y \in Prompts /\ l \in PageLevels
    BY <2>5 DEF TabRec
  <2>7. i \in Nat
    BY <2>3
  <2> HIDE DEF u, t, y, l
  <2>8. win[w] \in WinRec
    BY <2>2 DEF WinSet
  <2>9. s \in WinRec /\ s.tabs = u /\ s.active = i /\ s.lists = win[w].lists
    BY <2>2, <2>6, <2>7, <2>8 DEF WinRec
  <2> HIDE DEF s
  <2>4. s \in WinSet /\ s.lists = win[w].lists
    BY <2>3, <2>9 DEF WinSet
  <2> HIDE DEF s
  <2> QED
    BY <2>1, <2>4, SetsIs
<1>12. ASSUME NEW w \in Windows, NEW i \in 1 .. MaxTabs, CloseTab(w, i) PROVE PrefInv'
  <2> DEFINE p == win[w]
             rest == SubSeq(p.tabs, 1, i - 1) \o SubSeq(p.tabs, i + 1, Len(p.tabs))
             next == IF i > Len(rest) THEN Len(rest) ELSE i
             a == IF i < p.active THEN p.active - 1 ELSE p.active
  <2>1. /\ p.open /\ Len(p.tabs) > 1
        /\ i = p.active => Sets(w, Shows([p EXCEPT !.tabs = rest], next))
        /\ i # p.active => Sets(w, [p EXCEPT !.tabs = rest, !.active = a])
    BY <1>12 DEF CloseTab
  <2>2. p \in WinSet /\ p.tabs \in Seq(TabRec) /\ p.active \in 1 .. Len(p.tabs) /\ Len(p.tabs) \in Nat
    BY <1>w, <2>1, PrefSets, LenProperties
  <2>3. i \in 1 .. Len(p.tabs)
    BY <2>1, <2>2 DEF MaxTabs
  <2>4. rest \in Seq(TabRec) /\ Len(rest) = Len(p.tabs) - 1
    BY <2>2, <2>3, RestIs
  <2> HIDE DEF rest, p
  <2>5. /\ next \in 1 .. Len(rest)
        /\ i # p.active => a \in 1 .. Len(rest)
    BY <2>1, <2>2, <2>3, <2>4
  <2> HIDE DEF next, a
  <2>6. ASSUME i = p.active PROVE PrefInv'
    <3> DEFINE q == [p EXCEPT !.tabs = rest]
               s == Shows(q, next)
    <3>0. rest[next] \in TabRec
      BY <2>4, <2>5, ElementOfSeq
    <3> DEFINE y == rest[next].system
               l == rest[next].level
    <3>4. y \in Prompts /\ l \in PageLevels
      BY <3>0 DEF TabRec
    <3>1. s = [p EXCEPT !.system = y, !.level = l, !.active = next, !.tabs = rest]
      BY <2>2 DEF Shows, WinSet, WinRec
    <3> HIDE DEF y, l, s
    <3>5. next \in Nat /\ p \in WinRec
      BY <2>2, <2>4, <2>5 DEF WinSet
    <3>6. s \in WinRec /\ s.tabs = rest /\ s.active = next /\ s.lists = p.lists
      BY <2>4, <3>1, <3>4, <3>5 DEF WinRec
    <3>2. s \in WinSet /\ s.lists = p.lists
      BY <2>5, <3>6 DEF WinSet
    <3>3. Sets(w, s)
      BY <2>1, <2>6 DEF s
    <3> QED
      BY <2>1, <3>2, <3>3, SetsIs DEF p
  <2>7. ASSUME i # p.active PROVE PrefInv'
    <3> DEFINE s == [p EXCEPT !.tabs = rest, !.active = a]
    <3>1. a \in Nat /\ a \in 1 .. Len(rest)
      BY <2>5, <2>7
    <3>2. s \in WinRec /\ s.tabs = rest /\ s.active = a /\ s.lists = p.lists
      BY <2>2, <2>4, <3>1 DEF WinSet, WinRec
    <3> HIDE DEF s
    <3>3. s \in WinSet
      BY <3>1, <3>2 DEF WinSet
    <3>4. Sets(w, s)
      BY <2>1, <2>7 DEF s
    <3> QED
      BY <2>1, <3>2, <3>3, <3>4, SetsIs DEF p
  <2> QED
    BY <2>6, <2>7
<1>13. ASSUME NEW w \in Windows, togglePinned(w, 1) PROVE PrefInv'
  <2> DEFINE x == Toggled(win[w].lists.pins, 1)
             l == [win[w].lists EXCEPT !.pins = x]
  <2>1. win[w].open /\ Writes(w, l)
    BY <1>13 DEF togglePinned
  <2>2. win[w].lists \in Lists
    BY <1>w, <2>1
  <2>3. x \in SUBSET {1}
    BY <2>2 DEF Lists, Toggled
  <2> HIDE DEF x
  <2>4. l \in Lists
    BY <2>2, <2>3 DEF Lists
  <2> QED
    BY <2>1, <2>4, WritesIs
<1>14. ASSUME NEW w \in Windows, NEW s \in 1 .. MaxSnippets, saveSnippet(w, s) \/ deleteSnippet(w, s)
       PROVE  PrefInv'
  <2> DEFINE x == win[w].lists.snips \cup {s}
             y == win[w].lists.snips \ {s}
             l == [win[w].lists EXCEPT !.snips = x]
             k == [win[w].lists EXCEPT !.snips = y]
  <2>1. win[w].open /\ (Writes(w, l) \/ Writes(w, k))
    BY <1>14 DEF saveSnippet, deleteSnippet
  <2>2. win[w].lists \in Lists
    BY <1>w, <2>1
  <2>3. x \in SUBSET (1 .. MaxSnippets) /\ y \in SUBSET (1 .. MaxSnippets)
    BY <2>2 DEF Lists
  <2> HIDE DEF x, y
  <2>4. l \in Lists /\ k \in Lists
    BY <2>2, <2>3 DEF Lists
  <2> QED
    BY <2>1, <2>4, WritesIs
<1>15. ASSUME NEW w \in Windows, NEW key \in {"anon", "conv"}, commitArtifactRename(w, key) PROVE PrefInv'
  <2> DEFINE x == win[w].lists.names \cup {key}
             l == [win[w].lists EXCEPT !.names = x]
  <2>1. win[w].open /\ Writes(w, l)
    BY <1>15 DEF commitArtifactRename
  <2>2. win[w].lists \in Lists
    BY <1>w, <2>1
  <2>3. x \in SUBSET {"anon", "conv"}
    BY <2>2 DEF Lists
  <2> HIDE DEF x
  <2>4. l \in Lists
    BY <2>2, <2>3 DEF Lists
  <2> QED
    BY <2>1, <2>4, WritesIs
<1>16. ASSUME NEW w \in Windows, NEW s \in 0 .. MaxSkills, openSkillCreator(w, s) PROVE PrefInv'
  <2> DEFINE p == [win[w] EXCEPT !.creator = TRUE, !.editing = s]
  <2>1. win[w].open /\ win' = [win EXCEPT ![w] = p] /\ UNCHANGED store
    BY <1>0, <1>16, <1>w DEF openSkillCreator, WinRec
  <2>3. /\ p \in WinSet /\ p.system = win[w].system /\ p.level = win[w].level /\ p.prov = win[w].prov
        /\ p.lists = win[w].lists
    BY <1>w, <2>1 DEF WinSet, WinRec
  <2> HIDE DEF p
  <2> QED
    BY <2>1, <2>3, PageOnly
<1>17. ASSUME NEW w \in Windows, CloseCreator(w) PROVE PrefInv'
  <2> DEFINE p == [win[w] EXCEPT !.creator = FALSE, !.editing = 0]
  <2>1. win[w].open /\ win' = [win EXCEPT ![w] = p] /\ UNCHANGED store /\ 0 \in 0 .. MaxSkills
    <3>1. 0 \in 0 .. MaxSkills
      BY DEF MaxSkills
    <3> QED
      BY <1>0, <1>17, <1>w, <3>1 DEF CloseCreator, WinRec
  <2>3. /\ p \in WinSet /\ p.system = win[w].system /\ p.level = win[w].level /\ p.prov = win[w].prov
        /\ p.lists = win[w].lists
    BY <1>w, <2>1 DEF WinSet, WinRec
  <2> HIDE DEF p
  <2> QED
    BY <2>1, <2>3, PageOnly
\* A skill of the list is written.
<1>18. ASSUME NEW w \in Windows, win[w].open, NEW s \in 1 .. MaxSkills, NEW n \in 0 .. 2,
              Writes(w, [win[w].lists EXCEPT !.skills[s] = n])
       PROVE  PrefInv'
  <2> DEFINE k == [win[w].lists.skills EXCEPT ![s] = n]
             l == [win[w].lists EXCEPT !.skills = k]
  <2>1. win[w].lists \in Lists
    BY <1>w, <1>18
  <2>2. k \in [1 .. MaxSkills -> 0 .. 2]
    BY <2>1 DEF Lists
  <2>3. [win[w].lists EXCEPT !.skills[s] = n] = l
    BY <2>1 DEF Lists
  <2> HIDE DEF k
  <2>4. l \in Lists
    BY <2>1, <2>2 DEF Lists
  <2> QED
    BY <1>18, <2>3, <2>4, WritesIs
<1>19. ASSUME NEW w \in Windows, addCustomSkill(w) PROVE PrefInv'
  <2>1. win[w].open /\ \E s \in 1 .. MaxSkills : Writes(w, [win[w].lists EXCEPT !.skills[s] = 1])
    BY <1>19 DEF addCustomSkill
  <2>2. 1 \in 0 .. 2
    OBVIOUS
  <2> QED
    BY <1>18, <2>1, <2>2
<1>20. ASSUME NEW w \in Windows, updateCustomSkill(w) PROVE PrefInv'
  <2> DEFINE e == win[w].editing
             n == IF win[w].lists.skills[e] = 0 THEN 0 ELSE 2
  <2>1. /\ win[w].open /\ e # 0 /\ Writes(w, [win[w].lists EXCEPT !.skills[e] = n])
    BY <1>20 DEF updateCustomSkill
  <2>2. e \in 1 .. MaxSkills
    <3>1. e \in 0 .. MaxSkills
      BY <1>w, <2>1 DEF WinRec
    <3> QED
      BY <2>1, <3>1 DEF MaxSkills
  <2>3. n \in 0 .. 2
    OBVIOUS
  <2> HIDE DEF e, n
  <2> QED
    BY <1>18, <2>1, <2>2, <2>3
<1>21. ASSUME NEW w \in Windows, NEW s \in 1 .. MaxSkills, deleteCustomSkill(w, s) PROVE PrefInv'
  <2>1. win[w].open /\ Writes(w, [win[w].lists EXCEPT !.skills[s] = 0]) /\ 0 \in 0 .. 2
    BY <1>21 DEF deleteCustomSkill
  <2> QED
    BY <1>18, <2>1
<1>22. CASE UNCHANGED prefVars
  BY <1>0, <1>22 DEF prefVars, PrefInv
<1> QED
  BY <1>1, <1>2, <1>3, <1>4, <1>5, <1>6, <1>7, <1>8, <1>9, <1>10, <1>11, <1>12, <1>13, <1>14,
     <1>15, <1>16, <1>17, <1>19, <1>20, <1>21, <1>22
  DEF PrefNext

\* The invariant gives the property the runs check, and the type.
LEMMA PrefIs == PrefInv => ReloadKeeps /\ PrefTypeOK
<1> SUFFICES ASSUME PrefInv PROVE ReloadKeeps /\ PrefTypeOK
  OBVIOUS
<1>1. ReloadKeeps
  BY DEF PrefInv, Reloads, ReloadKeeps, loadLists
<1>2. /\ store.system \in Prompts /\ store.prov \in {"persona", "manual"} /\ store.level \in Levels
      /\ store.lists \in Lists
  BY DEF PrefInv, StoreRec
<1>3. ASSUME NEW w \in Windows, win[w].open
      PROVE  /\ win[w].system \in Prompts /\ win[w].prov \in Provenances /\ win[w].lists \in Lists
             /\ win[w].active \in DOMAIN win[w].tabs
  <2>1. win[w] \in WinSet
    BY <1>3, PrefSets DEF PrefInv
  <2>2. win[w].tabs \in Seq(TabRec) /\ win[w].active \in 1 .. Len(win[w].tabs)
    BY <2>1, PrefSets
  <2>3. DOMAIN win[w].tabs = 1 .. Len(win[w].tabs)
    BY <2>2, LenProperties
  <2> QED
    BY <2>1, <2>2, <2>3, PrefSets
<1> QED
  BY <1>1, <1>2, <1>3 DEF PrefTypeOK

-----------------------------------------------------------------------------
(* The document panel                                                      *)

\* A document and its version, and the state of the panel.
PanelContents == {"none", "page", "script", "doc"} \X Nat

PanelRec ==
  [narrow : BOOLEAN, artifact : PanelContents, id : 0 .. 2,
   made : [Files -> Nat],
   answer : [task : {"none", "chat", "doc"}, phase : {"none", "thinking", "open", "finished"},
             name : {"none", "page", "script"}],
   answers : 0 .. MaxAnswers, live : BOOLEAN, liveRef : BOOLEAN, full : BOOLEAN,
   choice : [of : 0 .. 2, idx : Nat, changes : BOOLEAN], preview : BOOLEAN, renaming : BOOLEAN,
   closed : BOOLEAN]

\* The panel p: an answer past its opening fence has named a file and is a
\* conversation's, and every version counted was written by an answer that began.
PanelSound(p) ==
  /\ p \in PanelRec
  /\ p.answer.phase \in {"open", "finished"} => p.answer.name \in Files /\ p.answer.task = "chat"
  /\ \A f \in Files : /\ p.made[f] <= p.answers
                      /\ p.answer.task # "none" => p.made[f] < p.answers

\* The frame fr under a panel that previews c: what is on its way and still
\* wanted is c, and so is what was answered.
FrameFits(c, fr) ==
  /\ fr \in [url : PanelContents, err : PanelContents, wire : SUBSET [page : PanelContents, cancelled : BOOLEAN],
             last : {"ok", "sent", "failed"}]
  /\ \A r \in fr.wire : ~r.cancelled => r.page = c /\ fr.last = "sent"
  /\ fr.last = "ok" => fr.url = c /\ (fr.err # Nothing /\ c # Nothing => fr.err = c)

\* The inductive invariant: the panel is sound and the frame fits what it previews.
PanelInv == PanelSound(panel) /\ FrameFits(Previewed(panel), frame)

\* The panel opens with nothing to show.
LEMMA PanelInitInv == PanelInit => PanelInv
<1> SUFFICES ASSUME PanelInit PROVE PanelInv
  OBVIOUS
<1>1. PICK narrow \in BOOLEAN : panel = [narrow |-> narrow, artifact |-> Nothing, id |-> 0, made |-> [f \in Files |-> 0],
                answer |-> NoAnswer, answers |-> 0, live |-> FALSE, liveRef |-> FALSE,
                full |-> FALSE, choice |-> NoChoice, preview |-> TRUE, renaming |-> FALSE,
                closed |-> FALSE]
  BY DEF PanelInit
<1>2. 0 \in 0 .. MaxAnswers
  BY PanelAssumption
<1>3. PanelSound(panel)
  BY <1>1, <1>2 DEF PanelSound, PanelRec, PanelContents, Nothing, NoAnswer, NoChoice, Files
<1>4. Previewed(panel) = Nothing
  BY <1>1 DEF Previewed, panelIsHtml, liveCode, pinned, inPanel, streaming, lastFinished, NoAnswer, Nothing
<1>5. FrameFits(Nothing, frame)
  BY DEF PanelInit, FrameFits, Nothing, PanelContents
<1> QED
  BY <1>3, <1>4, <1>5 DEF PanelInv

\* Where the panel's content comes from, and the versions it may name.
LEMMA PinnedIs ==
  ASSUME NEW p, PanelSound(p)
  PROVE  /\ pinned(p) \in PanelContents
         /\ liveCode(p) => p.answer.name \in Files
<1>0. p \in PanelRec
  BY DEF PanelSound
<1>1. liveCode(p) \/ lastFinished(p) => p.answer.name \in Files
  BY DEF liveCode, lastFinished, PanelSound
<1>2. ASSUME p.answer.name \in Files
      PROVE  <<p.answer.name, p.made[p.answer.name] + 1>> \in PanelContents
  <2>1. p.made[p.answer.name] + 1 \in Nat
    BY <1>0, <1>2 DEF PanelRec
  <2> QED
    BY <1>2, <2>1 DEF Files, PanelContents
<1>3. Nothing \in PanelContents
  BY DEF Nothing, PanelContents
<1> QED
  BY <1>0, <1>1, <1>2, <1>3 DEF pinned, PanelRec

\* The version shown exists, and changes are shown of a second one at least.
LEMMA VersionsAre ==
  ASSUME NEW p, PanelSound(p)
  PROVE  /\ versionIdx(p) \in Nat /\ versionIdx(p) <= versionCount(p)
         /\ showChanges(p) => panelContent(p)[2] > 1
<1>0. p \in PanelRec
  BY DEF PanelSound
<1> DEFINE n == versionCount(p)
           k == versionIdx(p)
<1>1. n \in Nat
  BY <1>0 DEF versionCount, isCode, PanelRec
<1>2. p.choice.idx \in Nat /\ pinned(p)[2] \in Nat
  BY <1>0, PinnedIs DEF PanelRec, PanelContents
<1>3. k = IF chosen(p) THEN IF p.choice.idx < n THEN p.choice.idx ELSE n
          ELSE IF pinned(p)[2] \in 1..n THEN pinned(p)[2] ELSE 0
  BY DEF versionIdx
<1>4. ASSUME n > 0 PROVE ~showLive(p)
  BY <1>4 DEF versionCount
<1>c. chosen(p) => n > 0
  BY DEF chosen
<1> HIDE DEF n, k
<1>5. k \in Nat /\ k <= n
  BY <1>1, <1>2, <1>3
<1>6. ASSUME showChanges(p) PROVE panelContent(p)[2] > 1
  <2>1. chosen(p) /\ k > 1
    BY <1>6 DEF showChanges, k
  <2>2. ~liveCode(p) /\ ~showLiveDoc(p)
    BY <1>4, <1>c, <2>1 DEF showLive
  <2>3. panelContent(p) = <<pinned(p)[1], k>>
    BY <1>5, <2>1, <2>2 DEF panelContent, k
  <2> QED
    BY <2>1, <2>3
<1> QED
  BY <1>5, <1>6 DEF n, k

\* What is previewed is a document of a conversation, or nothing.
LEMMA PreviewedIs ==
  ASSUME NEW p, PanelSound(p) PROVE Previewed(p) \in PanelContents
<1>1. pinned(p) \in PanelContents /\ versionIdx(p) \in Nat /\ (liveCode(p) => p.answer.name \in Files)
  BY PinnedIs, VersionsAre
<1>2. <<"doc", 0>> \in PanelContents /\ Nothing \in PanelContents /\ <<pinned(p)[1], versionIdx(p)>> \in PanelContents
  BY <1>1 DEF Nothing, PanelContents
<1>3. liveCode(p) => <<p.answer.name, 0>> \in PanelContents
  BY <1>1 DEF Files, PanelContents
<1> QED
  BY <1>1, <1>2, <1>3 DEF Previewed, panelContent

\* What a render leaves of the frame.
LEMMA RendersFits ==
  ASSUME NEW p, FrameFits(Previewed(panel), frame), Renders(p),
         Previewed(p) \in PanelContents
  PROVE  panel' = p /\ FrameFits(Previewed(p), frame')
<1> DEFINE c == Previewed(p)
           void == {[r EXCEPT !.cancelled = TRUE] : r \in frame.wire}
<1>1. panel' = p
  BY DEF Renders
<1>2. CASE c = Previewed(panel)
  BY <1>2 DEF Renders
<1>3. void \in SUBSET [page : PanelContents, cancelled : BOOLEAN] /\ \A r \in void : r.cancelled
  <2> SUFFICES ASSUME NEW x \in void PROVE x \in [page : PanelContents, cancelled : BOOLEAN] /\ x.cancelled
    OBVIOUS
  <2>1. PICK r \in frame.wire : x = [r EXCEPT !.cancelled = TRUE]
    OBVIOUS
  <2>2. r \in [page : PanelContents, cancelled : BOOLEAN]
    BY DEF FrameFits
  <2> QED
    BY <2>1, <2>2
<1>n. Nothing \in PanelContents
  BY DEF Nothing, PanelContents
<1>4. CASE c # Previewed(panel) /\ c = Nothing
  <2>1. frame' = [frame EXCEPT !.wire = void, !.url = Nothing, !.last = "ok"]
    BY <1>4 DEF Renders
  <2> HIDE DEF void, c
  <2> QED
    BY <1>1, <1>3, <1>4, <1>n, <2>1 DEF FrameFits, c
<1>5. CASE c # Previewed(panel) /\ c # Nothing
  <2>1. frame' = [frame EXCEPT !.wire = void \cup {Publish(c)}, !.last = "sent"]
    BY <1>5 DEF Renders
  <2>2. Publish(c) \in [page : PanelContents, cancelled : BOOLEAN] /\ Publish(c).page = c
    BY DEF Publish
  <2> HIDE DEF void, c
  <2> QED
    BY <1>1, <1>3, <1>5, <2>1, <2>2 DEF FrameFits, c
<1> QED
  BY <1>1, <1>2, <1>4, <1>5

\* A render of a sound panel keeps the invariant.
LEMMA RendersKeeps ==
  ASSUME NEW p, PanelInv, Renders(p), PanelSound(p) PROVE PanelInv'
  BY RendersFits, PreviewedIs DEF PanelInv

\* Every step of the panel keeps the invariant, one case per action.
LEMMA PanelStep == PanelInv /\ [PanelNext]_panelVars => PanelInv'
<1> SUFFICES ASSUME PanelInv, [PanelNext]_panelVars PROVE PanelInv'
  OBVIOUS
<1> USE PanelAssumption
<1>0. PanelSound(panel) /\ panel \in PanelRec
  BY DEF PanelInv, PanelSound
<1>i. \A c \in PanelContents : \A over : PanelSound(over) => PanelSound(Pins(over, c))
  <2> SUFFICES ASSUME NEW c \in PanelContents, NEW over, PanelSound(over) PROVE PanelSound(Pins(over, c))
    OBVIOUS
  <2> DEFINE i == IF over.id = 1 THEN 2 ELSE 1
             h == IF panel.choice.of = i THEN NoChoice ELSE over.choice
             q == [over EXCEPT !.artifact = c, !.id = i, !.choice = h]
  <2>1. i \in 0 .. 2
    OBVIOUS
  <2>2. h \in [of : 0 .. 2, idx : Nat, changes : BOOLEAN]
    BY DEF PanelSound, PanelRec, NoChoice
  <2>3. Pins(over, c) = q
    BY DEF Pins, PanelSound, PanelRec
  <2> HIDE DEF i, h
  <2>4. q \in PanelRec /\ q.answer = over.answer /\ q.made = over.made /\ q.answers = over.answers
    BY <2>1, <2>2 DEF PanelSound, PanelRec
  <2> HIDE DEF q
  <2> QED
    BY <2>3, <2>4 DEF PanelSound
<1>1. ASSUME NEW task \in {"chat", "doc"}, Begin(task) PROVE PanelInv'
  <2> DEFINE n == panel.answers + 1
             a == [task |-> task, phase |-> "thinking", name |-> "none"]
             p == [panel EXCEPT !.answers = n, !.answer = a]
  <2>1. Renders(p) /\ panel.answers < MaxAnswers
    BY <1>0, <1>1 DEF Begin, PanelRec
  <2>2. n \in 0 .. MaxAnswers
    BY <1>0, <2>1 DEF PanelRec
  <2>3. \A f \in Files : panel.made[f] < n
    BY <1>0 DEF PanelSound, PanelRec
  <2>4. \A f \in Files : panel.made[f] <= n
    BY <1>0, <2>3, <2>2 DEF PanelSound, PanelRec
  <2> HIDE DEF n
  <2>5. p \in PanelRec /\ p.answer = a /\ p.made = panel.made /\ p.answers = n
    BY <1>0, <2>2 DEF PanelRec
  <2> HIDE DEF p
  <2>6. PanelSound(p)
    BY <2>3, <2>4, <2>5 DEF PanelSound
  <2> QED
    BY <2>1, <2>6, RendersKeeps
<1>2. ASSUME NEW f \in Files, OpensFence(f) PROVE PanelInv'
  <2> DEFINE a == [panel.answer EXCEPT !.phase = "open", !.name = f]
             p == [panel EXCEPT !.answer = a]
  <2>1. Renders(p) /\ panel.answer.task = "chat"
    BY <1>0, <1>2 DEF OpensFence, PanelRec
  <2>2. a \in [task : {"none", "chat", "doc"}, phase : {"none", "thinking", "open", "finished"},
               name : {"none", "page", "script"}] /\ a.name \in Files /\ a.task = "chat"
    BY <1>0, <2>1 DEF PanelRec, Files
  <2> HIDE DEF a
  <2>5. p \in PanelRec /\ p.answer = a /\ p.made = panel.made /\ p.answers = panel.answers
    BY <1>0, <2>2 DEF PanelRec
  <2> HIDE DEF p
  <2>6. PanelSound(p)
    BY <1>0, <2>1, <2>2, <2>5 DEF PanelSound
  <2> QED
    BY <2>1, <2>6, RendersKeeps
<1>3. ASSUME ClosesFence PROVE PanelInv'
  <2> DEFINE a == [panel.answer EXCEPT !.phase = "finished"]
             p == [panel EXCEPT !.answer = a]
  <2>1. Renders(p) /\ panel.answer.phase = "open"
    BY <1>0, <1>3 DEF ClosesFence, PanelRec
  <2>2. a \in [task : {"none", "chat", "doc"}, phase : {"none", "thinking", "open", "finished"},
               name : {"none", "page", "script"}] /\ a.name = panel.answer.name /\ a.task = panel.answer.task
    BY <1>0, <2>1 DEF PanelRec
  <2> HIDE DEF a
  <2>5. p \in PanelRec /\ p.answer = a /\ p.made = panel.made /\ p.answers = panel.answers
    BY <1>0, <2>2 DEF PanelRec
  <2> HIDE DEF p
  <2>6. PanelSound(p)
    BY <1>0, <2>1, <2>2, <2>5 DEF PanelSound
  <2> QED
    BY <2>1, <2>6, RendersKeeps
<1>4. ASSUME AnswerEnds PROVE PanelInv'
  <2> DEFINE a == panel.answer
             over == [panel EXCEPT !.answer = NoAnswer, !.liveRef = FALSE]
             m(f) == [panel.made EXCEPT ![f] = panel.made[f] + 1]
             more(f) == [panel EXCEPT !.answer = NoAnswer, !.liveRef = FALSE, !.made = m(f)]
  <2>1. streaming(panel)
    BY <1>4 DEF AnswerEnds
  <2>o. /\ over \in PanelRec /\ over.answer = NoAnswer /\ over.made = panel.made
        /\ over.answers = panel.answers /\ panel.answers \in Nat
    <3>1. over \in PanelRec /\ over.answer = NoAnswer /\ over.made = panel.made /\ over.answers = panel.answers
      BY <1>0 DEF PanelRec, NoAnswer
    <3>2. panel.answers \in Nat
      BY <1>0 DEF PanelRec
    <3> QED
      BY <3>1, <3>2
  <2>2. PanelSound(over)
    BY <1>0, <2>o DEF PanelSound, NoAnswer
  <2>3. \A f \in Files : PanelSound([over EXCEPT !.made[f] = @ + 1]) /\ panel.made[f] + 1 \in Nat
    <3> SUFFICES ASSUME NEW f \in Files PROVE PanelSound([over EXCEPT !.made[f] = @ + 1]) /\ panel.made[f] + 1 \in Nat
      OBVIOUS
    <3>1. [over EXCEPT !.made[f] = @ + 1] = more(f)
      BY <1>0 DEF PanelRec
    <3>2. m(f) \in [Files -> Nat] /\ panel.made[f] + 1 \in Nat
      BY <1>0 DEF PanelRec
    <3>3. \A g \in Files : m(f)[g] <= panel.answers
      BY <1>0, <2>1, <2>o DEF PanelSound, PanelRec, streaming
    <3> HIDE DEF m
    <3>4. more(f) \in PanelRec /\ more(f).answer = NoAnswer /\ more(f).made = m(f) /\ more(f).answers = panel.answers
      BY <1>0, <3>2 DEF PanelRec, NoAnswer
    <3> HIDE DEF more
    <3>5. PanelSound(more(f))
      BY <3>3, <3>4 DEF PanelSound, NoAnswer
    <3> QED
      BY <3>1, <3>2, <3>5
  <2> DEFINE q(f) == [over EXCEPT !.made[f] = @ + 1]
  <2>4. \A f \in Files : PanelSound(q(f)) /\ <<f, panel.made[f] + 1>> \in PanelContents
    BY <2>3 DEF Files, PanelContents
  <2>5. <<"doc", panel.answers>> \in PanelContents
    BY <2>o DEF PanelContents
  <2>6. a.phase \in {"open", "finished"} => a.name \in Files
    BY <1>0 DEF PanelSound
  <2>7. \/ a.phase \in {"open", "finished"} /\ Renders(Pins(q(a.name), <<a.name, panel.made[a.name] + 1>>))
        \/ Renders(IF panel.liveRef THEN Pins(over, <<"doc", panel.answers>>) ELSE over)
        \/ Renders(over)
        \/ \E f \in Files : Renders(Pins(q(f), <<f, panel.made[f] + 1>>))
    BY <1>4 DEF AnswerEnds
  <2> HIDE DEF q, over, a
  <2>8. \A f \in Files : PanelSound(Pins(q(f), <<f, panel.made[f] + 1>>))
    BY <1>i, <2>4
  <2>9. PanelSound(Pins(over, <<"doc", panel.answers>>))
    BY <1>i, <2>2, <2>5
  <2> QED
    BY <2>2, <2>6, <2>7, <2>8, <2>9, RendersKeeps
<1>5. ASSUME LeaveThread PROVE PanelInv'
  <2> DEFINE z == [f \in Files |-> 0]
             p == [panel EXCEPT !.artifact = Nothing, !.live = FALSE, !.closed = FALSE, !.made = z]
  <2>1. Renders(p) /\ panel.answer.task = "none" /\ panel.answers \in Nat
    BY <1>0, <1>5 DEF LeaveThread, streaming, PanelRec
  <2>5. p \in PanelRec /\ p.answer = panel.answer /\ p.made = z /\ p.answers = panel.answers
    BY <1>0 DEF PanelRec, Nothing, PanelContents
  <2> HIDE DEF p
  <2>6. PanelSound(p)
    BY <1>0, <2>1, <2>5 DEF PanelSound
  <2> QED
    BY <2>1, <2>6, RendersKeeps
<1>6. ASSUME NEW r \in frame.wire, PublishAnswers(r), UNCHANGED panel PROVE PanelInv'
  <2>1. PICK ok \in BOOLEAN :
    frame' = [frame EXCEPT !.wire = @ \ {r},
                           !.url = IF ok /\ ~r.cancelled THEN r.page ELSE @,
                           !.err = IF ok /\ ~r.cancelled THEN Nothing ELSE @,
                           !.last = IF r.cancelled THEN @ ELSE IF ok THEN "ok" ELSE "failed"]
    BY <1>6 DEF PublishAnswers
  <2> DEFINE c == Previewed(panel)
  <2>2. FrameFits(c, frame)
    BY DEF PanelInv
  <2> HIDE DEF c
  <2>3. frame.wire \in SUBSET [page : PanelContents, cancelled : BOOLEAN]
    BY <2>2 DEF FrameFits
  <2>4. CASE r.cancelled
    <3>1. frame' = [frame EXCEPT !.wire = @ \ {r}]
      BY <2>1, <2>2, <2>4 DEF FrameFits
    <3>2. FrameFits(c, frame')
      BY <2>2, <3>1 DEF FrameFits
    <3> QED
      BY <1>0, <1>6, <3>2 DEF PanelInv, c
  <2>5. CASE ~r.cancelled
    <3>1. r.page = c
      BY <2>2, <2>5 DEF FrameFits
    <3>2. \A x \in frame.wire : ~x.cancelled => x = r
      BY <2>2, <2>3, <2>5, <3>1 DEF FrameFits
    <3>4. c \in PanelContents /\ Nothing \in PanelContents
      BY <2>3, <3>1 DEF Nothing, PanelContents
    <3>5. ASSUME ok PROVE FrameFits(c, frame')
      <4>1. frame' = [frame EXCEPT !.wire = @ \ {r}, !.url = c, !.err = Nothing, !.last = "ok"]
        BY <2>1, <2>5, <3>1, <3>5
      <4> QED
        BY <2>2, <3>2, <3>4, <4>1 DEF FrameFits
    <3>6. ASSUME ~ok PROVE FrameFits(c, frame')
      <4>1. frame' = [frame EXCEPT !.wire = @ \ {r}, !.last = "failed"]
        BY <2>1, <2>2, <2>5, <3>6 DEF FrameFits
      <4> QED
        BY <2>2, <3>2, <4>1 DEF FrameFits
    <3>3. FrameFits(c, frame')
      BY <3>5, <3>6
    <3> QED
      BY <1>0, <1>6, <3>3 DEF PanelInv, c
  <2> QED
    BY <2>3, <2>4, <2>5
<1>7. ASSUME PageFails PROVE PanelInv'
  <2> DEFINE c == Previewed(panel)
  <2>1. FrameFits(c, frame) /\ frame' = [frame EXCEPT !.err = frame.url] /\ UNCHANGED panel
    BY <1>7 DEF PageFails, PanelInv
  <2> HIDE DEF c
  <2>2. FrameFits(c, frame')
    BY <2>1 DEF FrameFits
  <2> QED
    BY <1>0, <2>1, <2>2 DEF PanelInv, c
<1>8. ASSUME NEW f \in Files, NEW v \in 1 .. MaxAnswers, OpenFile(f, v) PROVE PanelInv'
  <2> DEFINE q == Pins(panel, <<f, v>>)
             p == [q EXCEPT !.renaming = FALSE, !.closed = FALSE]
  <2>1. Renders(p)
    BY <1>8 DEF OpenFile
  <2>2. <<f, v>> \in PanelContents
    BY DEF Files, PanelContents
  <2>3. PanelSound(q)
    BY <1>0, <1>i, <2>2
  <2> HIDE DEF q
  <2>5. p \in PanelRec /\ p.answer = q.answer /\ p.made = q.made /\ p.answers = q.answers
    BY <2>3 DEF PanelRec, PanelSound
  <2> HIDE DEF p
  <2>6. PanelSound(p)
    BY <2>3, <2>5 DEF PanelSound
  <2> QED
    BY <2>1, <2>6, RendersKeeps
\* What changes neither the answer nor the versions.
<1>9. ASSUME NEW p, Renders(p), p \in PanelRec, p.answer = panel.answer, p.made = panel.made,
             p.answers = panel.answers
      PROVE PanelInv'
  <2>1. PanelSound(p)
    BY <1>0, <1>9 DEF PanelSound
  <2> QED
    BY <1>9, <2>1, RendersKeeps
<1>10. ASSUME openLiveDoc PROVE PanelInv'
  <2> DEFINE p == [panel EXCEPT !.live = TRUE, !.liveRef = TRUE, !.closed = FALSE]
  <2>1. Renders(p)
    BY <1>10 DEF openLiveDoc
  <2>2. p \in PanelRec /\ p.answer = panel.answer /\ p.made = panel.made /\ p.answers = panel.answers
    BY <1>0 DEF PanelRec
  <2> HIDE DEF p
  <2> QED
    BY <1>9, <2>1, <2>2
<1>c. ASSUME Renders([panel EXCEPT !.artifact = Nothing, !.live = FALSE, !.liveRef = FALSE, !.closed = TRUE])
      PROVE PanelInv'
  <2> DEFINE p == [panel EXCEPT !.artifact = Nothing, !.live = FALSE, !.liveRef = FALSE, !.closed = TRUE]
  <2>1. Renders(p)
    BY <1>c
  <2>2. p \in PanelRec /\ p.answer = panel.answer /\ p.made = panel.made /\ p.answers = panel.answers
    BY <1>0 DEF PanelRec, Nothing, PanelContents
  <2> HIDE DEF p
  <2> QED
    BY <1>9, <2>1, <2>2
<1>11. ASSUME ClosePanelSide PROVE PanelInv'
  BY <1>11, <1>c DEF ClosePanelSide
<1>f. ASSUME NEW b \in BOOLEAN, Renders([panel EXCEPT !.full = b]) PROVE PanelInv'
  <2> DEFINE p == [panel EXCEPT !.full = b]
  <2>1. Renders(p)
    BY <1>f
  <2>2. p \in PanelRec /\ p.answer = panel.answer /\ p.made = panel.made /\ p.answers = panel.answers
    BY <1>0 DEF PanelRec
  <2> HIDE DEF p
  <2> QED
    BY <1>9, <2>1, <2>2
<1>12. ASSUME closePanel PROVE PanelInv'
  BY <1>12, <1>c, <1>f DEF closePanel
<1>13. ASSUME setFull PROVE PanelInv'
  BY <1>13, <1>f DEF setFull
<1>h. ASSUME NEW i \in Nat, NEW b \in BOOLEAN, Renders([panel EXCEPT !.choice = [of |-> panel.id, idx |-> i, changes |-> b]])
      PROVE PanelInv'
  <2> DEFINE h == [of |-> panel.id, idx |-> i, changes |-> b]
             p == [panel EXCEPT !.choice = h]
  <2>1. Renders(p)
    BY <1>h
  <2>3. h \in [of : 0 .. 2, idx : Nat, changes : BOOLEAN]
    BY <1>0 DEF PanelRec
  <2> HIDE DEF h
  <2>2. p \in PanelRec /\ p.answer = panel.answer /\ p.made = panel.made /\ p.answers = panel.answers
    BY <1>0, <2>3 DEF PanelRec
  <2> HIDE DEF p
  <2> QED
    BY <1>9, <2>1, <2>2
<1>14. ASSUME NEW i \in 1 .. MaxAnswers, SelectVersion(i) PROVE PanelInv'
  <2>1. (chosen(panel) /\ panel.choice.changes) \in BOOLEAN /\ i \in Nat
    OBVIOUS
  <2> QED
    BY <1>14, <1>h, <2>1 DEF SelectVersion
<1>15. ASSUME SetShowChanges PROVE PanelInv'
  <2>1. (~showChanges(panel)) \in BOOLEAN
    OBVIOUS
  <2>2. versionIdx(panel) \in Nat
    BY <1>0, VersionsAre
  <2> QED
    BY <1>15, <1>h, <2>1, <2>2 DEF SetShowChanges
<1>16. ASSUME SetHtmlPreview PROVE PanelInv'
  <2> DEFINE b == ~panel.preview
             p == [panel EXCEPT !.preview = b]
  <2>1. Renders(p)
    BY <1>0, <1>16 DEF SetHtmlPreview, PanelRec
  <2>3. b \in BOOLEAN
    OBVIOUS
  <2> HIDE DEF b
  <2>2. p \in PanelRec /\ p.answer = panel.answer /\ p.made = panel.made /\ p.answers = panel.answers
    BY <1>0, <2>3 DEF PanelRec
  <2> HIDE DEF p
  <2> QED
    BY <1>9, <2>1, <2>2
<1>17. ASSUME Correct PROVE PanelInv'
  BY <1>1, <1>17 DEF Correct
<1>r. ASSUME NEW b \in BOOLEAN, Renders([panel EXCEPT !.renaming = b]) PROVE PanelInv'
  <2> DEFINE p == [panel EXCEPT !.renaming = b]
  <2>1. Renders(p)
    BY <1>r
  <2>2. p \in PanelRec /\ p.answer = panel.answer /\ p.made = panel.made /\ p.answers = panel.answers
    BY <1>0 DEF PanelRec
  <2> HIDE DEF p
  <2> QED
    BY <1>9, <2>1, <2>2
<1>18. ASSUME StartFileRename PROVE PanelInv'
  BY <1>18, <1>r DEF StartFileRename
<1>19. ASSUME EndFileRename PROVE PanelInv'
  BY <1>19, <1>r DEF EndFileRename
<1>20. ASSUME UNCHANGED panelVars PROVE PanelInv'
  BY <1>20 DEF panelVars, PanelInv
<1> QED
  BY <1>1, <1>2, <1>3, <1>4, <1>5, <1>6, <1>7, <1>8, <1>10, <1>11, <1>12, <1>13, <1>14, <1>15, <1>16, <1>17,
     <1>18, <1>19, <1>20 DEF PanelNext

\* The invariant gives the property the runs check, and the type.
LEMMA PanelIs == PanelInv => PreviewMatches /\ PanelTypeOK
<1> SUFFICES ASSUME PanelInv PROVE PreviewMatches /\ PanelTypeOK
  OBVIOUS
<1>1. PanelSound(panel) /\ FrameFits(Previewed(panel), frame)
  BY DEF PanelInv
<1>2. versionIdx(panel) <= versionCount(panel) /\ (showChanges(panel) => panelContent(panel)[2] > 1)
  BY <1>1, VersionsAre
<1>3. frame.last = "ok" =>
       /\ frame.url = Previewed(panel)
       /\ (frame.err # Nothing /\ Previewed(panel) # Nothing) => frame.err = Previewed(panel)
  BY <1>1 DEF FrameFits
<1>4. panel.made \in [Files -> 0..MaxAnswers] /\ panel.answers \in 0..MaxAnswers /\ panel.id \in 0..2
  BY <1>1, PanelAssumption DEF PanelSound, PanelRec
<1>5. frame.last \in {"ok", "sent", "failed"}
  BY <1>1 DEF FrameFits
<1> QED
  BY <1>2, <1>3, <1>4, <1>5 DEF PreviewMatches, PanelTypeOK

=============================================================================
