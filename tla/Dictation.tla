------------------------------ MODULE Dictation ------------------------------
(***************************************************************************)
(* useDictation: a field written while the user speaks.  Every second the  *)
(* recording so far is transcribed again; the last pass covers all of it.  *)
(* The page that owns the field clears it and cancels the dictation when   *)
(* its message is sent (the playground and the support page do).           *)
(*                                                                         *)
(* The field is what was typed and what was dictated, each tagged with the *)
(* message it was meant for; a recording is as long as the speech so far.  *)
(***************************************************************************)
EXTENDS Naturals, FiniteSets

CONSTANTS
    MaxSpeech,      \* bound on the length of a recording
    MaxMessages,    \* bound on the messages sent
    MaxRecorders    \* bound on the recordings begun

ASSUME DictationAssumption ==
    {MaxSpeech, MaxMessages, MaxRecorders} \subseteq Nat /\ MaxMessages > 0

VARIABLES
    dict,       \* the refs and the state of the hook, and the field
    recs,       \* the recorders: "opening", "on" or "off", and the speech in them
    passes      \* transcriptions under way

dictVars == <<dict, recs, passes>>

Recorders == 1..MaxRecorders

\* The dictated part of a field: for which message, how much, and whether by
\* the last pass
Said(m, upto, last) == [msg |-> m, upto |-> upto, last |-> last]
NothingSaid == Said(0, 0, FALSE)

\* What a field holds: typed (the message it was typed for, 0 when nothing is)
\* and said
Field(typed, said) == [typed |-> typed, said |-> said]
EmptyField == Field(0, NothingSaid)

DictInit ==
    /\ dict = [mounted |-> TRUE, isRecording |-> FALSE, finishing |-> 0, rec |-> 0,
               run |-> 0, pollRun |-> 0, busy |-> FALSE, base |-> EmptyField,
               value |-> EmptyField, msg |-> 1]
    /\ recs = [r \in Recorders |-> [st |-> "none", speech |-> 0]]
    /\ passes = {}

\* release: the tracks of a recorder are stopped
Released(r) == IF r = 0 THEN recs ELSE [recs EXCEPT ![r].st = "off"]

\* The user types into the field
TypeText ==
    /\ dict.mounted
    /\ dict' = [dict EXCEPT !.value.typed = dict.msg]
    /\ UNCHANGED <<recs, passes>>

\* toggle, to start: the microphone is asked for
StartDictation(r) ==
    /\ dict.mounted /\ ~dict.isRecording
    /\ recs[r].st = "none" /\ \A q \in 1..(r - 1) : recs[q].st # "none"
    /\ recs' = [recs EXCEPT ![r].st = "opening"]
    /\ UNCHANGED <<dict, passes>>

\* startRecording answers: the field as it is becomes the base
RecorderOpens(r) ==
    /\ recs[r].st = "opening"
    /\ recs' = [recs EXCEPT ![r].st = "on"]
    /\ dict' = [dict EXCEPT !.rec = r, !.base = dict.value, !.isRecording = TRUE,
                            !.pollRun = IF dict.isRecording THEN @ ELSE dict.run]
    /\ UNCHANGED passes

\* ... or is refused
RecorderRefused(r) ==
    /\ recs[r].st = "opening"
    /\ recs' = [recs EXCEPT ![r].st = "off"]
    /\ UNCHANGED <<dict, passes>>

Speak(r) ==
    /\ recs[r].st = "on" /\ recs[r].speech < MaxSpeech
    /\ recs' = [recs EXCEPT ![r].speech = @ + 1]
    /\ UNCHANGED <<dict, passes>>

\* The interval: one poll at a time, of a recording that holds something
Poll ==
    /\ dict.mounted /\ dict.isRecording /\ ~dict.busy /\ dict.pollRun = dict.run
    /\ dict.rec # 0 /\ recs[dict.rec].speech > 0
    /\ passes' = passes \cup {[kind |-> "poll", run |-> dict.pollRun,
                               upto |-> recs[dict.rec].speech, msg |-> dict.msg]}
    /\ dict' = [dict EXCEPT !.busy = TRUE]
    /\ UNCHANGED recs

\* runRef: the dictation of a pass has not been cancelled since
Current(p) == p.run = dict.run

\* An answer of an abandoned dictation writes nothing; otherwise the dictated
\* part is replaced
Wrote(p) ==
    IF Current(p)
    THEN Field(dict.base.typed, Said(p.msg, p.upto, p.kind = "final")) ELSE dict.value

\* transcribe answers, or fails
PassAnswers(p, ok) ==
    /\ p \in passes
    /\ passes' = passes \ {p}
    /\ dict' = [dict EXCEPT !.value = IF ok THEN Wrote(p) ELSE @,
                            !.busy = IF p.kind = "poll" THEN FALSE ELSE @,
                            !.finishing = IF p.kind = "final" THEN @ - 1 ELSE @]
    /\ UNCHANGED recs

\* toggle, to stop: the recorder is closed and its whole recording transcribed
StopDictation ==
    /\ dict.mounted /\ dict.isRecording
    /\ dict' = [dict EXCEPT !.rec = 0, !.isRecording = FALSE,
                            !.finishing = IF dict.rec = 0 THEN @ ELSE @ + 1]
    /\ recs' = Released(dict.rec)
    /\ passes' = IF dict.rec = 0 THEN passes
                 ELSE passes \cup {[kind |-> "final", run |-> dict.run,
                                    upto |-> recs[dict.rec].speech, msg |-> dict.msg]}

\* Mutant: cancelling only closes the microphone
CancelledKeepsRun == [dict EXCEPT !.rec = 0, !.isRecording = FALSE]

\* cancel
Cancelled == [dict EXCEPT !.run = @ + 1, !.rec = 0, !.isRecording = FALSE]

\* The page sends its message: the field is emptied, the dictation cancelled
SendField ==
    /\ dict.mounted /\ dict.msg < MaxMessages /\ dict.value # EmptyField
    /\ dict' = [Cancelled EXCEPT !.value = EmptyField, !.msg = @ + 1]
    /\ recs' = Released(dict.rec)
    /\ UNCHANGED passes

\* The component disappears: the recorder it holds is cancelled
Unmount ==
    /\ dict.mounted
    /\ dict' = [dict EXCEPT !.mounted = FALSE]
    /\ recs' = Released(dict.rec)
    /\ UNCHANGED passes

DictNext ==
    \/ TypeText \/ Poll \/ StopDictation \/ SendField \/ Unmount
    \/ \E r \in Recorders :
          StartDictation(r) \/ RecorderOpens(r) \/ RecorderRefused(r) \/ Speak(r)
    \/ \E p \in passes, ok \in BOOLEAN : PassAnswers(p, ok)

DictSpec == DictInit /\ [][DictNext]_dictVars

-----------------------------------------------------------------------------
DictTypeOK ==
    /\ dict.rec \in 0..MaxRecorders /\ dict.msg \in 1..MaxMessages
    /\ dict.value.typed \in 0..MaxMessages /\ dict.value.said.upto \in 0..MaxSpeech
    /\ \A r \in Recorders : recs[r].st \in {"none", "opening", "on", "off"}

\* A message that was sent does not come back: "a response arriving too late
\* belongs to a bygone dictation and must no longer write into the field"
SentNeverReturns ==
    /\ dict.value.typed \in {0, dict.msg}
    /\ dict.value.said.msg \in {0, dict.msg}

\* The last pass is authoritative over the intermediate transcriptions: what it
\* wrote is not replaced by a shorter one
FinalStands ==
    [][(dict.value.said.last /\ dict'.value.said.msg = dict.value.said.msg)
         => dict'.value.said.last]_dictVars

\* The microphone is released if the component disappears mid-dictation
MicReleased == ~dict.mounted => \A r \in Recorders : recs[r].st # "on"
=============================================================================
