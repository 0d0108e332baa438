------------------------------ MODULE VoiceMode ------------------------------
(***************************************************************************)
(* The playground's voice mode: the microphone that finds the user's       *)
(* sentences, their transcription, the answer read sentence by sentence    *)
(* while it is being written, and the barge-in that pauses, resumes or     *)
(* cuts it.                                                                *)
(*                                                                         *)
(* Text is counted in sentences: len is how many the answer holds, the     *)
(* last one unfinished while it is written.  Volumes, the highlight and    *)
(* the scrolling are left out.  The shortest utterance the microphone can  *)
(* report (START_MS + PREROLL_MS) is longer than MIN_UTTERANCE_MS, so the  *)
(* branch of onSpeechEnd without a recording cannot be taken.              *)
(***************************************************************************)
EXTENDS Naturals, Sequences, SequencesExt, FiniteSets, FiniteSetsExt

CONSTANTS
    MaxSentences,       \* sentences of one answer
    MaxUtterances,      \* bound on the sounds the microphone takes for speech
    MaxVoiceFailures    \* failures after which the voice is given up (3)

ASSUME VoiceAssumption ==
    {MaxSentences, MaxUtterances, MaxVoiceFailures} \subseteq Nat

VARIABLES
    voice,      \* the refs and the state of VoiceMode, its player included
    mic,        \* the MicListener: utt, muted, and how many sounds it heard
    scripts,    \* recordings being transcribed, by the number of the sound
    chat        \* the conversation: answers so far, the last one's length

voiceVars == <<voice, mic, scripts, chat>>

Phases == {"preparing", "listening", "hearing", "thinking", "speaking"}

\* A piece of sound: a sentence of an answer.  heard, the last one heard, and
\* marred, whether the voice was switched off
\* or a request of it lost, are history.
Sound(a, s) == [answer |-> a, s |-> s]

VoiceStarts(open) ==
    /\ voice = [open |-> open, phase |-> "preparing", speakerOn |-> TRUE,
                voiceOk |-> TRUE, failures |-> 0, barge |-> FALSE, ducked |-> FALSE,
                awaiting |-> FALSE, index |-> 0, cut |-> 0, queue |-> <<>>,
                given |-> {}, pumping |-> FALSE, paused |-> FALSE, resumeAt |-> 0,
                aborted |-> FALSE, segments |-> <<>>, play |-> <<>>,
                heard |-> Sound(0, 0), marred |-> FALSE]
    /\ mic = [utt |-> "none", muted |-> FALSE, sounds |-> 0]
    /\ scripts = [u \in 1..MaxUtterances |-> "none"]
    /\ chat = [n |-> 0, len |-> 0, streaming |-> FALSE, isError |-> FALSE, stopped |-> FALSE]

VoiceInit == VoiceStarts(TRUE)

-----------------------------------------------------------------------------
(***************************************************************************)
(* The player.  A segment is a sentence handed to it: asked (nothing has   *)
(* arrived), arriving, or done; play is the sound scheduled and not heard. *)
(***************************************************************************)

Segment(s) == [s |-> s, st |-> "asked"]

\* idle: nothing queued nor playing
Idle(r) == r.play = <<>> /\ \A i \in DOMAIN r.segments : r.segments[i].st = "done"

\* stop: silence now; the request under way is aborted
StopPlayer(r) ==
    [r EXCEPT !.ducked = FALSE, !.aborted = r.pumping, !.segments = <<>>, !.play = <<>>]

\* pump's await is rejected with AbortError once the handler has returned: it
\* breaks off, whatever was queued since
PumpBreaks(r) ==
    IF r.aborted THEN [r EXCEPT !.pumping = FALSE, !.aborted = FALSE] ELSE r

\* Segments whose sound has not been heard to the end
Unheard(r) ==
    {i \in DOMAIN r.segments :
        \/ r.segments[i].st # "done"
        \/ \E j \in DOMAIN r.play : r.play[j].s = r.segments[i].s}

\* spokenChars: the sentence the play head is in
SpokenAt(r) ==
    IF r.segments = <<>> THEN 0
    ELSE IF Unheard(r) # {} THEN r.segments[Min(Unheard(r))].s
    ELSE r.segments[Len(r.segments)].s + 1

-----------------------------------------------------------------------------
(***************************************************************************)
(* The answer, sentence by sentence.                                       *)
(***************************************************************************)

\* nextSentences: the complete sentences after from, and the unfinished one
\* once the answer is final
nextSentences(from, final) ==
    LET last == IF final THEN chat'.len ELSE chat'.len - 1
    IN [i \in 1..(IF last > from THEN last - from ELSE 0) |-> from + i]

\* pump: takes sentences off the queue until one is being fetched
Pump(r) ==
    IF r.pumping \/ ~r.open \/ r.queue = <<>> THEN r
    ELSE IF ~r.speakerOn \/ ~r.voiceOk
    THEN [r EXCEPT !.given = @ \cup ToSet(r.queue), !.queue = <<>>]
    ELSE [r EXCEPT !.pumping = TRUE, !.queue = Tail(@), !.given = @ \cup {Head(r.queue)},
                   !.segments = Append(@, Segment(Head(r.queue)))]

\* What is new in the answer goes to the queue
Queued(r, final) ==
    LET new == nextSentences(r.cut, final)
    IN IF new = <<>> THEN r
       ELSE Pump([r EXCEPT !.cut = new[Len(new)], !.queue = @ \o new])

\* The effect on [messages, streaming]: an awaited answer is taken up, then
\* its complete sentences are queued unless it is paused or an error
NewText(r) ==
    LET mine == IF r.awaiting
                THEN [StopPlayer(r) EXCEPT !.awaiting = FALSE, !.index = chat'.n, !.cut = 0,
                                           !.queue = <<>>, !.given = {}, !.paused = FALSE]
                ELSE r
    IN IF mine.index = 0 \/ mine.paused \/ chat'.isError THEN mine
       ELSE Queued(mine, ~chat'.streaming \/ mine.index # chat'.n)

\* interrupt: the answer is cut for good (onInterrupt is its caller's step)
Interrupt(r) == [StopPlayer(r) EXCEPT !.queue = <<>>, !.paused = FALSE, !.index = 0]

\* Mutant: the answer is resumed from its beginning
PauseVoiceForgets(r) ==
    IF r.index = 0 \/ r.paused THEN r
    ELSE [StopPlayer(r) EXCEPT !.resumeAt = 0, !.paused = TRUE, !.queue = <<>>]

\* pauseVoice: the sentence being said is where it will resume
PauseVoice(r) ==
    LET before == {s \in r.given : s <= (IF SpokenAt(r) = 0 THEN 1 ELSE SpokenAt(r))}
    IN IF r.index = 0 \/ r.paused THEN r
       ELSE [StopPlayer(r) EXCEPT
               !.resumeAt = IF before = {} THEN 0 ELSE Max(before) - 1,
               !.paused = TRUE, !.queue = <<>>]

Resumes(r) == r.paused /\ r.index # 0

\* resumeVoice: the answer goes on from where its voice stopped
ResumeVoice(r) ==
    LET back == [r EXCEPT !.paused = FALSE, !.cut = r.resumeAt, !.given = {}]
    IN IF ~Resumes(r) THEN [r EXCEPT !.paused = FALSE]
       ELSE IF chat'.isError THEN back
       ELSE Queued(back, ~chat'.streaming \/ r.index # chat'.n)

-----------------------------------------------------------------------------
(***************************************************************************)
(* The microphone.  Its callbacks are set when it has been opened.         *)
(***************************************************************************)

\* MicListener.open answers: the callbacks are set and the mode listens
MicOpens ==
    /\ voice.open /\ voice.phase = "preparing"
    /\ voice' = [voice EXCEPT !.phase = "listening"]
    /\ UNCHANGED <<mic, scripts, chat>>

\* Loud for START_MS: an utterance begins
SpeechStart ==
    /\ voice.open /\ voice.phase # "preparing"
    /\ mic.utt = "none" /\ ~mic.muted /\ mic.sounds < MaxUtterances
    /\ mic' = [mic EXCEPT !.utt = "started", !.sounds = @ + 1]
    /\ voice' = IF voice.phase \in {"thinking", "speaking"}
                THEN [voice EXCEPT !.barge = TRUE, !.ducked = TRUE]
                ELSE [voice EXCEPT !.phase = "hearing"]
    /\ UNCHANGED <<scripts, chat>>

\* It lasted CONFIRM_MS: over the assistant, it pauses the answer
SpeechConfirmed ==
    /\ voice.open /\ mic.utt = "started" /\ ~mic.muted
    /\ mic' = [mic EXCEPT !.utt = "confirmed"]
    /\ voice' = IF voice.barge
                THEN [PumpBreaks(PauseVoice(voice)) EXCEPT !.barge = FALSE, !.phase = "hearing"]
                ELSE voice
    /\ UNCHANGED <<scripts, chat>>

\* END_SILENCE_MS of quiet, or MAX_UTTERANCE_MS: a blip over the assistant is
\* undone, anything else is transcribed
SpeechEnd ==
    /\ voice.open /\ mic.utt # "none" /\ ~mic.muted
    /\ mic' = [mic EXCEPT !.utt = "none"]
    /\ IF voice.barge /\ mic.utt = "started"
       THEN /\ voice' = [voice EXCEPT !.barge = FALSE, !.ducked = FALSE]
            /\ UNCHANGED scripts
       ELSE /\ voice' = [voice EXCEPT !.phase = "thinking"]
            /\ scripts' = [scripts EXCEPT ![mic.sounds] = "asked"]
    /\ UNCHANGED chat

\* toggleMic: a muted microphone drops the utterance without a callback
toggleMic ==
    /\ voice.open
    /\ mic' = [mic EXCEPT !.muted = ~@, !.utt = IF mic.muted THEN @ ELSE "none"]
    /\ voice' = IF ~mic.muted /\ voice.phase = "hearing"
                THEN [voice EXCEPT !.phase = "listening"] ELSE voice
    /\ UNCHANGED <<scripts, chat>>

-----------------------------------------------------------------------------
(***************************************************************************)
(* The transcription.  While the service loads it is asked again, which is *)
(* the same wait; closing the mode does not stop it.                       *)
(***************************************************************************)

\* An error, or one of Whisper's inventions: the paused answer goes on
NotWords(u) ==
    /\ scripts[u] = "asked"
    /\ scripts' = [scripts EXCEPT ![u] = "none"]
    /\ UNCHANGED <<mic, chat>>
    /\ voice' = IF Resumes(voice) THEN ResumeVoice(voice)
                ELSE [ResumeVoice(voice) EXCEPT !.phase = "listening"]

\* Real words over a paused answer interrupt it and wait for the generation to
\* wind down; otherwise the turn goes out at once
Words(u) ==
    /\ scripts[u] = "asked"
    /\ scripts' = [scripts EXCEPT ![u] = IF voice.paused THEN "winding" ELSE "words"]
    /\ voice' = IF voice.paused THEN PumpBreaks(Interrupt(voice)) ELSE voice
    /\ chat' = IF voice.paused THEN [chat EXCEPT !.stopped = chat.streaming] ELSE chat
    /\ UNCHANGED mic

\* The generation ended, or 3 s went by
WoundDown(u) ==
    /\ scripts[u] = "winding"
    /\ scripts' = [scripts EXCEPT ![u] = "words"]
    /\ UNCHANGED <<voice, mic, chat>>

\* The turn is sent (sendVoice), or dropped when an answer is being written
SpokenTurn(u) ==
    /\ scripts[u] = "words"
    /\ scripts' = [scripts EXCEPT ![u] = "none"]
    /\ IF chat.streaming
       THEN /\ voice' = [voice EXCEPT !.phase = "listening"]
            /\ UNCHANGED chat
       ELSE /\ chat' = [n |-> chat.n + 1, len |-> 0, streaming |-> TRUE,
                        isError |-> FALSE, stopped |-> FALSE]
            /\ voice' = PumpBreaks(NewText([voice EXCEPT !.awaiting = TRUE]))
    /\ UNCHANGED mic

-----------------------------------------------------------------------------
(***************************************************************************)
(* The answer is written, and its voice arrives and is heard.              *)
(***************************************************************************)

\* A fragment: one more sentence is begun
AnswerGrows ==
    /\ chat.streaming /\ ~chat.stopped /\ chat.len < MaxSentences
    /\ chat' = [chat EXCEPT !.len = @ + 1]
    /\ voice' = PumpBreaks(NewText(voice))
    /\ UNCHANGED <<mic, scripts>>

\* The stream ends, by itself, on a stop, or with an error shown as a message
AnswerEnds(isError) ==
    /\ chat.streaming
    /\ chat' = [chat EXCEPT !.streaming = FALSE, !.isError = isError]
    /\ voice' = PumpBreaks(NewText(voice))
    /\ UNCHANGED <<mic, scripts>>

\* pump waits for a sentence
Asking == voice.pumping

LastSeg == Len(voice.segments)

\* Sound arrives and is scheduled after what is queued
SoundArrives ==
    /\ Asking /\ voice.segments[LastSeg].st = "asked"
    /\ voice' = [voice EXCEPT !.segments[LastSeg].st = "arriving",
                              !.play = Append(@, Sound(voice.index, voice.segments[LastSeg].s))]
    /\ UNCHANGED <<mic, scripts, chat>>

\* All of it has arrived: pump goes on
SoundComplete ==
    /\ Asking /\ voice.segments[LastSeg].st = "arriving"
    /\ voice' = Pump([voice EXCEPT !.segments[LastSeg].st = "done", !.failures = 0,
                                   !.pumping = FALSE])
    /\ UNCHANGED <<mic, scripts, chat>>

\* A sentence failed: it is skipped, and after three the voice is given up
Failed(r) ==
    LET n == r.failures + 1
    IN Pump([r EXCEPT !.failures = n, !.voiceOk = @ /\ n < MaxVoiceFailures, !.pumping = FALSE])

\* The voice answers with an error: the segment is closed
SoundRefused ==
    /\ Asking /\ voice.segments[LastSeg].st = "asked" /\ voice.failures < MaxVoiceFailures
    /\ voice' = Failed([voice EXCEPT !.segments[LastSeg].st = "done"])
    /\ UNCHANGED <<mic, scripts, chat>>

\* The request fails, or breaks off: the segment is left as it was
SoundLost ==
    /\ Asking /\ voice.segments[LastSeg].st # "done" /\ voice.failures < MaxVoiceFailures
    /\ voice' = Failed([voice EXCEPT !.marred = TRUE])
    /\ UNCHANGED <<mic, scripts, chat>>

\* A sentence has been played to its end
Hear ==
    /\ voice.play # <<>>
    /\ Len(voice.play) > 1 \/ ~voice.pumping \/ voice.segments[LastSeg].st # "arriving"
    /\ voice' = [voice EXCEPT !.play = Tail(@), !.heard = Head(voice.play)]
    /\ UNCHANGED <<mic, scripts, chat>>

\* The animation loop: the phase follows the sound, and the turn ends
Tick ==
    /\ voice.open /\ voice.index # 0 /\ ~voice.paused
    /\ LET playing == ~Idle(voice)
           done == ~chat.streaming /\ voice.queue = <<>> /\ ~voice.pumping /\ ~playing
       IN \/ /\ playing /\ voice.phase = "thinking"
             /\ voice' = [voice EXCEPT !.phase = "speaking"]
          \/ /\ done /\ voice.phase \in {"speaking", "thinking"}
             /\ voice' = [voice EXCEPT !.index = 0, !.phase = "listening"]
    /\ UNCHANGED <<mic, scripts, chat>>

\* toggleSpeaker: the next sentences are shown only
toggleSpeaker ==
    /\ voice.open
    /\ voice' = [voice EXCEPT !.speakerOn = ~@, !.marred = TRUE]
    /\ UNCHANGED <<mic, scripts, chat>>

\* The mode is closed: microphone and player with it
CloseVoice ==
    /\ voice.open
    /\ voice' = [PumpBreaks(StopPlayer(voice)) EXCEPT !.open = FALSE]
    /\ mic' = [mic EXCEPT !.utt = "none"]
    /\ UNCHANGED <<scripts, chat>>

VoiceNext ==
    \/ MicOpens \/ SpeechStart \/ SpeechConfirmed \/ SpeechEnd \/ toggleMic
    \/ \E u \in 1..MaxUtterances : NotWords(u) \/ Words(u) \/ WoundDown(u) \/ SpokenTurn(u)
    \/ AnswerGrows \/ AnswerEnds(TRUE) \/ AnswerEnds(FALSE)
    \/ SoundArrives \/ SoundComplete \/ SoundRefused \/ SoundLost
    \/ Hear \/ Tick \/ toggleSpeaker \/ CloseVoice

\* Requests are answered, sound plays, frames are drawn and a generation ends;
\* nobody has to speak
VoiceFairness ==
    /\ WF_voiceVars(MicOpens) /\ WF_voiceVars(SpeechEnd)
    /\ \A u \in 1..MaxUtterances :
          /\ WF_voiceVars(NotWords(u) \/ Words(u))
          /\ WF_voiceVars(WoundDown(u)) /\ WF_voiceVars(SpokenTurn(u))
    /\ WF_voiceVars(AnswerEnds(FALSE)) /\ WF_voiceVars(SoundArrives)
    /\ WF_voiceVars(SoundComplete)
    /\ WF_voiceVars(Hear) /\ WF_voiceVars(Tick)

VoiceSpec == VoiceInit /\ [][VoiceNext]_voiceVars /\ VoiceFairness

-----------------------------------------------------------------------------
VoiceTypeOK ==
    /\ voice.phase \in Phases
    /\ voice.index \in 0..MaxUtterances /\ voice.cut \in 0..MaxSentences
    /\ voice.queue \in Seq(1..MaxSentences) /\ voice.given \subseteq 1..MaxSentences
    /\ voice.resumeAt \in 0..MaxSentences
    /\ \A i \in DOMAIN voice.play : voice.play[i] \in [answer : 0..MaxUtterances, s : 1..MaxSentences]
    /\ scripts \in [1..MaxUtterances -> {"none", "asked", "winding", "words"}]
    /\ chat.n \in 0..MaxUtterances /\ chat.len \in 0..MaxSentences

\* SpokenAnswer: what the user hears is one answer after another, each in its
\* order; a sentence that was cut may be said again, one that failed may be
\* left out, none is said again once a later one was.  (A voice
\* switched off and a lost request make spokenChars forget where the play head
\* was: nothing is promised then.)
Spoken == INSTANCE SpokenAnswer
            WITH answer <- voice.heard.answer, upto <- voice.heard.s, off <- voice.marred
VoiceImplementsSpoken == Spoken!SpokenSpec

\* idle (voiceAudio.ts) is true when nothing is queued nor playing
IdleIsSilence ==
    (voice.queue = <<>> /\ ~voice.pumping /\ voice.play = <<>>) => Idle(voice)

\* A turn in which the user says nothing more ends, and the mode listens
\* again; a sentence whose request was lost is the exception (IdleIsSilence)
TurnEnds ==
    voice.phase \in {"thinking", "speaking"} ~>
        \/ voice.phase \in {"listening", "hearing"} \/ ~voice.open
        \/ ~IdleIsSilence
=============================================================================
