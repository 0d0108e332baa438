----------------------------- MODULE VoiceClone -----------------------------
(***************************************************************************)
(* The voice cloning page (voice/VoicePage.tsx): a sample of a voice,      *)
(* uploaded or recorded at the microphone, a text, and the generation.     *)
(*                                                                         *)
(* `booth' is the page.  `mics' are the recorders the browser holds open,  *)
(* each with the seconds it has heard; opening one and turning one into a  *)
(* file both take time (startRecording and Recorder.stop are awaited), so  *)
(* `starting' counts the first and `files' holds the second.               *)
(***************************************************************************)
EXTENDS Naturals, FiniteSets

CONSTANTS
  MinSeconds,   \* MIN_SECONDS, 6 in the code
  MaxSeconds,   \* MAX_SECONDS, 60 in the code
  MaxMics       \* recordings begun

ASSUME CloneAssumption ==
  MinSeconds \in Nat /\ MaxSeconds \in Nat /\ MinSeconds < MaxSeconds /\ MaxMics \in Nat

VARIABLES booth, mics, posted

cloneVars == <<booth, mics, posted>>

NoSample == [from |-> "none", seconds |-> 0]
FileSample == [from |-> "upload", seconds |-> 0]
MicSample(n) == [from |-> "mic", seconds |-> n]

-----------------------------------------------------------------------------
(* What the page offers                                                    *)

\* In record mode: a stop button while recording; otherwise a start button,
\* closed only while a voice is generated.  It stays open while the previous
\* recorder is being opened or turned into a file.
RecordOffered == booth.mode = "record" /\ ~booth.recording /\ ~booth.loading
StopRecordOffered == booth.mode = "record" /\ booth.recording

UploadOffered == booth.mode = "upload" /\ ~booth.loading

\* "Générer la voix".
CloneOffered ==
  /\ booth.reference # NoSample /\ ~booth.loading /\ ~booth.recording
  /\ booth.mode = "record" => booth.elapsed >= MinSeconds

\* The language preselected: the current one if the engine speaks it, else
\* that of the interface, else auto-detection, else English.
initialLang(known, cur, ui) ==
  IF cur \in known THEN cur
  ELSE IF ui \in known THEN ui
  ELSE IF "auto" \in known THEN "auto" ELSE "en"

Engines == {{"en"}, {"auto", "en", "fr"}}

-----------------------------------------------------------------------------
(* The page                                                                *)

CloneInit ==
  /\ booth = [open |-> TRUE, mode |-> "record", recording |-> FALSE, elapsed |-> 0,
              ref |-> 0, starting |-> 0, begun |-> 0, files |-> {},
              reference |-> NoSample, loading |-> FALSE, known |-> {}, language |-> "fr",
              raced |-> FALSE]
  /\ mics = [m \in {} |-> 0]
  /\ posted = {}

OnPage(b) == IF booth.open THEN b ELSE booth

\* GET /api/voice/info, on mount and on a change of the interface language.
InfoAnswers ==
  /\ \E known \in Engines, ui \in {"fr", "en"} :
       booth' = OnPage([booth EXCEPT !.known = known,
                          !.language = initialLang(known, booth.language, ui)])
  /\ booth.known = {}
  /\ UNCHANGED <<mics, posted>>

\* A recorder is being opened or turned into a file.
MicUnderWay == booth.starting > 0 \/ booth.files # {}

\* Mutant: the counter goes on from the previous recording.
BeginRecordingOn ==
  /\ booth.open /\ RecordOffered /\ booth.begun < MaxMics
  /\ booth' = [booth EXCEPT !.reference = NoSample, !.starting = @ + 1,
                            !.begun = @ + 1, !.raced = MicUnderWay]
  /\ UNCHANGED <<mics, posted>>

\* beginRecording(): the previous sample is dropped and the counter reset,
\* then the microphone is asked for.
BeginRecording ==
  /\ booth.open /\ RecordOffered /\ booth.begun < MaxMics
  /\ booth' = [booth EXCEPT !.reference = NoSample, !.elapsed = 0,
                            !.starting = @ + 1, !.begun = @ + 1,
                            !.raced = MicUnderWay]
  /\ UNCHANGED <<mics, posted>>

\* The recorder is there: recorderRef names it, whatever it named before.
BoothMicOpens ==
  /\ booth.starting > 0
  /\ LET m == Cardinality(DOMAIN mics) + 1
     IN  /\ mics' = [n \in DOMAIN mics \cup {m} |-> IF n = m THEN [on |-> TRUE, heard |-> 0] ELSE mics[n]]
         /\ booth' = IF booth.open
                     THEN [booth EXCEPT !.ref = m, !.recording = TRUE, !.starting = @ - 1]
                     ELSE [booth EXCEPT !.ref = m, !.starting = @ - 1]
  /\ UNCHANGED posted

BoothMicRefused ==
  /\ booth.starting > 0
  /\ booth' = [booth EXCEPT !.starting = @ - 1]
  /\ UNCHANGED <<mics, posted>>

\* stopRecording(): nothing without a recorder.
Stopping(b) ==
  IF b.ref = 0 THEN b
  ELSE [b EXCEPT !.ref = 0, !.recording = FALSE, !.files = @ \cup {b.ref}]

Silenced(ms, m) ==
  [n \in DOMAIN ms |-> IF n = m THEN [ms[n] EXCEPT !.on = FALSE] ELSE ms[n]]

StopRecording ==
  /\ booth.open /\ StopRecordOffered
  /\ booth' = Stopping(booth)
  /\ mics' = Silenced(mics, booth.ref)
  /\ UNCHANGED posted

\* A second: every open microphone hears it, the counter of the page counts
\* it while recording, and stops at MAX_SECONDS.
Second ==
  /\ \E m \in DOMAIN mics : mics[m].on /\ mics[m].heard < MaxSeconds
  /\ LET heard == [m \in DOMAIN mics |->
                     IF mics[m].on /\ mics[m].heard < MaxSeconds
                     THEN [mics[m] EXCEPT !.heard = @ + 1] ELSE mics[m]]
         next  == booth.elapsed + 1
     IN  IF ~(booth.open /\ booth.recording)
         THEN mics' = heard /\ UNCHANGED booth
         ELSE IF next >= MaxSeconds
         THEN /\ booth' = Stopping([booth EXCEPT !.elapsed = next])
              /\ mics' = Silenced(heard, booth.ref)
         ELSE booth' = [booth EXCEPT !.elapsed = next] /\ mics' = heard
  /\ UNCHANGED posted

\* The file of a stopped recorder becomes the sample.
FileReady(m) ==
  /\ booth' = [OnPage([booth EXCEPT !.reference = MicSample(mics[m].heard)])
                 EXCEPT !.files = @ \ {m}]
  /\ UNCHANGED <<mics, posted>>

FileFails(m) ==
  /\ booth' = [booth EXCEPT !.files = @ \ {m}]
  /\ UNCHANGED <<mics, posted>>

\* switchMode(): the recorder of recorderRef is cancelled; one that is still
\* being opened, or turned into a file, is not.
SwitchMode ==
  /\ booth.open
  /\ mics' = Silenced(mics, booth.ref)
  /\ booth' = [booth EXCEPT !.mode = IF @ = "record" THEN "upload" ELSE "record",
                 !.ref = 0, !.recording = FALSE, !.elapsed = 0, !.reference = NoSample,
                 !.raced = MicUnderWay]
  /\ UNCHANGED posted

PickFile ==
  /\ booth.open /\ UploadOffered
  /\ booth' = [booth EXCEPT !.reference = FileSample]
  /\ UNCHANGED <<mics, posted>>

\* generate()
Clone ==
  /\ booth.open /\ CloneOffered
  /\ booth' = [booth EXCEPT !.loading = TRUE]
  /\ posted' = {[sample |-> booth.reference, mode |-> booth.mode,
                             language |-> booth.language, known |-> booth.known,
                             raced |-> booth.raced]}
  /\ UNCHANGED mics

CloneAnswers ==
  /\ booth.loading
  /\ booth' = [booth EXCEPT !.loading = FALSE]
  /\ UNCHANGED <<mics, posted>>

\* Leaving the page cancels the recorder of recorderRef.
LeaveBooth ==
  /\ booth.open
  /\ booth' = [booth EXCEPT !.open = FALSE, !.ref = 0]
  /\ mics' = Silenced(mics, booth.ref)
  /\ UNCHANGED posted

CloneNext ==
  \/ InfoAnswers
  \/ BeginRecording
  \/ BoothMicOpens
  \/ BoothMicRefused
  \/ StopRecording
  \/ Second
  \/ \E m \in booth.files : FileReady(m)
  \/ \E m \in booth.files : FileFails(m)
  \/ SwitchMode
  \/ PickFile
  \/ Clone
  \/ CloneAnswers
  \/ LeaveBooth

CloneSpec == CloneInit /\ [][CloneNext]_cloneVars

-----------------------------------------------------------------------------
(* Properties                                                              *)

\* The page and its microphones hold what the code can put there.
CloneTypeOK ==
  /\ booth.elapsed \in 0..(MaxSeconds + MaxMics) /\ booth.starting \in 0..MaxMics
  /\ booth.ref \in 0..MaxMics /\ booth.files \subseteq DOMAIN mics
  /\ \A m \in DOMAIN mics : mics[m].heard \in 0..MaxSeconds

\* A recording that goes out is long enough for the engine, which rejects a
\* short one (MIN_SECONDS): the counter of the page speaks of the sample it
\* holds, through every restart, cutoff and change of mode; and the language
\* is one the engine speaks.  Excepted: a sample begun while another
\* recorder was being opened or turned into a file: the page then has one
\* counter for two recorders.
SampleLongEnough ==
  \A p \in posted :
    /\ (p.mode = "record" /\ ~p.raced) =>
         p.sample.from = "mic" /\ p.sample.seconds >= MinSeconds
    /\ p.known # {} => p.language \in p.known
=============================================================================
