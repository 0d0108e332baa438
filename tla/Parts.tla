-------------------------------- MODULE Parts --------------------------------
(***************************************************************************)
(* Parts of the platform that run beside each other and share nothing: the *)
(* runner's decision service, its downloads, its log stream, the voice     *)
(* mode of the playground, which implements SpokenAnswer, and the relay of *)
(* a streamed answer.  A behaviour follows one part; the others rest (the  *)
(* voice mode closed, no request sent), where the fairness of their modules *)
(* asks for nothing.                                                       *)
(***************************************************************************)
EXTENDS Decisions, Download, LogStream, VoiceMode, Relay

VARIABLE part       \* the part that runs

partsVars == <<part, decisionVars, downloadVars, streamVars, voiceVars, relayVars>>

PartsInit ==
    /\ part \in {"decisions", "download", "stream", "voice", "relay"}
    /\ DecisionsInit /\ DownloadInit /\ LogStreamInit
    /\ VoiceStarts(part = "voice") /\ RelayStarts(part = "relay")

PartsNext ==
    \/ /\ part = "decisions" /\ DecisionsNext
       /\ UNCHANGED <<part, downloadVars, streamVars, voiceVars, relayVars>>
    \/ /\ part = "download" /\ DownloadNext
       /\ UNCHANGED <<part, decisionVars, streamVars, voiceVars, relayVars>>
    \/ /\ part = "stream" /\ LogStreamNext
       /\ UNCHANGED <<part, decisionVars, downloadVars, voiceVars, relayVars>>
    \/ /\ part = "voice" /\ VoiceNext
       /\ UNCHANGED <<part, decisionVars, downloadVars, streamVars, relayVars>>
    \/ /\ part = "relay" /\ RelayNext
       /\ UNCHANGED <<part, decisionVars, downloadVars, streamVars, voiceVars>>

PartsSpec ==
    /\ PartsInit /\ [][PartsNext]_partsVars
    /\ DecisionsFairness /\ VoiceFairness /\ RelayFairness

-----------------------------------------------------------------------------
\* What is recorded or shown is honest: a download slot that says "running" has
\* a download behind it; a reader of the log stream is never shown a line twice
\* or out of order; and an answer that ends without an error is whole.
RecordsAreHonest == SlotIsBacked /\ InOrder /\ NoSilentCut

\* Nobody waits for ever: a decision asked for is answered, whatever the engine
\* does, a streamed request ends in its page, whatever the portal does, and the
\* voice mode comes back to listening.
CallersAreAnswered == DecisionsAnswered /\ RequestEnds /\ TurnEnds

=============================================================================
