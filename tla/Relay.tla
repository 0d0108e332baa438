-------------------------------- MODULE Relay --------------------------------
(***************************************************************************)
(* One streamed request, from the portal to a page: the route handler of   *)
(* the frontend's server relays it (lib/sseProxy.ts, proxySSE) and the page *)
(* reads it (lib/api.ts, authFetch, readSSE and its three callers).        *)
(*                                                                         *)
(* The portal writes frames, each closed by a blank line; the network cuts *)
(* what it carries anywhere, so a frame is four symbols here.  The portal   *)
(* may refuse, never answer, stop writing, break off or finish.  Durations  *)
(* are not modelled: a timer may fire whenever what it waits for is absent. *)
(***************************************************************************)
EXTENDS Naturals, Sequences, SequencesExt

CONSTANT MaxFrames  \* frames the portal writes

ASSUME RelayAssumption == MaxFrames \in Nat \ {0}

VARIABLES up, hop, receiver

relayVars == <<up, hop, receiver>>

NL == <<0, "newline">>

\* What a frame's first line is: an event, a ":" comment, [DONE], or a line
\* that is not JSON.
FrameKinds == {"event", "comment", "done", "garbled"}

Symbols(n, kind) == <<<<n, kind, 1>>, <<n, kind, 2>>, NL, NL>>

\* What the portal would write: the frames, one after the other.
Script(kinds) ==
  [i \in 1 .. 4 * Len(kinds) |->
     LET n == (i + 3) \div 4 IN Symbols(n, kinds[n])[i - 4 * (n - 1)]]

\* The events among the first n frames.
EventFrames(kinds, n) ==
  LET events[i \in 0 .. Len(kinds)] ==
        IF i = 0 THEN <<>>
        ELSE IF kinds[i] = "event" THEN Append(events[i - 1], i) ELSE events[i - 1]
  IN events[n]

Stages == {"announced", "checked", "connecting", "streaming", "over"}
Ends == {"none", "complete", "error", "login", "aborted"}

RelayTypeOK ==
  /\ up.kinds \in BoundedSeq(FrameKinds, MaxFrames)
  /\ up.wrote \in 0..4 * Len(up.kinds)
  /\ up.state \in {"idle", "asked", "writing", "finished", "broken"}
  /\ hop.stage \in Stages /\ hop.status \in {0, 200, 401, 413, 500, 503}
  /\ hop.moved \in 0..up.wrote /\ hop.end \in {"none", "close", "error"}
  /\ receiver.taken \in 0..hop.moved /\ receiver.end \in Ends
  /\ receiver.got \in BoundedSeq(1..MaxFrames, MaxFrames)

\* A request that begins, or none at all.
RelayStarts(asks) ==
  /\ \E kinds \in IF asks THEN BoundedSeq(FrameKinds, MaxFrames) ELSE {<<>>} :
       up = [kinds |-> kinds, wrote |-> 0, state |-> IF asks THEN "idle" ELSE "broken"]
  /\ hop = [stage |-> IF asks THEN "announced" ELSE "over", status |-> 0, moved |-> 0,
            end |-> IF asks THEN "none" ELSE "error"]
  /\ receiver = [buffer |-> <<>>, taken |-> 0, got |-> <<>>,
               end |-> IF asks THEN "none" ELSE "aborted"]

RelayInit == RelayStarts(TRUE)

-----------------------------------------------------------------------------
(* The portal, as the relay meets it                                       *)

\* It answers with its headers: it streams, or it refuses.
Answers(status) ==
  /\ hop.stage = "connecting" /\ up.state = "asked"
  /\ up' = [up EXCEPT !.state = IF status = 200 THEN "writing" ELSE "finished"]
  /\ hop' = [hop EXCEPT !.stage = "streaming", !.status = status]
  /\ UNCHANGED receiver

Writes ==
  /\ up.state = "writing" /\ up.wrote < 4 * Len(up.kinds)
  /\ \E k \in up.wrote + 1 .. 4 * Len(up.kinds) : up' = [up EXCEPT !.wrote = k]
  /\ UNCHANGED <<hop, receiver>>

\* It ends its stream, which it does between two frames, or dies anywhere.
Finishes ==
  /\ up.state = "writing" /\ up.wrote % 4 = 0
  /\ up' = [up EXCEPT !.state = "finished"]
  /\ UNCHANGED <<hop, receiver>>

Breaks ==
  /\ up.state = "writing"
  /\ up' = [up EXCEPT !.state = "broken"]
  /\ UNCHANGED <<hop, receiver>>

-----------------------------------------------------------------------------
(* The relay                                                               *)

Refuse(status) == hop' = [hop EXCEPT !.stage = "over", !.status = status, !.end = "close"]

\* proxySSE: the announced length, then the session.  Only a definite 401 or
\* 403 ends the request here; a check that fails or times out lets it pass.
CheckLength ==
  /\ hop.stage = "announced"
  /\ \/ Refuse(413)
     \/ hop' = [hop EXCEPT !.stage = "checked"]
  /\ UNCHANGED <<up, receiver>>

CheckSession ==
  /\ hop.stage = "checked"
  /\ \/ Refuse(401)
     \/ Refuse(413)         \* the real size, once the body is read
     \/ hop' = [hop EXCEPT !.stage = "connecting"]
  /\ up' = IF hop'.stage = "connecting" THEN [up EXCEPT !.state = "asked"] ELSE up
  /\ UNCHANGED receiver

\* The connection is refused, or no header came within CONNECT_TIMEOUT_MS.
ConnectFails ==
  /\ hop.stage = "connecting"
  /\ Refuse(503)
  /\ up' = [up EXCEPT !.state = "broken"]
  /\ UNCHANGED receiver

\* withIdleTimeout, pull: a read answers with bytes, with the end, or fails.
Pull ==
  /\ hop.stage = "streaming" /\ hop.moved < up.wrote
  /\ hop' = [hop EXCEPT !.moved = up.wrote]
  /\ UNCHANGED <<up, receiver>>

PullEnd ==
  /\ hop.stage = "streaming" /\ hop.moved = up.wrote
  /\ up.state \in {"finished", "broken"}
  /\ hop' = [hop EXCEPT !.stage = "over",
                        !.end = IF up.state = "finished" THEN "close" ELSE "error"]
  /\ UNCHANGED <<up, receiver>>

\* IDLE_TIMEOUT_MS without a byte: the page's stream fails, the portal's is
\* cancelled.
IdleTimeout ==
  /\ hop.stage = "streaming" /\ hop.moved = up.wrote /\ up.state = "writing"
  /\ hop' = [hop EXCEPT !.stage = "over", !.end = "error"]
  /\ up' = [up EXCEPT !.state = "broken"]
  /\ UNCHANGED receiver

-----------------------------------------------------------------------------
(* The page                                                                *)

\* buffer.split("\n\n"): the parts before each blank line, and what is left.
SplitFrames(b) ==
  LET step(s, c) ==
        IF c = NL /\ s.rest # <<>> /\ Last(s.rest) = NL
        THEN [parts |-> Append(s.parts, Front(s.rest)), rest |-> <<>>]
        ELSE [s EXCEPT !.rest = Append(@, c)]
      split[i \in 0 .. Len(b)] ==
        IF i = 0 THEN [parts |-> <<>>, rest |-> <<>>] ELSE step(split[i - 1], b[i])
  IN split[Len(b)]

\* A part is handed on when its data line is whole JSON; [DONE], a comment and
\* what does not parse are passed over.
IsEvent(part) == Len(part) = 2 /\ part[1][2] = "event" /\ part[2] = <<part[1][1], "event", 2>>

Handed(parts) ==
  LET handed[i \in 0 .. Len(parts)] ==
        IF i = 0 THEN <<>>
        ELSE IF IsEvent(parts[i]) THEN Append(handed[i - 1], parts[i][1][1]) ELSE handed[i - 1]
  IN handed[Len(parts)]

\* Mutant: each chunk is read on its own, and a frame cut in two is lost.
ReceivedAlone(r, bytes) ==
  LET s == SplitFrames(bytes)
  IN [r EXCEPT !.buffer = s.rest, !.got = @ \o Handed(s.parts), !.taken = @ + Len(bytes)]

Received(r, bytes) ==
  LET s == SplitFrames(r.buffer \o bytes)
  IN [r EXCEPT !.buffer = s.rest, !.got = @ \o Handed(s.parts), !.taken = @ + Len(bytes)]

Reading == receiver.end = "none" /\ hop.status # 0

\* authFetch sends a 401 to the login page; readSSE throws on any other
\* refusal, whatever frame its body holds.
ReadStatus ==
  /\ Reading /\ hop.status # 200
  /\ receiver' = [receiver EXCEPT !.end = IF hop.status = 401 THEN "login" ELSE "error"]
  /\ UNCHANGED <<up, hop>>

ReadChunk ==
  /\ Reading /\ hop.status = 200 /\ receiver.taken < hop.moved
  /\ \E k \in receiver.taken + 1 .. hop.moved :
       receiver' = Received(receiver, SubSeq(Script(up.kinds), receiver.taken + 1, k))
  /\ UNCHANGED <<up, hop>>

\* done: what is left in the buffer is dropped.
ReadDone ==
  /\ Reading /\ hop.status = 200 /\ receiver.taken = hop.moved /\ hop.end = "close"
  /\ receiver' = [receiver EXCEPT !.end = "complete"]
  /\ UNCHANGED <<up, hop>>

\* A failed stream forgets what it had queued: the page may see the failure
\* before the last bytes.
ReadFails ==
  /\ Reading /\ hop.status = 200 /\ hop.end = "error"
  /\ receiver' = [receiver EXCEPT !.end = "error"]
  /\ UNCHANGED <<up, hop>>

\* The page aborts (stop, or left): the cancel goes up to the portal.
Abort ==
  /\ receiver.end = "none"
  /\ receiver' = [receiver EXCEPT !.end = "aborted"]
  /\ hop' = [hop EXCEPT !.stage = "over", !.end = IF @ = "none" THEN "error" ELSE @]
  /\ up' = [up EXCEPT !.state = "broken"]

RelayNext ==
  \/ \E status \in {200, 401, 500} : Answers(status)
  \/ Writes \/ Finishes \/ Breaks
  \/ CheckLength \/ CheckSession \/ ConnectFails \/ Pull \/ PullEnd \/ IdleTimeout
  \/ ReadStatus \/ ReadChunk \/ ReadDone \/ ReadFails \/ Abort

\* The relay's own steps and timers, and the page's read loop, go on; the
\* portal owes nothing.
RelayFairness ==
  /\ WF_relayVars(CheckLength \/ CheckSession \/ ConnectFails \/ Pull \/ PullEnd \/ IdleTimeout)
  /\ WF_relayVars(ReadStatus \/ ReadChunk \/ ReadDone \/ ReadFails)

RelaySpec == RelayInit /\ [][RelayNext]_relayVars /\ RelayFairness

-----------------------------------------------------------------------------
\* What the page hands on is, in order and once each, a beginning of the events
\* the portal wrote, however the bytes were cut, and all of them once the answer
\* is complete (readSSE).
StreamsFaithful ==
  LET events == EventFrames(up.kinds, up.wrote \div 4)
  IN  /\ IsPrefix(receiver.got, events)
      /\ receiver.end = "complete" => receiver.got = events

\* A request that ends without an error had its whole answer: the portal
\* finished by itself and every byte reached the page.  A portal that dies or
\* falls silent is an error, not a shorter answer (withIdleTimeout, readSSE).
NoSilentCut ==
  receiver.end = "complete" => up.state = "finished" /\ receiver.taken = up.wrote

\* Whatever the portal does, a request comes to an end in the page.
RequestEnds == <>(receiver.end # "none")

=============================================================================
