---------------------------- MODULE AsrOnDemand -----------------------------
(***************************************************************************)
(* The dictation sidecar on demand: portal-rs/src/asr_ondemand.rs (clock,  *)
(* markers, pin, throttled start), asr_reaper.rs (the 30 s pass that       *)
(* follows the chat model, repairs a failed load, stops an idle sidecar),  *)
(* the /api/transcribe handler and the admin's start and stop buttons.     *)
(*                                                                         *)
(* The state both sides share is files (clock, markers, pin, stop lock):   *)
(* it survives the portal. The caches and the throttles do not. Every      *)
(* await is a point where the others run. A timer is a flag with an action *)
(* that ends it; timers that the code orders by their length are noted.    *)
(* External: the container, the chat model, the machine's memory.          *)
(***************************************************************************)
EXTENDS Naturals

CONSTANTS
    Users,          \* dictating users
    MaxEvents       \* bound: dictations, admin requests, changes of the chat
                    \* model or of the memory, deaths of the portal

ASSUME AsrAssumption == MaxEvents \in Nat

VARIABLES
    box,        \* the container: down, loading, loaded, failed (load failed)
    chat,       \* a chat model is running
    memOk,      \* at least 8 GiB are available
    clock,      \* `activity`: absent, recent, idle (>= 600 s)
    marker,     \* per user, its file in inflight/: none, fresh, stale (>= 300 s)
    pin,        \* `pinned` holds an epoch to come
    lock,       \* `stop-lock`: none, fresh, stale (> 60 s)
    started,    \* LAST_ASR_START is less than 60 s old
    repaired,   \* LAST_REPAIR is less than 180 s old
    upc,        \* per user, the place in /api/transcribe
    rpc,        \* the place of the reaper in its pass
    apc,        \* the place of the admin's request
    events      \* external events so far

boxVars == <<box, chat, memOk>>
fileVars == <<clock, marker, pin, lock>>
memVars == <<started, repaired>>
vars == <<box, chat, memOk, clock, marker, pin, lock,
          started, repaired, upc, rpc, apc, events>>

TypeOK ==
    /\ box \in {"down", "loading", "loaded", "failed"}
    /\ chat \in BOOLEAN /\ memOk \in BOOLEAN /\ pin \in BOOLEAN
    /\ started \in BOOLEAN /\ repaired \in BOOLEAN
    /\ clock \in {"absent", "recent", "idle"}
    /\ marker \in [Users -> {"none", "fresh", "stale"}]
    /\ lock \in {"none", "fresh", "stale"}
    /\ upc \in [Users -> {"idle", "info", "proc", "procFailed", "start",
                        "call", "calling"}]
    /\ rpc \in {"sleep", "follow", "autostart", "info", "repairStop",
                "repairStart", "decide", "lock", "recheck", "stopCheck",
                "stop", "unlock"}
    /\ apc \in {"idle", "pin", "unpin"}
    /\ events \in 0 .. MaxEvents

\* The portal starts beside whatever is already running, with the files that
\* an earlier one left.
Init ==
    /\ box \in {"down", "loaded", "failed"}
    /\ chat \in BOOLEAN /\ memOk \in BOOLEAN
    /\ clock = "absent" /\ pin = FALSE /\ lock \in {"none", "fresh"}
    /\ marker \in [Users -> {"none", "fresh"}]
    /\ started = FALSE /\ repaired = FALSE
    /\ upc = [u \in Users |-> "idle"]
    /\ rpc = "sleep" /\ apc = "idle" /\ events = 0

-----------------------------------------------------------------------------
(* External: the container and what surrounds it *)

Load ==
    /\ box = "loading"
    /\ box' = IF memOk THEN "loaded" ELSE "failed"
    /\ UNCHANGED <<chat, memOk, fileVars, memVars, upc, rpc, apc, events>>

Event == events < MaxEvents /\ events' = events + 1

ChatChanges ==
    /\ Event
    /\ chat' = ~chat
    /\ UNCHANGED <<box, memOk, fileVars, memVars, upc, rpc, apc>>

MemoryChanges ==
    /\ Event
    /\ memOk' = ~memOk
    /\ UNCHANGED <<box, chat, fileVars, memVars, upc, rpc, apc>>

\* sidecar_action: the order is carried out or not, and independently reported
\* as done or not (the runner answers 200 when docker fails; the portal's 30 s
\* may end before docker's 60 s).
StartBox == box' \in {box, IF box = "down" THEN "loading" ELSE box}
StopBox == box' \in {box, "down"}

-----------------------------------------------------------------------------
(* Timers *)

\* A request lasts less than 600 s: no clock runs out during one.
ClockIdle ==
    /\ clock = "recent" /\ \A u \in Users : upc[u] = "idle"
    /\ clock' = "idle"
    /\ UNCHANGED <<boxVars, marker, pin, lock, memVars, upc, rpc, apc, events>>

\* A call times out after 180 s, before its marker is 300 s old.
MarkerStale(u) ==
    /\ marker[u] = "fresh" /\ upc[u] # "calling"
    /\ marker' = [marker EXCEPT ![u] = "stale"]
    /\ UNCHANGED <<boxVars, clock, pin, lock, memVars, upc, rpc, apc, events>>

PinEnds ==
    /\ pin /\ pin' = FALSE
    /\ UNCHANGED <<boxVars, clock, marker, lock, memVars, upc, rpc, apc, events>>

LockStale ==
    /\ lock = "fresh" /\ lock' = "stale"
    /\ UNCHANGED <<boxVars, clock, marker, pin, memVars, upc, rpc, apc, events>>

StartThrottleEnds ==
    /\ started /\ started' = FALSE
    /\ UNCHANGED <<boxVars, fileVars, repaired,
                   upc, rpc, apc, events>>

RepairThrottleEnds ==
    /\ repaired /\ repaired' = FALSE
    /\ UNCHANGED <<boxVars, fileVars, started,
                   upc, rpc, apc, events>>

-----------------------------------------------------------------------------
(* What the handlers read *)

\* proc_status, cached 5 s: "running", "stopped" (or unknown: the code treats
\* both alike), "unreachable". A cached answer may be of another moment and a
\* failing docker or runner hides the container, so the handlers meet any answer.
Statuses == {"running", "stopped", "unreachable"}
TrueStatus == IF box = "down" THEN "stopped" ELSE "running"

\* asr_info, cached 10 s: the model is loaded, its load failed, or nothing was
\* heard in 0.3 s (a busy sidecar is silent too).
Infos == {"loaded", "silent", "failed"}
TrueInfo == IF box \in {"loaded", "failed"} THEN box ELSE "silent"

\* calls_in_flight: the fresh markers count, the stale ones are removed.
InFlight == {u \in Users : marker[u] = "fresh"}
SweepMarkers ==
    marker' = [u \in Users |-> IF marker[u] = "stale" THEN "none" ELSE marker[u]]

\* gate
Gate(chatRunning) ==
    IF InFlight # {} \/ pin \/ chatRunning THEN "keep"
    ELSE CASE clock = "absent" -> "arm"
           [] clock = "idle" -> "stop"
           [] OTHER -> "keep"

-----------------------------------------------------------------------------
(* /api/transcribe *)

UserGoto(u, l) == upc' = [upc EXCEPT ![u] = l]

Dictate(u) ==
    /\ Event
    /\ upc[u] = "idle"
    /\ clock' = "recent"
    /\ UserGoto(u, "info")
    /\ UNCHANGED <<boxVars, marker, pin, lock, memVars, rpc, apc>>

DictateInfo(u, info) ==
    /\ upc[u] = "info"
    /\ UserGoto(u, CASE info = "loaded" -> "call"
                     [] info = "failed" -> "procFailed"
                     [] OTHER -> "proc")
    /\ UNCHANGED <<boxVars, fileVars, memVars, rpc, apc, events>>

\* Running: "starting", but for a failed load with memory back (the sidecar
\* retries on the call). Stopped: a start, unless the guard refuses.
\* Unreachable: the call is tried.
DictateProc(u, st) ==
    /\ upc[u] \in {"proc", "procFailed"}
    /\ UserGoto(u, CASE st = "unreachable" -> "call"
                     [] st = "running" /\ upc[u] = "procFailed" /\ memOk -> "call"
                     [] st = "stopped" /\ memOk -> "start"
                     [] OTHER -> "idle")
    /\ UNCHANGED <<boxVars, fileVars, memVars, rpc, apc, events>>

\* autostart, throttled after a success
AutoStart ==
    IF started THEN UNCHANGED <<box, started>>
    ELSE StartBox /\ started' \in BOOLEAN

DictateStart(u) ==
    /\ upc[u] = "start"
    /\ AutoStart
    /\ UserGoto(u, "idle")
    /\ UNCHANGED <<chat, memOk, fileVars, repaired,
                   rpc, apc, events>>

CallStart(u) ==
    /\ upc[u] = "call"
    /\ marker' = [marker EXCEPT ![u] = "fresh"]
    /\ UserGoto(u, "calling")
    /\ UNCHANGED <<boxVars, clock, pin, lock, memVars, rpc, apc, events>>

\* Answered, refused, timed out or dropped: InFlight::drop runs. The sidecar
\* has retried a failed load (external).
CallEnd(u) ==
    /\ upc[u] = "calling"
    /\ box' \in {box, IF box = "failed" /\ memOk THEN "loaded" ELSE box}
    /\ marker' = [marker EXCEPT ![u] = "none"]
    /\ clock' = "recent"
    /\ UserGoto(u, "idle")
    /\ UNCHANGED <<chat, memOk, pin, lock, memVars, rpc, apc, events>>

-----------------------------------------------------------------------------
(* The admin's buttons: the action, then the pin *)

AdminStart ==
    /\ Event
    /\ apc = "idle" /\ memOk
    /\ StartBox
    /\ apc' \in {"pin", "idle"}
    /\ UNCHANGED <<chat, memOk, fileVars, memVars, upc, rpc>>

AdminStop ==
    /\ Event
    /\ apc = "idle"
    /\ StopBox
    /\ apc' \in {"unpin", "idle"}
    /\ UNCHANGED <<chat, memOk, fileVars, memVars, upc, rpc>>

AdminPin ==
    /\ apc # "idle"
    /\ pin' = (apc = "pin")
    /\ apc' = "idle"
    /\ UNCHANGED <<boxVars, clock, marker, lock, memVars, upc, rpc, events>>

-----------------------------------------------------------------------------
(* asr_reaper::pass *)

\* A runner that does not answer in 3 s counts as no chat model.
ReaperWake ==
    /\ rpc = "sleep"
    /\ rpc' \in {"decide", IF chat THEN "follow" ELSE "decide"}
    /\ UNCHANGED <<boxVars, fileVars, memVars, upc, apc, events>>

ReaperFollow(st) ==
    /\ rpc = "follow"
    /\ rpc' = IF st = "running" THEN "info" ELSE "autostart"
    /\ UNCHANGED <<boxVars, fileVars, memVars, upc, apc, events>>

ReaperAutoStart ==
    /\ rpc = "autostart"
    /\ AutoStart
    /\ rpc' = "sleep"
    /\ UNCHANGED <<chat, memOk, fileVars, repaired,
                   upc, apc, events>>

\* Mutant: LAST_REPAIR is not set.
ReaperInfoUnthrottled(info) ==
    /\ rpc = "info"
    /\ rpc' = IF info # "loaded" /\ memOk /\ ~repaired
              THEN "repairStop" ELSE "sleep"
    /\ UNCHANGED <<boxVars, fileVars, memVars, upc, apc, events>>

\* needs_repair, and its throttle
ReaperInfo(info) ==
    /\ rpc = "info"
    /\ IF info # "loaded" /\ memOk /\ ~repaired
       THEN rpc' = "repairStop" /\ repaired' = TRUE
       ELSE rpc' = "sleep" /\ UNCHANGED repaired
    /\ UNCHANGED <<boxVars, fileVars, started, upc, apc, events>>

ReaperRepairStop ==
    /\ rpc = "repairStop"
    /\ StopBox
    /\ rpc' = "repairStart"
    /\ UNCHANGED <<chat, memOk, fileVars, memVars, upc, apc, events>>

ReaperRepairStart ==
    /\ rpc = "repairStart"
    /\ StartBox
    /\ clock' = "recent"
    /\ rpc' = "sleep"
    /\ UNCHANGED <<chat, memOk, marker, pin, lock, memVars, upc, apc, events>>

\* decide, before the lock and again under it
Decide(from, to, otherwise) ==
    /\ rpc = from
    /\ SweepMarkers
    /\ rpc' = IF Gate(FALSE) = "stop" THEN to ELSE otherwise
    /\ clock' = IF Gate(FALSE) = "arm" THEN "recent" ELSE clock
    /\ UNCHANGED <<boxVars, pin, lock, memVars, upc, apc, events>>

ReaperDecide == Decide("decide", "lock", "sleep")

\* Mutant: the gate is not read again under the lock.
ReaperRecheckSkipped ==
    /\ rpc = "recheck"
    /\ rpc' = "stopCheck"
    /\ UNCHANGED <<boxVars, fileVars, memVars, upc, apc, events>>

ReaperRecheck == Decide("recheck", "stopCheck", "unlock")

\* Mutant: a lock left by a dead portal is respected for ever.
ReaperLockForever ==
    /\ rpc = "lock"
    /\ IF lock = "none"
       THEN lock' = "fresh" /\ rpc' = "recheck"
       ELSE UNCHANGED lock /\ rpc' = "sleep"
    /\ UNCHANGED <<boxVars, clock, marker, pin, memVars, upc, apc, events>>

\* create_new; an abandoned lock is removed for the next pass
ReaperLock ==
    /\ rpc = "lock"
    /\ IF lock = "none"
       THEN lock' = "fresh" /\ rpc' = "recheck"
       ELSE /\ lock' = IF lock = "stale" THEN "none" ELSE lock
            /\ rpc' = "sleep"
    /\ UNCHANGED <<boxVars, clock, marker, pin, memVars, upc, apc, events>>

ReaperStopCheck(st) ==
    /\ rpc = "stopCheck"
    /\ IF st = "running"
       THEN rpc' = "stop" /\ UNCHANGED clock
       ELSE rpc' = "unlock" /\ clock' = "recent"
    /\ UNCHANGED <<boxVars, marker, pin, lock, memVars, upc, apc, events>>

ReaperStop ==
    /\ rpc = "stop"
    /\ StopBox
    /\ clock' = "recent"
    /\ rpc' = "unlock"
    /\ UNCHANGED <<chat, memOk, marker, pin, lock, memVars, upc, apc, events>>

ReaperUnlock ==
    /\ rpc = "unlock"
    /\ lock' = "none"
    /\ rpc' = "sleep"
    /\ UNCHANGED <<boxVars, clock, marker, pin, memVars, upc, apc, events>>

-----------------------------------------------------------------------------

\* The portal dies and restarts: the files stay, with the markers of its calls.
PortalCrash ==
    /\ Event
    /\ started' = FALSE /\ repaired' = FALSE
    /\ upc' = [u \in Users |-> "idle"]
    /\ rpc' = "sleep" /\ apc' = "idle"
    /\ UNCHANGED <<boxVars, fileVars>>

Reaper ==
    \/ ReaperWake \/ ReaperAutoStart \/ ReaperRepairStop \/ ReaperRepairStart
    \/ ReaperDecide \/ ReaperLock \/ ReaperRecheck \/ ReaperStop \/ ReaperUnlock
    \/ \E st \in Statuses : ReaperFollow(st) \/ ReaperStopCheck(st)
    \/ \E info \in Infos : ReaperInfo(info)

Transcribe(u) ==
    \/ \E info \in Infos : DictateInfo(u, info)
    \/ \E st \in Statuses : DictateProc(u, st)
    \/ DictateStart(u) \/ CallStart(u) \/ CallEnd(u)

Admin == AdminStart \/ AdminStop

Environment == Load \/ ChatChanges \/ MemoryChanges

Timers ==
    \/ ClockIdle \/ PinEnds \/ LockStale
    \/ StartThrottleEnds \/ RepairThrottleEnds
    \/ \E u \in Users : MarkerStale(u)

Next ==
    \/ Environment \/ Timers \/ Reaper \/ Admin \/ AdminPin \/ PortalCrash
    \/ \E u \in Users : Dictate(u) \/ Transcribe(u)

Spec == Init /\ [][Next]_vars

\* Tasks run, timers end, a load ends. A start or a stop that is ordered again
\* and again is carried out once, a status asked again and again is answered.
Fairness ==
    /\ WF_vars(Reaper) /\ WF_vars(AdminPin) /\ WF_vars(Load)
    /\ \A u \in Users : WF_vars(Transcribe(u)) /\ WF_vars(MarkerStale(u))
    /\ WF_vars(ClockIdle) /\ WF_vars(PinEnds) /\ WF_vars(LockStale)
    /\ WF_vars(StartThrottleEnds) /\ WF_vars(RepairThrottleEnds)
    /\ SF_vars(ReaperFollow(TrueStatus)) /\ SF_vars(ReaperInfo(TrueInfo))
    /\ SF_vars(ReaperStopCheck(TrueStatus))
    /\ SF_vars(ReaperAutoStart /\ box' # "down")
    /\ SF_vars(ReaperRepairStart /\ box' # "down")
    /\ SF_vars(ReaperRepairStop /\ box' = "down")
    /\ SF_vars(ReaperStop /\ box' = "down")

LiveSpec == Spec /\ Fairness

-----------------------------------------------------------------------------
(* Properties *)

\* Left alone, an idle sidecar gives its memory back, whatever a dead portal
\* left behind: the markers of its calls, the stop lock.
IdleIsStopped == <>[]~chat => <>[](box = "down")

\* From some moment the runner tells the chat model's status in time.
RunnerAnswers == <>[][ReaperWake /\ chat => rpc' = "follow"]_vars

\* A load, with the two orders before it, takes less than the 180 s between two
\* repairs.
LoadsFitTheThrottle ==
    <>[][RepairThrottleEnds =>
           box # "loading" /\ rpc \notin {"repairStop", "repairStart"}]_vars

\* A served chat model brings dictation up, and up again after a failed load,
\* as long as the memory allows it, the runner answers and a load fits the
\* throttle of the repairs.
ChatBringsDictation ==
    <>[](chat /\ memOk) /\ RunnerAnswers /\ LoadsFitTheThrottle
        => []<>(box = "loaded")

\* The idle stop is decided under the lock on the calls that really run: a
\* transcription that began after the first look, or whose files a crash or the
\* sweep touched, keeps the sidecar.
GateSeesCalls ==
    [][ReaperRecheck /\ rpc' = "stopCheck"
           => \A u \in Users : upc[u] # "calling"]_vars

=============================================================================
