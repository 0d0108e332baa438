------------------------------- MODULE Runner -------------------------------
(***************************************************************************)
(* The chat service of the runner (vllm-runner-rs/src/service.rs and the   *)
(* /launch, /stop and /models/delete-files handlers of main.rs).           *)
(*                                                                         *)
(* Every request runs in a thread of its own (a client below) and the      *)
(* watchdog in another. `ops` serialises the process lifecycle; the state  *)
(* of the supervisor is under a lock of its own, held for one step at a    *)
(* time, so the steps of all the threads interleave. Two files survive the *)
(* daemon: last_model.json (`last`) and resume_failures (`fails`).         *)
(*                                                                         *)
(* A request refused by its own checks (400) changes nothing and is left   *)
(* out. Wall-clock waits are nondeterministic: a sleep ends at any time.   *)
(***************************************************************************)
EXTENDS Supervisor

CONSTANTS
    Clients,            \* request threads
    Watchdog,           \* the watchdog thread
    NoOne,              \* `ops` is free
    MaxRetries,         \* max_auto_retries (3 in the code)
    Requests,           \* the requests clients send: launch, stop, delete
    MaxRequests,        \* bound: requests in one behaviour
    MaxRestarts,        \* bound: deaths of the daemon
    KillCanTimeOut,     \* a kill can give up, 5 s after its SIGKILL
    SpawnCanFail,       \* fork/exec can fail
    DiskCanFail         \* a write to the state directory can fail

ASSUME RunnerAssumption ==
    /\ Watchdog \notin Clients
    /\ NoOne \notin Clients \cup {Watchdog}
    /\ MaxRetries \in Nat
    /\ MaxRequests \in Nat
    /\ MaxRestarts \in Nat
    /\ Requests \subseteq {"launch", "stop", "delete"}
    /\ KillCanTimeOut \in BOOLEAN
    /\ SpawnCanFail \in BOOLEAN
    /\ DiskCanFail \in BOOLEAN

Workers == Clients \cup {Watchdog}

VARIABLES
    pc,         \* where each worker is
    arg,        \* the model of its request, or the launch the watchdog loaded
    wfails,     \* the watchdog's copy of the failure counter
    ops,        \* App.ops
    last,       \* last_model.json, NoModel when absent or unreadable
    fails,      \* resume_failures
    files,      \* the models whose weights are on disk
    requests,   \* requests sent so far
    restarts,   \* deaths of the daemon so far
    resumes,    \* history: engines spawned by the watchdog since `fails` was 0
    forgotten   \* history: /stop has answered, and no /launch was in flight
                \* then or has been sent since

svcVars == <<pc, arg, wfails, ops, last, fails, files,
             requests, restarts, resumes, forgotten>>
vars == <<os, served, reader, watch, modelOf, nextGen,
          cur, status, model, runningSince,
          pc, arg, wfails, ops, last, fails, files,
          requests, restarts, resumes, forgotten>>

StartSteps == {"build", "killing", "mark", "spawn", "save"}
LaunchSteps == {"launchWait"} \cup StartSteps
StopSteps == {"stopWait", "stopCheck", "stopKilling"}
WatchdogSteps == {"load", "check", "memory", "resumeWait", "resume"}

\* The steps taken with `ops` held.
Locked == StartSteps \cup {"stopCheck", "stopKilling", "resume"}

TypeOK ==
    /\ SupTypeOK
    /\ pc \in [Workers -> {"idle", "deleteWait"} \cup LaunchSteps
                             \cup StopSteps \cup WatchdogSteps]
    /\ arg \in [Workers -> Models \cup {NoModel}]
    /\ wfails \in 0 .. MaxRetries
    /\ ops \in Workers \cup {NoOne}
    /\ last \in Models \cup {NoModel}
    /\ fails \in 0 .. MaxRetries
    /\ files \subseteq Models
    /\ requests \in 0 .. MaxRequests
    /\ restarts \in 0 .. MaxRestarts
    /\ resumes \in Nat
    /\ forgotten \in BOOLEAN

Init ==
    /\ SupInit
    /\ pc = [t \in Workers |-> "idle"]
    /\ arg = [t \in Workers |-> NoModel]
    /\ wfails = 0
    /\ ops = NoOne
    /\ last = NoModel
    /\ fails = 0
    /\ files = Models
    /\ requests = 0
    /\ restarts = 0
    /\ resumes = 0
    /\ forgotten = FALSE

-----------------------------------------------------------------------------
(* What fs::write leaves: the new content; when it fails, the old one or an *)
(* emptied file, which reads as `empty`.                                    *)
WriteOutcomes(new, old, empty) ==
    IF DiskCanFail THEN {new, old, empty} ELSE {new}

\* remove_file, its error ignored
ClearOutcomes(old) == IF DiskCanFail THEN {NoModel, old} ELSE {NoModel}

Goto(t, l) == pc' = [pc EXCEPT ![t] = l]

\* A worker leaves `ops` and its request ends.
Release(t) == ops' = NoOne /\ Goto(t, "idle")

Take(t, from, to) ==
    /\ pc[t] = from
    /\ ops = NoOne
    /\ ops' = t
    /\ Goto(t, to)

\* A new request reaches a free thread.
Request(t, kind, l) ==
    /\ kind \in Requests
    /\ t \in Clients
    /\ pc[t] = "idle"
    /\ requests < MaxRequests
    /\ requests' = requests + 1
    /\ Goto(t, l)

-----------------------------------------------------------------------------
(* /launch, and the start_process it shares with the watchdog *)

\* Mutant: the launch is saved when it is received.
LaunchRequestSaved(t, m) ==
    /\ Request(t, "launch", "launchWait")
    /\ arg' = [arg EXCEPT ![t] = m]
    /\ last' = m
    /\ forgotten' = FALSE
    /\ UNCHANGED <<supVars, wfails, ops, fails, files, restarts, resumes>>

LaunchRequest(t, m) ==
    /\ Request(t, "launch", "launchWait")
    /\ arg' = [arg EXCEPT ![t] = m]
    /\ forgotten' = FALSE
    /\ UNCHANGED <<supVars, wfails, ops, last, fails, files, restarts, resumes>>

LaunchLock(t) ==
    /\ Take(t, "launchWait", "build")
    /\ UNCHANGED <<supVars, arg, wfails, last, fails, files, requests,
                   restarts, resumes, forgotten>>

\* build_cmd refuses: the running model is left as it is.
BuildRefused(t) ==
    /\ pc[t] = "build"
    /\ Release(t)
    /\ UNCHANGED <<supVars, arg, wfails, last, fails, files, requests,
                   restarts, resumes, forgotten>>

\* The command is built: the previous engine, if alive, is sent SIGTERM.
KillPrevious(t) ==
    /\ pc[t] = "build"
    /\ IF Alive(cur)
       THEN Signal(cur) /\ Goto(t, "killing")
       ELSE UNCHANGED os /\ Goto(t, "mark")
    /\ UNCHANGED <<served, reader, watch, modelOf, nextGen, sharedVars,
                   arg, wfails, ops, last, fails, files, requests, restarts,
                   resumes, forgotten>>

\* Mutant: SIGTERM, and on without waiting.
PreviousGoneNoWait(t) ==
    /\ pc[t] = "killing"
    /\ Goto(t, "mark")
    /\ UNCHANGED <<supVars, arg, wfails, ops, last, fails, files, requests,
                   restarts, resumes, forgotten>>

\* wait_exit returns: the exit was recorded, or the wait gave up.
PreviousGone(t) ==
    /\ pc[t] = "killing"
    /\ KillCanTimeOut \/ ~Alive(cur)
    /\ Goto(t, "mark")
    /\ UNCHANGED <<supVars, arg, wfails, ops, last, fails, files, requests,
                   restarts, resumes, forgotten>>

\* Mutant: the reported model is not updated.
MarkStartingOldModel(t) ==
    /\ pc[t] = "mark"
    /\ status' = "starting"
    /\ Goto(t, "spawn")
    /\ UNCHANGED <<procVars, cur, model, runningSince, arg, wfails, ops, last,
                   fails, files, requests, restarts, resumes, forgotten>>

MarkStarting(t) ==
    /\ pc[t] = "mark"
    /\ model' = arg[t]
    /\ status' = "starting"
    /\ Goto(t, "spawn")
    /\ UNCHANGED <<procVars, cur, runningSince, arg, wfails, ops, last, fails,
                   files, requests, restarts, resumes, forgotten>>

SpawnEngine(t) ==
    /\ pc[t] = "spawn"
    /\ Spawn(arg[t])
    /\ resumes' = IF t = Watchdog THEN resumes + 1 ELSE resumes
    /\ Goto(t, "save")
    /\ UNCHANGED <<arg, wfails, ops, last, fails, files, requests, restarts,
                   forgotten>>

\* An error of spawn is returned as it is: the state keeps "starting".
SpawnFails(t) ==
    /\ SpawnCanFail
    /\ pc[t] = "spawn"
    /\ Release(t)
    /\ UNCHANGED <<supVars, arg, wfails, last, fails, files, requests,
                   restarts, resumes, forgotten>>

\* save_last_launch, a failure of which is only logged; the request ends.
SaveLastLaunch(t) ==
    /\ pc[t] = "save"
    /\ last' \in WriteOutcomes(arg[t], last, NoModel)
    /\ Release(t)
    /\ UNCHANGED <<supVars, arg, wfails, fails, files, requests, restarts,
                   resumes, forgotten>>

StartProcess(t) ==
    \/ BuildRefused(t) \/ KillPrevious(t) \/ PreviousGone(t)
    \/ MarkStarting(t) \/ SpawnEngine(t) \/ SpawnFails(t)
    \/ SaveLastLaunch(t)

-----------------------------------------------------------------------------
(* /stop *)

\* The launch is forgotten before `ops` is taken.
StopRequest(t) ==
    /\ Request(t, "stop", "stopWait")
    /\ last' \in ClearOutcomes(last)
    /\ UNCHANGED <<supVars, arg, wfails, ops, fails, files, restarts, resumes,
                   forgotten>>

StopLock(t) ==
    /\ Take(t, "stopWait", "stopCheck")
    /\ UNCHANGED <<supVars, arg, wfails, last, fails, files, requests,
                   restarts, resumes, forgotten>>

\* The answer is a promise only when no launch races it.
NoLaunchInFlight == \A u \in Clients : pc[u] \notin LaunchSteps

StopKill(t) ==
    /\ pc[t] = "stopCheck"
    /\ Alive(cur)
    /\ Signal(cur)
    /\ Goto(t, "stopKilling")
    /\ UNCHANGED <<served, reader, watch, modelOf, nextGen, sharedVars,
                   arg, wfails, ops, last, fails, files, requests, restarts,
                   resumes, forgotten>>

StopDone(t) ==
    /\ pc[t] = "stopKilling"
    /\ KillCanTimeOut \/ ~Alive(cur)
    /\ status' = "stopped"
    /\ model' = NoModel
    /\ forgotten' = NoLaunchInFlight
    /\ Release(t)
    /\ UNCHANGED <<procVars, cur, runningSince, arg, wfails, last, fails,
                   files, requests, restarts, resumes>>

\* Mutant: the early return forgets to unlock.
AlreadyStoppedLocked(t) ==
    /\ pc[t] = "stopCheck"
    /\ ~Alive(cur)
    /\ forgotten' = NoLaunchInFlight
    /\ Goto(t, "idle")
    /\ UNCHANGED <<supVars, arg, wfails, ops, last, fails, files, requests,
                   restarts, resumes>>

AlreadyStopped(t) ==
    /\ pc[t] = "stopCheck"
    /\ ~Alive(cur)
    /\ forgotten' = NoLaunchInFlight
    /\ Release(t)
    /\ UNCHANGED <<supVars, arg, wfails, last, fails, files, requests,
                   restarts, resumes>>

Stop(t) == StopLock(t) \/ StopKill(t) \/ StopDone(t) \/ AlreadyStopped(t)

-----------------------------------------------------------------------------
(* /models/delete-files: the check and the removal, under `ops` throughout *)

DeleteRequest(t, m) ==
    /\ Request(t, "delete", "deleteWait")
    /\ arg' = [arg EXCEPT ![t] = m]
    /\ UNCHANGED <<supVars, wfails, ops, last, fails, files, restarts, resumes,
                   forgotten>>

\* Mutant: the check and the removal without the lock.
DeleteFilesUnlocked(t) ==
    /\ pc[t] = "deleteWait"
    /\ files' \in {files, IF last = arg[t] THEN files ELSE files \ {arg[t]}}
    /\ Goto(t, "idle")
    /\ UNCHANGED <<supVars, arg, wfails, ops, last, fails, requests, restarts,
                   resumes, forgotten>>

\* A refusal (409), a removal that fails, or one that succeeds.
DeleteFiles(t) ==
    /\ pc[t] = "deleteWait"
    /\ ops = NoOne
    /\ files' \in {files, IF last = arg[t] THEN files ELSE files \ {arg[t]}}
    /\ Goto(t, "idle")
    /\ UNCHANGED <<supVars, arg, wfails, ops, last, fails, requests, restarts,
                   resumes, forgotten>>

-----------------------------------------------------------------------------
(* watchdog *)

\* A model that has held `stable_seconds` clears the failure counter.
WatchdogTick ==
    /\ pc[Watchdog] = "idle"
    /\ IF status = "running" /\ runningSince = "stable" /\ fails # 0
       THEN /\ fails' \in WriteOutcomes(0, fails, 0)
            /\ resumes' = 0
       ELSE UNCHANGED <<fails, resumes>>
    /\ Goto(Watchdog, "load")
    /\ UNCHANGED <<supVars, arg, wfails, ops, last, files, requests, restarts,
                   forgotten>>

WatchdogLoad ==
    /\ pc[Watchdog] = "load"
    /\ IF last = NoModel
       THEN UNCHANGED arg /\ Goto(Watchdog, "idle")
       ELSE /\ arg' = [arg EXCEPT ![Watchdog] = last]
            /\ Goto(Watchdog, "check")
    /\ UNCHANGED <<supVars, wfails, ops, last, fails, files, requests,
                   restarts, resumes, forgotten>>

\* Mutant: no cap on the attempts.
WatchdogCheckUncapped ==
    /\ pc[Watchdog] = "check"
    /\ IF Alive(cur) \/ status = "starting"
       THEN UNCHANGED wfails /\ Goto(Watchdog, "idle")
       ELSE wfails' = fails /\ Goto(Watchdog, "memory")
    /\ UNCHANGED <<supVars, arg, ops, last, fails, files, requests, restarts,
                   resumes, forgotten>>

\* Nothing to do while an engine lives or starts, nor after MaxRetries failures.
WatchdogCheck ==
    /\ pc[Watchdog] = "check"
    /\ IF Alive(cur) \/ status = "starting" \/ fails >= MaxRetries
       THEN UNCHANGED wfails /\ Goto(Watchdog, "idle")
       ELSE wfails' = fails /\ Goto(Watchdog, "memory")
    /\ UNCHANGED <<supVars, arg, ops, last, fails, files, requests, restarts,
                   resumes, forgotten>>

\* The saved arguments no longer validate: no further attempt.
WatchdogInvalid ==
    /\ pc[Watchdog] = "memory"
    /\ fails' \in WriteOutcomes(MaxRetries, fails, 0)
    /\ Goto(Watchdog, "idle")
    /\ UNCHANGED <<supVars, arg, wfails, ops, last, files, requests, restarts,
                   resumes, forgotten>>

\* launch_memory_ok, outside `ops`: the wait, then the floor.
WatchdogMemoryOk ==
    /\ pc[Watchdog] = "memory"
    /\ Goto(Watchdog, "resumeWait")
    /\ UNCHANGED <<supVars, arg, wfails, ops, last, fails, files, requests,
                   restarts, resumes, forgotten>>

\* Mutant: a refusal for lack of memory does not count as an attempt.
WatchdogMemoryLowUncounted ==
    /\ pc[Watchdog] = "memory"
    /\ Goto(Watchdog, "idle")
    /\ UNCHANGED <<supVars, arg, wfails, ops, last, fails, files, requests,
                   restarts, resumes, forgotten>>

WatchdogMemoryLow ==
    /\ pc[Watchdog] = "memory"
    /\ fails' \in WriteOutcomes(wfails + 1, fails, 0)
    /\ Goto(Watchdog, "idle")
    /\ UNCHANGED <<supVars, arg, wfails, ops, last, files, requests, restarts,
                   resumes, forgotten>>

WatchdogLock ==
    /\ Take(Watchdog, "resumeWait", "resume")
    /\ UNCHANGED <<supVars, arg, wfails, last, fails, files, requests,
                   restarts, resumes, forgotten>>

\* Mutant: the attempt is made without being counted on disk.
WatchdogResumeUncounted ==
    /\ pc[Watchdog] = "resume"
    /\ IF Alive(cur)
       THEN Release(Watchdog)
       ELSE Goto(Watchdog, "build") /\ UNCHANGED ops
    /\ UNCHANGED <<supVars, arg, wfails, last, fails, files, requests, restarts,
                   resumes, forgotten>>

\* The attempt is counted on disk before it is made.
WatchdogResume ==
    /\ pc[Watchdog] = "resume"
    /\ IF Alive(cur)
       THEN Release(Watchdog) /\ UNCHANGED fails
       ELSE /\ fails' \in WriteOutcomes(wfails + 1, fails, 0)
            /\ Goto(Watchdog, "build")
            /\ UNCHANGED ops
    /\ UNCHANGED <<supVars, arg, wfails, last, files, requests, restarts,
                   resumes, forgotten>>

WatchdogStep ==
    \/ WatchdogTick \/ WatchdogLoad \/ WatchdogCheck
    \/ WatchdogInvalid \/ WatchdogMemoryOk \/ WatchdogMemoryLow
    \/ WatchdogLock \/ WatchdogResume

-----------------------------------------------------------------------------
(* The daemon dies (crash, upgrade, reboot) and systemd starts it again: the *)
(* files are all that is left.                                               *)
Restart ==
    /\ restarts < MaxRestarts
    /\ restarts' = restarts + 1
    /\ SupReset
    /\ pc' = [t \in Workers |-> "idle"]
    /\ arg' = [t \in Workers |-> NoModel]
    /\ wfails' = 0
    /\ ops' = NoOne
    /\ UNCHANGED <<last, fails, files, requests, resumes, forgotten>>

Receive(t) ==
    \/ StopRequest(t)
    \/ \E m \in Models : LaunchRequest(t, m) \/ DeleteRequest(t, m)

\* The steps of a request once it was received.
Handle(t) == LaunchLock(t) \/ StartProcess(t) \/ Stop(t) \/ DeleteFiles(t)

\* The steps of the supervisor: its engines, its threads, its clock.
SupervisorStep ==
    /\ \/ \E g \in Gens : Engine(g) \/ Threads(g)
       \/ TimePasses
    /\ UNCHANGED svcVars

Next ==
    \/ SupervisorStep
    \/ \E t \in Clients : Receive(t)
    \/ \E t \in Workers : Handle(t)
    \/ WatchdogStep
    \/ Restart

Spec == Init /\ [][Next]_vars

-----------------------------------------------------------------------------
(* Fairness: the threads of the daemon are scheduled; a signalled engine    *)
(* ends (SIGKILL follows SIGTERM); a thread that waits for `ops` gets it if  *)
(* it is free again and again (its contender, the watchdog, sleeps 10 s      *)
(* between two uses). No request, crash, answer of the engine or lack of    *)
(* memory is forced.                                                        *)
Fairness ==
    /\ \A t \in Workers :
         /\ WF_vars(StartProcess(t) \/ StopKill(t) \/ StopDone(t)
                                    \/ AlreadyStopped(t))
         /\ SF_vars(LaunchLock(t) \/ StopLock(t) \/ DeleteFiles(t))
    /\ SF_vars(WatchdogLock)
    /\ WF_vars(WatchdogStep)
    /\ \A g \in Gens :
         /\ WF_vars(os[g] = "term" /\ EngineExit(g) /\ UNCHANGED svcVars)
         /\ WF_vars(ReadEof(g) /\ UNCHANGED svcVars)
         /\ WF_vars(RecordExit(g) /\ UNCHANGED svcVars)
         /\ WF_vars(HealthMark(g) /\ UNCHANGED svcVars)

LiveSpec == Spec /\ Fairness

-----------------------------------------------------------------------------
(* Safety *)

\* One engine at a time. start_process never has two engine processes, whoever
\* launches and whenever they crash, provided that a kill does not give up.
SingleEngine == \A g, h \in Gens : Exists(g) /\ Exists(h) => g = h

\* "running" is about the current launch: an answer or a startup line of an
\* earlier generation, or of a port still held by one, never marks a launch
\* whose own engine has not answered yet.
RunningMeansServed == status = "running" => cur \in Gens /\ served[cur]

\* The watchdog's attempts are capped across crashes of the models and of the
\* daemon: since the counter was last cleared it has spawned no more engines
\* than resume_failures says, and that is at most max_auto_retries.
ResumeBudget == resumes <= fails /\ fails <= MaxRetries

\* An engine left in place is the one a restart would resume: whenever no
\* operation is under way, last_model.json names the model being served.
ServedIsRemembered == ops = NoOne /\ Alive(cur) => last = modelOf[cur]

\* What /status reports while no operation is under way: a running model is the
\* one the engine was launched with.
ReportedModel == ops = NoOne /\ status = "running" => model = modelOf[cur]

\* The weights of a model are not deleted under the engine that serves it
\* ("model being served (or waiting to resume)").
NoDeleteWhileServed ==
    [][\A g \in Gens : Exists(g) /\ modelOf[g] \in files
                          => modelOf[g] \in files']_vars

\* A deliberate stop forgets the launch: once /stop has answered, and until
\* somebody launches again, there is nothing to resume.
StopForgets == forgotten => last = NoModel

\* resume_failures is cleared only after 600 s of uninterrupted running: never
\* for an engine whose exit the runner has already recorded.
ResetOnlyAfterRunning ==
    [][fails # 0 /\ fails' = 0 => cur \in Gens /\ reader[cur] # "done"]_vars

-----------------------------------------------------------------------------
(* Liveness, under LiveSpec *)

\* Every engine of the bound has been used: the model can start no more.
OutOfGens == nextGen > MaxGen

\* A model that is gone and is to be resumed comes back, unless it is stopped
\* or the attempts are used up.
CrashIsResumed ==
    last # NoModel /\ ~Alive(cur)
        ~> Alive(cur) \/ last = NoModel \/ fails >= MaxRetries \/ OutOfGens

\* Every request is answered: nobody waits for `ops`, or for a kill, for ever.
RequestsAnswered ==
    \A t \in Clients : pc[t] # "idle" ~> pc[t] = "idle" \/ OutOfGens

=============================================================================
