---------------------------- MODULE RunnerProofs ----------------------------
(***************************************************************************)
(* Theorems about Runner, for every number of clients, models, engines,    *)
(* requests, restarts and retries.                                         *)
(***************************************************************************)
EXTENDS Runner, TLAPS

\* The lifecycle lock: held exactly by the worker that is in a locked step.
LockInv == \A t \in Workers : pc[t] \in Locked <=> ops = t

\* Each kind of worker stays in its own code.
PlaceInv ==
    /\ pc[Watchdog] \in {"idle"} \cup WatchdogSteps \cup StartSteps
    /\ \A t \in Clients : pc[t] \notin WatchdogSteps

\* The failure counter: the watchdog's copy is below the cap where it is used,
\* and, when writes do not fail, is the counter itself; an attempt is on disk
\* before its engine exists.
CountInv ==
    /\ pc[Watchdog] \in {"memory", "resumeWait", "resume"}
           => wfails < MaxRetries
    /\ ~DiskCanFail =>
         /\ pc[Watchdog] \in {"memory", "resumeWait", "resume"}
                => wfails = fails
         /\ pc[Watchdog] \in {"build", "killing", "mark", "spawn"}
                => resumes < fails
         /\ resumes <= fails

\* Generations not used yet, and processes their reader has not seen the end of.
GenInv ==
    /\ cur < nextGen
    /\ \A g \in Gens :
         /\ g >= nextGen => os[g] = "none" /\ reader[g] = "none"
                              /\ watch[g] = "none"
         /\ Exists(g) => Alive(g)

\* When no kill gives up: only the current engine can be alive, none is when the
\* next one is about to be spawned, and every answer came from that engine.
EngineInv ==
    ~KillCanTimeOut =>
      /\ \A g \in Gens : Alive(g) => g = cur
      /\ \A t \in Workers : pc[t] \in {"mark", "spawn"} => ~Alive(cur)
      /\ \A g \in Gens : watch[g] = "answered" => served[g]
      /\ status = "running" => cur \in Gens /\ served[cur]

\* Without /stop, and when writes do not fail: the engine in place is the one on
\* disk, but for the worker that has spawned it and is about to save it.
RememberInv ==
    "stop" \notin Requests /\ ~DiskCanFail /\ ~KillCanTimeOut =>
      /\ \A t \in Workers : pc[t] \notin StopSteps
      /\ \A t \in Workers : pc[t] = "save" => arg[t] = modelOf[cur]
      /\ Alive(cur) /\ (\A t \in Workers : pc[t] # "save")
             => last = modelOf[cur]

IInv == TypeOK /\ LockInv /\ PlaceInv /\ CountInv /\ GenInv /\ EngineInv
            /\ RememberInv

-----------------------------------------------------------------------------
(* Proofs *)

\* Every step keeps the types; the counter's needs its bound.
LEMMA TypeStep == IInv /\ [Next]_vars => TypeOK'
<1> SUFFICES ASSUME IInv, [Next]_vars PROVE TypeOK'
  OBVIOUS
<1> USE RunnerAssumption, MaxGenAssumption, NoModelAssumption DEF IInv, TypeOK, SupTypeOK, CountInv, Gens, Workers, LaunchSteps, StartSteps, StopSteps, WatchdogSteps, vars, supVars, svcVars, procVars, sharedVars
<1>1. ASSUME NEW g \in Gens, UNCHANGED svcVars, EngineServes(g) PROVE TypeOK'
  BY <1>1 DEF EngineServes
<1>2. ASSUME NEW g \in Gens, UNCHANGED svcVars, EngineExit(g) PROVE TypeOK'
  BY <1>2 DEF EngineExit
<1>3. ASSUME NEW g \in Gens, UNCHANGED svcVars, ReadStartupLine(g) PROVE TypeOK'
  BY <1>3 DEF ReadStartupLine
<1>4. ASSUME NEW g \in Gens, UNCHANGED svcVars, ReadEof(g) PROVE TypeOK'
  BY <1>4 DEF ReadEof
<1>5. ASSUME NEW g \in Gens, UNCHANGED svcVars, RecordExit(g) PROVE TypeOK'
  BY <1>5 DEF RecordExit, ExitStatus
<1>6. ASSUME NEW g \in Gens, UNCHANGED svcVars, HealthProbe(g) PROVE TypeOK'
  BY <1>6 DEF HealthProbe, PortAnswers
<1>7. ASSUME NEW g \in Gens, UNCHANGED svcVars, HealthMark(g) PROVE TypeOK'
  BY <1>7 DEF HealthMark
<1>8. ASSUME NEW g \in Gens, UNCHANGED svcVars, HealthEnd(g) PROVE TypeOK'
  BY <1>8 DEF HealthEnd
<1>9. ASSUME NEW g \in Gens, UNCHANGED svcVars, MemoryGuard(g) PROVE TypeOK'
  BY <1>9 DEF MemoryGuard
<1>10. CASE TimePasses /\ UNCHANGED svcVars
  BY <1>10 DEF TimePasses
<1>11. ASSUME NEW t \in Clients, StopRequest(t) PROVE TypeOK'
  BY <1>11 DEF StopRequest, Request, Goto, ClearOutcomes
<1>12. ASSUME NEW t \in Clients, NEW m \in Models, LaunchRequest(t, m) PROVE TypeOK'
  <2>1. SupTypeOK'
    BY <1>12 DEF LaunchRequest, Request, Goto
  <2>2. pc' \in [Workers -> {"idle", "deleteWait"} \cup LaunchSteps
                           \cup StopSteps \cup WatchdogSteps]
    BY <1>12 DEF LaunchRequest, Request, Goto
  <2>3. arg' \in [Workers -> Models \cup {NoModel}]
    BY <1>12 DEF LaunchRequest, Request, Goto
  <2>4. forgotten' \in BOOLEAN
    BY <1>12 DEF LaunchRequest, Request, Goto
  <2>5. requests' \in 0 .. MaxRequests
    BY <1>12 DEF LaunchRequest, Request, Goto
  <2> QED
    BY <1>12, <2>1, <2>2, <2>3, <2>4, <2>5 DEF LaunchRequest, Request, Goto
<1>13. ASSUME NEW t \in Clients, NEW m \in Models, DeleteRequest(t, m) PROVE TypeOK'
  BY <1>13 DEF DeleteRequest, Request, Goto
<1>14. ASSUME NEW t \in Workers, LaunchLock(t) PROVE TypeOK'
  BY <1>14 DEF LaunchLock, Take, Goto
<1>15. ASSUME NEW t \in Workers, BuildRefused(t) PROVE TypeOK'
  BY <1>15 DEF BuildRefused, Release, Goto
<1>16. ASSUME NEW t \in Workers, KillPrevious(t) PROVE TypeOK'
  BY <1>16 DEF KillPrevious, Signal, Goto
<1>17. ASSUME NEW t \in Workers, PreviousGone(t) PROVE TypeOK'
  BY <1>17 DEF PreviousGone, Goto
<1>18. ASSUME NEW t \in Workers, MarkStarting(t) PROVE TypeOK'
  BY <1>18 DEF MarkStarting, Goto
<1>19. ASSUME NEW t \in Workers, SpawnEngine(t) PROVE TypeOK'
  BY <1>19 DEF SpawnEngine, Spawn, Goto
<1>20. ASSUME NEW t \in Workers, SpawnFails(t) PROVE TypeOK'
  BY <1>20 DEF SpawnFails, Release, Goto
<1>21. ASSUME NEW t \in Workers, SaveLastLaunch(t) PROVE TypeOK'
  BY <1>21 DEF SaveLastLaunch, Release, Goto, WriteOutcomes
<1>22. ASSUME NEW t \in Workers, StopLock(t) PROVE TypeOK'
  BY <1>22 DEF StopLock, Take, Goto
<1>23. ASSUME NEW t \in Workers, StopKill(t) PROVE TypeOK'
  BY <1>23, ZenonT(60) DEF StopKill, Signal, Goto
<1>24. ASSUME NEW t \in Workers, StopDone(t) PROVE TypeOK'
  BY <1>24 DEF StopDone, Release, Goto, NoLaunchInFlight
<1>25. ASSUME NEW t \in Workers, AlreadyStopped(t) PROVE TypeOK'
  BY <1>25 DEF AlreadyStopped, Release, Goto, NoLaunchInFlight
<1>26. ASSUME NEW t \in Workers, DeleteFiles(t) PROVE TypeOK'
  BY <1>26 DEF DeleteFiles, Goto
<1>27. CASE WatchdogTick
  BY <1>27 DEF WatchdogTick, Goto, WriteOutcomes
<1>28. CASE WatchdogLoad
  BY <1>28 DEF WatchdogLoad, Goto
<1>29. CASE WatchdogCheck
  BY <1>29 DEF WatchdogCheck, Goto
<1>30. CASE WatchdogInvalid
  BY <1>30 DEF WatchdogInvalid, Goto, WriteOutcomes
<1>31. CASE WatchdogMemoryOk
  BY <1>31 DEF WatchdogMemoryOk, Goto
<1>32. CASE WatchdogMemoryLow
  BY <1>32 DEF WatchdogMemoryLow, Goto, WriteOutcomes
<1>33. CASE WatchdogLock
  BY <1>33 DEF WatchdogLock, Take, Goto
<1>34. CASE WatchdogResume
  BY <1>34 DEF WatchdogResume, Release, Goto, WriteOutcomes
<1>35. CASE Restart
  BY <1>35 DEF Restart, SupReset
<1>36. CASE UNCHANGED vars
  BY <1>36
<1> QED
  BY <1>1, <1>2, <1>3, <1>4, <1>5, <1>6, <1>7, <1>8, <1>9, <1>10, <1>11, <1>12,
     <1>13, <1>14, <1>15, <1>16, <1>17, <1>18, <1>19, <1>20, <1>21, <1>22,
     <1>23, <1>24, <1>25, <1>26, <1>27, <1>28, <1>29, <1>30, <1>31, <1>32,
     <1>33, <1>34, <1>35, <1>36 DEF Next, SupervisorStep, Engine, Threads,
     Receive, Handle, StartProcess, Stop, WatchdogStep

\* Every step keeps the lock with the worker in a locked step.
LEMMA LockStep == IInv /\ [Next]_vars => LockInv'
<1> SUFFICES ASSUME IInv, [Next]_vars PROVE LockInv'
  OBVIOUS
<1> USE RunnerAssumption, MaxGenAssumption, NoModelAssumption DEF IInv, TypeOK, LockInv, Workers, Locked, StartSteps, vars, supVars, svcVars, procVars, sharedVars
<1>1. ASSUME NEW g \in Gens, UNCHANGED svcVars, EngineServes(g) PROVE LockInv'
  BY <1>1 DEF EngineServes
<1>2. ASSUME NEW g \in Gens, UNCHANGED svcVars, EngineExit(g) PROVE LockInv'
  BY <1>2 DEF EngineExit
<1>3. ASSUME NEW g \in Gens, UNCHANGED svcVars, ReadStartupLine(g) PROVE LockInv'
  BY <1>3 DEF ReadStartupLine
<1>4. ASSUME NEW g \in Gens, UNCHANGED svcVars, ReadEof(g) PROVE LockInv'
  BY <1>4 DEF ReadEof
<1>5. ASSUME NEW g \in Gens, UNCHANGED svcVars, RecordExit(g) PROVE LockInv'
  BY <1>5 DEF RecordExit, ExitStatus
<1>6. ASSUME NEW g \in Gens, UNCHANGED svcVars, HealthProbe(g) PROVE LockInv'
  BY <1>6 DEF HealthProbe, PortAnswers
<1>7. ASSUME NEW g \in Gens, UNCHANGED svcVars, HealthMark(g) PROVE LockInv'
  BY <1>7 DEF HealthMark
<1>8. ASSUME NEW g \in Gens, UNCHANGED svcVars, HealthEnd(g) PROVE LockInv'
  BY <1>8 DEF HealthEnd
<1>9. ASSUME NEW g \in Gens, UNCHANGED svcVars, MemoryGuard(g) PROVE LockInv'
  BY <1>9 DEF MemoryGuard
<1>10. CASE TimePasses /\ UNCHANGED svcVars
  BY <1>10 DEF TimePasses
<1>11. ASSUME NEW t \in Clients, StopRequest(t) PROVE LockInv'
  BY <1>11 DEF StopRequest, Request, Goto, ClearOutcomes
<1>12. ASSUME NEW t \in Clients, NEW m \in Models, LaunchRequest(t, m) PROVE LockInv'
  BY <1>12 DEF LaunchRequest, Request, Goto
<1>13. ASSUME NEW t \in Clients, NEW m \in Models, DeleteRequest(t, m) PROVE LockInv'
  BY <1>13 DEF DeleteRequest, Request, Goto
<1>14. ASSUME NEW t \in Workers, LaunchLock(t) PROVE LockInv'
  BY <1>14 DEF LaunchLock, Take, Goto
<1>15. ASSUME NEW t \in Workers, BuildRefused(t) PROVE LockInv'
  BY <1>15 DEF BuildRefused, Release, Goto
<1>16. ASSUME NEW t \in Workers, KillPrevious(t) PROVE LockInv'
  BY <1>16 DEF KillPrevious, Signal, Goto
<1>17. ASSUME NEW t \in Workers, PreviousGone(t) PROVE LockInv'
  BY <1>17 DEF PreviousGone, Goto
<1>18. ASSUME NEW t \in Workers, MarkStarting(t) PROVE LockInv'
  BY <1>18 DEF MarkStarting, Goto
<1>19. ASSUME NEW t \in Workers, SpawnEngine(t) PROVE LockInv'
  BY <1>19 DEF SpawnEngine, Spawn, Goto
<1>20. ASSUME NEW t \in Workers, SpawnFails(t) PROVE LockInv'
  BY <1>20 DEF SpawnFails, Release, Goto
<1>21. ASSUME NEW t \in Workers, SaveLastLaunch(t) PROVE LockInv'
  BY <1>21 DEF SaveLastLaunch, Release, Goto, WriteOutcomes
<1>22. ASSUME NEW t \in Workers, StopLock(t) PROVE LockInv'
  BY <1>22 DEF StopLock, Take, Goto
<1>23. ASSUME NEW t \in Workers, StopKill(t) PROVE LockInv'
  BY <1>23 DEF StopKill, Signal, Goto
<1>24. ASSUME NEW t \in Workers, StopDone(t) PROVE LockInv'
  BY <1>24 DEF StopDone, Release, Goto, NoLaunchInFlight
<1>25. ASSUME NEW t \in Workers, AlreadyStopped(t) PROVE LockInv'
  BY <1>25 DEF AlreadyStopped, Release, Goto, NoLaunchInFlight
<1>26. ASSUME NEW t \in Workers, DeleteFiles(t) PROVE LockInv'
  BY <1>26 DEF DeleteFiles, Goto
<1>27. CASE WatchdogTick
  BY <1>27 DEF WatchdogTick, Goto, WriteOutcomes
<1>28. CASE WatchdogLoad
  BY <1>28 DEF WatchdogLoad, Goto
<1>29. CASE WatchdogCheck
  BY <1>29 DEF WatchdogCheck, Goto
<1>30. CASE WatchdogInvalid
  BY <1>30 DEF WatchdogInvalid, Goto, WriteOutcomes
<1>31. CASE WatchdogMemoryOk
  BY <1>31 DEF WatchdogMemoryOk, Goto
<1>32. CASE WatchdogMemoryLow
  BY <1>32 DEF WatchdogMemoryLow, Goto, WriteOutcomes
<1>33. CASE WatchdogLock
  BY <1>33 DEF WatchdogLock, Take, Goto
<1>34. CASE WatchdogResume
  BY <1>34 DEF WatchdogResume, Release, Goto, WriteOutcomes
<1>35. CASE Restart
  BY <1>35 DEF Restart, SupReset
<1>36. CASE UNCHANGED vars
  BY <1>36
<1> QED
  BY <1>1, <1>2, <1>3, <1>4, <1>5, <1>6, <1>7, <1>8, <1>9, <1>10, <1>11, <1>12,
     <1>13, <1>14, <1>15, <1>16, <1>17, <1>18, <1>19, <1>20, <1>21, <1>22,
     <1>23, <1>24, <1>25, <1>26, <1>27, <1>28, <1>29, <1>30, <1>31, <1>32,
     <1>33, <1>34, <1>35, <1>36 DEF Next, SupervisorStep, Engine, Threads,
     Receive, Handle, StartProcess, Stop, WatchdogStep

\* Every step keeps each worker in its own code.
LEMMA PlaceStep == IInv /\ [Next]_vars => PlaceInv'
<1> SUFFICES ASSUME IInv, [Next]_vars PROVE PlaceInv'
  OBVIOUS
<1> USE RunnerAssumption, MaxGenAssumption, NoModelAssumption DEF IInv, TypeOK, PlaceInv, Workers, LaunchSteps, StartSteps, StopSteps, WatchdogSteps, vars, supVars, svcVars, procVars, sharedVars
<1>1. ASSUME NEW g \in Gens, UNCHANGED svcVars, EngineServes(g) PROVE PlaceInv'
  BY <1>1 DEF EngineServes
<1>2. ASSUME NEW g \in Gens, UNCHANGED svcVars, EngineExit(g) PROVE PlaceInv'
  BY <1>2 DEF EngineExit
<1>3. ASSUME NEW g \in Gens, UNCHANGED svcVars, ReadStartupLine(g) PROVE PlaceInv'
  BY <1>3 DEF ReadStartupLine
<1>4. ASSUME NEW g \in Gens, UNCHANGED svcVars, ReadEof(g) PROVE PlaceInv'
  BY <1>4 DEF ReadEof
<1>5. ASSUME NEW g \in Gens, UNCHANGED svcVars, RecordExit(g) PROVE PlaceInv'
  BY <1>5 DEF RecordExit, ExitStatus
<1>6. ASSUME NEW g \in Gens, UNCHANGED svcVars, HealthProbe(g) PROVE PlaceInv'
  BY <1>6 DEF HealthProbe, PortAnswers
<1>7. ASSUME NEW g \in Gens, UNCHANGED svcVars, HealthMark(g) PROVE PlaceInv'
  BY <1>7 DEF HealthMark
<1>8. ASSUME NEW g \in Gens, UNCHANGED svcVars, HealthEnd(g) PROVE PlaceInv'
  BY <1>8 DEF HealthEnd
<1>9. ASSUME NEW g \in Gens, UNCHANGED svcVars, MemoryGuard(g) PROVE PlaceInv'
  BY <1>9 DEF MemoryGuard
<1>10. CASE TimePasses /\ UNCHANGED svcVars
  BY <1>10 DEF TimePasses
<1>11. ASSUME NEW t \in Clients, StopRequest(t) PROVE PlaceInv'
  BY <1>11 DEF StopRequest, Request, Goto, ClearOutcomes
<1>12. ASSUME NEW t \in Clients, NEW m \in Models, LaunchRequest(t, m) PROVE PlaceInv'
  BY <1>12 DEF LaunchRequest, Request, Goto
<1>13. ASSUME NEW t \in Clients, NEW m \in Models, DeleteRequest(t, m) PROVE PlaceInv'
  BY <1>13 DEF DeleteRequest, Request, Goto
<1>14. ASSUME NEW t \in Workers, LaunchLock(t) PROVE PlaceInv'
  BY <1>14 DEF LaunchLock, Take, Goto
<1>15. ASSUME NEW t \in Workers, BuildRefused(t) PROVE PlaceInv'
  BY <1>15 DEF BuildRefused, Release, Goto
<1>16. ASSUME NEW t \in Workers, KillPrevious(t) PROVE PlaceInv'
  BY <1>16 DEF KillPrevious, Signal, Goto
<1>17. ASSUME NEW t \in Workers, PreviousGone(t) PROVE PlaceInv'
  BY <1>17 DEF PreviousGone, Goto
<1>18. ASSUME NEW t \in Workers, MarkStarting(t) PROVE PlaceInv'
  BY <1>18 DEF MarkStarting, Goto
<1>19. ASSUME NEW t \in Workers, SpawnEngine(t) PROVE PlaceInv'
  BY <1>19 DEF SpawnEngine, Spawn, Goto
<1>20. ASSUME NEW t \in Workers, SpawnFails(t) PROVE PlaceInv'
  BY <1>20 DEF SpawnFails, Release, Goto
<1>21. ASSUME NEW t \in Workers, SaveLastLaunch(t) PROVE PlaceInv'
  BY <1>21 DEF SaveLastLaunch, Release, Goto, WriteOutcomes
<1>22. ASSUME NEW t \in Workers, StopLock(t) PROVE PlaceInv'
  BY <1>22 DEF StopLock, Take, Goto
<1>23. ASSUME NEW t \in Workers, StopKill(t) PROVE PlaceInv'
  BY <1>23 DEF StopKill, Signal, Goto
<1>24. ASSUME NEW t \in Workers, StopDone(t) PROVE PlaceInv'
  BY <1>24 DEF StopDone, Release, Goto, NoLaunchInFlight
<1>25. ASSUME NEW t \in Workers, AlreadyStopped(t) PROVE PlaceInv'
  BY <1>25 DEF AlreadyStopped, Release, Goto, NoLaunchInFlight
<1>26. ASSUME NEW t \in Workers, DeleteFiles(t) PROVE PlaceInv'
  BY <1>26 DEF DeleteFiles, Goto
<1>27. CASE WatchdogTick
  BY <1>27 DEF WatchdogTick, Goto, WriteOutcomes
<1>28. CASE WatchdogLoad
  BY <1>28 DEF WatchdogLoad, Goto
<1>29. CASE WatchdogCheck
  BY <1>29 DEF WatchdogCheck, Goto
<1>30. CASE WatchdogInvalid
  BY <1>30 DEF WatchdogInvalid, Goto, WriteOutcomes
<1>31. CASE WatchdogMemoryOk
  BY <1>31 DEF WatchdogMemoryOk, Goto
<1>32. CASE WatchdogMemoryLow
  BY <1>32 DEF WatchdogMemoryLow, Goto, WriteOutcomes
<1>33. CASE WatchdogLock
  BY <1>33 DEF WatchdogLock, Take, Goto
<1>34. CASE WatchdogResume
  BY <1>34 DEF WatchdogResume, Release, Goto, WriteOutcomes
<1>35. CASE Restart
  BY <1>35 DEF Restart, SupReset
<1>36. CASE UNCHANGED vars
  BY <1>36
<1> QED
  BY <1>1, <1>2, <1>3, <1>4, <1>5, <1>6, <1>7, <1>8, <1>9, <1>10, <1>11, <1>12,
     <1>13, <1>14, <1>15, <1>16, <1>17, <1>18, <1>19, <1>20, <1>21, <1>22,
     <1>23, <1>24, <1>25, <1>26, <1>27, <1>28, <1>29, <1>30, <1>31, <1>32,
     <1>33, <1>34, <1>35, <1>36 DEF Next, SupervisorStep, Engine, Threads,
     Receive, Handle, StartProcess, Stop, WatchdogStep

\* Only the watchdog writes the counter, and it writes before it spawns.
LEMMA CountStep == IInv /\ [Next]_vars => CountInv'
<1> SUFFICES ASSUME IInv, [Next]_vars PROVE CountInv'
  OBVIOUS
<1> USE RunnerAssumption, MaxGenAssumption, NoModelAssumption DEF IInv, TypeOK, SupTypeOK, LockInv, PlaceInv, CountInv, Workers, Locked, LaunchSteps, StartSteps, StopSteps, WatchdogSteps, vars, supVars, svcVars, procVars, sharedVars
<1>1. ASSUME NEW g \in Gens, UNCHANGED svcVars, EngineServes(g) PROVE CountInv'
  BY <1>1 DEF EngineServes
<1>2. ASSUME NEW g \in Gens, UNCHANGED svcVars, EngineExit(g) PROVE CountInv'
  BY <1>2 DEF EngineExit
<1>3. ASSUME NEW g \in Gens, UNCHANGED svcVars, ReadStartupLine(g) PROVE CountInv'
  BY <1>3 DEF ReadStartupLine
<1>4. ASSUME NEW g \in Gens, UNCHANGED svcVars, ReadEof(g) PROVE CountInv'
  BY <1>4 DEF ReadEof
<1>5. ASSUME NEW g \in Gens, UNCHANGED svcVars, RecordExit(g) PROVE CountInv'
  BY <1>5 DEF RecordExit, ExitStatus
<1>6. ASSUME NEW g \in Gens, UNCHANGED svcVars, HealthProbe(g) PROVE CountInv'
  BY <1>6 DEF HealthProbe, PortAnswers
<1>7. ASSUME NEW g \in Gens, UNCHANGED svcVars, HealthMark(g) PROVE CountInv'
  BY <1>7 DEF HealthMark
<1>8. ASSUME NEW g \in Gens, UNCHANGED svcVars, HealthEnd(g) PROVE CountInv'
  BY <1>8 DEF HealthEnd
<1>9. ASSUME NEW g \in Gens, UNCHANGED svcVars, MemoryGuard(g) PROVE CountInv'
  BY <1>9 DEF MemoryGuard
<1>10. CASE TimePasses /\ UNCHANGED svcVars
  BY <1>10 DEF TimePasses
<1>11. ASSUME NEW t \in Clients, StopRequest(t) PROVE CountInv'
  BY <1>11 DEF StopRequest, Request, Goto, ClearOutcomes
<1>12. ASSUME NEW t \in Clients, NEW m \in Models, LaunchRequest(t, m) PROVE CountInv'
  BY <1>12 DEF LaunchRequest, Request, Goto
<1>13. ASSUME NEW t \in Clients, NEW m \in Models, DeleteRequest(t, m) PROVE CountInv'
  BY <1>13 DEF DeleteRequest, Request, Goto
<1>14. ASSUME NEW t \in Workers, LaunchLock(t) PROVE CountInv'
  BY <1>14 DEF LaunchLock, Take, Goto
<1>15. ASSUME NEW t \in Workers, BuildRefused(t) PROVE CountInv'
  BY <1>15 DEF BuildRefused, Release, Goto
<1>16. ASSUME NEW t \in Workers, KillPrevious(t) PROVE CountInv'
  BY <1>16 DEF KillPrevious, Signal, Goto
<1>17. ASSUME NEW t \in Workers, PreviousGone(t) PROVE CountInv'
  BY <1>17 DEF PreviousGone, Goto
<1>18. ASSUME NEW t \in Workers, MarkStarting(t) PROVE CountInv'
  BY <1>18 DEF MarkStarting, Goto
<1>19. ASSUME NEW t \in Workers, SpawnEngine(t) PROVE CountInv'
  BY <1>19 DEF SpawnEngine, Spawn, Goto
<1>20. ASSUME NEW t \in Workers, SpawnFails(t) PROVE CountInv'
  BY <1>20 DEF SpawnFails, Release, Goto
<1>21. ASSUME NEW t \in Workers, SaveLastLaunch(t) PROVE CountInv'
  BY <1>21 DEF SaveLastLaunch, Release, Goto, WriteOutcomes
<1>22. ASSUME NEW t \in Workers, StopLock(t) PROVE CountInv'
  BY <1>22 DEF StopLock, Take, Goto
<1>23. ASSUME NEW t \in Workers, StopKill(t) PROVE CountInv'
  BY <1>23 DEF StopKill, Signal, Goto
<1>24. ASSUME NEW t \in Workers, StopDone(t) PROVE CountInv'
  BY <1>24 DEF StopDone, Release, Goto, NoLaunchInFlight
<1>25. ASSUME NEW t \in Workers, AlreadyStopped(t) PROVE CountInv'
  BY <1>25 DEF AlreadyStopped, Release, Goto, NoLaunchInFlight
<1>26. ASSUME NEW t \in Workers, DeleteFiles(t) PROVE CountInv'
  BY <1>26 DEF DeleteFiles, Goto
<1>27. CASE WatchdogTick
  BY <1>27 DEF WatchdogTick, Goto, WriteOutcomes
<1>28. CASE WatchdogLoad
  BY <1>28 DEF WatchdogLoad, Goto
<1>29. CASE WatchdogCheck
  BY <1>29 DEF WatchdogCheck, Goto
<1>30. CASE WatchdogInvalid
  BY <1>30 DEF WatchdogInvalid, Goto, WriteOutcomes
<1>31. CASE WatchdogMemoryOk
  BY <1>31 DEF WatchdogMemoryOk, Goto
<1>32. CASE WatchdogMemoryLow
  BY <1>32 DEF WatchdogMemoryLow, Goto, WriteOutcomes
<1>33. CASE WatchdogLock
  BY <1>33 DEF WatchdogLock, Take, Goto
<1>34. CASE WatchdogResume
  BY <1>34 DEF WatchdogResume, Release, Goto, WriteOutcomes
<1>35. CASE Restart
  BY <1>35 DEF Restart, SupReset
<1>36. CASE UNCHANGED vars
  BY <1>36
<1> QED
  BY <1>1, <1>2, <1>3, <1>4, <1>5, <1>6, <1>7, <1>8, <1>9, <1>10, <1>11, <1>12,
     <1>13, <1>14, <1>15, <1>16, <1>17, <1>18, <1>19, <1>20, <1>21, <1>22,
     <1>23, <1>24, <1>25, <1>26, <1>27, <1>28, <1>29, <1>30, <1>31, <1>32,
     <1>33, <1>34, <1>35, <1>36 DEF Next, SupervisorStep, Engine, Threads,
     Receive, Handle, StartProcess, Stop, WatchdogStep

\* Only spawn uses a generation, and a reader ends after its process.
LEMMA GenStep == IInv /\ [Next]_vars => GenInv'
<1> SUFFICES ASSUME IInv, [Next]_vars PROVE GenInv'
  OBVIOUS
<1> USE RunnerAssumption, MaxGenAssumption, NoModelAssumption DEF IInv, TypeOK, SupTypeOK, GenInv, Alive, Exists, Gens, vars, supVars, svcVars, procVars, sharedVars
<1>1. ASSUME NEW g \in Gens, UNCHANGED svcVars, EngineServes(g) PROVE GenInv'
  BY <1>1 DEF EngineServes
<1>2. ASSUME NEW g \in Gens, UNCHANGED svcVars, EngineExit(g) PROVE GenInv'
  BY <1>2 DEF EngineExit
<1>3. ASSUME NEW g \in Gens, UNCHANGED svcVars, ReadStartupLine(g) PROVE GenInv'
  BY <1>3 DEF ReadStartupLine
<1>4. ASSUME NEW g \in Gens, UNCHANGED svcVars, ReadEof(g) PROVE GenInv'
  BY <1>4 DEF ReadEof
<1>5. ASSUME NEW g \in Gens, UNCHANGED svcVars, RecordExit(g) PROVE GenInv'
  BY <1>5 DEF RecordExit, ExitStatus
<1>6. ASSUME NEW g \in Gens, UNCHANGED svcVars, HealthProbe(g) PROVE GenInv'
  BY <1>6 DEF HealthProbe, PortAnswers
<1>7. ASSUME NEW g \in Gens, UNCHANGED svcVars, HealthMark(g) PROVE GenInv'
  BY <1>7 DEF HealthMark
<1>8. ASSUME NEW g \in Gens, UNCHANGED svcVars, HealthEnd(g) PROVE GenInv'
  BY <1>8 DEF HealthEnd
<1>9. ASSUME NEW g \in Gens, UNCHANGED svcVars, MemoryGuard(g) PROVE GenInv'
  BY <1>9 DEF MemoryGuard
<1>10. CASE TimePasses /\ UNCHANGED svcVars
  BY <1>10 DEF TimePasses
<1>11. ASSUME NEW t \in Clients, StopRequest(t) PROVE GenInv'
  BY <1>11 DEF StopRequest, Request, Goto, ClearOutcomes
<1>12. ASSUME NEW t \in Clients, NEW m \in Models, LaunchRequest(t, m) PROVE GenInv'
  BY <1>12 DEF LaunchRequest, Request, Goto
<1>13. ASSUME NEW t \in Clients, NEW m \in Models, DeleteRequest(t, m) PROVE GenInv'
  BY <1>13 DEF DeleteRequest, Request, Goto
<1>14. ASSUME NEW t \in Workers, LaunchLock(t) PROVE GenInv'
  BY <1>14 DEF LaunchLock, Take, Goto
<1>15. ASSUME NEW t \in Workers, BuildRefused(t) PROVE GenInv'
  BY <1>15 DEF BuildRefused, Release, Goto
<1>16. ASSUME NEW t \in Workers, KillPrevious(t) PROVE GenInv'
  BY <1>16 DEF KillPrevious, Signal, Goto
<1>17. ASSUME NEW t \in Workers, PreviousGone(t) PROVE GenInv'
  BY <1>17 DEF PreviousGone, Goto
<1>18. ASSUME NEW t \in Workers, MarkStarting(t) PROVE GenInv'
  BY <1>18 DEF MarkStarting, Goto
<1>19. ASSUME NEW t \in Workers, SpawnEngine(t) PROVE GenInv'
  BY <1>19 DEF SpawnEngine, Spawn, Goto
<1>20. ASSUME NEW t \in Workers, SpawnFails(t) PROVE GenInv'
  BY <1>20 DEF SpawnFails, Release, Goto
<1>21. ASSUME NEW t \in Workers, SaveLastLaunch(t) PROVE GenInv'
  BY <1>21 DEF SaveLastLaunch, Release, Goto, WriteOutcomes
<1>22. ASSUME NEW t \in Workers, StopLock(t) PROVE GenInv'
  BY <1>22 DEF StopLock, Take, Goto
<1>23. ASSUME NEW t \in Workers, StopKill(t) PROVE GenInv'
  BY <1>23 DEF StopKill, Signal, Goto
<1>24. ASSUME NEW t \in Workers, StopDone(t) PROVE GenInv'
  BY <1>24 DEF StopDone, Release, Goto, NoLaunchInFlight
<1>25. ASSUME NEW t \in Workers, AlreadyStopped(t) PROVE GenInv'
  BY <1>25 DEF AlreadyStopped, Release, Goto, NoLaunchInFlight
<1>26. ASSUME NEW t \in Workers, DeleteFiles(t) PROVE GenInv'
  BY <1>26 DEF DeleteFiles, Goto
<1>27. CASE WatchdogTick
  BY <1>27 DEF WatchdogTick, Goto, WriteOutcomes
<1>28. CASE WatchdogLoad
  BY <1>28 DEF WatchdogLoad, Goto
<1>29. CASE WatchdogCheck
  BY <1>29 DEF WatchdogCheck, Goto
<1>30. CASE WatchdogInvalid
  BY <1>30 DEF WatchdogInvalid, Goto, WriteOutcomes
<1>31. CASE WatchdogMemoryOk
  BY <1>31 DEF WatchdogMemoryOk, Goto
<1>32. CASE WatchdogMemoryLow
  BY <1>32 DEF WatchdogMemoryLow, Goto, WriteOutcomes
<1>33. CASE WatchdogLock
  BY <1>33 DEF WatchdogLock, Take, Goto
<1>34. CASE WatchdogResume
  BY <1>34 DEF WatchdogResume, Release, Goto, WriteOutcomes
<1>35. CASE Restart
  BY <1>35 DEF Restart, SupReset
<1>36. CASE UNCHANGED vars
  BY <1>36
<1> QED
  BY <1>1, <1>2, <1>3, <1>4, <1>5, <1>6, <1>7, <1>8, <1>9, <1>10, <1>11, <1>12,
     <1>13, <1>14, <1>15, <1>16, <1>17, <1>18, <1>19, <1>20, <1>21, <1>22,
     <1>23, <1>24, <1>25, <1>26, <1>27, <1>28, <1>29, <1>30, <1>31, <1>32,
     <1>33, <1>34, <1>35, <1>36 DEF Next, SupervisorStep, Engine, Threads,
     Receive, Handle, StartProcess, Stop, WatchdogStep

\* Only the holder of the lock spawns, and only once the previous engine is gone.
LEMMA EngineStep == IInv /\ [Next]_vars => EngineInv'
<1> SUFFICES ASSUME IInv, [Next]_vars PROVE EngineInv'
  OBVIOUS
<1> USE RunnerAssumption, MaxGenAssumption, NoModelAssumption DEF IInv, TypeOK, SupTypeOK, LockInv, PlaceInv, GenInv, EngineInv, Alive, Exists, Gens, Workers, Locked, StartSteps, WatchdogSteps, vars, supVars, svcVars, procVars, sharedVars
<1>1. ASSUME NEW g \in Gens, UNCHANGED svcVars, EngineServes(g) PROVE EngineInv'
  BY <1>1 DEF EngineServes
<1>2. ASSUME NEW g \in Gens, UNCHANGED svcVars, EngineExit(g) PROVE EngineInv'
  BY <1>2 DEF EngineExit
<1>3. ASSUME NEW g \in Gens, UNCHANGED svcVars, ReadStartupLine(g) PROVE EngineInv'
  BY <1>3 DEF ReadStartupLine
<1>4. ASSUME NEW g \in Gens, UNCHANGED svcVars, ReadEof(g) PROVE EngineInv'
  BY <1>4 DEF ReadEof
<1>5. ASSUME NEW g \in Gens, UNCHANGED svcVars, RecordExit(g) PROVE EngineInv'
  BY <1>5 DEF RecordExit, ExitStatus
<1>6. ASSUME NEW g \in Gens, UNCHANGED svcVars, HealthProbe(g) PROVE EngineInv'
  BY <1>6 DEF HealthProbe, PortAnswers
<1>7. ASSUME NEW g \in Gens, UNCHANGED svcVars, HealthMark(g) PROVE EngineInv'
  BY <1>7 DEF HealthMark
<1>8. ASSUME NEW g \in Gens, UNCHANGED svcVars, HealthEnd(g) PROVE EngineInv'
  BY <1>8 DEF HealthEnd
<1>9. ASSUME NEW g \in Gens, UNCHANGED svcVars, MemoryGuard(g) PROVE EngineInv'
  BY <1>9 DEF MemoryGuard
<1>10. CASE TimePasses /\ UNCHANGED svcVars
  BY <1>10 DEF TimePasses
<1>11. ASSUME NEW t \in Clients, StopRequest(t) PROVE EngineInv'
  BY <1>11 DEF StopRequest, Request, Goto, ClearOutcomes
<1>12. ASSUME NEW t \in Clients, NEW m \in Models, LaunchRequest(t, m) PROVE EngineInv'
  BY <1>12 DEF LaunchRequest, Request, Goto
<1>13. ASSUME NEW t \in Clients, NEW m \in Models, DeleteRequest(t, m) PROVE EngineInv'
  BY <1>13 DEF DeleteRequest, Request, Goto
<1>14. ASSUME NEW t \in Workers, LaunchLock(t) PROVE EngineInv'
  BY <1>14 DEF LaunchLock, Take, Goto
<1>15. ASSUME NEW t \in Workers, BuildRefused(t) PROVE EngineInv'
  BY <1>15 DEF BuildRefused, Release, Goto
<1>16. ASSUME NEW t \in Workers, KillPrevious(t) PROVE EngineInv'
  BY <1>16 DEF KillPrevious, Signal, Goto
<1>17. ASSUME NEW t \in Workers, PreviousGone(t) PROVE EngineInv'
  BY <1>17 DEF PreviousGone, Goto
<1>18. ASSUME NEW t \in Workers, MarkStarting(t) PROVE EngineInv'
  BY <1>18 DEF MarkStarting, Goto
<1>19. ASSUME NEW t \in Workers, SpawnEngine(t) PROVE EngineInv'
  BY <1>19 DEF SpawnEngine, Spawn, Goto
<1>20. ASSUME NEW t \in Workers, SpawnFails(t) PROVE EngineInv'
  BY <1>20 DEF SpawnFails, Release, Goto
<1>21. ASSUME NEW t \in Workers, SaveLastLaunch(t) PROVE EngineInv'
  BY <1>21 DEF SaveLastLaunch, Release, Goto, WriteOutcomes
<1>22. ASSUME NEW t \in Workers, StopLock(t) PROVE EngineInv'
  BY <1>22 DEF StopLock, Take, Goto
<1>23. ASSUME NEW t \in Workers, StopKill(t) PROVE EngineInv'
  BY <1>23 DEF StopKill, Signal, Goto
<1>24. ASSUME NEW t \in Workers, StopDone(t) PROVE EngineInv'
  BY <1>24 DEF StopDone, Release, Goto, NoLaunchInFlight
<1>25. ASSUME NEW t \in Workers, AlreadyStopped(t) PROVE EngineInv'
  BY <1>25 DEF AlreadyStopped, Release, Goto, NoLaunchInFlight
<1>26. ASSUME NEW t \in Workers, DeleteFiles(t) PROVE EngineInv'
  BY <1>26 DEF DeleteFiles, Goto
<1>27. CASE WatchdogTick
  BY <1>27 DEF WatchdogTick, Goto, WriteOutcomes
<1>28. CASE WatchdogLoad
  BY <1>28 DEF WatchdogLoad, Goto
<1>29. CASE WatchdogCheck
  BY <1>29 DEF WatchdogCheck, Goto
<1>30. CASE WatchdogInvalid
  BY <1>30 DEF WatchdogInvalid, Goto, WriteOutcomes
<1>31. CASE WatchdogMemoryOk
  BY <1>31 DEF WatchdogMemoryOk, Goto
<1>32. CASE WatchdogMemoryLow
  BY <1>32 DEF WatchdogMemoryLow, Goto, WriteOutcomes
<1>33. CASE WatchdogLock
  BY <1>33 DEF WatchdogLock, Take, Goto
<1>34. CASE WatchdogResume
  BY <1>34 DEF WatchdogResume, Release, Goto, WriteOutcomes
<1>35. CASE Restart
  BY <1>35 DEF Restart, SupReset
<1>36. CASE UNCHANGED vars
  BY <1>36
<1> QED
  BY <1>1, <1>2, <1>3, <1>4, <1>5, <1>6, <1>7, <1>8, <1>9, <1>10, <1>11, <1>12,
     <1>13, <1>14, <1>15, <1>16, <1>17, <1>18, <1>19, <1>20, <1>21, <1>22,
     <1>23, <1>24, <1>25, <1>26, <1>27, <1>28, <1>29, <1>30, <1>31, <1>32,
     <1>33, <1>34, <1>35, <1>36 DEF Next, SupervisorStep, Engine, Threads,
     Receive, Handle, StartProcess, Stop, WatchdogStep

\* Spawning and saving happen under one hold of the lock.
LEMMA RememberStep == IInv /\ [Next]_vars => RememberInv'
<1> SUFFICES ASSUME IInv, [Next]_vars PROVE RememberInv'
  OBVIOUS
<1> USE RunnerAssumption, MaxGenAssumption, NoModelAssumption DEF IInv, TypeOK, SupTypeOK, LockInv, PlaceInv, GenInv, EngineInv, RememberInv, Alive, Gens, Workers, Locked, StartSteps, StopSteps, WatchdogSteps, vars, supVars, svcVars, procVars, sharedVars
<1>1. ASSUME NEW g \in Gens, UNCHANGED svcVars, EngineServes(g) PROVE RememberInv'
  BY <1>1 DEF EngineServes
<1>2. ASSUME NEW g \in Gens, UNCHANGED svcVars, EngineExit(g) PROVE RememberInv'
  BY <1>2 DEF EngineExit
<1>3. ASSUME NEW g \in Gens, UNCHANGED svcVars, ReadStartupLine(g) PROVE RememberInv'
  BY <1>3 DEF ReadStartupLine
<1>4. ASSUME NEW g \in Gens, UNCHANGED svcVars, ReadEof(g) PROVE RememberInv'
  BY <1>4 DEF ReadEof
<1>5. ASSUME NEW g \in Gens, UNCHANGED svcVars, RecordExit(g) PROVE RememberInv'
  BY <1>5 DEF RecordExit, ExitStatus
<1>6. ASSUME NEW g \in Gens, UNCHANGED svcVars, HealthProbe(g) PROVE RememberInv'
  BY <1>6 DEF HealthProbe, PortAnswers
<1>7. ASSUME NEW g \in Gens, UNCHANGED svcVars, HealthMark(g) PROVE RememberInv'
  BY <1>7 DEF HealthMark
<1>8. ASSUME NEW g \in Gens, UNCHANGED svcVars, HealthEnd(g) PROVE RememberInv'
  BY <1>8 DEF HealthEnd
<1>9. ASSUME NEW g \in Gens, UNCHANGED svcVars, MemoryGuard(g) PROVE RememberInv'
  BY <1>9 DEF MemoryGuard
<1>10. CASE TimePasses /\ UNCHANGED svcVars
  BY <1>10 DEF TimePasses
<1>11. ASSUME NEW t \in Clients, StopRequest(t) PROVE RememberInv'
  BY <1>11 DEF StopRequest, Request, Goto, ClearOutcomes
<1>12. ASSUME NEW t \in Clients, NEW m \in Models, LaunchRequest(t, m) PROVE RememberInv'
  BY <1>12 DEF LaunchRequest, Request, Goto
<1>13. ASSUME NEW t \in Clients, NEW m \in Models, DeleteRequest(t, m) PROVE RememberInv'
  BY <1>13 DEF DeleteRequest, Request, Goto
<1>14. ASSUME NEW t \in Workers, LaunchLock(t) PROVE RememberInv'
  BY <1>14 DEF LaunchLock, Take, Goto
<1>15. ASSUME NEW t \in Workers, BuildRefused(t) PROVE RememberInv'
  BY <1>15 DEF BuildRefused, Release, Goto
<1>16. ASSUME NEW t \in Workers, KillPrevious(t) PROVE RememberInv'
  BY <1>16 DEF KillPrevious, Signal, Goto
<1>17. ASSUME NEW t \in Workers, PreviousGone(t) PROVE RememberInv'
  BY <1>17 DEF PreviousGone, Goto
<1>18. ASSUME NEW t \in Workers, MarkStarting(t) PROVE RememberInv'
  BY <1>18 DEF MarkStarting, Goto
<1>19. ASSUME NEW t \in Workers, SpawnEngine(t) PROVE RememberInv'
  BY <1>19 DEF SpawnEngine, Spawn, Goto
<1>20. ASSUME NEW t \in Workers, SpawnFails(t) PROVE RememberInv'
  BY <1>20 DEF SpawnFails, Release, Goto
<1>21. ASSUME NEW t \in Workers, SaveLastLaunch(t) PROVE RememberInv'
  BY <1>21 DEF SaveLastLaunch, Release, Goto, WriteOutcomes
<1>22. ASSUME NEW t \in Workers, StopLock(t) PROVE RememberInv'
  BY <1>22 DEF StopLock, Take, Goto
<1>23. ASSUME NEW t \in Workers, StopKill(t) PROVE RememberInv'
  BY <1>23 DEF StopKill, Signal, Goto
<1>24. ASSUME NEW t \in Workers, StopDone(t) PROVE RememberInv'
  BY <1>24 DEF StopDone, Release, Goto, NoLaunchInFlight
<1>25. ASSUME NEW t \in Workers, AlreadyStopped(t) PROVE RememberInv'
  BY <1>25 DEF AlreadyStopped, Release, Goto, NoLaunchInFlight
<1>26. ASSUME NEW t \in Workers, DeleteFiles(t) PROVE RememberInv'
  BY <1>26 DEF DeleteFiles, Goto
<1>27. CASE WatchdogTick
  BY <1>27 DEF WatchdogTick, Goto, WriteOutcomes
<1>28. CASE WatchdogLoad
  BY <1>28 DEF WatchdogLoad, Goto
<1>29. CASE WatchdogCheck
  BY <1>29 DEF WatchdogCheck, Goto
<1>30. CASE WatchdogInvalid
  BY <1>30 DEF WatchdogInvalid, Goto, WriteOutcomes
<1>31. CASE WatchdogMemoryOk
  BY <1>31 DEF WatchdogMemoryOk, Goto
<1>32. CASE WatchdogMemoryLow
  BY <1>32 DEF WatchdogMemoryLow, Goto, WriteOutcomes
<1>33. CASE WatchdogLock
  BY <1>33 DEF WatchdogLock, Take, Goto
<1>34. CASE WatchdogResume
  BY <1>34 DEF WatchdogResume, Release, Goto, WriteOutcomes
<1>35. CASE Restart
  BY <1>35 DEF Restart, SupReset
<1>36. CASE UNCHANGED vars
  BY <1>36
<1> QED
  BY <1>1, <1>2, <1>3, <1>4, <1>5, <1>6, <1>7, <1>8, <1>9, <1>10, <1>11, <1>12,
     <1>13, <1>14, <1>15, <1>16, <1>17, <1>18, <1>19, <1>20, <1>21, <1>22,
     <1>23, <1>24, <1>25, <1>26, <1>27, <1>28, <1>29, <1>30, <1>31, <1>32,
     <1>33, <1>34, <1>35, <1>36 DEF Next, SupervisorStep, Engine, Threads,
     Receive, Handle, StartProcess, Stop, WatchdogStep

\* The runner starts in a state of the invariant.
LEMMA InitIInv == Init => IInv
<1> SUFFICES ASSUME Init PROVE IInv
  OBVIOUS
<1> USE RunnerAssumption, MaxGenAssumption, NoModelAssumption
    DEF Init, SupInit, Gens, Workers
<1>1. SupTypeOK
  BY DEF SupTypeOK
<1>2. TypeOK
  <2>1. /\ pc \in [Workers -> {"idle"}]
        /\ arg \in [Workers -> {NoModel}]
    OBVIOUS
  <2>2. /\ wfails \in 0 .. MaxRetries /\ fails \in 0 .. MaxRetries
        /\ requests \in 0 .. MaxRequests /\ restarts \in 0 .. MaxRestarts
        /\ resumes \in Nat
    OBVIOUS
  <2>3. forgotten \in BOOLEAN
    OBVIOUS
  <2> QED
    BY <1>1, <2>1, <2>2, <2>3 DEF TypeOK
<1>3. LockInv /\ PlaceInv /\ CountInv
  BY DEF LockInv, PlaceInv, CountInv, Locked, StartSteps, WatchdogSteps
<1>4. GenInv /\ EngineInv /\ RememberInv
  BY DEF GenInv, EngineInv, RememberInv, Alive, Exists, StopSteps
<1> QED
  BY <1>2, <1>3, <1>4 DEF IInv

\* The inductive invariant holds in every reachable state of the runner.
THEOREM Invariance == Spec => []IInv
<1>1. IInv /\ [Next]_vars => IInv'
  BY TypeStep, LockStep, PlaceStep, CountStep, GenStep, EngineStep,
     RememberStep DEF IInv
<1> QED
  BY InitIInv, <1>1, PTL DEF Spec

-----------------------------------------------------------------------------
(* The properties that the runs check *)

\* Type correctness, the cap on resume_failures included.
THEOREM TypeCorrect == Spec => []TypeOK
<1>1. IInv => TypeOK
  BY DEF IInv
<1> QED
  BY Invariance, <1>1, PTL

\* start_process never has two engine processes, if kills do not give up.
THEOREM OneEngine == ASSUME ~KillCanTimeOut PROVE Spec => []SingleEngine
<1>1. IInv => SingleEngine
  BY DEF IInv, GenInv, EngineInv, SingleEngine
<1> QED
  BY Invariance, <1>1, PTL

\* "running" is never reported for a launch that has not answered, if kills do
\* not give up.
THEOREM RunningHonest == ASSUME ~KillCanTimeOut PROVE Spec => []RunningMeansServed
<1>1. IInv => RunningMeansServed
  BY DEF IInv, EngineInv, RunningMeansServed
<1> QED
  BY Invariance, <1>1, PTL

\* The watchdog's attempts stay within the persisted counter and its cap,
\* whatever crashes in between, if writes do not fail.
THEOREM ResumesCapped == ASSUME ~DiskCanFail PROVE Spec => []ResumeBudget
<1>1. IInv => ResumeBudget
  BY RunnerAssumption DEF IInv, TypeOK, CountInv, ResumeBudget
<1> QED
  BY Invariance, <1>1, PTL

\* Without /stop, an engine left in place is the one last_model.json names.
THEOREM Remembered ==
    ASSUME "stop" \notin Requests, ~DiskCanFail, ~KillCanTimeOut
    PROVE  Spec => []ServedIsRemembered
<1>1. IInv => ServedIsRemembered
  BY RunnerAssumption
  DEF IInv, TypeOK, LockInv, RememberInv, ServedIsRemembered, Workers, Locked,
      StartSteps
<1> QED
  BY Invariance, <1>1, PTL

\* Without /stop, delete-files never removes the weights of a served model.
THEOREM FilesKept ==
    ASSUME "stop" \notin Requests, ~DiskCanFail, ~KillCanTimeOut
    PROVE  Spec => NoDeleteWhileServed
<1> DEFINE Kept == \A g \in Gens : Exists(g) /\ modelOf[g] \in files
                                     => modelOf[g] \in files'
<1>1. IInv /\ Next => Kept
  <2> SUFFICES ASSUME IInv, Next PROVE Kept
    OBVIOUS
  <2>1. ASSUME NEW t \in Workers, DeleteFiles(t) PROVE Kept
    <3>1. \A u \in Workers : pc[u] # "save"
      BY <2>1, RunnerAssumption
      DEF IInv, LockInv, DeleteFiles, Workers, Locked, StartSteps
    <3>2. \A g \in Gens : Exists(g) => last = modelOf[g]
      BY <3>1 DEF IInv, GenInv, EngineInv, RememberInv
    <3> QED
      BY <2>1, <3>2 DEF DeleteFiles
  <2>2. CASE UNCHANGED files
    BY <2>2
  <2>3. (\E t \in Workers : DeleteFiles(t)) \/ UNCHANGED files
    BY DEF Next, SupervisorStep, svcVars, Receive, Handle, StartProcess, Stop,
           WatchdogStep, LaunchRequest, DeleteRequest, StopRequest, LaunchLock,
           BuildRefused, KillPrevious, PreviousGone, MarkStarting, SpawnEngine,
           SpawnFails, SaveLastLaunch, StopLock, StopKill, StopDone,
           AlreadyStopped, WatchdogTick, WatchdogLoad, WatchdogCheck,
           WatchdogInvalid, WatchdogMemoryOk, WatchdogMemoryLow, WatchdogLock,
           WatchdogResume, Restart
  <2> QED
    BY <2>1, <2>2, <2>3
<1>2. IInv /\ [Next]_vars => [Kept]_vars
  BY <1>1
<1> QED
  BY Invariance, <1>2, PTL DEF Spec, NoDeleteWhileServed

-----------------------------------------------------------------------------
(* What /status says of the model *)

\* Without /stop, and when fork/exec does not fail: the model on display is the
\* one of the engine in place, but for the worker that is about to spawn the next.
ReportInv ==
    "stop" \notin Requests /\ ~SpawnCanFail =>
      /\ \A t \in Workers : pc[t] \notin StopSteps
      /\ \A t \in Workers : pc[t] = "spawn" => model = arg[t]
      /\ cur \in Gens /\ (\A t \in Workers : pc[t] # "spawn") => model = modelOf[cur]
      /\ status = "running" => cur \in Gens

\* Marking and spawning happen under one hold of the lock.
LEMMA ReportStep == IInv /\ ReportInv /\ [Next]_vars => ReportInv'
<1> SUFFICES ASSUME IInv, ReportInv, [Next]_vars PROVE ReportInv'
  OBVIOUS
<1> USE RunnerAssumption, MaxGenAssumption, NoModelAssumption DEF IInv, TypeOK, SupTypeOK, LockInv, PlaceInv, GenInv, ReportInv, Gens, Workers, Locked, StartSteps, StopSteps, WatchdogSteps, vars, supVars, svcVars, procVars, sharedVars
<1>1. ASSUME NEW g \in Gens, UNCHANGED svcVars, EngineServes(g) PROVE ReportInv'
  BY <1>1 DEF EngineServes
<1>2. ASSUME NEW g \in Gens, UNCHANGED svcVars, EngineExit(g) PROVE ReportInv'
  BY <1>2 DEF EngineExit
<1>3. ASSUME NEW g \in Gens, UNCHANGED svcVars, ReadStartupLine(g) PROVE ReportInv'
  BY <1>3 DEF ReadStartupLine
<1>4. ASSUME NEW g \in Gens, UNCHANGED svcVars, ReadEof(g) PROVE ReportInv'
  BY <1>4 DEF ReadEof
<1>5. ASSUME NEW g \in Gens, UNCHANGED svcVars, RecordExit(g) PROVE ReportInv'
  BY <1>5 DEF RecordExit, ExitStatus
<1>6. ASSUME NEW g \in Gens, UNCHANGED svcVars, HealthProbe(g) PROVE ReportInv'
  BY <1>6 DEF HealthProbe, PortAnswers
<1>7. ASSUME NEW g \in Gens, UNCHANGED svcVars, HealthMark(g) PROVE ReportInv'
  BY <1>7 DEF HealthMark
<1>8. ASSUME NEW g \in Gens, UNCHANGED svcVars, HealthEnd(g) PROVE ReportInv'
  BY <1>8 DEF HealthEnd
<1>9. ASSUME NEW g \in Gens, UNCHANGED svcVars, MemoryGuard(g) PROVE ReportInv'
  BY <1>9 DEF MemoryGuard
<1>10. CASE TimePasses /\ UNCHANGED svcVars
  BY <1>10 DEF TimePasses
<1>11. ASSUME NEW t \in Clients, StopRequest(t) PROVE ReportInv'
  BY <1>11 DEF StopRequest, Request, Goto, ClearOutcomes
<1>12. ASSUME NEW t \in Clients, NEW m \in Models, LaunchRequest(t, m) PROVE ReportInv'
  BY <1>12 DEF LaunchRequest, Request, Goto
<1>13. ASSUME NEW t \in Clients, NEW m \in Models, DeleteRequest(t, m) PROVE ReportInv'
  BY <1>13 DEF DeleteRequest, Request, Goto
<1>14. ASSUME NEW t \in Workers, LaunchLock(t) PROVE ReportInv'
  BY <1>14 DEF LaunchLock, Take, Goto
<1>15. ASSUME NEW t \in Workers, BuildRefused(t) PROVE ReportInv'
  BY <1>15 DEF BuildRefused, Release, Goto
<1>16. ASSUME NEW t \in Workers, KillPrevious(t) PROVE ReportInv'
  BY <1>16 DEF KillPrevious, Signal, Goto
<1>17. ASSUME NEW t \in Workers, PreviousGone(t) PROVE ReportInv'
  BY <1>17 DEF PreviousGone, Goto
<1>18. ASSUME NEW t \in Workers, MarkStarting(t) PROVE ReportInv'
  BY <1>18 DEF MarkStarting, Goto
<1>19. ASSUME NEW t \in Workers, SpawnEngine(t) PROVE ReportInv'
  BY <1>19 DEF SpawnEngine, Spawn, Goto
<1>20. ASSUME NEW t \in Workers, SpawnFails(t) PROVE ReportInv'
  BY <1>20 DEF SpawnFails, Release, Goto
<1>21. ASSUME NEW t \in Workers, SaveLastLaunch(t) PROVE ReportInv'
  BY <1>21 DEF SaveLastLaunch, Release, Goto, WriteOutcomes
<1>22. ASSUME NEW t \in Workers, StopLock(t) PROVE ReportInv'
  BY <1>22 DEF StopLock, Take, Goto
<1>23. ASSUME NEW t \in Workers, StopKill(t) PROVE ReportInv'
  BY <1>23 DEF StopKill, Signal, Goto
<1>24. ASSUME NEW t \in Workers, StopDone(t) PROVE ReportInv'
  BY <1>24 DEF StopDone, Release, Goto, NoLaunchInFlight
<1>25. ASSUME NEW t \in Workers, AlreadyStopped(t) PROVE ReportInv'
  BY <1>25 DEF AlreadyStopped, Release, Goto, NoLaunchInFlight
<1>26. ASSUME NEW t \in Workers, DeleteFiles(t) PROVE ReportInv'
  BY <1>26 DEF DeleteFiles, Goto
<1>27. CASE WatchdogTick
  BY <1>27 DEF WatchdogTick, Goto, WriteOutcomes
<1>28. CASE WatchdogLoad
  BY <1>28 DEF WatchdogLoad, Goto
<1>29. CASE WatchdogCheck
  BY <1>29 DEF WatchdogCheck, Goto
<1>30. CASE WatchdogInvalid
  BY <1>30 DEF WatchdogInvalid, Goto, WriteOutcomes
<1>31. CASE WatchdogMemoryOk
  BY <1>31 DEF WatchdogMemoryOk, Goto
<1>32. CASE WatchdogMemoryLow
  BY <1>32 DEF WatchdogMemoryLow, Goto, WriteOutcomes
<1>33. CASE WatchdogLock
  BY <1>33 DEF WatchdogLock, Take, Goto
<1>34. CASE WatchdogResume
  BY <1>34 DEF WatchdogResume, Release, Goto, WriteOutcomes
<1>35. CASE Restart
  BY <1>35 DEF Restart, SupReset
<1>36. CASE UNCHANGED vars
  BY <1>36
<1> QED
  BY <1>1, <1>2, <1>3, <1>4, <1>5, <1>6, <1>7, <1>8, <1>9, <1>10, <1>11, <1>12,
     <1>13, <1>14, <1>15, <1>16, <1>17, <1>18, <1>19, <1>20, <1>21, <1>22,
     <1>23, <1>24, <1>25, <1>26, <1>27, <1>28, <1>29, <1>30, <1>31, <1>32,
     <1>33, <1>34, <1>35, <1>36 DEF Next, SupervisorStep, Engine, Threads,
     Receive, Handle, StartProcess, Stop, WatchdogStep

\* /status names the model that the engine it calls running was launched with,
\* whenever no operation is under way.
THEOREM ReportsServed ==
    ASSUME "stop" \notin Requests, ~SpawnCanFail
    PROVE  Spec => []ReportedModel
<1>1. Init => ReportInv
  BY DEF Init, SupInit, ReportInv, Workers, StopSteps, Gens
<1>2. IInv /\ ReportInv => ReportedModel
  BY RunnerAssumption
  DEF IInv, LockInv, ReportInv, ReportedModel, Workers, Locked, StartSteps
<1> QED
  BY Invariance, ReportStep, <1>1, <1>2, PTL DEF Spec

=============================================================================
