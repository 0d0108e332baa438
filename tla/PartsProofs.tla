---------------------------- MODULE PartsProofs -----------------------------
(***************************************************************************)
(* Theorems about the parts beside the chat service: the decision service, *)
(* for every number of clients, requests and engines; the slot of a        *)
(* download, the reader of the log stream, the end and the text of a       *)
(* streamed answer, for every number of callers, repositories, jobs, lines *)
(* and frames, and every size of the buffer.  The last part carries        *)
(* them, and those of VoiceProofs, to the behaviours in which the five     *)
(* parts share a state space, because a step of one leaves the others      *)
(* alone.                                                                  *)
(***************************************************************************)
EXTENDS Parts, VoiceProofs, SequenceTheorems, WellFoundedInduction

-----------------------------------------------------------------------------
(* The decision service *)

\* `ops` is held exactly by the request that is in a locked step.
DecisionsLock == \A t \in Clients : pc[t] \in Locked <=> ops = t

\* Generations not used yet are untouched, and a process whose end its reader has
\* not seen counts as alive.
DecisionsGens ==
    /\ cur < nextGen
    /\ \A g \in Gens :
         /\ g >= nextGen => os[g] = "none" /\ reader[g] = "none"
                              /\ watch[g] = "none"
         /\ Exists(g) => Alive(g)

\* When no kill gives up: an engine that is alive is the current one, or the one
\* a stop took out of the shared state and is killing, with nothing in its place;
\* and none is alive where the next one is spawned.
DecisionsEngine ==
    ~KillCanTimeOut =>
      /\ \A g \in Gens : Alive(g) =>
           g = cur \/ (g = victim /\ \E t \in Clients : pc[t] = "kill")
      /\ \A t \in Clients :
           /\ pc[t] = "kill" => cur = 0
           /\ pc[t] = "spawn" => \A g \in Gens : ~Alive(g)

DecisionsInv == DecisionsTypeOK /\ DecisionsLock /\ DecisionsGens
                   /\ DecisionsEngine /\ StoppedStaysStopped

-----------------------------------------------------------------------------
(* Proofs: one lemma per part of the invariant, one step per action *)

\* Every step keeps the types.
LEMMA DecisionsTypeStep ==
    DecisionsInv /\ [DecisionsNext]_decisionVars => DecisionsTypeOK'
<1> SUFFICES ASSUME DecisionsInv, [DecisionsNext]_decisionVars
             PROVE  DecisionsTypeOK'
  OBVIOUS
<1> USE DecisionsAssumption, MaxGenAssumption, NoModelAssumption
    DEF DecisionsInv, DecisionsTypeOK, SupTypeOK, Gens, Locked, svcVars,
        supVars, procVars, sharedVars, Goto, Release
<1>1. ASSUME NEW g \in Gens, UNCHANGED svcVars, Engine(g)
      PROVE  DecisionsTypeOK'
  BY <1>1 DEF Engine, EngineServes, EngineExit
<1>2. ASSUME NEW g \in Gens, UNCHANGED svcVars, Threads(g)
      PROVE  DecisionsTypeOK'
  BY <1>2 DEF Threads, ReadStartupLine, ReadEof, RecordExit, HealthProbe,
              HealthMark, HealthEnd, MemoryGuard, ExitStatus
<1>3. CASE TimePasses /\ UNCHANGED svcVars
  BY <1>3 DEF TimePasses
<1>4. ASSUME NEW t \in Clients, Request(t) PROVE DecisionsTypeOK'
  BY <1>4 DEF Request
<1>5. ASSUME NEW t \in Clients, Lock(t) PROVE DecisionsTypeOK'
  BY <1>5 DEF Lock
<1>6. ASSUME NEW t \in Clients, StartRefused(t) PROVE DecisionsTypeOK'
  BY <1>6 DEF StartRefused
<1>7. ASSUME NEW t \in Clients, StartMark(t) PROVE DecisionsTypeOK'
  BY <1>7 DEF StartMark
<1>8. ASSUME NEW t \in Clients, StartSpawn(t) PROVE DecisionsTypeOK'
  BY <1>8 DEF StartSpawn, Spawn
<1>9. ASSUME NEW t \in Clients, StartFails(t) PROVE DecisionsTypeOK'
  BY <1>9 DEF StartFails
<1>10. ASSUME NEW t \in Clients, StopTake(t) PROVE DecisionsTypeOK'
  <2>1. CASE Alive(cur)
    BY <1>10, <2>1 DEF StopTake, Signal, Alive
  <2>2. CASE ~Alive(cur)
    BY <1>10, <2>2 DEF StopTake
  <2> QED
    BY <2>1, <2>2
<1>11. ASSUME NEW t \in Clients, StopDone(t) PROVE DecisionsTypeOK'
  BY <1>11 DEF StopDone
<1>12. CASE UNCHANGED decisionVars
  BY <1>12 DEF decisionVars
<1> QED
  BY <1>1, <1>2, <1>3, <1>4, <1>5, <1>6, <1>7, <1>8, <1>9, <1>10, <1>11,
     <1>12 DEF DecisionsNext, SupervisorStep, Handle

\* The lock is taken when it is free, and given back by every way out.
LEMMA DecisionsLockStep ==
    DecisionsInv /\ [DecisionsNext]_decisionVars => DecisionsLock'
<1> SUFFICES ASSUME DecisionsInv, [DecisionsNext]_decisionVars
             PROVE  DecisionsLock'
  OBVIOUS
<1> USE DecisionsAssumption
    DEF DecisionsInv, DecisionsTypeOK, DecisionsLock, Locked, svcVars, Goto,
        Release
<1>1. CASE SupervisorStep
  BY <1>1 DEF SupervisorStep
<1>2. ASSUME NEW t \in Clients, Request(t) PROVE DecisionsLock'
  BY <1>2 DEF Request
<1>3. ASSUME NEW t \in Clients, Lock(t) PROVE DecisionsLock'
  BY <1>3 DEF Lock
<1>4. ASSUME NEW t \in Clients, StartRefused(t) \/ StartFails(t)
      PROVE  DecisionsLock'
  BY <1>4 DEF StartRefused, StartFails
<1>5. ASSUME NEW t \in Clients, StartMark(t) PROVE DecisionsLock'
  BY <1>5 DEF StartMark
<1>6. ASSUME NEW t \in Clients, StartSpawn(t) PROVE DecisionsLock'
  BY <1>6 DEF StartSpawn
<1>7. ASSUME NEW t \in Clients, StopTake(t) PROVE DecisionsLock'
  BY <1>7 DEF StopTake
<1>8. ASSUME NEW t \in Clients, StopDone(t) PROVE DecisionsLock'
  BY <1>8 DEF StopDone
<1>9. CASE UNCHANGED decisionVars
  BY <1>9 DEF decisionVars
<1> QED
  BY <1>1, <1>2, <1>3, <1>4, <1>5, <1>6, <1>7, <1>8, <1>9
  DEF DecisionsNext, Handle

\* A generation is touched only once it is spawned, and a process ends before its
\* reader stores `exited`.
LEMMA DecisionsGensStep ==
    DecisionsInv /\ [DecisionsNext]_decisionVars => DecisionsGens'
<1> SUFFICES ASSUME DecisionsInv, [DecisionsNext]_decisionVars
             PROVE  DecisionsGens'
  OBVIOUS
<1> USE MaxGenAssumption
    DEF DecisionsInv, DecisionsTypeOK, SupTypeOK, DecisionsGens, Gens, Alive,
        Exists, svcVars, supVars, procVars, sharedVars
<1>1. ASSUME NEW g \in Gens, Engine(g) PROVE DecisionsGens'
  BY <1>1 DEF Engine, EngineServes, EngineExit
<1>2. ASSUME NEW g \in Gens, ReadStartupLine(g) PROVE DecisionsGens'
  BY <1>2 DEF ReadStartupLine
<1>3. ASSUME NEW g \in Gens, ReadEof(g) PROVE DecisionsGens'
  BY <1>3 DEF ReadEof
<1>4. ASSUME NEW g \in Gens, RecordExit(g) PROVE DecisionsGens'
  BY <1>4 DEF RecordExit
<1>5. ASSUME NEW g \in Gens, HealthProbe(g) \/ HealthMark(g) \/ HealthEnd(g)
      PROVE  DecisionsGens'
  BY <1>5 DEF HealthProbe, HealthMark, HealthEnd
<1>6. ASSUME NEW g \in Gens, MemoryGuard(g) PROVE DecisionsGens'
  BY <1>6 DEF MemoryGuard
<1>7. CASE TimePasses
  BY <1>7 DEF TimePasses
<1>8. ASSUME NEW t \in Clients, Request(t) \/ Lock(t) \/ StartRefused(t)
                                  \/ StartFails(t) \/ StopDone(t)
      PROVE  DecisionsGens'
  BY <1>8 DEF Request, Lock, StartRefused, StartFails, StopDone
<1>9. ASSUME NEW t \in Clients, StartMark(t) PROVE DecisionsGens'
  BY <1>9 DEF StartMark
<1>10. ASSUME NEW t \in Clients, StartSpawn(t) PROVE DecisionsGens'
  BY <1>10 DEF StartSpawn, Spawn
<1>11. ASSUME NEW t \in Clients, StopTake(t) PROVE DecisionsGens'
  BY <1>11 DEF StopTake, Signal
<1>12. CASE UNCHANGED decisionVars
  BY <1>12 DEF decisionVars
<1> QED
  BY <1>1, <1>2, <1>3, <1>4, <1>5, <1>6, <1>7, <1>8, <1>9, <1>10, <1>11,
     <1>12 DEF DecisionsNext, SupervisorStep, Threads, Handle

\* The engine a stop forgets dies before `ops` is free again.
LEMMA DecisionsEngineStep ==
    DecisionsInv /\ [DecisionsNext]_decisionVars => DecisionsEngine'
<1> SUFFICES ASSUME DecisionsInv, [DecisionsNext]_decisionVars,
                    ~KillCanTimeOut
             PROVE  DecisionsEngine'
  BY DEF DecisionsEngine
<1> USE DecisionsAssumption, MaxGenAssumption
    DEF DecisionsInv, DecisionsTypeOK, SupTypeOK, DecisionsEngine, Gens, Alive,
        svcVars, supVars, procVars, sharedVars, Goto, Release
<1>1. ASSUME NEW g \in Gens, UNCHANGED svcVars, Engine(g)
      PROVE  DecisionsEngine'
  BY <1>1 DEF Engine, EngineServes, EngineExit
<1>2. ASSUME NEW g \in Gens, UNCHANGED svcVars, ReadStartupLine(g)
      PROVE  DecisionsEngine'
  BY <1>2 DEF ReadStartupLine
<1>3. ASSUME NEW g \in Gens, UNCHANGED svcVars, ReadEof(g)
      PROVE  DecisionsEngine'
  BY <1>3 DEF ReadEof
<1>4. ASSUME NEW g \in Gens, UNCHANGED svcVars, RecordExit(g)
      PROVE  DecisionsEngine'
  BY <1>4 DEF RecordExit
<1>5. ASSUME NEW g \in Gens, UNCHANGED svcVars,
             HealthProbe(g) \/ HealthMark(g) \/ HealthEnd(g) \/ MemoryGuard(g)
      PROVE  DecisionsEngine'
  BY <1>5 DEF HealthProbe, HealthMark, HealthEnd, MemoryGuard
<1>6. CASE TimePasses /\ UNCHANGED svcVars
  BY <1>6 DEF TimePasses
<1>7. ASSUME NEW t \in Clients, Request(t) PROVE DecisionsEngine'
  BY <1>7 DEF Request
<1>8. ASSUME NEW t \in Clients, Lock(t) PROVE DecisionsEngine'
  BY <1>8 DEF Lock, DecisionsLock, Locked
<1>9. ASSUME NEW t \in Clients, StartRefused(t) \/ StartFails(t)
      PROVE  DecisionsEngine'
  <2>1. CASE StartRefused(t)
    BY <2>1 DEF StartRefused, DecisionsLock, Locked
  <2>2. CASE StartFails(t)
    BY <2>2 DEF StartFails, DecisionsLock, Locked
  <2> QED
    BY <1>9, <2>1, <2>2
<1>10. ASSUME NEW t \in Clients, StartMark(t) PROVE DecisionsEngine'
  <2>1. \A u \in Clients : pc[u] # "kill"
    BY <1>10 DEF StartMark, DecisionsLock, Locked
  <2>2. \A g \in Gens : ~Alive(g)
    BY <1>10, <2>1 DEF StartMark
  <2> QED
    BY <1>10, <2>1, <2>2 DEF StartMark
<1>11. ASSUME NEW t \in Clients, StartSpawn(t) PROVE DecisionsEngine'
  <2>1. \A u \in Clients : pc'[u] \notin {"kill", "spawn"}
    BY <1>11 DEF StartSpawn, DecisionsLock, Locked
  <2> QED
    BY <1>11, <2>1 DEF StartSpawn, Spawn
<1>12. ASSUME NEW t \in Clients, StopTake(t) PROVE DecisionsEngine'
  <2>1. \A u \in Clients : pc[u] \notin {"kill", "spawn"}
    BY <1>12 DEF StopTake, DecisionsLock, Locked
  <2> QED
    BY <1>12, <2>1 DEF StopTake, Signal
<1>13. ASSUME NEW t \in Clients, StopDone(t) PROVE DecisionsEngine'
  <2>1. \A u \in Clients : pc'[u] \notin {"kill", "spawn"}
    BY <1>13 DEF StopDone, DecisionsLock, Locked
  <2>2. \A g \in Gens : Alive(g) => g = cur
    BY <1>13 DEF StopDone
  <2> QED
    BY <1>13, <2>1, <2>2 DEF StopDone
<1>14. CASE UNCHANGED decisionVars
  BY <1>14 DEF decisionVars
<1> QED
  BY <1>1, <1>2, <1>3, <1>4, <1>5, <1>6, <1>7, <1>8, <1>9, <1>10, <1>11,
     <1>12, <1>13, <1>14 DEF DecisionsNext, SupervisorStep, Threads, Handle

\* Only a thread of the current generation writes the status.
LEMMA StoppedStep ==
    DecisionsInv /\ [DecisionsNext]_decisionVars => StoppedStaysStopped'
<1> SUFFICES ASSUME DecisionsInv, [DecisionsNext]_decisionVars
             PROVE  StoppedStaysStopped'
  OBVIOUS
<1> USE MaxGenAssumption
    DEF DecisionsInv, StoppedStaysStopped, Gens, supVars, procVars, sharedVars
<1>1. ASSUME NEW g \in Gens, Engine(g) PROVE StoppedStaysStopped'
  BY <1>1 DEF Engine, EngineServes, EngineExit
<1>2. ASSUME NEW g \in Gens, Threads(g) PROVE StoppedStaysStopped'
  BY <1>2 DEF Threads, ReadStartupLine, ReadEof, RecordExit, HealthProbe,
              HealthMark, HealthEnd, MemoryGuard
<1>3. CASE TimePasses
  BY <1>3 DEF TimePasses
<1>4. ASSUME NEW t \in Clients, Request(t) \/ Lock(t) \/ Handle(t)
      PROVE  StoppedStaysStopped'
  BY <1>4 DEF Request, Lock, Handle, StartRefused, StartMark, StartSpawn,
              Spawn, StartFails, StopTake, StopDone
<1>5. CASE UNCHANGED decisionVars
  BY <1>5 DEF decisionVars
<1> QED
  BY <1>1, <1>2, <1>3, <1>4, <1>5 DEF DecisionsNext, SupervisorStep

\* The invariant holds at the start, with nothing spawned and nobody asking.
LEMMA DecisionsInitInv == DecisionsInit => DecisionsInv
<1> SUFFICES ASSUME DecisionsInit PROVE DecisionsInv
  OBVIOUS
<1> USE DecisionsAssumption, MaxGenAssumption DEF DecisionsInit, SupInit, Gens
<1>1. DecisionsTypeOK
  BY DEF DecisionsTypeOK, SupTypeOK
<1>2. DecisionsLock /\ DecisionsGens /\ DecisionsEngine /\ StoppedStaysStopped
  BY DEF DecisionsLock, DecisionsGens, DecisionsEngine, StoppedStaysStopped,
         Locked, Alive, Exists
<1> QED
  BY <1>1, <1>2 DEF DecisionsInv

\* The inductive invariant holds in every reachable state of the service.
THEOREM DecisionsInvariance == DecisionsSpec => []DecisionsInv
<1>1. DecisionsInv /\ [DecisionsNext]_decisionVars => DecisionsInv'
  BY DecisionsTypeStep, DecisionsLockStep, DecisionsGensStep,
     DecisionsEngineStep, StoppedStep DEF DecisionsInv
<1> QED
  BY DecisionsInitInv, <1>1, PTL DEF DecisionsSpec

\* One engine, and a stopped service that stays stopped, follow.
LEMMA DecisionsInvSound == ASSUME ~KillCanTimeOut, DecisionsInv PROVE DecisionsSound
<1>1. OneDecisionEngine
  BY DEF DecisionsInv, DecisionsGens, DecisionsEngine, OneDecisionEngine, Gens, Alive
<1> QED
  BY <1>1 DEF DecisionsInv, DecisionsSound

\* Concurrent starts and stops of the decision service, in any order with the
\* threads of the engines they spawn and kill, never leave two engines nor a
\* stopped service that reports itself running, if kills do not give up.
THEOREM DecisionsCorrect ==
    ASSUME ~KillCanTimeOut PROVE DecisionsSpec => []DecisionsSound
<1>1. DecisionsInv => DecisionsSound
  BY DecisionsInvSound
<1> QED
  BY DecisionsInvariance, <1>1, PTL

-----------------------------------------------------------------------------
(* Downloads *)

\* The downloads under way have started, each for a repository.
LiveStarted ==
    \A j \in live : j \in 1 .. started /\ job[j] \in Repos

DownloadInv == DownloadTypeOK /\ LiveStarted /\ SlotIsBacked

\* A start brings its own download; the end of one that is not the slot's leaves
\* the download behind the slot alone.
LEMMA DownloadStep == DownloadInv /\ [DownloadNext]_downloadVars => DownloadInv'
<1> SUFFICES ASSUME DownloadInv, [DownloadNext]_downloadVars PROVE DownloadInv'
  OBVIOUS
<1> USE DownloadAssumption
    DEF DownloadInv, DownloadTypeOK, LiveStarted, SlotIsBacked, Slots, NoJob, Jobs
<1>1. ASSUME NEW c \in Callers, NEW r \in Repos, StartCheck(c, r)
      PROVE  DownloadInv'
  BY <1>1 DEF StartCheck
<1>2. ASSUME NEW c \in Callers, StartJob(c) PROVE DownloadInv'
  <2>1. chosen[c] \in Repos /\ started + 1 \in Jobs
    BY <1>2 DEF StartJob
  <2>2. DownloadTypeOK'
    BY <1>2, <2>1 DEF StartJob
  <2>3. LiveStarted' /\ SlotIsBacked'
    BY <1>2, <2>1 DEF StartJob
  <2> QED
    BY <2>2, <2>3
<1>3. ASSUME NEW j \in Jobs, Finish(j) PROVE DownloadInv'
  <2>1. PICK err \in BOOLEAN :
          slot' = IF slot.repo = job[j]
                  THEN [slot EXCEPT !.running = FALSE, !.error = err]
                  ELSE slot
    BY <1>3 DEF Finish
  <2>2. slot' \in Slots
    BY <1>3, <2>1 DEF Finish
  <2>3. SlotIsBacked'
    BY <1>3, <2>1 DEF Finish
  <2> QED
    BY <1>3, <2>2, <2>3 DEF Finish
<1>4. CASE Clear
  BY <1>4 DEF Clear
<1>5. CASE UNCHANGED downloadVars
  BY <1>5 DEF downloadVars
<1> QED
  BY <1>1, <1>2, <1>3, <1>4, <1>5 DEF DownloadNext

\* Nothing downloads at the start, and the slot says so.
LEMMA DownloadInitInv == DownloadInit => DownloadInv
  BY DownloadAssumption
  DEF DownloadInit, DownloadInv, DownloadTypeOK, LiveStarted, SlotIsBacked,
      Slots, NoJob, Jobs

\* The slot of download.rs never says "running" with no download of that
\* repository behind it, in whatever order overlapping downloads end.
THEOREM SlotBacked == DownloadSpec => []SlotIsBacked
<1>1. DownloadInv => SlotIsBacked
  BY DEF DownloadInv
<1> QED
  BY <1>1, DownloadInitInv, DownloadStep, PTL DEF DownloadSpec

-----------------------------------------------------------------------------
(* The log stream *)

Increasing(s) == \A i, j \in 1 .. Len(s) : i < j => s[i] < s[j]
UpTo(s, n) == \A i \in 1 .. Len(s) : s[i] <= n

\* Lines are kept in the order in which they were written, and the lines past
\* what the reader has seen were all written after what it shows.
StreamInv ==
    /\ LogStreamTypeOK
    /\ Increasing(lines) /\ UpTo(lines, written)
    /\ Increasing(view) /\ UpTo(view, written)
    /\ \A i \in 1 .. Len(view), j \in seen + 1 .. Len(lines) : view[i] < lines[j]

\* What is left of a sequence after its first k entries.
LEMMA FromIs ==
    ASSUME NEW S, NEW s \in Seq(S), NEW k \in Nat, k <= Len(s)
    PROVE  /\ From(s, k) \in Seq(S)
           /\ Len(From(s, k)) = Len(s) - k
           /\ \A i \in 1 .. Len(s) - k : From(s, k)[i] = s[i + k]
  BY DEF From

\* An entry above all the others goes last.
LEMMA AppendIncreasing ==
    ASSUME NEW s \in Seq(Nat), NEW n \in Nat, Increasing(s), UpTo(s, n)
    PROVE  Increasing(Append(s, n + 1)) /\ UpTo(Append(s, n + 1), n + 1)
<1> DEFINE t == Append(s, n + 1)
<1>1. /\ Len(t) = Len(s) + 1 /\ Len(s) \in Nat
      /\ \A i \in 1 .. Len(s) : t[i] = s[i] /\ s[i] \in Nat /\ s[i] <= n
      /\ t[Len(s) + 1] = n + 1
  BY DEF UpTo
<1>2. \A i, j \in 1 .. Len(s) : i < j => s[i] < s[j]
  BY DEF Increasing
<1> HIDE DEF t
<1>3. ASSUME NEW i \in 1 .. Len(t), NEW j \in 1 .. Len(t), i < j
      PROVE  t[i] < t[j]
  <2>1. i \in 1 .. Len(s)
    BY <1>1, <1>3
  <2>2. CASE j = Len(s) + 1
    BY <1>1, <2>1, <2>2
  <2>3. CASE j \in 1 .. Len(s)
    BY <1>1, <1>2, <1>3, <2>1, <2>3
  <2> QED
    BY <1>1, <2>2, <2>3
<1>4. ASSUME NEW i \in 1 .. Len(t) PROVE t[i] <= n + 1
  <2>1. CASE i = Len(s) + 1
    BY <1>1, <2>1
  <2>2. CASE i \in 1 .. Len(s)
    BY <1>1, <2>2
  <2> QED
    BY <1>1, <2>1, <2>2
<1> QED
  BY <1>3, <1>4 DEF Increasing, UpTo, t

\* The tail of an increasing sequence.
LEMMA FromIncreasing ==
    ASSUME NEW s \in Seq(Nat), NEW k \in Nat, k <= Len(s), NEW n \in Nat,
           Increasing(s), UpTo(s, n)
    PROVE  Increasing(From(s, k)) /\ UpTo(From(s, k), n)
<1>1. /\ Len(From(s, k)) = Len(s) - k
      /\ \A i \in 1 .. Len(s) - k : From(s, k)[i] = s[i + k]
  BY FromIs
<1> DEFINE t == From(s, k)
<1>2. \A i \in 1 .. Len(t) : t[i] = s[i + k] /\ i + k \in 1 .. Len(s)
  BY <1>1
<1> HIDE DEF t
<1>3. \A i, j \in 1 .. Len(t) : i < j => i + k < j + k
  OBVIOUS
<1> QED
  BY <1>2, <1>3 DEF Increasing, UpTo, t

\* One sequence after another.
LEMMA ConcatType ==
    ASSUME NEW S, NEW s \in Seq(S), NEW t \in Seq(S) PROVE s \o t \in Seq(S)
  OBVIOUS

\* Two increasing sequences, one wholly below the other.
LEMMA ConcatIncreasing ==
    ASSUME NEW s \in Seq(Nat), NEW t \in Seq(Nat), NEW n \in Nat,
           Increasing(s), UpTo(s, n), Increasing(t), UpTo(t, n),
           \A i \in 1 .. Len(s), j \in 1 .. Len(t) : s[i] < t[j]
    PROVE  Increasing(s \o t) /\ UpTo(s \o t, n)
<1> DEFINE u == s \o t
<1>1. /\ Len(u) = Len(s) + Len(t) /\ Len(s) \in Nat /\ Len(t) \in Nat
      /\ \A i \in 1 .. Len(s) : u[i] = s[i]
      /\ \A i \in 1 .. Len(t) : u[Len(s) + i] = t[i]
  OBVIOUS
<1> HIDE DEF u
<1>2. ASSUME NEW i \in 1 .. Len(u), i \notin 1 .. Len(s)
      PROVE  i - Len(s) \in 1 .. Len(t) /\ u[i] = t[i - Len(s)]
  <2>1. i - Len(s) \in 1 .. Len(t) /\ i = Len(s) + (i - Len(s))
    BY <1>1, <1>2
  <2> QED
    BY <1>1, <2>1
<1>3. ASSUME NEW i \in 1 .. Len(u), NEW j \in 1 .. Len(u), i < j
      PROVE  u[i] < u[j]
  <2>1. CASE j \in 1 .. Len(s)
    BY <1>1, <1>3, <2>1, SMTT(30) DEF Increasing
  <2>2. CASE i \in 1 .. Len(s) /\ j \notin 1 .. Len(s)
    BY <1>1, <1>2, <2>2
  <2>3. CASE i \notin 1 .. Len(s) /\ j \notin 1 .. Len(s)
    <3>1. i - Len(s) < j - Len(s)
      BY <1>1, <1>3
    <3> QED
      BY <1>2, <2>3, <3>1 DEF Increasing
  <2> QED
    BY <1>1, <1>3, <2>1, <2>2, <2>3
<1>4. ASSUME NEW i \in 1 .. Len(u) PROVE u[i] <= n
  BY <1>1, <1>2 DEF UpTo
<1> QED
  BY <1>3, <1>4 DEF Increasing, UpTo, u

\* A reader that is given the tail, or a snapshot, is shown nothing twice.
LEMMA StreamStep == StreamInv /\ [LogStreamNext]_streamVars => StreamInv'
<1> SUFFICES ASSUME StreamInv, [LogStreamNext]_streamVars PROVE StreamInv'
  OBVIOUS
<1> USE LogStreamAssumption DEF StreamInv, LogStreamTypeOK
<1>1. /\ lines \in Seq(Nat) /\ view \in Seq(Nat) /\ written \in Nat
      /\ \A i \in 1 .. Len(view) : view[i] \in Nat /\ view[i] <= written
  BY DEF UpTo
<1>2. CASE AppendLine
  <2> DEFINE s == Append(lines, written + 1)
  <2>1. /\ s \in Seq(1 .. MaxLines) /\ s \in Seq(Nat)
        /\ Len(s) = Len(lines) + 1
        /\ \A i \in 1 .. Len(lines) : s[i] = lines[i]
        /\ s[Len(lines) + 1] = written + 1
    BY <1>1, <1>2 DEF AppendLine
  <2>2. Increasing(s) /\ UpTo(s, written + 1)
    BY <1>1, AppendIncreasing
  <2> HIDE DEF s
  <2>3. ASSUME NEW i \in 1 .. Len(view), NEW j \in seen + 1 .. Len(s)
        PROVE  view[i] < s[j]
    <3>1. CASE j = Len(lines) + 1
      BY <1>1, <2>1, <3>1
    <3>2. CASE j \in seen + 1 .. Len(lines)
      BY <2>1, <3>2
    <3> QED
      BY <2>1, <3>1, <3>2
  <2>4. /\ lines' \in Seq(1 .. MaxLines) /\ Len(lines') <= Cap
        /\ Increasing(lines') /\ UpTo(lines', written + 1)
        /\ \A i \in 1 .. Len(view), j \in seen + 1 .. Len(lines') :
             view[i] < lines'[j]
    <3>1. CASE Len(s) > Cap
      <4>1. lines' = From(s, Trim) /\ Trim \in Nat /\ Trim <= Len(s)
        BY <1>2, <2>1, <3>1 DEF AppendLine, Trimmed, s
      <4>2. /\ lines' \in Seq(1 .. MaxLines) /\ Len(lines') = Len(s) - Trim
            /\ \A i \in 1 .. Len(s) - Trim : lines'[i] = s[i + Trim]
        BY <2>1, <4>1, FromIs, ZenonT(60)
      <4>3. Increasing(lines') /\ UpTo(lines', written + 1)
        BY <1>1, <2>1, <2>2, <4>1, FromIncreasing
      <4>4. ASSUME NEW i \in 1 .. Len(view), NEW j \in seen + 1 .. Len(lines')
            PROVE  view[i] < lines'[j]
        <5>1. j \in 1 .. Len(s) - Trim /\ j + Trim \in seen + 1 .. Len(s)
          BY <2>1, <4>1, <4>2
        <5> QED
          BY <2>3, <4>2, <5>1
      <4> QED
        BY <2>1, <3>1, <4>1, <4>2, <4>3, <4>4
    <3>2. CASE ~(Len(s) > Cap)
      <4>1. lines' = s
        BY <1>2, <3>2 DEF AppendLine, Trimmed, s
      <4> QED
        BY <2>1, <2>2, <2>3, <3>2, <4>1
    <3> QED
      BY <3>1, <3>2
  <2>5. /\ written' = written + 1 /\ written' \in 0 .. MaxLines
        /\ UNCHANGED <<seen, view, open>>
    BY <1>2 DEF AppendLine
  <2>6. UpTo(view, written + 1)
    BY <1>1 DEF UpTo
  <2> QED
    BY <2>4, <2>5, <2>6
<1>3. CASE ClearBuffer
  BY <1>3 DEF ClearBuffer, Increasing, UpTo
<1>4. CASE Connect
  BY <1>4 DEF Connect
<1>5. CASE Poll
  <2>1. CASE Len(lines) < seen
    BY <1>5, <2>1 DEF Poll
  <2>2. CASE ~(Len(lines) < seen)
    <3> DEFINE t == From(lines, seen)
    <3>1. /\ t \in Seq(1 .. MaxLines) /\ Len(t) = Len(lines) - seen
          /\ \A i \in 1 .. Len(lines) - seen : t[i] = lines[i + seen]
      <4>1. seen \in Nat /\ seen <= Len(lines) /\ lines \in Seq(1 .. MaxLines)
        BY <2>2
      <4> QED
        BY ONLY <4>1, FromIs
    <3>2. Increasing(t) /\ UpTo(t, written)
      BY <1>1, <2>2, FromIncreasing
    <3> HIDE DEF t
    <3>3. ASSUME NEW i \in 1 .. Len(view), NEW j \in 1 .. Len(t)
          PROVE  view[i] < t[j]
      <4>1. j \in 1 .. Len(lines) - seen /\ j + seen \in seen + 1 .. Len(lines)
        BY <3>1
      <4> QED
        BY <3>1, <4>1
    <3>4. t \in Seq(Nat)
      BY <3>1
    <3>5. Increasing(view \o t) /\ UpTo(view \o t, written)
      BY <1>1, <3>2, <3>3, <3>4, ConcatIncreasing
    <3>6. view' = view \o t /\ seen' = Len(lines) /\ UNCHANGED <<lines, written, open>>
      BY <1>5, <2>2 DEF Poll, t
    <3>7. view' \in Seq(1 .. MaxLines)
      BY <3>1, <3>6, ConcatType
    <3> QED
      BY <3>5, <3>6, <3>7
  <2> QED
    BY <2>1, <2>2
<1>6. CASE Disconnect
  <2>1. view' = <<>> /\ seen' = 0 /\ UNCHANGED <<lines, written>>
    BY <1>6 DEF Disconnect
  <2>2. open' \in BOOLEAN
    BY <1>6 DEF Disconnect
  <2> QED
    BY <2>1, <2>2 DEF Increasing, UpTo
<1>7. CASE UNCHANGED streamVars
  BY <1>7 DEF streamVars
<1> QED
  BY <1>2, <1>3, <1>4, <1>5, <1>6, <1>7 DEF LogStreamNext

\* No line has been written at the start.
LEMMA StreamInitInv == LogStreamInit => StreamInv
<1> SUFFICES ASSUME LogStreamInit PROVE StreamInv
  OBVIOUS
<1>1. open \in BOOLEAN
  BY DEF LogStreamInit
<1>2. lines = <<>> /\ view = <<>> /\ written = 0 /\ seen = 0
  BY DEF LogStreamInit
<1> QED
  BY <1>1, <1>2, LogStreamAssumption
  DEF StreamInv, LogStreamTypeOK, Increasing, UpTo

\* A reader of /stream is never shown a line twice nor two lines out of order,
\* however its polls fall between the lines, the trims and the clears.
THEOREM StreamInOrder == LogStreamSpec => []InOrder
<1>1. StreamInv => InOrder
  BY DEF StreamInv, Increasing, InOrder
<1> QED
  BY <1>1, StreamInitInv, StreamStep, PTL DEF LogStreamSpec

-----------------------------------------------------------------------------
(* The relay of a streamed answer *)

Hops == [stage : Stages, status : Nat, moved : Nat, end : {"none", "close", "error"}]

\* The parts of the state that the end of an answer depends on.
RelayShape ==
    /\ up \in [kinds : Seq(FrameKinds), wrote : Nat,
               state : {"idle", "asked", "writing", "finished", "broken"}]
    /\ hop \in Hops
    /\ receiver = [buffer |-> receiver.buffer, taken |-> receiver.taken,
                   got |-> receiver.got, end |-> receiver.end]

\* The relay has ended nothing before it is over, and closes the page's stream
\* only once the portal has finished and all it wrote was moved: unless the page
\* turned away since, that stands.
RelayInv ==
    /\ RelayShape
    /\ hop.stage \in {"announced", "checked", "connecting"} => hop.status = 0
    /\ hop.stage # "over" => hop.end = "none"
    /\ hop.end = "close" /\ hop.status = 200 /\ receiver.end \in {"none", "complete"}
         => up.state = "finished" /\ hop.moved = up.wrote
    /\ receiver.end = "complete"
         => hop.end = "close" /\ hop.status = 200 /\ receiver.taken = hop.moved

\* Only PullEnd closes an answer, and only ReadDone completes it.
LEMMA RelayStep == RelayInv /\ [RelayNext]_relayVars => RelayInv'
<1> SUFFICES ASSUME RelayInv, [RelayNext]_relayVars PROVE RelayInv'
  OBVIOUS
<1> USE DEF RelayInv, RelayShape, Hops, Stages
<1>a. hop.status = 0 => receiver.end # "complete"
  OBVIOUS
<1>b. ASSUME NEW s \in Nat, s # 200, Refuse(s)
      PROVE  hop' \in Hops /\ hop'.stage = "over" /\ hop'.status # 200
  BY <1>b DEF Refuse
<1>1. ASSUME NEW code \in {200, 401, 500}, Answers(code) PROVE RelayInv'
  <2>1. hop.end = "none" /\ receiver.end # "complete" /\ code \in Nat
    BY <1>1, <1>a DEF Answers
  <2>2. hop' \in Hops /\ hop'.stage = "streaming" /\ hop'.end = "none"
    BY <1>1, <2>1 DEF Answers
  <2> QED
    BY <1>1, <2>1, <2>2 DEF Answers
<1>2. CASE Writes
  BY <1>2 DEF Writes
<1>3. CASE Finishes \/ Breaks
  BY <1>3 DEF Finishes, Breaks
<1>4. CASE CheckLength
  <2>1. receiver.end # "complete" /\ UNCHANGED <<up, receiver>>
    BY <1>4, <1>a DEF CheckLength
  <2>2. CASE Refuse(413)
    BY <1>b, <2>1, <2>2
  <2>3. CASE hop' = [hop EXCEPT !.stage = "checked"]
    BY <1>4, <2>1, <2>3 DEF CheckLength
  <2> QED
    BY <1>4, <2>2, <2>3 DEF CheckLength
<1>5. CASE CheckSession
  <2>1. receiver.end # "complete" /\ UNCHANGED receiver
    BY <1>5, <1>a DEF CheckSession
  <2>2. CASE Refuse(401) \/ Refuse(413)
    <3>1. hop' \in Hops /\ hop'.stage = "over" /\ hop'.status # 200
      BY <1>b, <2>2
    <3> QED
      BY <1>5, <2>1, <3>1 DEF CheckSession
  <2>3. CASE hop' = [hop EXCEPT !.stage = "connecting"]
    BY <1>5, <2>1, <2>3 DEF CheckSession
  <2> QED
    BY <1>5, <2>2, <2>3 DEF CheckSession
<1>6. CASE ConnectFails
  <2>1. receiver.end # "complete"
    BY <1>6, <1>a DEF ConnectFails
  <2>2. hop' \in Hops /\ hop'.stage = "over" /\ hop'.status # 200
    BY <1>6, <1>b DEF ConnectFails
  <2> QED
    BY <1>6, <2>1, <2>2 DEF ConnectFails
<1>7. CASE Pull
  BY <1>7 DEF Pull
<1>8. CASE PullEnd
  BY <1>8 DEF PullEnd
<1>9. CASE IdleTimeout
  BY <1>9 DEF IdleTimeout
<1>10. CASE ReadStatus
  BY <1>10 DEF ReadStatus, Reading
<1>11. CASE ReadChunk
  <2>1. /\ UNCHANGED <<up, hop>> /\ receiver.end = "none"
        /\ receiver' = [buffer |-> receiver'.buffer, taken |-> receiver'.taken,
                        got |-> receiver'.got, end |-> "none"]
    BY <1>11, ZenonT(60) DEF ReadChunk, Reading, Received
  <2> QED
    BY <2>1
<1>12. CASE ReadDone
  BY <1>12 DEF ReadDone, Reading
<1>13. CASE ReadFails
  BY <1>13 DEF ReadFails, Reading
<1>14. CASE Abort
  BY <1>14 DEF Abort
<1>15. CASE UNCHANGED relayVars
  BY <1>15 DEF relayVars
<1> QED
  BY <1>1, <1>2, <1>3, <1>4, <1>5, <1>6, <1>7, <1>8, <1>9, <1>10, <1>11,
     <1>12, <1>13, <1>14, <1>15 DEF RelayNext

\* Whether a request is sent or not, the invariant holds at the start.
LEMMA RelayInitInv == ASSUME NEW asks \in BOOLEAN PROVE RelayStarts(asks) => RelayInv
<1> SUFFICES ASSUME RelayStarts(asks) PROVE RelayInv
  OBVIOUS
<1>1. PICK kinds \in IF asks THEN BoundedSeq(FrameKinds, MaxFrames) ELSE {<<>>} :
        up = [kinds |-> kinds, wrote |-> 0, state |-> IF asks THEN "idle" ELSE "broken"]
  BY DEF RelayStarts
<1>2. kinds \in Seq(FrameKinds)
  <2>1. CASE asks
    <3>1. PICK m \in 0 .. MaxFrames : kinds \in [1 .. m -> FrameKinds]
      BY <2>1 DEF BoundedSeq, SeqOf
    <3> QED
      BY <3>1, RelayAssumption
  <2>2. CASE ~asks
    BY <2>2
  <2> QED
    BY <2>1, <2>2
<1>3. /\ hop \in Hops /\ hop.status = 0 /\ hop.end # "close"
      /\ hop.stage # "over" => hop.end = "none"
  BY DEF RelayStarts, Hops, Stages
<1>4. /\ receiver = [buffer |-> receiver.buffer, taken |-> receiver.taken,
                     got |-> receiver.got, end |-> receiver.end]
      /\ receiver.end # "complete"
  BY DEF RelayStarts
<1> QED
  BY <1>1, <1>2, <1>3, <1>4 DEF RelayInv, RelayShape

\* An answer that ends without an error was finished by the portal and reached
\* the page whole: a portal that dies, a connection that falls silent or a page
\* that turns away never passes for the end of the answer.
THEOREM AnswerIsWhole == RelaySpec => []NoSilentCut
<1>1. RelayInit => RelayInv
  BY RelayInitInv DEF RelayInit
<1>2. RelayInv => NoSilentCut
  BY DEF RelayInv, NoSilentCut
<1> QED
  BY <1>1, <1>2, RelayStep, PTL DEF RelaySpec

-----------------------------------------------------------------------------
(* Recursive functions of the relay, and what they compute *)

\* A set of numbers that holds 0 and the successor of each member holds all.
LEMMA CountingUp ==
  ASSUME NEW S \in SUBSET Nat, 0 \in S, \A n \in S : n + 1 \in S
  PROVE  S = Nat
<1> SUFFICES ASSUME S # Nat PROVE FALSE
  OBVIOUS
<1> DEFINE T == Nat \ S
<1>1. PICK x \in T : \A y \in T : ~(<<y, x>> \in OpToRel(<, Nat))
  <2>1. T # {} /\ T \subseteq Nat
    OBVIOUS
  <2> QED
    BY <2>1, NatLessThanWellFounded, WFMin
<1>2. x \in Nat /\ x \notin S /\ x # 0
  OBVIOUS
<1>3. x - 1 \in Nat /\ x - 1 < x /\ (x - 1) + 1 = x
  BY <1>2
<1>4. x - 1 \in T
  BY <1>2, <1>3
<1>5. <<x - 1, x>> \in OpToRel(<, Nat)
  BY <1>2, <1>3 DEF OpToRel
<1> QED
  BY <1>1, <1>4, <1>5

\* What holds of 0 and passes from each number to the next holds up to m.
LEMMA CountingTo ==
  ASSUME NEW m \in Nat, NEW S, 0 \in S, \A i \in 1 .. m : i - 1 \in S => i \in S
  PROVE  \A i \in 0 .. m : i \in S
<1> DEFINE T == {n \in Nat : n <= m => n \in S}
<1>1. 0 \in T
  OBVIOUS
<1>2. ASSUME NEW n \in T PROVE n + 1 \in T
  <2>1. n \in Nat /\ n + 1 \in Nat /\ (n + 1) - 1 = n
    OBVIOUS
  <2>2. n + 1 <= m => n <= m /\ n + 1 \in 1 .. m
    BY <2>1
  <2>3. n + 1 <= m => n + 1 \in S
    BY <2>1, <2>2
  <2> QED
    BY <2>1, <2>3
<1>3. T \in SUBSET Nat
  OBVIOUS
<1>4. T = Nat
  <2> HIDE DEF T
  <2> QED
    BY <1>1, <1>2, <1>3, CountingUp
<1> QED
  BY <1>4

\* The values of a loop over 1..m: from a start, each step takes the value before to
\* the next.
Loops(V, start, m, step) ==
  {f \in [0 .. m -> V] : f[0] = start /\ \A i \in 1 .. m : f[i] = step[i][f[i - 1]]}

\* Every loop has its values.
LEMMA LoopExists ==
  ASSUME NEW V, NEW start \in V, NEW m \in Nat, NEW step \in [1 .. m -> [V -> V]]
  PROVE  \E f : f \in Loops(V, start, m, step)
<1> DEFINE Up(n) == \E f \in [0 .. n -> V] :
                      f[0] = start /\ \A i \in 1 .. n : f[i] = step[i][f[i - 1]]
           S == {n \in Nat : n <= m => Up(n)}
<1>1. 0 \in S
  <2> DEFINE f == [i \in 0 .. 0 |-> start]
  <2>1. f \in [0 .. 0 -> V] /\ f[0] = start /\ \A i \in 1 .. 0 : f[i] = step[i][f[i - 1]]
    OBVIOUS
  <2> QED
    BY <2>1
<1>2. ASSUME NEW n \in S PROVE n + 1 \in S
  <2>0. n \in Nat /\ n + 1 \in Nat
    OBVIOUS
  <2> SUFFICES ASSUME n + 1 <= m PROVE Up(n + 1)
    BY <2>0
  <2>1. PICK f \in [0 .. n -> V] : f[0] = start /\ \A i \in 1 .. n : f[i] = step[i][f[i - 1]]
    BY <2>0
  <2> DEFINE g == [i \in 0 .. n + 1 |-> IF i = n + 1 THEN step[n + 1][f[n]] ELSE f[i]]
  <2>2. step[n + 1][f[n]] \in V
    <3>1. n + 1 \in 1 .. m /\ f[n] \in V
      BY <2>0, <2>1
    <3> QED
      BY <3>1
  <2>3. g \in [0 .. n + 1 -> V] /\ g[0] = start
    BY <2>0, <2>1, <2>2
  <2>4. ASSUME NEW i \in 1 .. n + 1 PROVE g[i] = step[i][g[i - 1]]
    <3>1. CASE i = n + 1
      <4>1. g[n] = f[n] /\ g[n + 1] = step[n + 1][f[n]] /\ i - 1 = n
        BY <2>0, <3>1
      <4> HIDE DEF g
      <4> QED
        BY <3>1, <4>1
    <3>2. CASE i # n + 1
      <4>1. i \in 1 .. n /\ i - 1 \in 0 .. n + 1 /\ i - 1 # n + 1
        BY <2>0, <3>2
      <4>2. g[i] = f[i] /\ g[i - 1] = f[i - 1]
        BY <2>0, <3>2, <4>1
      <4> QED
        BY <2>1, <4>1, <4>2
    <3> QED
      BY <3>1, <3>2
  <2> HIDE DEF g
  <2> QED
    BY <2>3, <2>4
<1>3. S = Nat
  <2> HIDE DEF S
  <2>1. S \in SUBSET Nat
    BY DEF S
  <2> QED
    BY <1>1, <1>2, <2>1, CountingUp
<1>4. m \in S
  BY <1>3
<1> QED
  BY <1>4 DEF Loops

\* The events of the first frames, one after the other (the reference of readSSE).
LEMMA EventFramesAre ==
  ASSUME NEW kinds \in Seq(FrameKinds)
  PROVE  /\ EventFrames(kinds, 0) = <<>>
         /\ \A n \in 0 .. Len(kinds) : EventFrames(kinds, n) \in Seq(Nat)
         /\ \A n \in 1 .. Len(kinds) :
              EventFrames(kinds, n) = IF kinds[n] = "event" THEN Append(EventFrames(kinds, n - 1), n)
                                      ELSE EventFrames(kinds, n - 1)
<1> DEFINE m == Len(kinds)
           V == Seq(Nat)
           Body(f) == [i \in 0 .. m |->
                         IF i = 0 THEN <<>>
                         ELSE IF kinds[i] = "event" THEN Append(f[i - 1], i) ELSE f[i - 1]]
           step == [i \in 1 .. m |-> [s \in V |-> IF kinds[i] = "event" THEN Append(s, i) ELSE s]]
           events == CHOOSE f : f = Body(f)
<1>0. m \in Nat
  OBVIOUS
<1>1. step \in [1 .. m -> [V -> V]]
  BY <1>0
<1>2. <<>> \in V
  OBVIOUS
<1>3. PICK f \in [0 .. m -> V] : f[0] = <<>> /\ \A i \in 1 .. m : f[i] = step[i][f[i - 1]]
  <2> HIDE DEF step, m, V
  <2>1. \E f : f \in Loops(V, <<>>, m, step)
    BY <1>0, <1>1, <1>2, LoopExists
  <2> QED
    BY <2>1 DEF Loops
<1>4. ASSUME NEW i \in 1 .. m
      PROVE  f[i] = IF kinds[i] = "event" THEN Append(f[i - 1], i) ELSE f[i - 1]
  <2>1. i - 1 \in 0 .. m
    BY <1>0
  <2>2. f[i - 1] \in V
    BY <1>3, <2>1
  <2> QED
    BY <1>3, <2>2
<1>5. f = Body(f)
  <2>1. ASSUME NEW i \in 0 .. m PROVE f[i] = Body(f)[i]
    <3>1. CASE i = 0
      BY <1>3, <3>1
    <3>2. CASE i # 0
      <4>1. i \in 1 .. m
        BY <1>0, <3>2
      <4> QED
        BY <1>4, <3>2, <4>1
    <3> QED
      BY <3>1, <3>2
  <2> QED
    BY <1>3, <2>1
<1>6. events = Body(events)
  BY <1>5
<1>7. \A n : EventFrames(kinds, n) = events[n]
  BY DEF EventFrames
<1> DEFINE S == {n \in 0 .. m : events[n] \in V}
<1> HIDE DEF events
<1>8. events[0] = <<>>
  BY <1>0, <1>6
<1>9. ASSUME NEW n \in 1 .. m
      PROVE  events[n] = IF kinds[n] = "event" THEN Append(events[n - 1], n) ELSE events[n - 1]
  <2>1. n \in 0 .. m /\ n # 0
    BY <1>0
  <2> QED
    BY <1>6, <2>1
<1> HIDE DEF Body
<1>10. ASSUME NEW n \in 1 .. m, n - 1 \in S PROVE n \in S
  <2>1. n \in 0 .. m /\ n \in Nat /\ events[n - 1] \in V
    BY <1>0, <1>10
  <2>2. events[n] \in V
    <3>1. Append(events[n - 1], n) \in V
      BY <2>1
    <3>2. events[n] = IF kinds[n] = "event" THEN Append(events[n - 1], n) ELSE events[n - 1]
      BY <1>9
    <3> QED
      BY <2>1, <3>1, <3>2, Zenon
  <2> QED
    BY <2>1, <2>2
<1>11. \A n \in 0 .. m : events[n] \in V
  <2>0. 0 \in 0 .. m /\ events[0] \in V
    BY <1>0, <1>2, <1>8
  <2>1. 0 \in S
    BY <2>0
  <2>2. \A n \in 0 .. m : n \in S
    <3> HIDE DEF S, m
    <3> QED
      BY <1>0, <1>10, <2>1, CountingTo
  <2> QED
    BY <2>2
<1> QED
  BY <1>7, <1>8, <1>9, <1>11

\* The parts handed on, one after the other (the loop of readSSE over its parts).
HandedBy(parts, h) ==
  /\ h[0] = <<>>
  /\ \A i \in 1 .. Len(parts) :
       h[i] = IF IsEvent(parts[i]) THEN Append(h[i - 1], parts[i][1][1]) ELSE h[i - 1]
  /\ Handed(parts) = h[Len(parts)]

\* Handing on is the loop it is written as.
LEMMA HandedIs ==
  ASSUME NEW parts, Len(parts) \in Nat, NEW W, \A i \in 1 .. Len(parts) : parts[i][1][1] \in W
  PROVE  \E h : HandedBy(parts, h)
<1> DEFINE m == Len(parts)
           V == Seq(W)
           Body(f) == [i \in 0 .. m |->
                         IF i = 0 THEN <<>>
                         ELSE IF IsEvent(parts[i]) THEN Append(f[i - 1], parts[i][1][1]) ELSE f[i - 1]]
           step == [i \in 1 .. m |-> [s \in V |-> IF IsEvent(parts[i]) THEN Append(s, parts[i][1][1]) ELSE s]]
           handed == CHOOSE f : f = Body(f)
<1>0. m \in Nat
  OBVIOUS
<1>1. step \in [1 .. m -> [V -> V]]
  <2> SUFFICES ASSUME NEW i \in 1 .. m, NEW s \in V
               PROVE  (IF IsEvent(parts[i]) THEN Append(s, parts[i][1][1]) ELSE s) \in V
    OBVIOUS
  <2>1. parts[i][1][1] \in W
    OBVIOUS
  <2> QED
    BY <2>1
<1>2. <<>> \in V
  OBVIOUS
<1>3. PICK f \in [0 .. m -> V] : f[0] = <<>> /\ \A i \in 1 .. m : f[i] = step[i][f[i - 1]]
  <2> HIDE DEF step, m, V
  <2>1. \E f : f \in Loops(V, <<>>, m, step)
    BY <1>0, <1>1, <1>2, LoopExists
  <2> QED
    BY <2>1 DEF Loops
<1>4. ASSUME NEW i \in 1 .. m
      PROVE  f[i] = IF IsEvent(parts[i]) THEN Append(f[i - 1], parts[i][1][1]) ELSE f[i - 1]
  <2>1. i - 1 \in 0 .. m
    BY <1>0
  <2>2. f[i - 1] \in V
    BY <1>3, <2>1
  <2> QED
    BY <1>3, <2>2
<1>5. f = Body(f)
  <2>1. ASSUME NEW i \in 0 .. m PROVE f[i] = Body(f)[i]
    <3>1. CASE i = 0
      BY <1>3, <3>1
    <3>2. CASE i # 0
      <4>1. i \in 1 .. m
        BY <1>0, <3>2
      <4> QED
        BY <1>4, <3>2, <4>1
    <3> QED
      BY <3>1, <3>2
  <2> QED
    BY <1>3, <2>1
<1>6. handed = Body(handed)
  BY <1>5
<1>7. Handed(parts) = handed[m]
  BY DEF Handed
<1> HIDE DEF handed
<1>8. handed[0] = <<>>
  BY <1>0, <1>6
<1>9. ASSUME NEW i \in 1 .. m
      PROVE  handed[i] = IF IsEvent(parts[i]) THEN Append(handed[i - 1], parts[i][1][1]) ELSE handed[i - 1]
  <2>1. i \in 0 .. m /\ i # 0
    BY <1>0
  <2> QED
    BY <1>6, <2>1
<1> HIDE DEF Body
<1> QED
  BY <1>7, <1>8, <1>9 DEF HandedBy

\* One symbol more (the step of SplitFrames).
SplitStep(s, c) ==
  IF c = NL /\ s.rest # <<>> /\ Last(s.rest) = NL
  THEN [parts |-> Append(s.parts, Front(s.rest)), rest |-> <<>>]
  ELSE [s EXCEPT !.rest = Append(@, c)]

\* The text split, one symbol after the other (buffer.split).
SplitBy(b, s) ==
  /\ s[0] = [parts |-> <<>>, rest |-> <<>>]
  /\ \A i \in 1 .. Len(b) : s[i] = SplitStep(s[i - 1], b[i])
  /\ SplitFrames(b) = s[Len(b)]

\* Splitting is the loop it is written as.
LEMMA SplitIs ==
  ASSUME NEW W, NEW b \in Seq(W)
  PROVE  \E s : SplitBy(b, s)
<1> DEFINE m == Len(b)
           none == [parts |-> <<>>, rest |-> <<>>]
           V == [parts : Seq(Seq(W)), rest : Seq(W)]
           Body(f) == [i \in 0 .. m |-> IF i = 0 THEN none ELSE SplitStep(f[i - 1], b[i])]
           step == [i \in 1 .. m |-> [s \in V |-> SplitStep(s, b[i])]]
           split == CHOOSE f : f = Body(f)
<1>0. m \in Nat
  OBVIOUS
<1>1. step \in [1 .. m -> [V -> V]]
  <2> SUFFICES ASSUME NEW i \in 1 .. m, NEW s \in V PROVE SplitStep(s, b[i]) \in V
    OBVIOUS
  <2>1. b[i] \in W /\ s.rest \in Seq(W) /\ s.parts \in Seq(Seq(W))
    OBVIOUS
  <2>2. Append(s.rest, b[i]) \in Seq(W)
    BY <2>1
  <2>3. s.rest # <<>> => Front(s.rest) \in Seq(W)
    BY <2>1 DEF Front
  <2>4. s.rest # <<>> => Append(s.parts, Front(s.rest)) \in Seq(Seq(W))
    BY <2>1, <2>3
  <2>5. CASE b[i] = NL /\ s.rest # <<>> /\ Last(s.rest) = NL
    <3>1. SplitStep(s, b[i]) = [parts |-> Append(s.parts, Front(s.rest)), rest |-> <<>>]
      BY <2>5 DEF SplitStep
    <3>2. <<>> \in Seq(W)
      OBVIOUS
    <3> QED
      BY <2>4, <2>5, <3>1, <3>2
  <2>6. CASE ~(b[i] = NL /\ s.rest # <<>> /\ Last(s.rest) = NL)
    <3>1. SplitStep(s, b[i]) = [s EXCEPT !.rest = Append(s.rest, b[i])]
      BY <2>6, Zenon DEF SplitStep
    <3> QED
      BY <2>1, <2>2, <3>1
  <2> QED
    BY <2>5, <2>6
<1>2. none \in V
  OBVIOUS
<1>3. PICK f \in [0 .. m -> V] : f[0] = none /\ \A i \in 1 .. m : f[i] = step[i][f[i - 1]]
  <2> HIDE DEF step, m, V, none
  <2>1. \E f : f \in Loops(V, none, m, step)
    BY <1>0, <1>1, <1>2, LoopExists
  <2> QED
    BY <2>1 DEF Loops
<1>4. ASSUME NEW i \in 1 .. m PROVE f[i] = SplitStep(f[i - 1], b[i])
  <2>1. i - 1 \in 0 .. m
    BY <1>0
  <2>2. f[i - 1] \in V
    BY <1>3, <2>1
  <2> HIDE DEF V, m
  <2> QED
    BY <1>3, <2>2
<1>5. f = Body(f)
  <2> HIDE DEF none, V
  <2>1. ASSUME NEW i \in 0 .. m PROVE f[i] = Body(f)[i]
    <3>1. CASE i = 0
      BY <1>3, <3>1
    <3>2. CASE i # 0
      <4>1. i \in 1 .. m
        BY <1>0, <3>2
      <4> QED
        BY <1>4, <3>2, <4>1
    <3> QED
      BY <3>1, <3>2
  <2> QED
    BY <1>3, <2>1
<1>6. split = Body(split)
  BY <1>5
<1>7. SplitFrames(b) = split[m]
  BY DEF SplitFrames, SplitStep
<1> HIDE DEF split
<1>8. split[0] = none
  BY <1>0, <1>6
<1>9. ASSUME NEW i \in 1 .. m PROVE split[i] = SplitStep(split[i - 1], b[i])
  <2>1. i \in 0 .. m /\ i # 0
    BY <1>0
  <2> HIDE DEF none
  <2> QED
    BY <1>6, <2>1
<1> HIDE DEF Body
<1> QED
  BY <1>7, <1>8, <1>9 DEF SplitBy

-----------------------------------------------------------------------------
\* The beginning of a frame: p of its symbols.
FrameStart(n, kind, p) ==
  IF p = 0 THEN <<>>
  ELSE IF p = 1 THEN <<<<n, kind, 1>>>>
  ELSE IF p = 2 THEN <<<<n, kind, 1>>, <<n, kind, 2>>>>
  ELSE <<<<n, kind, 1>>, <<n, kind, 2>>, NL>>

\* The parts of q frames after the first n.
FramesAfter(kinds, n, q) == [j \in 1 .. q |-> FrameStart(n + j, kinds[n + j], 2)]

\* What the portal writes is its frames, four symbols each.
LEMMA ScriptAt ==
  ASSUME NEW kinds \in Seq(FrameKinds), NEW f \in Nat, NEW p \in 0 .. 3, f < Len(kinds)
  PROVE  /\ (4 * f + p) + 1 \in 1 .. 4 * Len(kinds)
         /\ Script(kinds)[(4 * f + p) + 1] = Symbols(f + 1, kinds[f + 1])[p + 1]
<1> DEFINE i == (4 * f + p) + 1
<1>1. Len(kinds) \in Nat
  OBVIOUS
<1>2. i \in 1 .. 4 * Len(kinds)
  BY <1>1
<1>3. (i + 3) \div 4 = f + 1
  BY <1>1
<1>4. i - 4 * ((f + 1) - 1) = p + 1
  BY <1>1
<1>5. Script(kinds)[i] = Symbols((i + 3) \div 4, kinds[(i + 3) \div 4])[i - 4 * (((i + 3) \div 4) - 1)]
  <2> HIDE DEF i
  <2> QED
    BY <1>2 DEF Script
<1> HIDE DEF i
<1>6. Script(kinds)[i] = Symbols(f + 1, kinds[f + 1])[p + 1]
  BY <1>3, <1>4, <1>5
<1> QED
  BY <1>2, <1>6 DEF i

\* A beginning of p symbols, and the parts before it, with the next symbol.
SplitMore(n, kind, ps, p) ==
  IF p = 3 THEN [parts |-> Append(ps, FrameStart(n, kind, 2)), rest |-> <<>>]
  ELSE [parts |-> ps, rest |-> FrameStart(n, kind, p + 1)]

\* A symbol of a frame goes where its beginning goes on, and the fourth ends a part.
LEMMA SplitOne ==
  ASSUME NEW n \in Nat, NEW kind \in FrameKinds, NEW ps, NEW p \in 0 .. 3
  PROVE  SplitStep([parts |-> ps, rest |-> FrameStart(n, kind, p)], Symbols(n, kind)[p + 1])
           = SplitMore(n, kind, ps, p)
<1> DEFINE a == <<n, kind, 1>>
           b == <<n, kind, 2>>
<1>1. a # NL /\ b # NL
  BY DEF NL
<1>2. Symbols(n, kind) = <<a, b, NL, NL>>
  BY DEF Symbols
<1>3. /\ FrameStart(n, kind, 0) = <<>> /\ FrameStart(n, kind, 1) = <<a>>
      /\ FrameStart(n, kind, 2) = <<a, b>> /\ FrameStart(n, kind, 3) = <<a, b, NL>>
  BY DEF FrameStart
<1> HIDE DEF a, b
<1> DEFINE s(r) == [parts |-> ps, rest |-> r]
<1> USE DEF SplitMore
<1>4. CASE p = 0
  <2>1. SplitStep(s(<<>>), a) = s(<<a>>)
    BY <1>1 DEF SplitStep
  <2> QED
    BY <1>2, <1>3, <1>4, <2>1
<1>5. CASE p = 1
  <2>1. SplitStep(s(<<a>>), b) = s(<<a, b>>)
    BY <1>1 DEF SplitStep
  <2> QED
    BY <1>2, <1>3, <1>5, <2>1
<1>6. CASE p = 2
  <2>1. Last(<<a, b>>) # NL
    BY <1>1 DEF Last
  <2>2. SplitStep(s(<<a, b>>), NL) = s(<<a, b, NL>>)
    BY <2>1 DEF SplitStep
  <2> QED
    BY <1>2, <1>3, <1>6, <2>2
<1>7. CASE p = 3
  <2> DEFINE t == <<a, b, NL>>
  <2>0. Len(t) = 3 /\ t[1] = a /\ t[2] = b /\ t[3] = NL /\ t # <<>> /\ t \in Seq({a, b, NL})
    OBVIOUS
  <2>1. Last(t) = NL /\ Front(t) = <<a, b>>
    <3> HIDE DEF t
    <3>1. Front(t) = SubSeq(t, 1, 2) /\ Last(t) = NL
      BY <2>0 DEF Last, Front
    <3>2. SubSeq(t, 1, 2) = [i \in 1 .. 2 |-> t[i]]
      BY <2>0
    <3>3. [i \in 1 .. 2 |-> t[i]] = <<a, b>>
      BY <2>0
    <3> QED
      BY <3>1, <3>2, <3>3
  <2>2. SplitStep(s(<<a, b, NL>>), NL) = [parts |-> Append(ps, <<a, b>>), rest |-> <<>>]
    BY <2>0, <2>1 DEF SplitStep
  <2>3. p + 1 = 4 /\ Symbols(n, kind)[4] = NL
    BY <1>2, <1>7
  <2>4. FrameStart(n, kind, p) = t
    BY <1>3, <1>7
  <2> HIDE DEF t
  <2> QED
    BY <1>3, <1>7, <2>2, <2>3, <2>4
<1> QED
  BY <1>4, <1>5, <1>6, <1>7

\* A number is some fours and a rest.
LEMMA Fours == \A i \in Nat : \E g \in Nat, r \in 0 .. 3 : i = 4 * g + r
<1> SUFFICES ASSUME NEW i \in Nat PROVE \E g \in Nat, r \in 0 .. 3 : i = 4 * g + r
  OBVIOUS
<1>1. i \div 4 \in Nat /\ i - 4 * (i \div 4) \in 0 .. 3 /\ i = 4 * (i \div 4) + (i - 4 * (i \div 4))
  OBVIOUS
<1> QED
  BY <1>1

\* And in one way only.
LEMMA FoursOnly == \A g, h \in Nat : \A r, u \in 0 .. 3 : 4 * g + r = 4 * h + u => g = h /\ r = u
  OBVIOUS

\* One frame more.
LEMMA FramesAfterNext ==
  ASSUME NEW kinds, NEW n \in Nat, NEW g \in Nat
  PROVE  Append(FramesAfter(kinds, n, g), FrameStart((n + g) + 1, kinds[(n + g) + 1], 2)) = FramesAfter(kinds, n, g + 1)
<1> DEFINE x(j) == FrameStart(n + j, kinds[n + j], 2)
           s == [j \in 1 .. g |-> x(j)]
           t == [j \in 1 .. g + 1 |-> x(j)]
<1>1. n + (g + 1) = (n + g) + 1
  OBVIOUS
<1>2. x(g + 1) = FrameStart((n + g) + 1, kinds[(n + g) + 1], 2)
  BY <1>1
<1>3. Append(s, x(g + 1)) = t
  <2> DEFINE W == {x(j) : j \in 1 .. g + 1}
  <2>1. s \in Seq(W) /\ Len(s) = g /\ x(g + 1) \in W
    <3>1. \A j \in 1 .. g : j \in 1 .. g + 1
      OBVIOUS
    <3> HIDE DEF x
    <3>2. s \in [1 .. g -> W]
      BY <3>1
    <3> QED
      BY <3>2
  <2> HIDE DEF x, W
  <2>2. Append(s, x(g + 1)) = [j \in 1 .. g + 1 |-> IF j = g + 1 THEN x(g + 1) ELSE s[j]]
    <3> HIDE DEF s
    <3> QED
      BY <2>1
  <2>3. \A j \in 1 .. g + 1 : (IF j = g + 1 THEN x(g + 1) ELSE s[j]) = x(j)
    OBVIOUS
  <2> QED
    BY <2>2, <2>3
<1> QED
  BY <1>2, <1>3 DEF FramesAfter

\* The text of q frames after the first n and the beginning p of the next.
TextOf(c, kinds, n, q, p) ==
  /\ Len(c) = 4 * q + p /\ 4 * (n + q) + p <= 4 * Len(kinds)
  /\ \A j \in 1 .. Len(c) : c[j] = Script(kinds)[4 * n + j]

SplitAs(c, kinds, n, q, p) ==
  SplitFrames(c) = [parts |-> FramesAfter(kinds, n, q),
                    rest |-> FrameStart((n + q) + 1, kinds[(n + q) + 1], p)]

\* The text of some frames and a beginning is split into their parts and that
\* beginning.
LEMMA SplitOfFrames ==
  ASSUME NEW kinds \in Seq(FrameKinds), NEW n \in Nat, NEW q \in Nat, NEW p \in 0 .. 3,
         NEW W, NEW c \in Seq(W), TextOf(c, kinds, n, q, p)
  PROVE  SplitAs(c, kinds, n, q, p)
<1> USE DEF TextOf, SplitAs
<1>0. PICK m \in Nat : m = Len(c)
  OBVIOUS
<1>1. PICK s : SplitBy(c, s)
  BY SplitIs
<1> DEFINE Cut(g, r) == [parts |-> FramesAfter(kinds, n, g),
                         rest |-> FrameStart((n + g) + 1, kinds[(n + g) + 1], r)]
           S == {i \in Nat : \A g \in Nat, r \in 0 .. 3 : i = 4 * g + r => s[i] = Cut(g, r)}
<1>2. 0 \in S
  <2>1. \A g \in Nat, r \in 0 .. 3 : 0 = 4 * g + r => g = 0 /\ r = 0
    OBVIOUS
  <2>2. Cut(0, 0) = [parts |-> <<>>, rest |-> <<>>]
    BY DEF FramesAfter, FrameStart
  <2>3. s[0] = Cut(0, 0)
    BY <1>1, <2>2 DEF SplitBy
  <2> HIDE DEF Cut
  <2> QED
    BY <2>1, <2>3
<1>3. ASSUME NEW i \in 1 .. m, i - 1 \in S PROVE i \in S
  <2>0. i \in Nat /\ i - 1 \in Nat /\ i \in 1 .. Len(c)
    BY <1>0
  <2>1. PICK g \in Nat, r \in 0 .. 3 : i - 1 = 4 * g + r
    BY <2>0, Fours
  <2>2. s[i - 1] = Cut(g, r)
    BY <1>3, <2>1
  <2>3. n + g \in Nat /\ n + g < Len(kinds) /\ 4 * n + i = (4 * (n + g) + r) + 1
    <3>1. Len(kinds) \in Nat /\ i <= 4 * q + p
      BY <1>0
    <3> QED
      BY <2>0, <2>1, <3>1
  <2>4. c[i] = Symbols((n + g) + 1, kinds[(n + g) + 1])[r + 1]
    <3>1. c[i] = Script(kinds)[(4 * (n + g) + r) + 1]
      BY <2>0, <2>3
    <3> QED
      BY <2>3, <3>1, ScriptAt
  <2>5. (n + g) + 1 \in Nat /\ kinds[(n + g) + 1] \in FrameKinds
    BY <2>3
  <2> DEFINE k == (n + g) + 1
  <2>6. s[i] = IF r = 3 THEN [parts |-> Append(FramesAfter(kinds, n, g), FrameStart(k, kinds[k], 2)), rest |-> <<>>]
               ELSE [parts |-> FramesAfter(kinds, n, g), rest |-> FrameStart(k, kinds[k], r + 1)]
    <3>1. s[i] = SplitStep(Cut(g, r), c[i])
      BY <1>1, <2>0, <2>2 DEF SplitBy
    <3> HIDE DEF k
    <3>2. Cut(g, r) = [parts |-> FramesAfter(kinds, n, g), rest |-> FrameStart(k, kinds[k], r)]
      BY DEF k
    <3>3. k \in Nat /\ kinds[k] \in FrameKinds /\ c[i] = Symbols(k, kinds[k])[r + 1]
      BY <2>4, <2>5 DEF k
    <3> DEFINE ps == FramesAfter(kinds, n, g)
               kd == kinds[k]
    <3> HIDE DEF ps, kd
    <3>4. SplitStep([parts |-> ps, rest |-> FrameStart(k, kd, r)], Symbols(k, kd)[r + 1]) = SplitMore(k, kd, ps, r)
      <4>1. k \in Nat /\ kd \in FrameKinds
        BY <3>3 DEF kd
      <4> QED
        BY <4>1, SplitOne
    <3> QED
      BY <3>1, <3>2, <3>3, <3>4 DEF ps, kd, SplitMore
  <2>7. ASSUME NEW h \in Nat, NEW u \in 0 .. 3, i = 4 * h + u PROVE s[i] = Cut(h, u)
    <3>1. CASE r = 3
      <4>1. h = g + 1 /\ u = 0 /\ g + 1 \in Nat
        <5>1. 4 * (g + 1) + 0 = 4 * h + u /\ g + 1 \in Nat /\ 0 \in 0 .. 3
          BY <2>0, <2>1, <2>7, <3>1
        <5> QED
          BY <5>1, FoursOnly
      <4>2. s[i] = [parts |-> FramesAfter(kinds, n, g + 1), rest |-> <<>>]
        BY <2>6, <3>1, FramesAfterNext
      <4>3. \A x, y : FrameStart(x, y, 0) = <<>>
        BY DEF FrameStart
      <4> QED
        BY <4>1, <4>2, <4>3
    <3>2. CASE r # 3
      <4>1. h = g /\ u = r + 1
        BY <2>0, <2>1, <2>7, <3>2
      <4> QED
        BY <2>6, <3>2, <4>1
    <3> QED
      BY <3>1, <3>2
  <2> HIDE DEF Cut
  <2> QED
    BY <2>0, <2>7
<1>4. m \in S
  <2> HIDE DEF S
  <2>1. \A i \in 0 .. m : i \in S
    BY <1>2, <1>3, CountingTo
  <2> QED
    BY <2>1
<1>5. s[m] = Cut(q, p)
  <2> HIDE DEF Cut
  <2> QED
    BY <1>0, <1>4
<1> QED
  BY <1>0, <1>1, <1>5 DEF SplitBy

\* Appending to what is put behind a sequence.
LEMMA ConcatAppend ==
  ASSUME NEW S, NEW s \in Seq(S), NEW t \in Seq(S), NEW x \in S
  PROVE  Append(t, x) \in Seq(S) /\ s \o Append(t, x) = Append(s \o t, x)
<1>1. <<x>> \in Seq(S) /\ s \o t \in Seq(S) /\ Append(t, x) \in Seq(S)
  OBVIOUS
<1>2. Append(t, x) = t \o <<x>> /\ Append(s \o t, x) = (s \o t) \o <<x>>
  <2> DEFINE u == s \o t
  <2>1. u \in Seq(S)
    BY <1>1
  <2> HIDE DEF u
  <2>2. Append(u, x) = u \o <<x>>
    BY <2>1, AppendIsConcat
  <2>3. Append(t, x) = t \o <<x>>
    BY AppendIsConcat
  <2> QED
    BY <2>2, <2>3 DEF u
<1>3. (s \o t) \o <<x>> = s \o (t \o <<x>>)
  <2> DEFINE y == <<x>>
  <2> HIDE DEF y
  <2>1. y \in Seq(S)
    BY <1>1 DEF y
  <2>2. (s \o t) \o y = s \o (t \o y)
    BY <2>1, ConcatAssociative
  <2> QED
    BY <2>2 DEF y
<1> QED
  BY <1>1, <1>2, <1>3

\* What is handed on of some frames are their events.
LEMMA HandedOfFrames ==
  ASSUME NEW kinds \in Seq(FrameKinds), NEW n \in Nat, NEW q \in Nat, n + q <= Len(kinds)
  PROVE  EventFrames(kinds, n) \o Handed(FramesAfter(kinds, n, q)) = EventFrames(kinds, n + q)
<1> DEFINE parts == FramesAfter(kinds, n, q)
           E(k) == EventFrames(kinds, k)
<1>0. Len(kinds) \in Nat
  OBVIOUS
<1>1. Len(parts) = q
  BY DEF FramesAfter
<1>2. ASSUME NEW j \in 1 .. q
      PROVE  /\ n + j \in 1 .. Len(kinds) /\ n + j \in Nat /\ parts[j] = FrameStart(n + j, kinds[n + j], 2)
             /\ parts[j][1][1] = n + j
             /\ IsEvent(parts[j]) <=> kinds[n + j] = "event"
  <2>1. n + j \in 1 .. Len(kinds) /\ n + j \in Nat
    BY <1>0
  <2>2. parts[j] = <<<<n + j, kinds[n + j], 1>>, <<n + j, kinds[n + j], 2>>>>
    BY DEF FramesAfter, FrameStart
  <2>3. parts[j] = FrameStart(n + j, kinds[n + j], 2)
    BY <2>2 DEF FrameStart
  <2>4. \A x, y : IsEvent(<<<<x, y, 1>>, <<x, y, 2>>>>) <=> y = "event"
    BY DEF IsEvent
  <2> HIDE DEF parts
  <2>5. parts[j][1][1] = n + j
    BY <2>2
  <2>6. IsEvent(parts[j]) <=> kinds[n + j] = "event"
    BY <2>2, <2>4
  <2> QED
    BY <2>1, <2>3, <2>5, <2>6
<1>3. PICK h : HandedBy(parts, h)
  <2> HIDE DEF parts
  <2>1. Len(parts) \in Nat /\ \A j \in 1 .. Len(parts) : parts[j][1][1] \in Nat
    BY <1>1, <1>2
  <2> QED
    BY <2>1, HandedIs
<1> DEFINE S == {j \in Nat : h[j] \in Seq(Nat) /\ E(n) \o h[j] = E(n + j)}
<1>4. E(n) \in Seq(Nat)
  BY <1>0, EventFramesAre
<1>5. 0 \in S
  <2>1. h[0] = <<>> /\ n + 0 = n
    BY <1>3 DEF HandedBy
  <2>2. E(n) \o <<>> = E(n)
    <3> HIDE DEF E
    <3> QED
      BY <1>4
  <2>3. <<>> \in Seq(Nat)
    OBVIOUS
  <2> HIDE DEF E
  <2> QED
    BY <2>1, <2>2, <2>3
<1>6. ASSUME NEW j \in 1 .. q, j - 1 \in S PROVE j \in S
  <2>0. j \in Nat /\ h[j - 1] \in Seq(Nat) /\ E(n) \o h[j - 1] = E(n + (j - 1)) /\ n + (j - 1) = (n + j) - 1
    BY <1>6
  <2>1. E(n + j) = IF kinds[n + j] = "event" THEN Append(E((n + j) - 1), n + j) ELSE E((n + j) - 1)
    BY <1>2, EventFramesAre
  <2>2. h[j] = IF kinds[n + j] = "event" THEN Append(h[j - 1], n + j) ELSE h[j - 1]
    <3> HIDE DEF parts
    <3> QED
      BY <1>1, <1>2, <1>3 DEF HandedBy
  <2>3. Append(h[j - 1], n + j) \in Seq(Nat) /\ E(n) \o Append(h[j - 1], n + j) = Append(E(n) \o h[j - 1], n + j)
    <3> HIDE DEF E
    <3>1. n + j \in Nat
      BY <1>2
    <3> DEFINE e == E(n)
               t == h[j - 1]
               x == n + j
    <3>2. e \in Seq(Nat) /\ t \in Seq(Nat) /\ x \in Nat
      BY <1>4, <2>0, <3>1
    <3> DEFINE N == Nat
    <3>3. e \in Seq(N) /\ t \in Seq(N) /\ x \in N
      BY <3>2
    <3> HIDE DEF e, t, x, N
    <3>4. Append(t, x) \in Seq(N) /\ e \o Append(t, x) = Append(e \o t, x)
      BY <3>3, ConcatAppend
    <3> QED
      BY <3>4 DEF e, t, x, N
  <2> HIDE DEF E
  <2>4. CASE kinds[n + j] = "event"
    BY <2>0, <2>1, <2>2, <2>3, <2>4
  <2>5. CASE kinds[n + j] # "event"
    BY <2>0, <2>1, <2>2, <2>5
  <2> QED
    BY <2>4, <2>5
<1>7. q \in S
  <2> HIDE DEF S
  <2>1. \A j \in 0 .. q : j \in S
    BY <1>5, <1>6, CountingTo
  <2> QED
    BY <2>1
<1>8. Handed(parts) = h[q]
  <2> HIDE DEF parts
  <2> QED
    BY <1>1, <1>3 DEF HandedBy
<1> QED
  BY <1>7, <1>8

\* The events of fewer frames begin those of more.
LEMMA EventsGrow ==
  ASSUME NEW kinds \in Seq(FrameKinds), NEW n \in Nat, NEW q \in Nat, n + q <= Len(kinds)
  PROVE  IsPrefix(EventFrames(kinds, n), EventFrames(kinds, n + q))
<1> DEFINE a == EventFrames(kinds, n)
           c == EventFrames(kinds, n + q)
<1> DEFINE S == {j \in Nat : n + j <= Len(kinds) => IsPrefix(a, EventFrames(kinds, n + j))}
<1>0. Len(kinds) \in Nat /\ a \in Seq(Nat)
  BY EventFramesAre
<1>1. 0 \in S
  <2>1. n + 0 = n
    OBVIOUS
  <2>2. IsPrefix(a, a)
    BY <1>0 DEF IsPrefix
  <2> HIDE DEF a
  <2> QED
    BY <2>1, <2>2 DEF a
<1>2. ASSUME NEW j \in 1 .. q, j - 1 \in S PROVE j \in S
  <2>0. j \in Nat /\ (n + j <= Len(kinds) => n + (j - 1) <= Len(kinds)) /\ n + (j - 1) = (n + j) - 1
    BY <1>0
  <2> SUFFICES ASSUME n + j <= Len(kinds) PROVE IsPrefix(a, EventFrames(kinds, n + j))
    BY <2>0
  <2>1. n + j \in 1 .. Len(kinds) /\ (n + j) - 1 \in 0 .. Len(kinds)
    BY <1>0, <2>0
  <2> DEFINE e == EventFrames(kinds, (n + j) - 1)
  <2>2. IsPrefix(a, e)
    BY <1>2, <2>0
  <2>3. e \in Seq(Nat) /\ n + j \in Nat
    BY <2>1, EventFramesAre
  <2>4. EventFrames(kinds, n + j) = e \/ EventFrames(kinds, n + j) = Append(e, n + j)
    BY <2>1, EventFramesAre
  <2> HIDE DEF a, e
  <2>5. IsPrefix(a, Append(e, n + j))
    BY <1>0, <2>2, <2>3 DEF IsPrefix
  <2> QED
    BY <2>2, <2>4, <2>5
<1>3. q \in S
  <2> HIDE DEF S
  <2>1. \A j \in 0 .. q : j \in S
    BY <1>1, <1>2, CountingTo
  <2> QED
    BY <2>1
<1> QED
  BY <1>3

\* What is read of a chunk that goes from t to k, when the buffer and the chunk are
\* taken together.
ChunkRead(kinds, f, t, buffer, k) ==
  LET bytes == SubSeq(Script(kinds), t + 1, k)
      s == SplitFrames(buffer \o bytes)
  IN  \E g \in Nat, r \in 0 .. 3 :
        /\ k = 4 * g + r /\ t + Len(bytes) = k
        /\ s.rest = FrameStart(g + 1, kinds[g + 1], r)
        /\ EventFrames(kinds, f) \o Handed(s.parts) = EventFrames(kinds, g)

\* A chunk that is read: the buffer and the chunk are some frames and a beginning,
\* however both were cut.
LEMMA ChunkIs ==
  ASSUME NEW kinds \in Seq(FrameKinds), NEW f \in Nat, NEW p \in 0 .. 3,
         NEW k \in Nat, 4 * f + p < k, k <= 4 * Len(kinds),
         NEW buffer, buffer = FrameStart(f + 1, kinds[f + 1], p)
  PROVE  ChunkRead(kinds, f, 4 * f + p, buffer, k)
<1> DEFINE t == 4 * f + p
           sc == Script(kinds)
           bytes == SubSeq(sc, t + 1, k)
           c == buffer \o bytes
           W == {sc[i] : i \in 1 .. 4 * Len(kinds)}
<1>0. Len(kinds) \in Nat /\ t \in Nat /\ f < Len(kinds)
  OBVIOUS
<1>1. sc \in Seq(W) /\ Len(sc) = 4 * Len(kinds)
  <2>1. DOMAIN sc = 1 .. 4 * Len(kinds) /\ sc = [i \in 1 .. 4 * Len(kinds) |-> sc[i]]
    BY DEF Script
  <2> HIDE DEF sc
  <2>2. sc \in [1 .. 4 * Len(kinds) -> W]
    BY <2>1
  <2>3. 4 * Len(kinds) \in Nat
    BY <1>0
  <2> HIDE DEF W
  <2> QED
    BY <2>1, <2>2, <2>3
<1>2. bytes \in Seq(W) /\ Len(bytes) = k - t /\ \A j \in 1 .. k - t : bytes[j] = sc[t + j]
  <2> HIDE DEF sc, W, t
  <2>1. t + 1 \in 1 .. Len(sc) + 1 /\ k \in 0 .. Len(sc) /\ t < k
    BY <1>0, <1>1 DEF t
  <2> QED
    BY <1>0, <1>1, <2>1
<1>3. buffer \in Seq(W) /\ Len(buffer) = p /\ \A j \in 1 .. p : buffer[j] = sc[4 * f + j]
  <2> DEFINE at(i) == sc[(4 * f + i) + 1]
  <2>1. \A i \in 0 .. 3 : at(i) = Symbols(f + 1, kinds[f + 1])[i + 1] /\ (4 * f + i) + 1 \in 1 .. 4 * Len(kinds)
    BY <1>0, ScriptAt
  <2>2. /\ at(0) = <<f + 1, kinds[f + 1], 1>> /\ at(1) = <<f + 1, kinds[f + 1], 2>> /\ at(2) = NL
    BY <2>1 DEF Symbols
  <2>3. at(0) \in W /\ at(1) \in W /\ at(2) \in W
    <3>1. \A i \in 1 .. 4 * Len(kinds) : sc[i] \in W
      OBVIOUS
    <3>2. (4 * f + 0) + 1 \in 1 .. 4 * Len(kinds) /\ (4 * f + 1) + 1 \in 1 .. 4 * Len(kinds)
          /\ (4 * f + 2) + 1 \in 1 .. 4 * Len(kinds)
      BY <1>0
    <3> HIDE DEF sc, W
    <3> QED
      BY <3>1, <3>2
  <2>4. sc[4 * f + 1] = at(0) /\ sc[4 * f + 2] = at(1) /\ sc[4 * f + 3] = at(2)
    <3>1. (4 * f + 0) + 1 = 4 * f + 1 /\ (4 * f + 1) + 1 = 4 * f + 2 /\ (4 * f + 2) + 1 = 4 * f + 3
      OBVIOUS
    <3> HIDE DEF sc
    <3> QED
      BY <3>1
  <2> HIDE DEF at, sc, W
  <2> DEFINE x == at(0)
             y == at(1)
             z == at(2)
  <2>5. x \in W /\ y \in W /\ z \in W /\ sc[4 * f + 1] = x /\ sc[4 * f + 2] = y /\ sc[4 * f + 3] = z
    BY <2>3, <2>4
  <2>6. /\ p = 0 => buffer = <<>>
        /\ p = 1 => buffer = <<x>>
        /\ p = 2 => buffer = <<x, y>>
        /\ p = 3 => buffer = <<x, y, z>>
    <3> HIDE DEF x, y, z
    <3>1. x = <<f + 1, kinds[f + 1], 1>> /\ y = <<f + 1, kinds[f + 1], 2>> /\ z = NL
      BY <2>2 DEF x, y, z
    <3> QED
      BY <3>1 DEF FrameStart
  <2> HIDE DEF x, y, z
  <2>7. /\ <<>> \in Seq(W) /\ <<x>> \in Seq(W) /\ <<x, y>> \in Seq(W) /\ <<x, y, z>> \in Seq(W)
    BY <2>5
  <2>8. /\ Len(<<>>) = 0 /\ Len(<<x>>) = 1 /\ Len(<<x, y>>) = 2 /\ Len(<<x, y, z>>) = 3
    OBVIOUS
  <2>9. /\ <<x>>[1] = x /\ <<x, y>>[1] = x /\ <<x, y>>[2] = y
        /\ <<x, y, z>>[1] = x /\ <<x, y, z>>[2] = y /\ <<x, y, z>>[3] = z
    OBVIOUS
  <2>10. buffer \in Seq(W) /\ Len(buffer) = p
    <3>1. p = 0 \/ p = 1 \/ p = 2 \/ p = 3
      OBVIOUS
    <3> QED
      BY <2>6, <2>7, <2>8, <3>1
  <2>11. ASSUME NEW j \in 1 .. p PROVE buffer[j] = sc[4 * f + j]
    <3>1. \/ p = 1 /\ j = 1
          \/ p = 2 /\ (j = 1 \/ j = 2)
          \/ p = 3 /\ (j = 1 \/ j = 2 \/ j = 3)
      <4>1. p = 1 \/ p = 2 \/ p = 3
        OBVIOUS
      <4>2. (p = 1 => j = 1) /\ (p = 2 => j = 1 \/ j = 2) /\ (p = 3 => j = 1 \/ j = 2 \/ j = 3)
        OBVIOUS
      <4> QED
        BY <4>1, <4>2
    <3> QED
      BY <2>5, <2>6, <2>9, <3>1
  <2> QED
    BY <2>10, <2>11
<1>4. c \in Seq(W) /\ Len(c) = k - 4 * f /\ \A j \in 1 .. Len(c) : c[j] = sc[4 * f + j]
  <2> HIDE DEF sc, bytes, W
  <2>1. c \in Seq(W) /\ Len(c) = p + (k - t)
    BY <1>2, <1>3, ConcatProperties
  <2>2. p + (k - t) = k - 4 * f
    OBVIOUS
  <2>3. ASSUME NEW j \in 1 .. Len(c) PROVE c[j] = sc[4 * f + j]
    <3>1. CASE j <= p
      <4>1. j \in 1 .. p
        BY <2>1, <3>1
      <4> QED
        BY <1>2, <1>3, <4>1, ConcatProperties
    <3>2. CASE j > p
      <4>1. j - p \in 1 .. k - t /\ t + (j - p) = 4 * f + j
        BY <1>0, <2>1, <3>2
      <4>2. c[j] = bytes[j - p]
        <5>1. j \in 1 .. Len(buffer) + Len(bytes) /\ ~(j <= Len(buffer))
          BY <1>2, <1>3, <2>1, <3>2
        <5>2. c[j] = IF j <= Len(buffer) THEN buffer[j] ELSE bytes[j - Len(buffer)]
          BY <1>2, <1>3, <5>1, ConcatProperties
        <5> QED
          BY <1>3, <5>1, <5>2
      <4> QED
        BY <1>2, <4>1, <4>2
    <3> QED
      BY <3>1, <3>2
  <2> QED
    BY <2>1, <2>2, <2>3
<1>5. PICK q \in Nat, r \in 0 .. 3 : k - 4 * f = 4 * q + r
  <2>1. k - 4 * f \in Nat
    OBVIOUS
  <2> QED
    BY <2>1, Fours
<1> DEFINE g == f + q
<1>6. g \in Nat /\ k = 4 * g + r /\ g <= Len(kinds) /\ 4 * (f + q) + r <= 4 * Len(kinds) /\ t + (k - t) = k
  BY <1>0, <1>5
<1>7. SplitFrames(c) = [parts |-> FramesAfter(kinds, f, q), rest |-> FrameStart(g + 1, kinds[g + 1], r)]
  <2>1. Len(c) = 4 * q + r /\ \A j \in 1 .. Len(c) : c[j] = Script(kinds)[4 * f + j]
    BY <1>4, <1>5
  <2>2. c \in Seq(W) /\ 4 * (f + q) + r <= 4 * Len(kinds)
    BY <1>4, <1>6
  <2> HIDE DEF c, W
  <2>3. q \in Nat /\ r \in 0 .. 3
    BY <1>5
  <2> QED
    <3>1. TextOf(c, kinds, f, q, r)
      BY <2>1, <2>2 DEF TextOf
    <3>2. SplitAs(c, kinds, f, q, r)
      BY <2>2, <2>3, <3>1, SplitOfFrames
    <3> QED
      BY <3>2 DEF SplitAs
<1>8. EventFrames(kinds, f) \o Handed(FramesAfter(kinds, f, q)) = EventFrames(kinds, g)
  BY <1>6, HandedOfFrames
<1> QED
  <2> DEFINE s == SplitFrames(c)
  <2>1. s.parts = FramesAfter(kinds, f, q) /\ s.rest = FrameStart(g + 1, kinds[g + 1], r)
    BY <1>7
  <2>2. t + Len(bytes) = k
    BY <1>2, <1>6
  <2> HIDE DEF s, g, bytes
  <2>3. /\ k = 4 * g + r /\ t + Len(bytes) = k
        /\ s.rest = FrameStart(g + 1, kinds[g + 1], r)
        /\ EventFrames(kinds, f) \o Handed(s.parts) = EventFrames(kinds, g)
    BY <1>6, <1>8, <2>1, <2>2
  <2> QED
    BY <1>6, <2>3 DEF s, bytes, ChunkRead

-----------------------------------------------------------------------------
(* The text of a streamed answer *)

\* What the page has handed on and kept of the bytes it took: the events of the
\* whole frames among them, and the beginning of the next.
ReadSoFar(kinds, buffer, taken, got) ==
  \E f \in Nat, p \in 0 .. 3 :
    /\ taken = 4 * f + p
    /\ buffer = FrameStart(f + 1, kinds[f + 1], p)
    /\ got = EventFrames(kinds, f)

\* No more was moved than written, nor taken than moved.
RelayBytes ==
    /\ receiver.taken \in Nat
    /\ up.wrote <= 4 * Len(up.kinds) /\ hop.moved <= up.wrote /\ receiver.taken <= hop.moved
    /\ ReadSoFar(up.kinds, receiver.buffer, receiver.taken, receiver.got)

\* A chunk more, however the text was cut.
LEMMA ReadsMore ==
  ASSUME NEW kinds \in Seq(FrameKinds), NEW buffer, NEW taken \in Nat, NEW got,
         ReadSoFar(kinds, buffer, taken, got),
         NEW k \in Nat, taken < k, k <= 4 * Len(kinds)
  PROVE  LET bytes == SubSeq(Script(kinds), taken + 1, k)
             s == SplitFrames(buffer \o bytes)
         IN  /\ taken + Len(bytes) = k
             /\ ReadSoFar(kinds, s.rest, k, got \o Handed(s.parts))
<1> DEFINE bytes == SubSeq(Script(kinds), taken + 1, k)
           s == SplitFrames(buffer \o bytes)
<1>1. PICK f \in Nat, p \in 0 .. 3 :
        /\ taken = 4 * f + p
        /\ buffer = FrameStart(f + 1, kinds[f + 1], p)
        /\ got = EventFrames(kinds, f)
  BY DEF ReadSoFar
<1>2. PICK g \in Nat, r \in 0 .. 3 :
        /\ k = 4 * g + r /\ taken + Len(bytes) = k
        /\ s.rest = FrameStart(g + 1, kinds[g + 1], r)
        /\ EventFrames(kinds, f) \o Handed(s.parts) = EventFrames(kinds, g)
  <2>1. ChunkRead(kinds, f, 4 * f + p, buffer, k)
    BY <1>1, ChunkIs
  <2>2. ChunkRead(kinds, f, taken, buffer, k)
    BY <1>1, <2>1
  <2> QED
    BY <2>2 DEF ChunkRead
<1> HIDE DEF bytes, s
<1>3. ReadSoFar(kinds, s.rest, k, got \o Handed(s.parts))
  BY <1>1, <1>2 DEF ReadSoFar
<1> QED
  BY <1>2, <1>3 DEF bytes, s

\* Only ReadChunk changes what was taken; the text and its bounds only grow.
LEMMA BytesStep == RelayInv /\ RelayBytes /\ [RelayNext]_relayVars => RelayBytes'
<1> SUFFICES ASSUME RelayInv, RelayBytes, [RelayNext]_relayVars PROVE RelayBytes'
  OBVIOUS
<1> DEFINE Same == /\ up'.kinds = up.kinds /\ receiver'.buffer = receiver.buffer
                   /\ receiver'.taken = receiver.taken /\ receiver'.got = receiver.got
<1>0. /\ up.wrote \in Nat /\ hop.moved \in Nat /\ up.kinds \in Seq(FrameKinds)
      /\ Len(up.kinds) \in Nat /\ receiver.taken \in Nat
      /\ up.wrote <= 4 * Len(up.kinds) /\ hop.moved <= up.wrote /\ receiver.taken <= hop.moved
  BY DEF RelayInv, RelayShape, Hops, RelayBytes
<1>a. ASSUME Same, up'.wrote = up.wrote, hop'.moved = hop.moved PROVE RelayBytes'
  BY <1>0, <1>a DEF RelayBytes
<1>b. /\ up = [kinds |-> up.kinds, wrote |-> up.wrote, state |-> up.state]
      /\ hop = [stage |-> hop.stage, status |-> hop.status, moved |-> hop.moved, end |-> hop.end]
      /\ receiver = [buffer |-> receiver.buffer, taken |-> receiver.taken,
                     got |-> receiver.got, end |-> receiver.end]
  BY DEF RelayInv, RelayShape, Hops
<1>c. ASSUME NEW s, Refuse(s) PROVE hop'.moved = hop.moved
  BY <1>b, <1>c DEF Refuse
<1>1. ASSUME NEW code \in {200, 401, 500}, Answers(code) PROVE RelayBytes'
  BY <1>1, <1>a, <1>b DEF Answers
<1>2. CASE Writes
  <2>1. PICK k \in up.wrote + 1 .. 4 * Len(up.kinds) : up' = [up EXCEPT !.wrote = k]
    BY <1>2 DEF Writes
  <2>2. UNCHANGED <<hop, receiver>> /\ up'.kinds = up.kinds /\ up'.wrote = k
    BY <1>2, <1>b, <2>1 DEF Writes
  <2>3. k <= 4 * Len(up.kinds) /\ hop.moved <= k
    BY <1>0, <2>1
  <2> QED
    BY <1>0, <2>2, <2>3 DEF RelayBytes
<1>3. CASE Finishes \/ Breaks
  BY <1>3, <1>a, <1>b DEF Finishes, Breaks
<1>4. CASE CheckLength
  <2>1. hop'.moved = hop.moved
    BY <1>4, <1>b, <1>c DEF CheckLength
  <2> QED
    BY <1>4, <1>a, <2>1 DEF CheckLength
<1>5. CASE CheckSession
  <2>1. hop'.moved = hop.moved
    BY <1>5, <1>b, <1>c DEF CheckSession
  <2>2. up'.kinds = up.kinds /\ up'.wrote = up.wrote
    BY <1>5, <1>b DEF CheckSession
  <2> QED
    BY <1>5, <1>a, <2>1, <2>2 DEF CheckSession
<1>6. CASE ConnectFails
  BY <1>6, <1>a, <1>b, <1>c DEF ConnectFails
<1>7. CASE Pull
  <2>1. UNCHANGED <<up, receiver>> /\ hop'.moved = up.wrote
    BY <1>7, <1>b DEF Pull
  <2> QED
    BY <1>0, <2>1 DEF RelayBytes
<1>8. CASE PullEnd
  BY <1>8, <1>a, <1>b DEF PullEnd
<1>9. CASE IdleTimeout
  BY <1>9, <1>a, <1>b DEF IdleTimeout
<1>10. CASE ReadStatus
  BY <1>10, <1>a, <1>b DEF ReadStatus
<1>11. CASE ReadChunk
  <2> DEFINE K == up.kinds
             bytes(k) == SubSeq(Script(up.kinds), receiver.taken + 1, k)
             s(k) == SplitFrames(receiver.buffer \o bytes(k))
  <2>1. PICK k \in receiver.taken + 1 .. hop.moved : receiver' = Received(receiver, bytes(k))
    BY <1>11 DEF ReadChunk
  <2>2. UNCHANGED <<up, hop>>
    BY <1>11 DEF ReadChunk
  <2>3. k \in Nat /\ receiver.taken < k /\ k <= 4 * Len(up.kinds) /\ k <= hop.moved
    BY <1>0, <2>1
  <2>4. /\ receiver.taken + Len(bytes(k)) = k
        /\ ReadSoFar(up.kinds, s(k).rest, k, receiver.got \o Handed(s(k).parts))
    <3>1. ReadSoFar(up.kinds, receiver.buffer, receiver.taken, receiver.got)
      BY DEF RelayBytes
    <3> QED
      BY <1>0, <2>3, <3>1, ReadsMore
  <2>5. receiver' = [receiver EXCEPT !.buffer = s(k).rest, !.got = @ \o Handed(s(k).parts),
                                     !.taken = @ + Len(bytes(k))]
    BY <2>1 DEF Received
  <2> HIDE DEF s, bytes
  <2>6. /\ receiver'.buffer = s(k).rest /\ receiver'.got = receiver.got \o Handed(s(k).parts)
        /\ receiver'.taken = receiver.taken + Len(bytes(k))
    BY <1>b, <2>5
  <2> QED
    BY <1>0, <2>2, <2>3, <2>4, <2>6 DEF RelayBytes
<1>12. CASE ReadDone
  BY <1>12, <1>a, <1>b DEF ReadDone
<1>13. CASE ReadFails
  BY <1>13, <1>a, <1>b DEF ReadFails
<1>14. CASE Abort
  BY <1>14, <1>a, <1>b DEF Abort
<1>15. CASE UNCHANGED relayVars
  BY <1>15, <1>a DEF relayVars
<1> QED
  BY <1>1, <1>2, <1>3, <1>4, <1>5, <1>6, <1>7, <1>8, <1>9, <1>10, <1>11,
     <1>12, <1>13, <1>14, <1>15 DEF RelayNext

\* Nothing is read at the start.
LEMMA BytesInit == ASSUME NEW asks \in BOOLEAN PROVE RelayStarts(asks) => RelayBytes
<1> SUFFICES ASSUME RelayStarts(asks) PROVE RelayBytes
  OBVIOUS
<1>1. up.kinds \in Seq(FrameKinds)
  BY RelayInitInv DEF RelayInv, RelayShape
<1>2. /\ up.wrote = 0 /\ hop.moved = 0 /\ receiver.taken = 0
      /\ receiver.buffer = <<>> /\ receiver.got = <<>>
  BY DEF RelayStarts
<1>3. EventFrames(up.kinds, 0) = <<>> /\ Len(up.kinds) \in Nat
  BY <1>1, EventFramesAre
<1>4. FrameStart(0 + 1, up.kinds[0 + 1], 0) = <<>> /\ 0 = 4 * 0 + 0 /\ 0 \in Nat /\ 0 \in 0 .. 3
  BY DEF FrameStart
<1>5. ReadSoFar(up.kinds, <<>>, 0, <<>>)
  BY <1>3, <1>4 DEF ReadSoFar
<1> QED
  BY <1>2, <1>3, <1>5 DEF RelayBytes

\* What was taken is part of what was written, and all of it once the answer is
\* complete.
LEMMA BytesFaithful == RelayInv /\ RelayBytes => StreamsFaithful
<1> SUFFICES ASSUME RelayInv, RelayBytes PROVE StreamsFaithful
  OBVIOUS
<1> DEFINE kinds == up.kinds
           w == up.wrote \div 4
<1>0. /\ up.wrote \in Nat /\ hop.moved \in Nat /\ kinds \in Seq(FrameKinds) /\ Len(kinds) \in Nat
      /\ up.wrote <= 4 * Len(kinds) /\ receiver.taken <= up.wrote
      /\ receiver.end = "complete" => receiver.taken = up.wrote
  BY DEF RelayInv, RelayShape, Hops, RelayBytes
<1>1. PICK f \in Nat, p \in 0 .. 3 : receiver.taken = 4 * f + p /\ receiver.got = EventFrames(kinds, f)
  BY DEF RelayBytes, ReadSoFar
<1>2. /\ w \in Nat /\ w <= Len(kinds) /\ f <= w
      /\ receiver.end = "complete" => f = w
  BY <1>0, <1>1
<1> HIDE DEF kinds, w
<1>3. PICK q \in Nat : w = f + q
  <2>1. w - f \in Nat /\ w = f + (w - f)
    BY <1>2
  <2> QED
    BY <2>1
<1>4. IsPrefix(EventFrames(kinds, f), EventFrames(kinds, w))
  <2>1. f + q <= Len(kinds)
    BY <1>2, <1>3
  <2> QED
    BY <1>0, <1>3, <2>1, EventsGrow
<1>5. receiver.end = "complete" => receiver.got = EventFrames(kinds, w)
  BY <1>1, <1>2
<1> QED
  BY <1>1, <1>4, <1>5 DEF StreamsFaithful, kinds, w

\* Whatever the network cuts, and wherever the portal breaks off: what the page
\* hands on of an answer is, in order and once each, a beginning of the events the
\* portal wrote, and all of them when the answer is complete (readSSE).
THEOREM AnswerIsRead == RelaySpec => []StreamsFaithful
<1>1. RelayInit => RelayInv /\ RelayBytes
  BY RelayInitInv, BytesInit DEF RelayInit
<1> QED
  BY <1>1, RelayStep, BytesStep, BytesFaithful, PTL DEF RelaySpec

-----------------------------------------------------------------------------
(* The parts beside each other *)

\* The invariants of the five parts.
PartsInv == DecisionsInv /\ DownloadInv /\ StreamInv /\ RelayInv /\ RelayBytes /\ VoiceInv

\* Every part starts in its own initial states: the voice mode open or closed,
\* a request sent or not.
LEMMA PartsInitInv == PartsInit => PartsInv /\ Spoken!SpokenInit
<1> SUFFICES ASSUME PartsInit PROVE PartsInv /\ Spoken!SpokenInit
  OBVIOUS
<1>1. DecisionsInv /\ DownloadInv /\ StreamInv
  BY DecisionsInitInv, DownloadInitInv, StreamInitInv DEF PartsInit
<1>2. (part = "voice") \in BOOLEAN /\ (part = "relay") \in BOOLEAN
  OBVIOUS
<1>3. VoiceStarts(part = "voice") /\ RelayStarts(part = "relay")
  BY DEF PartsInit
<1>4. VoiceInv /\ Spoken!SpokenInit
  BY <1>2, <1>3, VoiceInitInv
<1>5. RelayInv /\ RelayBytes
  BY <1>2, <1>3, RelayInitInv, BytesInit
<1> QED
  BY <1>1, <1>4, <1>5 DEF PartsInv

\* A step is a step of one part and a stuttering step of the others.
LEMMA StepOfOnePart ==
    ASSUME [PartsNext]_partsVars
    PROVE  /\ [DecisionsNext]_decisionVars /\ [DownloadNext]_downloadVars
           /\ [LogStreamNext]_streamVars /\ [VoiceNext]_voiceVars /\ [RelayNext]_relayVars
  BY DEF PartsNext, partsVars

\* The parts' invariants are kept together, and the listener of the voice mode
\* may notice the step.
LEMMA PartsStep ==
    ASSUME PartsInv, [PartsNext]_partsVars
    PROVE  /\ PartsInv'
           /\ [Spoken!Continue \/ Spoken!Begin \/ Spoken!SwitchOff]_
                  <<voice.heard.answer, voice.heard.s, voice.marred>>
<1>1. /\ [DecisionsNext]_decisionVars /\ [DownloadNext]_downloadVars
      /\ [LogStreamNext]_streamVars /\ [VoiceNext]_voiceVars /\ [RelayNext]_relayVars
  BY StepOfOnePart
<1>2. DecisionsInv'
  BY <1>1, DecisionsTypeStep, DecisionsLockStep, DecisionsGensStep, DecisionsEngineStep,
     StoppedStep DEF PartsInv, DecisionsInv
<1>3. DownloadInv' /\ StreamInv' /\ RelayInv' /\ RelayBytes'
  BY <1>1, DownloadStep, StreamStep, RelayStep, BytesStep DEF PartsInv
<1>4. /\ VoiceInv'
      /\ [Spoken!Continue \/ Spoken!Begin \/ Spoken!SwitchOff]_
             <<voice.heard.answer, voice.heard.s, voice.marred>>
  BY <1>1, VoiceStep DEF PartsInv
<1> QED
  BY <1>2, <1>3, <1>4 DEF PartsInv

\* The runner's invariant of the decision service, for every number of clients,
\* engines and requests, where a kill does not time out.
THEOREM PartsDecisions ==
    ASSUME ~KillCanTimeOut PROVE PartsSpec => []DecisionsSound
<1>1. PartsInv => DecisionsSound
  BY DecisionsInvSound DEF PartsInv
<1> QED
  BY <1>1, PartsInitInv, PartsStep, PTL DEF PartsSpec

\* What is recorded or shown is honest: the slot of a download that runs has a
\* download behind it (download.rs), a reader of the log stream sees every line
\* at most once and in order (state.rs, main.rs), and an answer that ends
\* without an error is whole (sseProxy.ts, api.ts).
THEOREM PartsHonest == PartsSpec => []RecordsAreHonest
<1>1. PartsInv => RecordsAreHonest
  <2>1. StreamInv => InOrder
    BY DEF StreamInv, Increasing, InOrder
  <2>2. RelayInv => NoSilentCut
    BY DEF RelayInv, NoSilentCut
  <2> QED
    BY <2>1, <2>2 DEF PartsInv, DownloadInv, RecordsAreHonest
<1> QED
  BY <1>1, PartsInitInv, PartsStep, PTL DEF PartsSpec

\* What a page hands on of a streamed answer is, in order and once each, a beginning
\* of the events the portal wrote, and all of them once the answer is complete
\* (readSSE), for every number of frames and however their text is cut.
THEOREM PartsStreams == PartsSpec => []StreamsFaithful
<1>1. PartsInv => StreamsFaithful
  BY BytesFaithful DEF PartsInv
<1> QED
  BY <1>1, PartsInitInv, PartsStep, PTL DEF PartsSpec

\* The voice mode implements SpokenAnswer beside the other parts.
THEOREM PartsVoice == PartsSpec => VoiceImplementsSpoken
  BY PartsInitInv, PartsStep, PTL DEF PartsSpec, VoiceImplementsSpoken, Spoken!SpokenSpec

=============================================================================
