----------------------------- MODULE Decisions ------------------------------
(***************************************************************************)
(* The decision service (vllm-runner-rs/src/decisions.rs): a second engine *)
(* on a port of its own, with its own supervisor and its own `ops`. It is  *)
(* started and stopped by hand; no watchdog and no file stand behind it.   *)
(*                                                                         *)
(* A stop forgets the process first (`proc.take()`) and kills it after,    *)
(* still holding `ops`. The one model is the one of DECISIONS_MODEL.       *)
(***************************************************************************)
EXTENDS Supervisor

CONSTANTS
    Clients,            \* request threads
    NoOne,              \* `ops` is free
    DecisionModel,      \* DecisionsCfg.hf_id
    MaxRequests,        \* bound: requests in one behaviour
    KillCanTimeOut,     \* a kill can give up, 5 s after its SIGKILL
    SpawnCanFail        \* fork/exec can fail

ASSUME DecisionsAssumption ==
    /\ NoOne \notin Clients
    /\ DecisionModel \in Models
    /\ MaxRequests \in Nat
    /\ KillCanTimeOut \in BOOLEAN
    /\ SpawnCanFail \in BOOLEAN

VARIABLES
    pc,         \* where each request is
    victim,     \* the generation a stop took out of Shared, 0 for none
    ops,        \* Decisions.ops
    requests    \* requests sent so far

svcVars == <<pc, victim, ops, requests>>
decisionVars == <<os, served, reader, watch, modelOf, nextGen,
          cur, status, model, runningSince, pc, victim, ops, requests>>

Locked == {"check", "spawn", "take", "kill"}

DecisionsTypeOK ==
    /\ SupTypeOK
    /\ pc \in [Clients -> {"idle", "startWait", "stopWait"} \cup Locked]
    /\ victim \in 0 .. MaxGen
    /\ ops \in Clients \cup {NoOne}
    /\ requests \in 0 .. MaxRequests

DecisionsInit ==
    /\ SupInit
    /\ pc = [t \in Clients |-> "idle"]
    /\ victim = 0
    /\ ops = NoOne
    /\ requests = 0

Goto(t, l) == pc' = [pc EXCEPT ![t] = l]
Release(t) == ops' = NoOne /\ Goto(t, "idle")

Request(t) ==
    /\ pc[t] = "idle"
    /\ requests < MaxRequests
    /\ requests' = requests + 1
    /\ \E l \in {"startWait", "stopWait"} : Goto(t, l)
    /\ UNCHANGED <<supVars, victim, ops>>

Lock(t) ==
    /\ pc[t] \in {"startWait", "stopWait"}
    /\ ops = NoOne
    /\ ops' = t
    /\ Goto(t, IF pc[t] = "startWait" THEN "check" ELSE "take")
    /\ UNCHANGED <<supVars, victim, requests>>

-----------------------------------------------------------------------------
(* start *)

\* Already there, under the memory floor, no binary, no weights: nothing moves.
StartRefused(t) ==
    /\ pc[t] = "check"
    /\ Release(t)
    /\ UNCHANGED <<supVars, victim, requests>>

\* Mutant: a start over an engine that is still there.
StartMarkAlways(t) ==
    /\ pc[t] = "check"
    /\ model' = DecisionModel
    /\ status' = "starting"
    /\ Goto(t, "spawn")
    /\ UNCHANGED <<procVars, cur, runningSince, victim, ops, requests>>

StartMark(t) ==
    /\ pc[t] = "check"
    /\ ~Alive(cur)
    /\ model' = DecisionModel
    /\ status' = "starting"
    /\ Goto(t, "spawn")
    /\ UNCHANGED <<procVars, cur, runningSince, victim, ops, requests>>

StartSpawn(t) ==
    /\ pc[t] = "spawn"
    /\ Spawn(DecisionModel)
    /\ Release(t)
    /\ UNCHANGED <<victim, requests>>

StartFails(t) ==
    /\ SpawnCanFail
    /\ pc[t] = "spawn"
    /\ Release(t)
    /\ UNCHANGED <<supVars, victim, requests>>

-----------------------------------------------------------------------------
(* stop *)

\* Mutant: the early return forgets to unlock.
StopTakeLocked(t) ==
    /\ pc[t] = "take"
    /\ status' = "stopped"
    /\ runningSince' = "none"
    /\ cur' = 0
    /\ IF Alive(cur)
       THEN Signal(cur) /\ victim' = cur /\ Goto(t, "kill")
       ELSE UNCHANGED <<os, victim>> /\ Goto(t, "idle")
    /\ UNCHANGED <<served, reader, watch, modelOf, nextGen, model, ops,
                   requests>>

\* Under the lock: the status, and the process taken out; then the signal.
StopTake(t) ==
    /\ pc[t] = "take"
    /\ status' = "stopped"
    /\ runningSince' = "none"
    /\ cur' = 0
    /\ IF Alive(cur)
       THEN Signal(cur) /\ victim' = cur /\ Goto(t, "kill") /\ UNCHANGED ops
       ELSE UNCHANGED <<os, victim>> /\ Release(t)
    /\ UNCHANGED <<served, reader, watch, modelOf, nextGen, model, requests>>

StopDone(t) ==
    /\ pc[t] = "kill"
    /\ KillCanTimeOut \/ ~Alive(victim)
    /\ victim' = 0
    /\ Release(t)
    /\ UNCHANGED <<supVars, requests>>

-----------------------------------------------------------------------------

Handle(t) ==
    \/ StartRefused(t) \/ StartMark(t) \/ StartSpawn(t) \/ StartFails(t)
    \/ StopTake(t) \/ StopDone(t)

SupervisorStep ==
    /\ \/ \E g \in Gens : Engine(g) \/ Threads(g)
       \/ TimePasses
    /\ UNCHANGED svcVars

DecisionsNext ==
    \/ SupervisorStep
    \/ \E t \in Clients : Request(t) \/ Lock(t) \/ Handle(t)

DecisionsSpec == DecisionsInit /\ [][DecisionsNext]_decisionVars

\* As in Runner: threads run, a signalled engine ends, and a lock that is free
\* again and again is obtained (a client sends finitely many requests).
DecisionsFairness ==
    /\ \A t \in Clients : WF_decisionVars(Handle(t)) /\ SF_decisionVars(Lock(t))
    /\ \A g \in Gens :
         /\ WF_decisionVars(os[g] = "term" /\ EngineExit(g) /\ UNCHANGED svcVars)
         /\ WF_decisionVars(ReadEof(g) /\ UNCHANGED svcVars)
         /\ WF_decisionVars(RecordExit(g) /\ UNCHANGED svcVars)

DecisionsLiveSpec == DecisionsSpec /\ DecisionsFairness

-----------------------------------------------------------------------------
(* Properties *)

\* One decision engine at a time, although a stop forgets the process before it
\* is gone: the next start waits for `ops`.
OneDecisionEngine == \A g, h \in Gens : Exists(g) /\ Exists(h) => g = h

\* After a stop no late thread of the engine it killed revives the status: with
\* no process in the shared state the service is never "running" or in "error".
StoppedStaysStopped == cur = 0 => status \in {"stopped", "starting"}

\* Concurrent starts and stops leave the decision service in order: its state
\* has its type, one engine exists, a stopped service stays stopped.
DecisionsSound == DecisionsTypeOK /\ OneDecisionEngine /\ StoppedStaysStopped

\* Every start and stop is answered.
DecisionsAnswered ==
    \A t \in Clients : pc[t] # "idle" ~> pc[t] = "idle" \/ nextGen > MaxGen

=============================================================================
