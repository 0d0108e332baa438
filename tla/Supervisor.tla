----------------------------- MODULE Supervisor -----------------------------
(***************************************************************************)
(* The process lifecycle of vllm-runner-rs/src/supervisor.rs: engine       *)
(* processes, one per launch (a "generation"), and the three threads that  *)
(* `spawn` starts for each of them.                                        *)
(*                                                                         *)
(*   read_output   reads the pipe, marks the engine running on its startup *)
(*                 line, records its exit at end of file;                  *)
(*   health_watch  polls /v1/models and marks it running on an answer;     *)
(*   memory_guard  kills it when the machine is short of memory.           *)
(*                                                                         *)
(* The chat service (Runner) and the decision service (Decisions) both     *)
(* extend this module: it holds the state under `Supervisor.inner` and the *)
(* steps of the threads, they add the operations.                          *)
(*                                                                         *)
(* Left out: the log buffer, the journal, `engine` and `auto_retries`      *)
(* (reported, never tested by the code), pid reuse after an exit.          *)
(* Generations stay distinct across a restart of the daemon, where the     *)
(* code counts again from 1: no thread survives that could tell.           *)
(***************************************************************************)
EXTENDS Naturals

CONSTANTS
    Models,         \* model identifiers (hf_model_id)
    NoModel,        \* `None`
    MaxGen          \* bound: engines spawned in one behaviour

ASSUME MaxGenAssumption == MaxGen \in Nat
ASSUME NoModelAssumption == NoModel \notin Models

Gens == 1 .. MaxGen

VARIABLES
    os,             \* the engine process: none, up, term (signalled), dead
    served,         \* it answers /v1/models, or did before it died
    reader,         \* read_output: none, reading, lineRead, exited, done
    watch,          \* health_watch: none, polling, answered, done
    modelOf,        \* the model on the engine's command line
    cur,            \* Shared.proc: the generation it holds, 0 for None
    status,         \* Shared.status
    model,          \* Shared.model
    runningSince,   \* Shared.running_since: none, fresh, or stable (>= 600 s)
    nextGen         \* Supervisor.next_gen

procVars == <<os, served, reader, watch, modelOf, nextGen>>
sharedVars == <<cur, status, model, runningSince>>
supVars == <<os, served, reader, watch, modelOf, nextGen,
             cur, status, model, runningSince>>

SupTypeOK ==
    /\ os \in [Gens -> {"none", "up", "term", "dead"}]
    /\ served \in [Gens -> BOOLEAN]
    /\ reader \in [Gens -> {"none", "reading", "lineRead", "exited", "done"}]
    /\ watch \in [Gens -> {"none", "polling", "answered", "done"}]
    /\ modelOf \in [Gens -> Models \cup {NoModel}]
    /\ cur \in 0 .. MaxGen
    /\ status \in {"stopped", "starting", "running", "error"}
    /\ model \in Models \cup {NoModel}
    /\ runningSince \in {"none", "fresh", "stable"}
    /\ nextGen \in 1 .. MaxGen + 1

SupInit ==
    /\ os = [g \in Gens |-> "none"]
    /\ served = [g \in Gens |-> FALSE]
    /\ reader = [g \in Gens |-> "none"]
    /\ watch = [g \in Gens |-> "none"]
    /\ modelOf = [g \in Gens |-> NoModel]
    /\ cur = 0
    /\ status = "stopped"
    /\ model = NoModel
    /\ runningSince = "none"
    /\ nextGen = 1

-----------------------------------------------------------------------------
(* What the threads see of an engine. *)

\* Proc::alive: `exited` has not been stored, whatever the process itself does.
Alive(g) == g \in Gens /\ reader[g] \in {"reading", "lineRead"}

\* The process exists and holds its memory and its port.
Exists(g) == os[g] \in {"up", "term"}

\* probe_models: somebody answers on the port. Nothing in the answer tells
\* which engine it is.
PortAnswers == \E h \in Gens : Exists(h) /\ served[h]

\* The status an exit leaves: "stopped" for the codes 0, -15 and -9, "error" for
\* any other. Nothing else reads the code, so it is chosen here.
ExitStatus == {"stopped", "error"}

-----------------------------------------------------------------------------
(* The engine itself. *)

\* The weights are loaded: the port answers.
EngineServes(g) ==
    /\ os[g] = "up"
    /\ ~served[g]
    /\ served' = [served EXCEPT ![g] = TRUE]
    /\ UNCHANGED <<os, reader, watch, modelOf, nextGen, sharedVars>>

\* It ends: a crash, an exit of its own, or the signal it was sent.
EngineExit(g) ==
    /\ Exists(g)
    /\ os' = [os EXCEPT ![g] = "dead"]
    /\ UNCHANGED <<served, reader, watch, modelOf, nextGen, sharedVars>>

-----------------------------------------------------------------------------
(* read_output *)

\* Only some engines print "Application startup complete", and a line printed
\* before a crash is still read after it.
ReadStartupLine(g) ==
    /\ reader[g] = "reading"
    /\ served[g]
    /\ reader' = [reader EXCEPT ![g] = "lineRead"]
    /\ IF cur = g
       THEN status' = "running" /\ runningSince' = "fresh"
       ELSE UNCHANGED <<status, runningSince>>
    /\ UNCHANGED <<os, served, watch, modelOf, nextGen, cur, model>>

\* End of file, `wait`, then `exited` is stored: no lock is held yet.
ReadEof(g) ==
    /\ Alive(g)
    /\ os[g] = "dead"
    /\ reader' = [reader EXCEPT ![g] = "exited"]
    /\ UNCHANGED <<os, served, watch, modelOf, nextGen, sharedVars>>

\* Then the lock is taken and the status follows, for the current process only.
RecordExit(g) ==
    /\ reader[g] = "exited"
    /\ reader' = [reader EXCEPT ![g] = "done"]
    /\ IF cur = g /\ status # "stopped"
       THEN status' \in ExitStatus ELSE UNCHANGED status
    /\ UNCHANGED <<os, served, watch, modelOf, nextGen,
                   cur, model, runningSince>>

-----------------------------------------------------------------------------
(* health_watch *)

\* `while proc.alive()`, and the probe answers.
HealthProbe(g) ==
    /\ watch[g] = "polling"
    /\ Alive(g)
    /\ PortAnswers
    /\ watch' = [watch EXCEPT ![g] = "answered"]
    /\ UNCHANGED <<os, served, reader, modelOf, nextGen, sharedVars>>

\* Mutant: the answer is credited to whatever generation is current.
HealthMarkAnyGen(g) ==
    /\ watch[g] = "answered"
    /\ watch' = [watch EXCEPT ![g] = "done"]
    /\ status' = "running"
    /\ runningSince' = "fresh"
    /\ UNCHANGED <<os, served, reader, modelOf, nextGen, cur, model>>

\* The lock is taken after the answer: the engine may be gone by now.
HealthMark(g) ==
    /\ watch[g] = "answered"
    /\ watch' = [watch EXCEPT ![g] = "done"]
    /\ IF cur = g
       THEN status' = "running" /\ runningSince' = "fresh"
       ELSE UNCHANGED <<status, runningSince>>
    /\ UNCHANGED <<os, served, reader, modelOf, nextGen, cur, model>>

\* The process ended before the port answered.
HealthEnd(g) ==
    /\ watch[g] = "polling"
    /\ ~Alive(g)
    /\ watch' = [watch EXCEPT ![g] = "done"]
    /\ UNCHANGED <<os, served, reader, modelOf, nextGen, sharedVars>>

-----------------------------------------------------------------------------
(* memory_guard: SIGKILL to the group of its own process. *)

MemoryGuard(g) ==
    /\ Alive(g)
    /\ os[g] = "up"
    /\ os' = [os EXCEPT ![g] = "term"]
    /\ UNCHANGED <<served, reader, watch, modelOf, nextGen, sharedVars>>

\* `running_since.elapsed() >= stable_seconds`
TimePasses ==
    /\ runningSince = "fresh"
    /\ runningSince' = "stable"
    /\ UNCHANGED <<procVars, cur, status, model>>

-----------------------------------------------------------------------------
(* What the operations of the services are made of. *)

\* kill, its first half: SIGTERM to the group (SIGKILL follows).
Signal(g) == os' = [os EXCEPT ![g] = IF @ = "up" THEN "term" ELSE @]

\* spawn: the process, Shared under the lock, the three threads.
Spawn(m) ==
    /\ nextGen \in Gens
    /\ os' = [os EXCEPT ![nextGen] = "up"]
    /\ reader' = [reader EXCEPT ![nextGen] = "reading"]
    /\ watch' = [watch EXCEPT ![nextGen] = "polling"]
    /\ modelOf' = [modelOf EXCEPT ![nextGen] = m]
    /\ cur' = nextGen
    /\ status' = "starting"
    /\ nextGen' = nextGen + 1
    /\ UNCHANGED <<served, model, runningSince>>

\* The daemon dies and its cgroup with it: no engine, no thread, default Shared.
SupReset ==
    /\ os' = [g \in Gens |-> IF os[g] = "none" THEN "none" ELSE "dead"]
    /\ reader' = [g \in Gens |-> IF reader[g] = "none" THEN "none" ELSE "done"]
    /\ watch' = [g \in Gens |-> IF watch[g] = "none" THEN "none" ELSE "done"]
    /\ cur' = 0
    /\ status' = "stopped"
    /\ model' = NoModel
    /\ runningSince' = "none"
    /\ UNCHANGED <<served, modelOf, nextGen>>

Engine(g) == EngineServes(g) \/ EngineExit(g)

Threads(g) ==
    \/ ReadStartupLine(g) \/ ReadEof(g) \/ RecordExit(g)
    \/ HealthProbe(g) \/ HealthMark(g) \/ HealthEnd(g)
    \/ MemoryGuard(g)

=============================================================================
