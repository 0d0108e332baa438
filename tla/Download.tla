------------------------------ MODULE Download ------------------------------
(***************************************************************************)
(* Downloading weights (vllm-runner-rs/src/download.rs): the one job slot, *)
(* the requests that start a job or dismiss a finished one, and the thread *)
(* that runs each download and reports its end into the slot.              *)
(*                                                                         *)
(* `start` looks at the slot, lets go of its lock, and takes it again to   *)
(* store the job. The end of a download is matched to the slot by the name *)
(* of its repository. Progress (du, the size of the repository) is not     *)
(* modelled, nor the refusal of an invalid repository or a local target.   *)
(***************************************************************************)
EXTENDS Naturals, FiniteSets

CONSTANTS
    Callers,    \* request threads
    Repos,      \* Hugging Face repositories
    MaxJobs     \* bound: downloads in one behaviour

ASSUME DownloadAssumption == MaxJobs \in Nat

Jobs == 1 .. MaxJobs
NoJob == [repo |-> "none", running |-> FALSE, error |-> FALSE]
Slots == [repo : Repos, running : BOOLEAN, error : BOOLEAN] \cup {NoJob}

VARIABLES
    slot,       \* the static JOB
    chosen,     \* per client: the repository of a start that passed the check
    job,        \* per download thread: its repository, "none" before it starts
    live,       \* the downloads whose hf process is running
    started     \* downloads started so far

downloadVars == <<slot, chosen, job, live, started>>

DownloadTypeOK ==
    /\ slot \in Slots
    /\ chosen \in [Callers -> Repos \cup {"none"}]
    /\ job \in [Jobs -> Repos \cup {"none"}]
    /\ live \subseteq Jobs
    /\ started \in 0 .. MaxJobs

DownloadInit ==
    /\ slot = NoJob
    /\ chosen = [c \in Callers |-> "none"]
    /\ job = [j \in Jobs |-> "none"]
    /\ live = {}
    /\ started = 0

-----------------------------------------------------------------------------

\* start, its check: refused while the slot holds a running job.
StartCheck(c, r) ==
    /\ chosen[c] = "none"
    /\ started < MaxJobs
    /\ ~slot.running
    /\ chosen' = [chosen EXCEPT ![c] = r]
    /\ UNCHANGED <<slot, job, live, started>>

\* start, its end: the slot is overwritten, whatever it holds by now, and the
\* thread of the download starts.
StartJob(c) ==
    /\ chosen[c] # "none"
    /\ started < MaxJobs
    /\ started' = started + 1
    /\ job' = [job EXCEPT ![started + 1] = chosen[c]]
    /\ live' = live \cup {started + 1}
    /\ slot' = [repo |-> chosen[c], running |-> TRUE, error |-> FALSE]
    /\ chosen' = [chosen EXCEPT ![c] = "none"]

\* Mutant: a download that fails does not report its end.
FinishReportsSuccess(j) ==
    /\ j \in live
    /\ live' = live \ {j}
    /\ \E err \in BOOLEAN :
         slot' = IF slot.repo = job[j] /\ ~err
                 THEN [slot EXCEPT !.running = FALSE, !.error = err]
                 ELSE slot
    /\ UNCHANGED <<chosen, job, started>>

\* The thread's end: the slot, if it is about the same repository.
Finish(j) ==
    /\ j \in live
    /\ live' = live \ {j}
    /\ \E err \in BOOLEAN :
         slot' = IF slot.repo = job[j]
                 THEN [slot EXCEPT !.running = FALSE, !.error = err]
                 ELSE slot
    /\ UNCHANGED <<chosen, job, started>>

\* clear: only a finished job is forgotten.
Clear ==
    /\ slot # NoJob
    /\ ~slot.running
    /\ slot' = NoJob
    /\ UNCHANGED <<chosen, job, live, started>>

DownloadNext ==
    \/ \E c \in Callers : StartJob(c) \/ \E r \in Repos : StartCheck(c, r)
    \/ \E j \in Jobs : Finish(j)
    \/ Clear

DownloadSpec == DownloadInit /\ [][DownloadNext]_downloadVars

-----------------------------------------------------------------------------
(* Properties *)

\* A slot that says "running" has a download of that repository behind it: the
\* console is never refused a start for a job that has ended, whatever the
\* order in which overlapping jobs end.
SlotIsBacked ==
    slot.running => \E j \in live : job[j] = slot.repo

\* "One job at a time, deliberately: [...] A second start is refused with the
\* running one's repo."
OneJobAtATime == Cardinality(live) <= 1

=============================================================================
