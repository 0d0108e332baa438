------------------------------- MODULE Studio -------------------------------
(***************************************************************************)
(* The image and video pages: one generation at a time on the screen, its  *)
(* status polled by an interval, and the history of earlier jobs beside it. *)
(*                                                                         *)
(* `studio' is the page (component state and the pollRef), `jobs' what the *)
(* portal knows of each job, `calls' the requests that left and whose      *)
(* answer has not been handled.  A poll carries what the server read when  *)
(* it was made, so its answer may be old when it arrives.  An interval is   *)
(* named after the job it polls.                                           *)
(***************************************************************************)
EXTENDS Naturals, Sequences, FiniteSets

CONSTANTS
  MaxJobs,        \* jobs the portal ever knows
  MaxStudioCalls  \* requests in flight at a time

ASSUME StudioAssumption == MaxJobs \in Nat \ {0} /\ MaxStudioCalls \in Nat

VARIABLES studio, jobs, calls

studioVars == <<studio, jobs, calls>>

JobStatus == {"pending", "running", "done", "error", "cancelled"}

-----------------------------------------------------------------------------
(* What the page offers                                                    *)

Busy == studio.status \in {"pending", "running"}

\* The form is there when a model serves the page, and open when no job is
\* under way.  "Réessayer" of the card asks only for a failed status.
FormOpen == studio.avail /\ ~Busy

\* The gallery shows the picture of the job on screen once it is done; the
\* page of a batch also hides the pictures deleted from it.
ShowsPicture ==
  /\ studio.page = "image"
  /\ studio.shown # 0
  /\ studio.status = "done"

\* A history row can always be opened, and a failed one always retried: the
\* rows are not disabled while a generation is under way.
Rows == DOMAIN studio.history

\* "Arrêter" is there while busy; cancel() returns without a job.
StopOffered == Busy /\ studio.shown # 0 /\ ~studio.cancelling

-----------------------------------------------------------------------------
(* The page                                                                *)

StudioInit ==
  /\ jobs \in {<<>>} \cup {<<s>> : s \in {"running", "done", "error"}}
  /\ calls = {}
  /\ \E page \in {"image", "video"}, avail \in BOOLEAN :
       studio = [page |-> page, open |-> TRUE, avail |-> avail,
                 status |-> "idle", shown |-> 0, history |-> jobs,
                 alive |-> {}, ref |-> 0, cancelling |-> FALSE,
                 viewer |-> 0, deleted |-> {},
                 viewed |-> FALSE, late |-> FALSE]

\* stopPolling(): the interval of pollRef dies, no other.
Stopped(s) == [s EXCEPT !.alive = @ \ {s.ref}, !.ref = 0]

HistoryCall == [kind |-> "history", job |-> 0, says |-> "ok"]

CallsFit(n) == Cardinality(calls) + n <= MaxStudioCalls

\* setState on a page that is gone does nothing; pollRef and the intervals
\* are no React state and live on.
OnScreen(s) ==
  IF studio.open THEN s ELSE [studio EXCEPT !.alive = s.alive, !.ref = s.ref]

\* generate(): the image page stops the previous interval before the POST,
\* the video page only once the answer is there.
Posting(s) ==
  [(IF s.page = "image" THEN Stopped(s) ELSE s)
     EXCEPT !.status = "pending", !.shown = 0, !.viewed = FALSE, !.late = FALSE]

GenerateOffered ==
  \/ FormOpen
  \/ studio.status = "error"
  \/ \E h \in Rows : studio.history[h] = "error"

Generate ==
  /\ studio.open /\ GenerateOffered /\ CallsFit(1)
  /\ studio' = Posting(studio)
  /\ \/ /\ Len(jobs) < MaxJobs
        /\ jobs' = Append(jobs, "pending")
        /\ calls' = calls \cup {[kind |-> "post", job |-> Len(jobs'), says |-> "ok"]}
     \/ /\ calls' = calls \cup {[kind |-> "post", job |-> 0, says |-> "failed"]}
        /\ UNCHANGED jobs

\* Mutant: armed, then stopped.
ArmedStopped(s, j) == Stopped([s EXCEPT !.alive = @ \cup {j}, !.ref = j])

\* The answer of the POST: the job is on screen, the history is read again
\* and a new interval is armed.
Armed(s, j) ==
  LET t == IF s.page = "video" THEN Stopped(s) ELSE s
  IN  [t EXCEPT !.alive = @ \cup {j}, !.ref = j]

PostAnswers(c) ==
  /\ c.kind = "post"
  /\ IF c.job = 0
     THEN /\ studio' = OnScreen([studio EXCEPT !.status = "error"])
          /\ calls' = calls \ {c}
     ELSE /\ studio' = OnScreen(Armed([studio EXCEPT !.shown = c.job], c.job))
          /\ calls' = (calls \ {c}) \cup {HistoryCall}
  /\ UNCHANGED jobs

PollFires(j) ==
  /\ j \in studio.alive /\ CallsFit(1)
  /\ calls' = calls \cup {[kind |-> "poll", job |-> j, says |-> jobs[j]]}
  /\ UNCHANGED <<studio, jobs>>

\* An answer that is not r.ok, or that never comes, changes nothing.
PollFails(c) ==
  /\ c.kind = "poll"
  /\ calls' = calls \ {c}
  /\ UNCHANGED <<studio, jobs>>

\* done and error end the polling: of whatever pollRef names by now.
Polled(s, c) ==
  [(IF c.says \in {"done", "error"} THEN Stopped(s) ELSE s)
     EXCEPT !.status = c.says, !.late = @ \/ c.job \notin s.alive \/ c.job # s.shown]

PollAnswers(c) ==
  /\ c.kind = "poll"
  /\ studio' = OnScreen(Polled(studio, c))
  /\ calls' = (calls \ {c}) \cup
       (IF c.says \in {"done", "error"} THEN {HistoryCall} ELSE {})
  /\ UNCHANGED jobs

HistoryAnswers(c) ==
  /\ c.kind = "history"
  /\ studio' = OnScreen([studio EXCEPT !.history = jobs])
  /\ calls' = calls \ {c}
  /\ UNCHANGED jobs

\* viewHistoryItem(): the polling stops, whatever the status of the row.
ViewItem(h) ==
  /\ studio.open
  /\ studio' = [Stopped(studio) EXCEPT !.shown = h, !.status = studio.history[h],
                                       !.viewed = TRUE]
  /\ UNCHANGED <<jobs, calls>>

\* cancel(): the server interrupts the job, or refuses.
Cancel ==
  /\ studio.open /\ StopOffered /\ CallsFit(1)
  /\ studio' = [studio EXCEPT !.cancelling = TRUE]
  /\ \/ /\ jobs[studio.shown] \in {"pending", "running"}
        /\ jobs' = [jobs EXCEPT ![studio.shown] = "cancelled"]
        /\ calls' = calls \cup {[kind |-> "cancel", job |-> studio.shown, says |-> "ok"]}
     \/ /\ calls' = calls \cup {[kind |-> "cancel", job |-> studio.shown, says |-> "failed"]}
        /\ UNCHANGED jobs

CancelAnswers(c) ==
  /\ c.kind = "cancel"
  /\ IF c.says = "ok"
     THEN /\ studio' = OnScreen([Stopped(studio) EXCEPT !.status = "cancelled",
                                   !.cancelling = FALSE, !.late = @ \/ c.job # studio.shown])
          /\ calls' = (calls \ {c}) \cup {HistoryCall}
     ELSE /\ studio' = OnScreen([studio EXCEPT !.cancelling = FALSE])
          /\ calls' = calls \ {c}
  /\ UNCHANGED jobs

\* viewImage() and the fullscreen viewer.
OpenViewer ==
  /\ studio.open /\ ShowsPicture /\ studio.viewer = 0
  /\ studio' = [studio EXCEPT !.viewer = studio.shown]
  /\ UNCHANGED <<jobs, calls>>

\* deleteImage(): the thumbnail goes only once the server has confirmed.
Delete ==
  /\ studio.open /\ studio.viewer # 0 /\ CallsFit(1)
  /\ \E says \in {"ok", "failed"} :
       calls' = calls \cup {[kind |-> "delete", job |-> studio.viewer, says |-> says]}
  /\ UNCHANGED <<studio, jobs>>

DeleteAnswers(c) ==
  /\ c.kind = "delete"
  /\ studio' = IF c.says = "ok"
               THEN OnScreen([studio EXCEPT !.deleted = @ \cup {c.job}, !.viewer = 0])
               ELSE studio
  /\ calls' = calls \ {c}
  /\ UNCHANGED jobs

\* The cleanup of the mount effect is stopPolling.
Leave ==
  /\ studio.open
  /\ studio' = [Stopped(studio) EXCEPT !.open = FALSE]
  /\ UNCHANGED <<jobs, calls>>

\* The portal works on a job (and another window may cancel it).
JobAdvances(j) ==
  /\ \/ jobs[j] = "pending" /\ jobs' = [jobs EXCEPT ![j] = "running"]
     \/ jobs[j] = "running" /\ \E s \in {"done", "error", "cancelled"} :
                                 jobs' = [jobs EXCEPT ![j] = s]
  /\ UNCHANGED <<studio, calls>>

StudioNext ==
  \/ Generate
  \/ \E c \in calls : PostAnswers(c)
  \/ \E j \in studio.alive : PollFires(j)
  \/ \E c \in calls : PollFails(c)
  \/ \E c \in calls : PollAnswers(c)
  \/ \E c \in calls : HistoryAnswers(c)
  \/ \E h \in Rows : ViewItem(h)
  \/ Cancel
  \/ \E c \in calls : CancelAnswers(c)
  \/ OpenViewer
  \/ Delete
  \/ \E c \in calls : DeleteAnswers(c)
  \/ Leave
  \/ \E j \in DOMAIN jobs : JobAdvances(j)

StudioSpec == StudioInit /\ [][StudioNext]_studioVars

-----------------------------------------------------------------------------
(* Properties                                                              *)

\* The page, the jobs and the calls hold what the code can put there.
StudioTypeOK ==
  /\ jobs \in Seq(JobStatus) /\ Len(jobs) <= MaxJobs
  /\ studio.status \in JobStatus \cup {"idle"}
  /\ studio.alive \cup studio.deleted \cup {studio.viewer} \subseteq 0..MaxJobs
  /\ {studio.ref, studio.shown} \subseteq 0..MaxJobs
  /\ \A c \in calls : c.kind \in {"post", "poll", "cancel", "history", "delete"}

\* A page that says "Génération en cours" of a job started on it is still
\* waiting for something that will end the wait: the answer of the POST, an
\* answer on its way, or the interval of that job.  (generate(), stopPolling()
\* and the interval of ImagePage.tsx and VideoPage.tsx.)  Excepted: a row
\* opened from the history, which is never polled, and a page that applied a
\* late answer: one about another job, or one that left before the polling
\* was stopped, which puts a cancelled page back to "en cours" for ever.
WatchedWhileBusy ==
  (studio.open /\ Busy /\ ~studio.viewed /\ ~studio.late) =>
    \/ \E c \in calls : c.kind \in {"post", "poll", "cancel"}
    \/ studio.shown \in studio.alive

\* No interval outlives its place in pollRef, and none outlives the page: the
\* comments of both generate() functions promise that no orphan goes on
\* polling "even after unmount".
NoOrphanPoll ==
  /\ studio.alive \subseteq {studio.ref}
  /\ ~studio.open => studio.alive = {}
=============================================================================
