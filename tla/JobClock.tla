------------------------------ MODULE JobClock ------------------------------
(***************************************************************************)
(* The job of a run (jobs.py) around its worker, on one clock: the outer   *)
(* deadline, and the attempts to persist the end, each with a deadline.    *)
(* Recovery takes a run whose end is not on record for dead once the outer *)
(* deadline and a grace have passed since started_at, here 0.              *)
(*                                                                         *)
(* The event loop runs what is due before time goes on, except for the     *)
(* ticks it stalls: it is busy elsewhere, or the job is not yet started.   *)
(***************************************************************************)
EXTENDS RunnerLoop

CONSTANTS Outer, Finish, Delay,   (* in ticks; Delay by attempt             *)
          RECOVERY_GRACE,
          Slack                   (* bound: ticks the event loop stalls     *)

Attempts == 1..3

ASSUME ClockAssumption ==
  /\ {Outer, Finish, Slack, RECOVERY_GRACE} \subseteq Nat
  /\ Delay \in [1..2 -> Nat]

(* The grace covers three attempts with their clean-ups and delays, the    *)
(* clean-up of the worker, twice where the process stops, and the stalls.  *)
ASSUME GraceAssumption ==
  3 * (Finish + Cleanup) + 2 * Cleanup + Delay[1] + Delay[2] + Slack
    <= RECOVERY_GRACE

VARIABLES job,      (* "created", "working", "cancelling", "saving",        *)
                    (* "unsaving", "sleeping", "saved" or "stranded"        *)
          wake,     (* when its wait ends                                   *)
          attempt,
          outcome,  (* the result to persist                                *)
          stopping, (* whether the process is                               *)
          stalled

job_vars == <<job, wake, attempt, outcome, stopping>>
clock_vars == <<loop_vars, job_vars, stalled>>

Init ==
  /\ LoopInit
  /\ job = "created" /\ wake = 0 /\ attempt = 1 /\ outcome = None
  /\ stopping = FALSE /\ stalled = 0

-----------------------------------------------------------------------------
(* The steps of the job.                                                   *)

Wait(next, time) == job' = next /\ wake' = now + time

StartJob ==
  /\ job = "created"
  /\ Start /\ Wait("working", Outer)
  /\ UNCHANGED <<attempt, outcome, stopping>>

(* The worker is done, be it as late as the deadline. *)
Collect ==
  /\ job = "working" /\ pc = "ended"
  /\ outcome' = IF result = Cancelled THEN Failed("worker_failed") ELSE result
  /\ Wait("saving", Finish)
  /\ UNCHANGED <<loop_vars, attempt, stopping>>

cancel_with_grace(next) ==
  /\ Cancel /\ Wait("cancelling", Cleanup)
  /\ outcome' = next /\ UNCHANGED attempt

OuterTimeout ==
  /\ job = "working" /\ pc # "ended" /\ now >= wake
  /\ cancel_with_grace(Stopped("outer_timeout"))
  /\ UNCHANGED stopping

(* The worker is given up if it does not end in time. *)
GiveUp ==
  /\ job = "cancelling" /\ (pc = "ended" \/ now >= wake)
  /\ Wait("saving", Finish)
  /\ UNCHANGED <<loop_vars, attempt, outcome, stopping>>

Saved ==
  /\ job = "saving"
  /\ job' = "saved"
  /\ UNCHANGED <<loop_vars, wake, attempt, outcome, stopping>>

Retry_Fault ==
  /\ Wait("sleeping", Delay[attempt])
  /\ UNCHANGED <<loop_vars, attempt, outcome, stopping>>
Retry ==
  /\ IF attempt = 3 THEN job' = "stranded" /\ UNCHANGED <<wake, attempt>>
     ELSE Wait("sleeping", Delay[attempt]) /\ attempt' = attempt + 1
  /\ UNCHANGED <<loop_vars, outcome, stopping>>

SaveFails == job = "saving" /\ Retry

SaveTimeout_Fault == FALSE
SaveTimeout ==
  /\ job = "saving" /\ now >= wake
  /\ Wait("unsaving", Cleanup)
  /\ UNCHANGED <<loop_vars, attempt, outcome, stopping>>
Unsaved == job = "unsaving" /\ Retry

Resume ==
  /\ job = "sleeping" /\ now >= wake
  /\ Wait("saving", Finish)
  /\ UNCHANGED <<loop_vars, attempt, outcome, stopping>>

(* The process stops: the job cancels a worker and persists that; a job    *)
(* that is not started, or persists already, just ends.                    *)
stop_jobs ==
  /\ ~stopping /\ stopping' = TRUE
  /\ \/ /\ job \in {"working", "cancelling"}
        /\ cancel_with_grace(Failed("process_interrupted"))
     \/ /\ job \in {"created", "saving", "unsaving", "sleeping"}
        /\ job' = "stranded"
        /\ UNCHANGED <<loop_vars, wake, attempt, outcome>>

JobDue ==
  \/ job = "created"
  \/ job \in {"working", "cancelling"} /\ (pc = "ended" \/ now >= wake)
  \/ job \in {"saving", "unsaving", "sleeping"} /\ now >= wake

JobIsDone == job \in {"saved", "stranded"}

Tick ==
  /\ ~JobIsDone
  /\ now' = now + 1
  /\ IF Due \/ JobDue THEN stalled < Slack /\ stalled' = stalled + 1
     ELSE UNCHANGED stalled
  /\ UNCHANGED <<pc, deadline, since, counters, result, policy, executed, job_vars>>

JobStep ==
  StartJob \/ Collect \/ OuterTimeout \/ GiveUp \/ SaveTimeout \/ Unsaved \/ Resume

Next ==
  \/ /\ Talk \/ Reply \/ Step
     /\ UNCHANGED <<job_vars, stalled>>
  \/ /\ JobStep \/ Saved \/ SaveFails \/ stop_jobs
     /\ UNCHANGED stalled
  \/ Tick

(* The event loop runs what is due, and time goes on. *)
Spec ==
  /\ Init /\ [][Next]_clock_vars
  /\ WF_clock_vars(Step /\ UNCHANGED <<job_vars, stalled>>)
  /\ WF_clock_vars(JobStep /\ UNCHANGED stalled)
  /\ WF_clock_vars(Tick)
-----------------------------------------------------------------------------
(* Properties.                                                             *)

TypeOK ==
  /\ LoopTypeOK
  /\ job \in {"created", "working", "cancelling", "saving", "unsaving",
              "sleeping", "saved", "stranded"}
  /\ wake \in Nat /\ attempt \in Attempts
  /\ stopping \in BOOLEAN /\ stalled \in 0..Slack
  /\ job \in {"saving", "unsaving", "sleeping", "saved"} =>
       outcome \notin {None, Cancelled}

Recoverable == now > Outer + RECOVERY_GRACE

(* Recovery never ends a run whose job is still at work: three attempts to *)
(* persist, all of them timing out, fit into the grace with the clean-ups. *)
JobIsDoneFirst == Recoverable => JobIsDone

(* The outer deadline is the last resort (definition.py asserts the order  *)
(* of the limits so that no end loses its reason): it fires only if the    *)
(* event loop has stalled for what lies between the two deadlines.         *)
OuterIsLastResort ==
  outcome = Stopped("outer_timeout") => Inner + Cleanup + stalled >= Outer

(* A run ends: its job persists an end or gives up, whatever SDK, tools    *)
(* and database do.                                                        *)
LoopEnds == <>JobIsDone
=============================================================================
