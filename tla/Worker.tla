------------------------------- MODULE Worker -------------------------------
(***************************************************************************)
(* The workers that drain the job queue (apps/worker/src/processor.ts and  *)
(* the loop of runtime.ts).                                                *)
(*                                                                         *)
(* A worker claims a job, runs its handler, writes the job's outcome to    *)
(* the queue and then applies the result to the row the command was about. *)
(* Every await is a step boundary, so other workers, the reaper and the    *)
(* clock run between any two steps.  A worker may stop at every boundary:  *)
(* Abandon stands for a crash and restart and for a queue call that throws *)
(* ControlPlaneUnavailableError, whether or not the database carried it    *)
(* out (the call made and then abandoned is the second case).              *)
(*                                                                         *)
(* A handler's result is one of four classes: "succeeded"; "running" (also *)
(* pending); "degraded" (also not_configured); and "failed" (also a        *)
(* handler that throws).                                                   *)
(***************************************************************************)
EXTENDS JobQueue

CONSTANTS
  Workers,   \* the worker processes
  Handled,   \* the jobs whose kind has a registered handler
  NoJob      \* a worker's job while it has none

ASSUME WorkerAssumption ==
  /\ Handled \subseteq Jobs
  /\ NoJob \notin Jobs

VARIABLES
  wk,        \* wk[w] is where worker w is in its tick, and on what
  said       \* history: the jobs for which a handler reported success

Results == {"succeeded", "running", "degraded", "failed"}

Tick0 == [pc |-> "idle", job |-> NoJob, res |-> "none", spent |-> FALSE]

Progress == [ pc    : {"idle", "handling", "settling", "failing", "applying"},
              job   : Jobs \cup {NoJob},
              res   : Results \cup {"none"},
              spent : BOOLEAN ]

workerVars == <<job, wk, said>>

WorkerInit ==
  /\ QueueInit
  /\ wk = [w \in Workers |-> Tick0]
  /\ said = {}

Submit(j) == Enqueue(j) /\ UNCHANGED <<wk, said>>

\* A job of a kind nobody handles is settled at once as not configured.
Taken(j) ==
  IF j \in Handled
  THEN [Tick0 EXCEPT !.pc = "handling", !.job = j]
  ELSE [Tick0 EXCEPT !.pc = "settling", !.job = j, !.res = "degraded"]

Claim(w) ==
  /\ wk[w].pc = "idle"
  /\ \E j \in Jobs : ClaimOldest(j) /\ wk' = [wk EXCEPT ![w] = Taken(j)]
  /\ UNCHANGED said

HandlerReturns(w, r) ==
  /\ wk[w].pc = "handling"
  /\ wk' = [wk EXCEPT ![w].pc = "settling", ![w].res = r]
  /\ said' = IF r = "succeeded" THEN said \cup {wk[w].job} ELSE said
  /\ UNCHANGED job

Settling(w, r) == wk[w].pc = "settling" /\ wk[w].res = r

Settled(w) ==
  /\ wk' = [wk EXCEPT ![w].pc = "applying"]
  /\ UNCHANGED said

\* Faulty: polling has no ceiling.
NeverTooOld(j) == FALSE

TooOld(j) == job[j].age >= CeilingTicks

SettleSucceeded(w) ==
  /\ Settling(w, "succeeded")
  /\ Complete(wk[w].job)
  /\ Settled(w)

\* Faulty: a build the engine accepted counts as done.
SettleRunningAsDone(w) ==
  /\ Settling(w, "running")
  /\ Complete(wk[w].job)
  /\ Settled(w)

SettleRunning(w) ==
  /\ Settling(w, "running")
  /\ IF TooOld(wk[w].job) THEN Terminate(wk[w].job) ELSE Defer(wk[w].job)
  /\ Settled(w)

SettleDegraded(w) ==
  /\ Settling(w, "degraded")
  /\ Terminate(wk[w].job)
  /\ Settled(w)

ReadBudget(w) ==
  /\ Settling(w, "failed")
  /\ wk' = [wk EXCEPT ![w].pc = "failing", ![w].spent = Spent(wk[w].job)]
  /\ UNCHANGED <<job, said>>

SettleFailed(w) ==
  /\ wk[w].pc = "failing"
  /\ Fail(wk[w].job, wk[w].spent)
  /\ Settled(w)

Apply(w) ==
  /\ wk[w].pc = "applying"
  /\ wk' = [wk EXCEPT ![w] = Tick0]
  /\ UNCHANGED <<job, said>>

Abandon(w) ==
  /\ wk[w].pc # "idle"
  /\ wk' = [wk EXCEPT ![w] = Tick0]
  /\ UNCHANGED <<job, said>>

\* The loop reaps before it drains: only a worker between ticks does.
Reap(w) ==
  /\ wk[w].pc = "idle"
  /\ ReapExpired
  /\ UNCHANGED <<wk, said>>

Settle(w) ==
  \/ SettleSucceeded(w)
  \/ SettleRunning(w)
  \/ SettleDegraded(w)
  \/ ReadBudget(w)
  \/ SettleFailed(w)

WorkerStep(w) ==
  \/ Claim(w)
  \/ \E r \in Results : HandlerReturns(w, r)
  \/ Settle(w)
  \/ Apply(w)
  \/ Reap(w)

Untimed ==
  \/ \E j \in Jobs : Submit(j)
  \/ \E w \in Workers : WorkerStep(w) \/ Abandon(w)

\* Worker w still has to write the outcome of its job to the queue.
Busy(w) == wk[w].pc \in {"handling", "settling", "failing"}

Clock == Tick /\ UNCHANGED <<wk, said>>

Next == Untimed \/ Clock

Spec == WorkerInit /\ [][Next]_workerVars

(***************************************************************************)
(* Nothing in the code makes a handler finish within its lease.  TimelySpec*)
(* is the system in which it does: time does not run out on a worker that  *)
(* is still alive.  With one worker process it is the only system, since   *)
(* the loop reaps and ticks in turn.                                       *)
(***************************************************************************)
TimelyClock ==
  /\ \A w \in Workers : Busy(w) => job[wk[w].job].lease > 1
  /\ Clock

TimelyNext == Untimed \/ TimelyClock

TimelySpec == WorkerInit /\ [][TimelyNext]_workerVars

(***************************************************************************)
(* Fairness: the loop never stops ticking, every handler returns (adapter  *)
(* calls carry a timeout and the build poll is bounded), and time passes.  *)
(* Nothing is assumed of callers or of crashes.                            *)
(***************************************************************************)
WorkerFairness == \A w \in Workers : WF_workerVars(WorkerStep(w))

LiveTimelySpec == TimelySpec /\ WorkerFairness /\ WF_workerVars(TimelyClock)

-----------------------------------------------------------------------------
(***************************************************************************)
(* What the queue promises.                                                *)
(***************************************************************************)

\* Every variable keeps its type; in particular a row's attempts never pass
\* max_attempts and a lease exists exactly while the row is running.
TypeOK ==
  /\ job \in [Jobs -> Row]
  /\ wk \in [Workers -> Progress]
  /\ said \subseteq Jobs
  /\ \A j \in Jobs : job[j].state = "running" <=> job[j].lease # NoLease
  /\ \A w \in Workers : wk[w].pc # "idle" => wk[w].job \in Jobs

\* Honest (queue.ts): whatever stale calls, crashes and reaps happen, a job is
\* recorded as succeeded only if one of its handlers reported success.
Honest == \A j \in Jobs : job[j].state = "succeeded" => j \in said

\* A waiting job can still be claimed: it was not returned to the queue with
\* its budget spent, where no claim and no reap would ever see it again.
BudgetLeft ==
  \A j \in Jobs : job[j].state = "queued" => job[j].attempts < MaxAttempts

\* A crashed worker does not wedge its job (queue.ts): a job without an outcome
\* is in some worker's hands, or a claim or a reap can still pick it up.
NotWedged ==
  \A j \in Jobs :
    job[j].state = "queued" /\ job[j].attempts >= MaxAttempts
      => \E w \in Workers : Busy(w) /\ wk[w].job = j

OneHolder ==
  \A v, w \in Workers :
    Busy(v) /\ Busy(w) /\ wk[v].job = wk[w].job => v = w

HeldIsRunning == \A w \in Workers : Busy(w) => job[wk[w].job].state = "running"

\* Claimable by exactly one worker at a time (queue.ts): no two workers carry
\* out the same job, and while one does nobody requeues or settles the job
\* under it, so its own outcome is the one recorded.
Exclusive == OneHolder /\ HeldIsRunning

\* A settled job never changes again: no late fail requeues it, no late
\* terminate overrides a success.
SettledIsFinal ==
  [][\A j \in Jobs : job[j].state \in Terminal => job'[j].state = job[j].state]_workerVars

\* Migration 0028: a stale caller cannot resurrect a settled job by deferring
\* it, even when its lease lapsed long ago and another worker settled the job.
DeferNeverResurrects ==
  [][\A w \in Workers :
       SettleRunning(w) /\ job[wk[w].job].state \in Terminal
         => job'[wk[w].job].state \in Terminal]_workerVars

\* Every enqueued job is settled in the end: crashes cost attempts and polling
\* is bounded by the age of the job, so neither goes on for ever.
EveryJobSettles ==
  \A j \in Jobs : job[j].state = "queued" ~> job[j].state \in Terminal
=============================================================================
