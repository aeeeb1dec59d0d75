-------------------------- MODULE DeploymentPipeline --------------------------
(***************************************************************************)
(* A deployment from the request to its outcome: the API that records it   *)
(* and enqueues its job, the worker that executes the job, the applier     *)
(* that mirrors the job's result onto the row, the sweep that settles rows *)
(* jobs left behind, and the API that cancels and promotes.                *)
(*                                                                         *)
(* The worker's own steps are those of Worker: a pipeline action either is *)
(* a Worker action with its effect on the deployment, or leaves Worker's   *)
(* variables alone.  Every await is a step boundary.  A handler whose      *)
(* database call throws reports failure; a sweep or an applier whose call  *)
(* throws stops where it is (Stop), as it does when the process crashes.   *)
(***************************************************************************)
EXTENDS Worker, Deployments

\* A deployment and its job share the idempotency key, and have a handler.
ASSUME PipelineAssumption == Requests = Jobs /\ Handled = Jobs

VARIABLES
  asking,   \* requests whose row is written and whose job is not yet enqueued
  hand,     \* hand[w] is what worker w holds in memory for handler and sweep
  cancel    \* the cancel request being served, if any

pipelineVars == <<job, wk, said, row, live, billed, application, applications,
                  builds, asking, hand, cancel>>
apiVars == <<asking, cancel>>

Empty == [ pc |-> "none", dep |-> NoRequest, app |-> NoApplication,
           status |-> "none", handle |-> NoBuild, todo |-> {} ]

NoCancel == [pc |-> "none", dep |-> NoRequest, status |-> "none", handle |-> NoBuild]

HandlerSteps == {"target", "row", "poll", "create", "remember", "deploy", "mark", "confirm"}
SettleSteps  == {"write", "promote", "bill"}

Stranded == [dep : Requests, handle : 0..MaxBuilds, old : BOOLEAN]

Hands == [ pc     : {"none", "returned", "sweep"} \cup HandlerSteps \cup SettleSteps,
           dep    : Requests \cup {NoRequest},
           app    : 0..Many,
           status : Results \cup {"none"},
           handle : 0..MaxBuilds,
           todo   : SUBSET Stranded ]

PipelineInit ==
  /\ WorkerInit
  /\ DeploymentsInit
  /\ asking = {}
  /\ hand = [w \in Workers |-> Empty]
  /\ cancel = NoCancel

-----------------------------------------------------------------------------
(***************************************************************************)
(* requestDeployment: the row, then the job.  A repeat of the key replays  *)
(* the row and enqueues nothing, also when the first request died between. *)
(***************************************************************************)
Request(d) ==
  /\ Insert(d)
  /\ asking' = asking \cup {d}
  /\ UNCHANGED <<workerVars, live, billed, application, applications, builds, hand, cancel>>

EnqueueJob(d) ==
  /\ d \in asking
  /\ Submit(d)
  /\ asking' = asking \ {d}
  /\ UNCHANGED <<deploymentVars, hand, cancel>>

Replay(d) ==
  /\ row[d].status # "absent"
  /\ UNCHANGED pipelineVars

RequestDies(d) ==
  /\ d \in asking
  /\ asking' = asking \ {d}
  /\ UNCHANGED <<workerVars, deploymentVars, hand, cancel>>

-----------------------------------------------------------------------------
(* executeDeployment, the handler of the job.                              *)

At(w, pc) == hand[w].pc = pc
Dep(w)    == hand[w].dep

\* The worker goes on to step pc.
GoTo(w, pc) == hand' = [hand EXCEPT ![w].pc = pc]

Start(w) ==
  /\ At(w, "none")
  /\ Claim(w)
  /\ hand' = [hand EXCEPT ![w] = [Empty EXCEPT !.pc = "target", !.dep = wk'[w].job]]
  /\ UNCHANGED <<deploymentVars, apiVars>>

\* The handler returns: an ok result carries the handle, an err none.
Return(w, r, handle) ==
  /\ HandlerReturns(w, r)
  /\ hand' = [hand EXCEPT ![w].pc = "returned",
                          ![w].handle = IF r \in {"succeeded", "running"} THEN handle
                                        ELSE NoBuild]

Refused(w) == \E r \in Refusals : Return(w, r, NoBuild)

\* Faulty: the application the project remembers is not looked at.
ReadTargetBlind(w) ==
  /\ At(w, "target")
  /\ GoTo(w, "row")
  /\ UNCHANGED <<workerVars, deploymentVars, apiVars>>

ReadTarget(w) ==
  /\ At(w, "target")
  /\ hand' = [hand EXCEPT ![w].pc = "row", ![w].app = application]
  /\ UNCHANGED <<workerVars, deploymentVars, apiVars>>

\* resumeRunningDeployment: only a row in flight with a handle is resumed.
Resumable(d) == row[d].handle # NoBuild /\ IsInFlight(d)

\* Faulty: a redelivered job builds again.
ReadRowAfresh(w) ==
  /\ At(w, "row")
  /\ GoTo(w, IF hand[w].app = NoApplication THEN "create" ELSE "deploy")
  /\ UNCHANGED <<workerVars, deploymentVars, apiVars>>

\* A rollback creates no application: without one it is not configured.
ReadRow(w) ==
  /\ At(w, "row")
  /\ \/ /\ Resumable(Dep(w))
        /\ hand' = [hand EXCEPT ![w].pc = "poll", ![w].handle = row[Dep(w)].handle]
        /\ UNCHANGED workerVars
     \/ /\ ~ Resumable(Dep(w))
        /\ CASE hand[w].app # NoApplication -> GoTo(w, "deploy") /\ UNCHANGED workerVars
             [] hand[w].app = NoApplication /\ Dep(w) \notin Rollbacks
                  -> GoTo(w, "create") /\ UNCHANGED workerVars
             [] OTHER -> Return(w, "degraded", NoBuild)
  /\ UNCHANGED <<deploymentVars, apiVars>>

Poll(w) ==
  /\ At(w, "poll")
  /\ \/ Return(w, StateOf(Dep(w), hand[w].handle), hand[w].handle)
     \/ Refused(w)
  /\ UNCHANGED <<deploymentVars, apiVars>>

CreateApplication(w) ==
  /\ At(w, "create")
  /\ \/ /\ NewApplication
        /\ hand' = [hand EXCEPT ![w].pc = "remember", ![w].app = applications']
        /\ UNCHANGED workerVars
     \/ (NewApplication \/ UNCHANGED applications) /\ Refused(w)
  /\ UNCHANGED <<row, live, billed, application, builds, apiVars>>

RememberApplication(w) ==
  /\ At(w, "remember")
  /\ Remember(hand[w].app)
  /\ GoTo(w, "deploy")
  /\ UNCHANGED <<workerVars, row, live, billed, applications, builds, apiVars>>

Deploy(w) ==
  /\ At(w, "deploy")
  /\ \/ /\ NewBuild(Dep(w))
        /\ hand' = [hand EXCEPT ![w].pc = "mark", ![w].handle = Len(builds'[Dep(w)])]
        /\ UNCHANGED workerVars
     \/ (NewBuild(Dep(w)) \/ UNCHANGED builds) /\ Refused(w)
  /\ UNCHANGED <<row, live, billed, application, applications, apiVars>>

\* markDeploymentInFlight, before anything is read back.
MarkInFlight(w) ==
  /\ At(w, "mark")
  /\ Write(Dep(w), "running", hand[w].handle)
  /\ GoTo(w, "confirm")
  /\ UNCHANGED <<workerVars, live, billed, application, applications, builds, apiVars>>

\* Faulty: an accepted deploy is reported as a success.
ConfirmUnread(w) ==
  /\ At(w, "confirm")
  /\ Return(w, "succeeded", hand[w].handle)
  /\ UNCHANGED <<deploymentVars, apiVars>>

\* A read-back the engine refuses leaves the action's own "running".
Confirm(w) ==
  /\ At(w, "confirm")
  /\ \E r \in {StateOf(Dep(w), hand[w].handle), "running"} : Return(w, r, hand[w].handle)
  /\ UNCHANGED <<deploymentVars, apiVars>>

\* A read or write of the handler throws; the write may have been carried out.
HandlerThrows(w) ==
  /\ hand[w].pc \in {"target", "row", "remember", "mark"}
  /\ Return(w, "failed", NoBuild)
  /\ \/ UNCHANGED deploymentVars
     \/ /\ At(w, "remember") /\ Remember(hand[w].app)
        /\ UNCHANGED <<row, live, billed, applications, builds>>
     \/ /\ At(w, "mark") /\ Write(Dep(w), "running", hand[w].handle)
        /\ UNCHANGED <<live, billed, application, applications, builds>>
  /\ UNCHANGED apiVars

-----------------------------------------------------------------------------
(***************************************************************************)
(* The queue settles the job; then the applier writes the row, promotes    *)
(* and bills.  A job past the poll ceiling reaches the applier as an err.  *)
(***************************************************************************)
AtCeiling(w) == Settling(w, "running") /\ TooOld(wk[w].job)

SettleJob(w) ==
  /\ Settle(w)
  /\ hand' = IF ReadBudget(w) THEN hand
             ELSE [hand EXCEPT ![w].pc = "write", ![w].status = wk[w].res,
                               ![w].handle = IF AtCeiling(w) THEN NoBuild ELSE @]
  /\ UNCHANGED <<deploymentVars, apiVars>>

\* The last write of an outcome ends the tick, or the sweep's turn for the row.
Finish(w) ==
  IF wk[w].pc = "applying"
  THEN Apply(w) /\ hand' = [hand EXCEPT ![w] = Empty]
  ELSE /\ hand' = [hand EXCEPT ![w] =
                     IF hand[w].todo = {} THEN Empty
                     ELSE [Empty EXCEPT !.pc = "sweep", !.todo = hand[w].todo]]
       /\ UNCHANGED workerVars

\* Faulty: staging is forgotten.
WriteOutcomeLive(w) ==
  /\ At(w, "write")
  /\ Write(Dep(w), hand[w].status, hand[w].handle)
  /\ IF hand[w].status = "succeeded"
     THEN GoTo(w, "promote") /\ UNCHANGED workerVars
     ELSE Finish(w)
  /\ UNCHANGED <<live, billed, application, applications, builds, apiVars>>

WriteOutcome(w) ==
  /\ At(w, "write")
  /\ Write(Dep(w), hand[w].status, hand[w].handle)
  /\ IF hand[w].status = "succeeded"
     THEN GoTo(w, IF Dep(w) \in Staged THEN "bill" ELSE "promote") /\ UNCHANGED workerVars
     ELSE Finish(w)
  /\ UNCHANGED <<live, billed, application, applications, builds, apiVars>>

PromoteOutcome(w) ==
  /\ At(w, "promote")
  /\ Promote(Dep(w))
  /\ GoTo(w, "bill")
  /\ UNCHANGED <<workerVars, row, billed, application, applications, builds, apiVars>>

BillOutcome(w) ==
  /\ At(w, "bill")
  /\ Bill(Dep(w))
  /\ Finish(w)
  /\ UNCHANGED <<row, live, application, applications, builds, apiVars>>

-----------------------------------------------------------------------------
(***************************************************************************)
(* buildDeploymentReconciler: the sweep a worker runs between drains.  It  *)
(* lists the stranded rows once and works from that snapshot, in any order *)
(* here.                                                                   *)
(***************************************************************************)
\* Faulty: the sweep passes over rows that never reached the engine.
IsStrandedAtEngine(d) ==
  IsInFlight(d) /\ row[d].age >= StaleTicks /\ row[d].handle # NoBuild

IsStranded(d) == IsInFlight(d) /\ row[d].age >= StaleTicks

Snapshot(d) == [dep |-> d, handle |-> row[d].handle, old |-> row[d].age >= GiveUpTicks]

Sweep(w) ==
  /\ wk[w].pc = "idle" /\ At(w, "none")
  /\ \E d \in Requests : IsStranded(d)
  /\ hand' = [hand EXCEPT ![w] = [Empty EXCEPT !.pc = "sweep",
                                    !.todo = {Snapshot(d) : d \in {e \in Requests : IsStranded(e)}}]]
  /\ UNCHANGED <<workerVars, deploymentVars, apiVars>>

\* What settleOne may conclude: "running" leaves the row to a later sweep.  An
\* engine that is asked may also refuse, or disown the build (not_configured).
Verdicts(s) ==
  LET unanswered == IF s.old THEN "failed" ELSE "running"
      answer     == StateOf(s.dep, s.handle)
  IN  IF s.handle = NoBuild THEN {unanswered}
      ELSE {unanswered, "failed", IF answer = "running" THEN unanswered ELSE answer}

Ask(w) ==
  /\ At(w, "sweep")
  /\ \E s \in hand[w].todo : \E verdict \in Verdicts(s) :
       LET todo == hand[w].todo \ {s}
       IN  hand' = [hand EXCEPT ![w] =
             IF verdict # "running"
             THEN [Empty EXCEPT !.pc = "write", !.dep = s.dep, !.status = verdict,
                                !.handle = s.handle, !.todo = todo]
             ELSE IF todo = {} THEN Empty ELSE [@ EXCEPT !.todo = todo]]
  /\ UNCHANGED <<workerVars, deploymentVars, apiVars>>

-----------------------------------------------------------------------------
(***************************************************************************)
(* cancelDeployment, one request at a time: read the row, ask the engine,  *)
(* write the row.                                                          *)
(***************************************************************************)
ReadForCancel(d) ==
  /\ cancel.pc = "none"
  /\ IsInFlight(d)
  /\ cancel' = [ pc |-> IF row[d].handle = NoBuild THEN "close" ELSE "ask",
                 dep |-> d, status |-> row[d].status, handle |-> row[d].handle ]
  /\ UNCHANGED <<workerVars, deploymentVars, asking, hand>>

EngineCancels ==
  /\ cancel.pc = "ask"
  /\ BuildEnds(cancel.dep, cancel.handle, "cancelled")
  /\ cancel' = [cancel EXCEPT !.pc = "close"]
  /\ UNCHANGED <<workerVars, asking, hand>>

\* The engine refuses, as it does when the build already ended, or cancels the
\* build and its answer is lost.
EngineRefuses ==
  /\ cancel.pc = "ask"
  /\ BuildEnds(cancel.dep, cancel.handle, "cancelled") \/ UNCHANGED deploymentVars
  /\ cancel' = [cancel EXCEPT !.pc = "keep"]
  /\ UNCHANGED <<workerVars, asking, hand>>

CloseCancelled ==
  /\ cancel.pc = "close"
  /\ Write(cancel.dep, "failed", cancel.handle)
  /\ cancel' = NoCancel
  /\ UNCHANGED <<workerVars, live, billed, application, applications, builds, asking, hand>>

KeepUncancelled ==
  /\ cancel.pc = "keep"
  /\ Write(cancel.dep, cancel.status, cancel.handle)
  /\ cancel' = NoCancel
  /\ UNCHANGED <<workerVars, live, billed, application, applications, builds, asking, hand>>

CancelDies ==
  /\ cancel.pc # "none"
  /\ cancel' = NoCancel
  /\ UNCHANGED <<workerVars, deploymentVars, asking, hand>>

\* promoteDeployment: a customer makes a succeeded row live, staged or not.
PromoteByHand(d) ==
  /\ row[d].status = "succeeded"
  /\ live # d
  /\ Promote(d)
  /\ UNCHANGED <<workerVars, row, billed, application, applications, builds, apiVars, hand>>

-----------------------------------------------------------------------------
(* The process and its surroundings.                                       *)

\* Faulty: jobs are reaped while the worker is busy.
ReapJobsBusy(w) ==
  /\ ReapExpired
  /\ UNCHANGED <<wk, said, deploymentVars, apiVars, hand>>

ReapJobs(w) ==
  /\ At(w, "none")
  /\ Reap(w)
  /\ UNCHANGED <<deploymentVars, apiVars, hand>>

Stop(w) ==
  /\ ~ At(w, "none")
  /\ IF wk[w].pc = "idle" THEN UNCHANGED workerVars ELSE Abandon(w)
  /\ hand' = [hand EXCEPT ![w] = Empty]
  /\ UNCHANGED <<deploymentVars, apiVars>>

EngineBuilds ==
  /\ \E d \in Requests : \E i \in 1..Len(builds[d]) : \E state \in {"finished", "broken"} :
       BuildEnds(d, i, state)
  /\ UNCHANGED <<workerVars, apiVars, hand>>

\* Time passes for jobs and rows together.
TimePasses ==
  /\ Elapse
  /\ RowsAge
  /\ row' # row \/ job' # job
  /\ UNCHANGED <<wk, said, live, billed, application, applications, builds, apiVars, hand>>

-----------------------------------------------------------------------------
Execute(w) ==
  \/ Start(w)
  \/ ReadTarget(w)
  \/ ReadRow(w)
  \/ Poll(w)
  \/ CreateApplication(w)
  \/ RememberApplication(w)
  \/ Deploy(w)
  \/ MarkInFlight(w)
  \/ Confirm(w)
  \/ HandlerThrows(w)
  \/ SettleJob(w)

Conclude(w) == WriteOutcome(w) \/ PromoteOutcome(w) \/ BillOutcome(w)

Work(w) == Execute(w) \/ Conclude(w) \/ ReapJobs(w) \/ Sweep(w) \/ Ask(w)

Ordering ==
  \E d \in Requests :
    Request(d) \/ Replay(d) \/ EnqueueJob(d) \/ RequestDies(d) \/ PromoteByHand(d)

Cancelling ==
  \/ \E d \in Requests : ReadForCancel(d)
  \/ EngineCancels \/ EngineRefuses \/ CloseCancelled \/ KeepUncancelled \/ CancelDies

Surroundings ==
  \/ \E w \in Workers : Stop(w)
  \/ EngineBuilds
  \/ TimePasses

QuietNext    == Ordering \/ (\E w \in Workers : Work(w)) \/ Surroundings
PipelineNext == QuietNext \/ Cancelling

\* With and without customers who cancel.
PipelineSpec == PipelineInit /\ [][PipelineNext]_pipelineVars
QuietSpec    == PipelineInit /\ [][QuietNext]_pipelineVars

(***************************************************************************)
(* Fairness: a worker works, its cycle comes round to reaping, claiming    *)
(* and sweeping, time passes, and crashes do not strike one step of the    *)
(* sweep for ever.  The engine need not finish a build and customers need  *)
(* not do anything.                                                        *)
(***************************************************************************)
SweepWrites(w) == wk[w].pc = "idle" /\ WriteOutcome(w)

PipelineFairness ==
  /\ \A w \in Workers : /\ WF_pipelineVars(Work(w))
                        /\ SF_pipelineVars(Start(w))
                        /\ SF_pipelineVars(ReapJobs(w))
                        /\ SF_pipelineVars(Sweep(w))
                        /\ SF_pipelineVars(Ask(w))
                        /\ SF_pipelineVars(SweepWrites(w))
  /\ WF_pipelineVars(TimePasses)

LivePipelineSpec == PipelineSpec /\ PipelineFairness

-----------------------------------------------------------------------------
\* Every variable keeps its type; a handle names a build the engine knows.
PipelineTypeOK ==
  /\ TypeOK
  /\ DeploymentsType
  /\ asking \subseteq Requests
  /\ hand \in [Workers -> Hands]
  /\ cancel.pc \in {"none", "ask", "close", "keep"}
  /\ \A w \in Workers : At(w, "write") => hand[w].dep \in Requests /\ hand[w].status # "none"

\* The jobs of the pipeline live by the rules of Worker: whatever handlers,
\* sweep and customers do, every step is a step of the queue's workers or none.
RunsWorkers == Spec

\* The row, the pointer and the invoice speak only of builds the engine
\* finished: no crash, timeout, cancel or give-up ever reports a success.
OnlyTheEngineSucceeds ==
  \A d \in Requests :
    row[d].status = "succeeded" \/ live = d \/ billed[d] > 0 => Confirmed(d)

\* A staged build goes live only when a customer promotes it.
StagedIsHeldBack ==
  [][\A d \in Staged : live # d /\ live' = d => PromoteByHand(d)]_pipelineVars

\* A build in flight whose handle the row carries is polled: no redelivered job
\* asks the engine to build the same request again beside it.
InFlightIsPolled ==
  [][\A w \in Workers : Deploy(w) => ~ Resumable(Dep(w))]_pipelineVars

\* "A terminal row is finished; a requeued job for one is a stale redelivery
\* and must not re-deploy" (deployment-executor.ts), in particular not one
\* whose build the engine confirmed.
FinishedIsNotRedeployed ==
  [][\A w \in Workers : Deploy(w) => row[Dep(w)].status # "succeeded"]_pipelineVars

\* A deployment "will be counted once, when it finally settles as succeeded"
\* (deployment-job.ts).
CountedOnce == \A d \in Requests : billed[d] <= 1

\* "The engine refused or is unconfigured: keep the row where it is"
\* (cancelDeployment, deployments.ts).
RefusedCancelKeepsRow ==
  [][KeepUncancelled => row'[cancel.dep].status = row[cancel.dep].status]_pipelineVars

\* The application "is created on the first deployment and its reference is
\* remembered on the project, so a second deployment does not create a second
\* application" (requestDeployment, deployments.ts).  This is for one worker
\* process: the handler reads the project long before it creates.
RememberedIsReused ==
  [][\A w \in Workers : CreateApplication(w) => application = NoApplication]_pipelineVars

\* No row reads pending or running for ever: the sweep settles what the jobs
\* leave behind, whatever became of the job, the worker or the build.
EveryDeploymentSettles ==
  \A d \in Requests : IsInFlight(d) ~> ~ IsInFlight(d)

\* Neither a deployment nor a job is left unfinished for ever, although each is
\* settled by writes that do not look at the other.
AllSettle == EveryDeploymentSettles /\ EveryJobSettles
=============================================================================
