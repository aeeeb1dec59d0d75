----------------------------- MODULE Deployments -----------------------------
(***************************************************************************)
(* What a deployment leaves behind: its row, the project's production      *)
(* pointer, the usage it is billed as, the project's application on the    *)
(* hosting engine, and the engine's builds.                                *)
(*                                                                         *)
(* One project whose execution model is container; every request, deploy   *)
(* or rollback, is for production, and those in Staged are held back from  *)
(* going live.  Every operator is one database statement or engine call.   *)
(*                                                                         *)
(* builds[d] lists the builds the engine was asked for on behalf of d; a   *)
(* deployment handle is an index into it, NoBuild when the row has none.   *)
(* Bounds: an engine that was asked for MaxBuilds builds of one request    *)
(* refuses more, a second unit billed and a second application count as    *)
(* Many.                                                                   *)
(***************************************************************************)
EXTENDS Integers, Sequences

CONSTANTS
  Requests,     \* deployment requests, named by their idempotency key
  Staged,       \* the staged ones, which no build makes live
  Rollbacks,    \* those that return to an earlier commit
  NoRequest,    \* the production pointer before anything is live
  MaxBuilds,    \* bound: builds of one request
  StaleTicks,   \* age from which the sweep looks at a row (staleAfterMs)
  GiveUpTicks   \* age at which the sweep gives up on it (hardCeilingMs)

ASSUME DeploymentsAssumption ==
  /\ Staged \subseteq Requests /\ Rollbacks \subseteq Requests \ Staged
  /\ NoRequest \notin Requests
  /\ MaxBuilds \in Nat \ {0}
  /\ StaleTicks \in Nat
  /\ GiveUpTicks \in Nat /\ StaleTicks <= GiveUpTicks

VARIABLES
  row,          \* row[d] is the deployment row of d
  live,         \* projects.production_deployment_id, and the row flagged is_current
  billed,       \* billed[d] is how often d was recorded as usage
  application,  \* the application the project's provider_resource_id names
  applications, \* how many applications the engine has for the project
  builds        \* builds[d] is the engine's own record of d's builds

deploymentVars == <<row, live, billed, application, applications, builds>>

InFlight == {"pending", "running"}
Outcomes == {"succeeded", "failed", "degraded"}
BuildStates == {"building", "finished", "broken", "cancelled"}
NoBuild == 0
NoApplication == 0
Many == 2

DeploymentRow == [ status : {"absent"} \cup InFlight \cup Outcomes,
                   handle : 0..MaxBuilds,
                   age    : 0..GiveUpTicks ]

DeploymentsType ==
  /\ row \in [Requests -> DeploymentRow]
  /\ live \in Requests \cup {NoRequest}
  /\ billed \in [Requests -> 0..Many]
  /\ application \in 0..Many
  /\ applications \in 0..Many
  /\ \A d \in Requests : /\ builds[d] \in Seq(BuildStates)
                         /\ Len(builds[d]) <= MaxBuilds
                         /\ row[d].handle <= Len(builds[d])

DeploymentsInit ==
  /\ row = [d \in Requests |-> [status |-> "absent", handle |-> NoBuild, age |-> 0]]
  /\ live = NoRequest
  /\ billed = [d \in Requests |-> 0]
  /\ application = NoApplication
  /\ applications = 0
  /\ builds = [d \in Requests |-> <<>>]

(***************************************************************************)
(* The rows.                                                               *)
(***************************************************************************)
IsInFlight(d) == row[d].status \in InFlight

Insert(d) ==
  /\ row[d].status = "absent"
  /\ row' = [row EXCEPT ![d].status = "pending"]

\* updateDeploymentStatus: the status is written whatever the row says; the
\* handle is set or left, never cleared.
Write(d, status, handle) ==
  row' = [row EXCEPT ![d].status = status,
                     ![d].handle = IF handle = NoBuild THEN @ ELSE handle]

\* promote_deployment moves the pointer to a succeeded row and refuses others.
Promote(d) == live' = IF row[d].status = "succeeded" THEN d ELSE live

\* Usage is a running total of the organization.
Bill(d) == billed' = [billed EXCEPT ![d] = IF @ < Many THEN @ + 1 ELSE @]

Remember(app) == application' = app

RowsAge ==
  row' = [d \in Requests |->
            IF row[d].status = "absent" \/ row[d].age = GiveUpTicks
            THEN row[d] ELSE [row[d] EXCEPT !.age = @ + 1]]

(***************************************************************************)
(* The engine.  Every call may be refused, and a call that creates may be  *)
(* carried out and its answer lost.                                        *)
(***************************************************************************)
\* mapQueueStatus: a build the engine calls failed is "degraded", a cancelled
\* one is "failed".
Answer(state) ==
  CASE state = "building"  -> "running"
    [] state = "finished"  -> "succeeded"
    [] state = "broken"    -> "degraded"
    [] state = "cancelled" -> "failed"

StateOf(d, handle) == Answer(builds[d][handle])

Refusals == {"degraded", "failed"}

NewApplication == applications' = IF applications < Many THEN applications + 1 ELSE Many

CanBuild(d) == Len(builds[d]) < MaxBuilds
NewBuild(d) == CanBuild(d) /\ builds' = [builds EXCEPT ![d] = Append(@, "building")]

BuildEnds(d, i, state) ==
  /\ builds[d][i] = "building"
  /\ builds' = [builds EXCEPT ![d][i] = state]
  /\ UNCHANGED <<row, live, billed, application, applications>>

\* The engine finished a build of d.
Confirmed(d) == \E i \in 1..Len(builds[d]) : builds[d][i] = "finished"
=============================================================================
