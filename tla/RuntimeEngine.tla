---------------------------- MODULE RuntimeEngine ----------------------------
(***************************************************************************)
(* The self-hosted runtime (infra/deployment/runtime-server.mjs) between   *)
(* the build plane, the Docker daemon and the router: one process that     *)
(* keeps one record per application, and runs any number of requests at a  *)
(* time.  A deploy and every other request that awaits something is an     *)
(* operation with its own place in the code; every await is a step         *)
(* boundary, and everything between two awaits is one step.                *)
(*                                                                         *)
(* The build plane is its contract.  A save writes the state of the moment *)
(* it ends.  The process may stop at any step and restarts from its file;  *)
(* containers and routes survive.  An image is named by the build job that *)
(* made it.  Besides deploys, requests that await are served one at a time *)
(* (Control).  A default hostname is one of the hosts of its application.  *)
(***************************************************************************)
EXTENDS Integers, FiniteSets

CONSTANTS
  Apps,        \* applications, named by their random ids
  ImageApps,   \* those deployed from an image, without a build
  Attempts,    \* deploy attempts, named by their random ids
  NoAttempt,
  Hosts,       \* public hostnames
  HostApp,     \* HostApp[h] is the application h may be pointed at
  Control,     \* the request, other than deploys, being served
  Ports, NoPort,
  BuildJobs, NoKey,
  MaxServed,   \* bound: requests other than deploys, and exits of containers
  MaxRestarts  \* bound: restarts of the process

ASSUME RuntimeAssumption ==
  /\ ImageApps \subseteq Apps /\ Apps # {}
  /\ NoAttempt \notin Attempts /\ Control \notin Attempts
  /\ HostApp \in [Hosts -> Apps]
  /\ NoPort \notin Ports /\ Cardinality(Ports) >= Cardinality(Apps)
  /\ MaxServed \in Nat /\ MaxRestarts \in Nat
  /\ BuildJobs \subseteq Nat \ {0}
  /\ NoKey \notin Apps \X Nat

VARIABLES
  app,       \* app[a] is the record of application a in memory
  record,    \* record[x] is what app.attempts of its application says of attempt x
  cancelled, \* cancelledAttempts
  disk,      \* apps.json: app and record as last saved
  op,        \* op[p] is what attempt or request p is doing, and with what
  box,       \* box[a] is the container named after a
  route,     \* route[h] is the port the router sends h to
  of, phase, did,  \* the build plane's contract
  asker,     \* history: asker[i] is the attempt that asked for build i
  seen,      \* history: the attempts whose container was seen running
  own,       \* history: own[x] is how the run of attempt x itself ended
  mixed,     \* history: applications on which operations overlapped or were cut
  served, restarts  \* bounds: requests and exits, restarts so far

INSTANCE BuildContract WITH Keys <- Apps \X (1..Cardinality(Attempts))

memory == <<app, record, cancelled>>
history == <<asker, seen, own, mixed>>
builder == <<of, phase, did>>
engines == <<box, route, builder>>
bounds == <<served, restarts>>
runtimeVars == <<memory, disk, op, engines, history, bounds>>

NoImage == 0
GivenImage == -1
Images == BuildJobs \cup {NoImage, GivenImage}

Statuses == {"pending", "running", "succeeded", "failed", "degraded"}

App0 == [ there |-> FALSE, status |-> "pending", attempt |-> NoAttempt, attempts |-> {},
          count |-> 0, current |-> NoImage, previous |-> NoImage, port |-> NoPort,
          hosts |-> {}, routed |-> FALSE ]

Idle == [ pc |-> "none", app |-> CHOOSE a \in Apps : TRUE, build |-> NoImage,
          image |-> NoImage, before |-> NoImage, hosts |-> {}, drop |-> {}, ok |-> TRUE ]

NoBox == [image |-> NoImage, port |-> NoPort, up |-> FALSE]

RuntimeInit ==
  /\ app = [a \in Apps |-> App0]
  /\ record = [x \in Attempts |-> "none"]
  /\ cancelled = {}
  /\ disk = [app |-> app, record |-> record]
  /\ op = [p \in Attempts \cup {Control} |-> Idle]
  /\ box = [a \in Apps |-> NoBox]
  /\ route = [h \in Hosts |-> NoPort]
  /\ ContractInit
  /\ asker = [i \in BuildJobs |-> NoAttempt]
  /\ seen = {} /\ mixed = {}
  /\ own = [x \in Attempts |-> "none"]
  /\ served = 0 /\ restarts = 0

SaveState == disk' = [app |-> app', record |-> record']

Busy(p)   == op[p].pc # "none"
On(p)     == op[p].app
Quiet(a)  == \A p \in DOMAIN op : Busy(p) => On(p) # a
At(p, pc) == op[p].pc = pc
GoTo(p, pc) == op' = [op EXCEPT ![p].pc = pc]
Leave(p) == op' = [op EXCEPT ![p] = Idle]
Begin(p, a, pc) == op' = [op EXCEPT ![p] = [Idle EXCEPT !.pc = pc, !.app = a]]

\* An operation on a that starts, or acts at once, beside another one.
Mix(a) == mixed' = IF Quiet(a) THEN mixed ELSE mixed \cup {a}

-----------------------------------------------------------------------------
(***************************************************************************)
(* Deploying.                                                              *)
(***************************************************************************)
CreateApp(a, hosts) ==
  /\ app[a] = App0 /\ disk.app[a] = App0
  /\ app' = [app EXCEPT ![a].there = TRUE, ![a].hosts = hosts]
  /\ UNCHANGED <<record, cancelled, op, engines, history, bounds>>
  /\ SaveState

\* The attempt is registered and its id is the answer, before anything is done.
Deploy(x, a) ==
  /\ app[a].there /\ ~ Busy(x) /\ record[x] = "none" /\ own[x] = "none"
  /\ app' = [app EXCEPT ![a].attempt = x, ![a].attempts = @ \cup {x},
                        ![a].count = @ + 1, ![a].status = "running"]
  /\ record' = [record EXCEPT ![x] = "running"]
  /\ Begin(x, a, "saving")
  /\ Mix(a)
  /\ UNCHANGED <<cancelled, disk, engines, asker, seen, own, bounds>>

\* Faulty: the outcome of an attempt is not saved.
SettleUnsaved(x, outcome, status, routed) ==
  /\ app' = [app EXCEPT ![On(x)].status = status, ![On(x)].routed = routed]
  /\ record' = [record EXCEPT ![x] = status]
  /\ own' = [own EXCEPT ![x] = outcome]
  /\ Leave(x)
  /\ UNCHANGED disk

\* deploy's finally: the application's status becomes the attempt's record.
Settle(x, outcome, status, routed) ==
  /\ app' = [app EXCEPT ![On(x)].status = status, ![On(x)].routed = routed]
  /\ record' = [record EXCEPT ![x] = status]
  /\ own' = [own EXCEPT ![x] = outcome]
  /\ Leave(x)
  /\ SaveState

\* Faulty: a container that does not start leaves the status alone.
FailsSilently(x) == Settle(x, "failed", app[On(x)].status, app[On(x)].routed)

Fails(x) == Settle(x, "failed", "failed", app[On(x)].routed)

\* The image that runs now is remembered before it is replaced.
Run(p, image) ==
  op' = [op EXCEPT ![p].pc = "removing", ![p].image = image, ![p].before = app[On(p)].current]

\* Faulty: the build is asked for before the attempt is saved.
SavedLate(x) ==
  /\ At(x, "saving")
  /\ IF On(x) \in ImageApps THEN Run(x, GivenImage) ELSE GoTo(x, "posting")
  /\ UNCHANGED <<memory, disk, engines, history, bounds>>

\* runDeploy looks at the application's latest attempt, which may be another's.
Saved(x) ==
  /\ At(x, "saving")
  /\ LET a == On(x) IN
       IF app[a].attempt \in cancelled
       THEN Fails(x)
       ELSE /\ IF a \in ImageApps THEN Run(x, GivenImage) ELSE GoTo(x, "posting")
            /\ UNCHANGED <<app, record, own>> /\ SaveState
  /\ UNCHANGED <<cancelled, engines, asker, seen, mixed, bounds>>

\* The key of a build: the application and how often it was deployed.
BuildKey(a) == <<a, app[a].count>>

Posted(x, i) ==
  /\ op' = [op EXCEPT ![x].pc = "polling", ![x].build = i]
  /\ UNCHANGED <<memory, disk, box, route, seen, own, mixed, bounds>>

\* Ids of build jobs are random; here they are given out in order.
NextJob(i) == \A j \in BuildJobs : j < i => of[j] # NoKey

PostBuild(x) ==
  /\ At(x, "posting")
  /\ \/ \E i \in BuildJobs : /\ NextJob(i) /\ Ask(i, BuildKey(On(x)))
                             /\ asker' = [asker EXCEPT ![i] = x]
                             /\ Posted(x, i)
     \/ \E i \in Remembered(BuildKey(On(x))) :
          Posted(x, i) /\ UNCHANGED <<builder, asker>>
     \/ Fails(x) /\ UNCHANGED <<cancelled, engines, asker, seen, mixed, bounds>>

\* A poll that finds the attempt cancelled, the build failed or unknown, or the
\* deadline passed, ends the attempt; any other is repeated.  A cancel is looked
\* for before the build is, so a build that ends just then is still run.
PollFails(x) ==
  /\ At(x, "polling")
  /\ Fails(x)
  /\ UNCHANGED <<cancelled, engines, asker, seen, mixed, bounds>>

PollSucceeds(x) ==
  /\ At(x, "polling") /\ phase[op[x].build] = "succeeded"
  /\ Run(x, op[x].build)
  /\ UNCHANGED <<memory, disk, engines, history, bounds>>

-----------------------------------------------------------------------------
(***************************************************************************)
(* runContainer, for deploys and rollbacks: remove, start, inspect.  A     *)
(* docker command may fail or time out, and one that timed out may have    *)
(* been carried out.                                                       *)
(***************************************************************************)
\* Ports are told apart by the records in memory.
Taken(a) == {app[b].port : b \in {b \in Apps \ {a} : app[b].there}}
\* Faulty: the ports of the other applications are not left out.
AnyPort(a) == Ports

FreePorts(a) == Ports \ Taken(a)

Removed(p) ==
  /\ At(p, "removing")
  /\ LET a == On(p) IN
       /\ box' \in {box, [box EXCEPT ![a] = NoBox]}
       /\ \E port \in IF app[a].port # NoPort THEN {app[a].port} ELSE FreePorts(a) :
            app' = [app EXCEPT ![a].port = port]
  /\ GoTo(p, "starting")
  /\ UNCHANGED <<record, cancelled, disk, route, builder, history, bounds>>

CanStart(a) ==
  /\ box[a] = NoBox
  /\ \A b \in Apps : box[b].port # app[a].port \/ ~ box[b].up

Started(p) ==
  /\ At(p, "starting")
  /\ LET a == On(p) IN
       /\ CanStart(a)
       /\ \E up \in BOOLEAN :
            box' = [box EXCEPT ![a] = [image |-> op[p].image, port |-> app[a].port, up |-> up]]
  /\ GoTo(p, "inspecting")
  /\ UNCHANGED <<memory, disk, route, builder, history, bounds>>

\* docker run fails, or docker inspect does not say that the container runs.
StartFails(p) == op[p].pc \in {"starting", "inspecting"}

RunFails(x) ==
  /\ StartFails(x)
  /\ Fails(x)
  /\ UNCHANGED <<cancelled, engines, asker, seen, mixed, bounds>>

\* The attempt succeeds in memory, and its routes are published.
Inspected(x) ==
  /\ At(x, "inspecting") /\ box[On(x)].up
  /\ LET a == On(x) IN
       /\ app' = [app EXCEPT ![a].current = op[x].image,
                             ![a].previous = IF op[x].before # NoImage THEN op[x].before ELSE @,
                             ![a].status = "succeeded"]
       /\ op' = [op EXCEPT ![x].pc = "publishing", ![x].hosts = app[a].hosts, ![x].ok = TRUE]
  /\ seen' = seen \cup {x}
  /\ UNCHANGED <<record, cancelled, disk, engines, asker, own, mixed, bounds>>

\* Faulty: a refusal of the router is not looked at.
PublishHostBlind(p, h) ==
  /\ At(p, "publishing") /\ h \in op[p].hosts
  /\ \/ route' = [route EXCEPT ![h] = app[On(p)].port]
     \/ UNCHANGED route
  /\ op' = [op EXCEPT ![p].hosts = @ \ {h}]
  /\ UNCHANGED <<memory, disk, box, builder, history, bounds>>

\* One PUT per host: the router follows it or the refusal is remembered.
PublishHost(p, h) ==
  /\ At(p, "publishing") /\ h \in op[p].hosts
  /\ \/ route' = [route EXCEPT ![h] = app[On(p)].port]
        /\ op' = [op EXCEPT ![p].hosts = @ \ {h}]
     \/ UNCHANGED route
        /\ op' = [op EXCEPT ![p].hosts = @ \ {h}, ![p].ok = FALSE]
  /\ UNCHANGED <<memory, disk, box, builder, history, bounds>>

AllPublished(p) == At(p, "publishing") /\ op[p].hosts = {}

DeployEnds(x) ==
  /\ AllPublished(x)
  /\ Settle(x, "succeeded", app[On(x)].status, op[x].ok)
  /\ UNCHANGED <<cancelled, engines, asker, seen, mixed, bounds>>

-----------------------------------------------------------------------------
(***************************************************************************)
(* The other requests.                                                     *)
(***************************************************************************)
Serve == served < MaxServed /\ served' = served + 1 /\ UNCHANGED restarts

\* Faulty: a status of its own, which nothing else knows.
CancelAppAs(a) ==
  /\ Serve
  /\ app[a].there
  /\ app' = [app EXCEPT ![a].status = "cancelled"]
  /\ Mix(a)
  /\ UNCHANGED <<record, cancelled, op, engines, asker, seen, own>>
  /\ SaveState

\* Cancelling an application says so and does nothing else.
CancelApp(a) ==
  /\ Serve
  /\ app[a].there
  /\ app' = [app EXCEPT ![a].status = "pending"]
  /\ Mix(a)
  /\ UNCHANGED <<record, cancelled, op, engines, asker, seen, own>>
  /\ SaveState

\* Any attempt still on record can be cancelled, an ended one too.
CancelAttempt(x) ==
  /\ Serve
  /\ record[x] # "none"
  /\ \E a \in Apps :
       /\ app[a].there /\ x \in app[a].attempts
       /\ app' = [app EXCEPT ![a].status = "pending"]
       /\ Mix(a)
  /\ cancelled' = cancelled \cup {x}
  /\ UNCHANGED <<record, op, engines, asker, seen, own>>
  /\ SaveState

\* getApp inspects the container and then degrades the status it finds by then.
Probe(a) ==
  /\ Serve
  /\ ~ Busy(Control)
  /\ app[a].there /\ app[a].status = "succeeded" /\ ~ box[a].up
  /\ Begin(Control, a, "probing")
  /\ Mix(a)
  /\ UNCHANGED <<memory, disk, engines, asker, seen, own>>

Degrade ==
  /\ At(Control, "probing")
  /\ app' = [app EXCEPT ![On(Control)].status = "degraded"]
  /\ Leave(Control)
  /\ UNCHANGED <<record, cancelled, disk, engines, history, bounds>>

Rollback(a) ==
  /\ Serve
  /\ ~ Busy(Control)
  /\ app[a].there /\ app[a].previous # NoImage
  /\ op' = [op EXCEPT ![Control] = [Idle EXCEPT !.pc = "removing", !.app = a,
                                               !.image = app[a].previous]]
  /\ Mix(a)
  /\ UNCHANGED <<memory, disk, engines, asker, seen, own>>

\* The record is left alone, also when the container of the rollback runs.
RollbackFails ==
  /\ StartFails(Control)
  /\ Leave(Control)
  /\ mixed' = IF box[On(Control)].up THEN mixed \cup {On(Control)} ELSE mixed
  /\ UNCHANGED <<memory, disk, engines, asker, seen, own, bounds>>

\* Faulty: the image rolled back to is not the one on record afterwards.
RolledBackUnnoted ==
  /\ At(Control, "inspecting") /\ box[On(Control)].up
  /\ app' = [app EXCEPT ![On(Control)].status = "succeeded"]
  /\ Leave(Control)
  /\ UNCHANGED <<record, cancelled, engines, history, bounds>>
  /\ SaveState

RolledBack ==
  /\ At(Control, "inspecting") /\ box[On(Control)].up
  /\ app' = [app EXCEPT ![On(Control)].previous = app[On(Control)].current,
                        ![On(Control)].current = op[Control].image,
                        ![On(Control)].status = "succeeded"]
  /\ Leave(Control)
  /\ UNCHANGED <<record, cancelled, engines, history, bounds>>
  /\ SaveState

\* setDomains: the hosts that were dropped are withdrawn, then all are published.
SetDomains(a, hosts) ==
  /\ Serve
  /\ ~ Busy(Control)
  /\ app[a].there
  /\ app' = [app EXCEPT ![a].hosts = hosts]
  /\ op' = [op EXCEPT ![Control] = [Idle EXCEPT !.pc = "withdrawing", !.app = a,
                                               !.hosts = hosts, !.drop = app[a].hosts \ hosts]]
  /\ Mix(a)
  /\ UNCHANGED <<record, cancelled, disk, engines, asker, seen, own>>

\* destroy: the container, then the routes, then the record.
Destroy(a) ==
  /\ Serve
  /\ ~ Busy(Control)
  /\ app[a].there
  /\ Begin(Control, a, "destroying")
  /\ Mix(a)
  /\ UNCHANGED <<memory, disk, engines, asker, seen, own>>

BoxDestroyed ==
  /\ At(Control, "destroying")
  /\ box' = [box EXCEPT ![On(Control)] = NoBox]
  /\ op' = [op EXCEPT ![Control].pc = "releasing", ![Control].drop = app[On(Control)].hosts]
  /\ UNCHANGED <<memory, disk, route, builder, history, bounds>>

\* One DELETE per host; whether the router followed it is not looked at.
WithdrawHost(h) ==
  /\ op[Control].pc \in {"withdrawing", "releasing"} /\ h \in op[Control].drop
  /\ \/ route' = [route EXCEPT ![h] = NoPort]
     \/ UNCHANGED route
  /\ op' = [op EXCEPT ![Control].drop = @ \ {h}]
  /\ UNCHANGED <<memory, disk, box, builder, history, bounds>>

\* Without a port there is nothing to publish yet.
AllWithdrawn ==
  /\ At(Control, "withdrawing") /\ op[Control].drop = {}
  /\ op' = [op EXCEPT ![Control].pc = "publishing",
                      ![Control].hosts = IF app[On(Control)].port = NoPort THEN {} ELSE @,
                      ![Control].ok = app[On(Control)].port # NoPort]
  /\ UNCHANGED <<memory, disk, engines, history, bounds>>

DomainsSet ==
  /\ AllPublished(Control)
  /\ app' = [app EXCEPT ![On(Control)].routed = op[Control].ok]
  /\ Leave(Control)
  /\ UNCHANGED <<record, cancelled, engines, history, bounds>>
  /\ SaveState

Destroyed ==
  /\ At(Control, "releasing") /\ op[Control].drop = {}
  /\ app' = [app EXCEPT ![On(Control)].there = FALSE]
  /\ Leave(Control)
  /\ UNCHANGED <<record, cancelled, engines, history, bounds>>
  /\ SaveState

ControlStep ==
  \/ Degrade
  \/ RollbackFails \/ RolledBack
  \/ BoxDestroyed \/ AllWithdrawn \/ DomainsSet \/ Destroyed
  \/ \E h \in Hosts : WithdrawHost(h)

-----------------------------------------------------------------------------
\* A container exits.
BoxStops(a) ==
  /\ Serve
  /\ box[a].up
  /\ box' = [box EXCEPT ![a].up = FALSE]
  /\ UNCHANGED <<memory, disk, op, route, builder, history>>

\* The process dies and starts again from its file: operations are cut, and the
\* attempts they belonged to stay as they were saved.
RuntimeRestarts ==
  /\ restarts < MaxRestarts /\ restarts' = restarts + 1
  /\ app' = disk.app
  /\ record' = disk.record
  /\ cancelled' = {}
  /\ op' = [p \in DOMAIN op |-> Idle]
  /\ mixed' = IF Busy(Control) THEN mixed \cup {On(Control)} ELSE mixed
  /\ UNCHANGED <<disk, engines, asker, seen, own, served>>

\* A build succeeds.  That it fails, is forgotten or is recalled as failed is a
\* poll that fails.
BuildSucceeds(i) ==
  /\ End(i, "succeeded")
  /\ UNCHANGED <<memory, disk, op, box, route, history, bounds>>

DeployStep(x) ==
  \/ Saved(x)
  \/ PostBuild(x)
  \/ PollFails(x) \/ PollSucceeds(x)
  \/ RunFails(x)
  \/ Inspected(x)
  \/ DeployEnds(x)

RunStep(p) ==
  \/ Removed(p)
  \/ Started(p)
  \/ \E h \in Hosts : PublishHost(p, h)

Requested ==
  \/ \E a \in Apps, hosts \in SUBSET Hosts :
       (\A h \in hosts : HostApp[h] = a) /\ (CreateApp(a, hosts) \/ SetDomains(a, hosts))
  \/ \E x \in Attempts : (\E a \in Apps : Deploy(x, a)) \/ CancelAttempt(x)
  \/ \E a \in Apps : CancelApp(a) \/ Probe(a) \/ Rollback(a) \/ Destroy(a)

RuntimeNext ==
  \/ Requested
  \/ \E x \in Attempts : DeployStep(x)
  \/ \E p \in Attempts \cup {Control} : RunStep(p)
  \/ ControlStep
  \/ \E a \in Apps : BoxStops(a)
  \/ RuntimeRestarts
  \/ \E i \in BuildJobs : BuildSucceeds(i)

RuntimeSpec == RuntimeInit /\ [][RuntimeNext]_runtimeVars

-----------------------------------------------------------------------------
AppRecord == [ there : BOOLEAN, status : Statuses, attempt : Attempts \cup {NoAttempt},
               attempts : SUBSET Attempts, count : Nat, current : Images, previous : Images,
               port : Ports \cup {NoPort}, hosts : SUBSET Hosts, routed : BOOLEAN ]

Operation == [ pc : {"none", "saving", "posting", "polling", "removing", "starting",
                     "inspecting", "publishing", "probing", "withdrawing", "destroying",
                     "releasing"},
               app : Apps, build : Images, image : Images, before : Images,
               hosts : SUBSET Hosts, drop : SUBSET Hosts, ok : BOOLEAN ]

Recorded == Statuses \cup {"none"}

RuntimeType ==
  /\ served \in 0..MaxServed /\ restarts \in 0..MaxRestarts
  /\ app \in [Apps -> AppRecord]
  /\ record \in [Attempts -> Recorded]
  /\ cancelled \subseteq Attempts
  /\ disk \in [app : [Apps -> AppRecord], record : [Attempts -> Recorded]]
  /\ op \in [Attempts \cup {Control} -> Operation]
  /\ box \in [Apps -> [image : Images, port : Ports \cup {NoPort}, up : BOOLEAN]]
  /\ route \in [Hosts -> Ports \cup {NoPort}]
  /\ asker \in [BuildJobs -> Attempts \cup {NoAttempt}]
  /\ seen \subseteq Attempts /\ mixed \subseteq Apps
  /\ own \in [Attempts -> {"none", "succeeded", "failed"}]

\* Whatever overlaps, is cancelled or cut short, an attempt is on record as
\* succeeded only if a container was seen running for it (runDeploy).
NoInventedSuccess == \A x \in Attempts : record[x] = "succeeded" => x \in seen

\* Two applications on record never share a port: a route that leads to one
\* cannot be answered by the other (allocatePort).
PortsDiffer ==
  \A a, b \in Apps :
    app[a].there /\ app[b].there /\ app[a].port = app[b].port /\ app[a].port # NoPort => a = b

\* An attempt that nothing else touched is recorded as it ended, for good, and
\* through restarts (deploy: the per-attempt record is the durable answer).
RecordsOwnOutcome ==
  \A x \in Attempts, a \in Apps :
    a \notin mixed /\ x \in app[a].attempts /\ own[x] # "none" => record[x] = own[x]

\* An attempt runs the image that was built for it, not an earlier attempt's of
\* the same key, also when the process restarted and counts from its file.
RunsOwnBuild ==
  \A x \in Attempts :
    On(x) \notin mixed /\ On(x) \notin ImageApps /\ At(x, "removing")
      => asker[op[x].image] = x

\* What is on record as current is what the container runs, after deploys,
\* failures, rollbacks and restarts, unless operations overlapped or were cut.
ServesCurrent ==
  \A a \in Apps :
    a \notin mixed /\ Quiet(a) /\ app[a].status = "succeeded" /\ box[a].up
      => box[a].image = app[a].current

\* A deployment reported reachable is: every host of the application leads to
\* its port (publishAppRoutes).
ReachableIsRouted ==
  \A a \in Apps :
    a \notin mixed /\ Quiet(a) /\ app[a].there /\ app[a].status = "succeeded" /\ app[a].routed
      => \A h \in app[a].hosts : route[h] = app[a].port

\* What is reported as deployed is what its hosts lead to.
RuntimeServes == PortsDiffer /\ ServesCurrent /\ ReachableIsRouted

\* What is on record of an attempt, and the image it runs, are the attempt's own,
\* whatever overlaps, is cancelled or restarts (deploy, runDeploy).
OutcomesAreOwn == NoInventedSuccess /\ RecordsOwnOutcome /\ RunsOwnBuild
==============================================================================
