# A TLA+ model of the USCS (Cloud Wai) control plane

USCS is a hosting control plane: an API writes commands into PostgreSQL, a
worker process carries them out against hosting, edge, database and object
storage engines, and mirrors what the engines say back onto the rows customers
read. The engines the repository brings along (runtime, builder, router and
database hosts) are small servers with state, files and restarts of their own.
This directory holds TLA+ modules for the parts where the order of things
matters, TLC configurations that check them on small instances, and proofs for
instances of any size. `PROJECT.json` lists components, runs, findings, hazards,
theorems and, for every definition, the lines of source it translates.

Paths below are relative to the repository.

## 1. The system

```
 customer --> API procedures --(rows)--> PostgreSQL <--(claim, settle, apply)-- worker loop --> engines
 provider --> git webhook           |                                             |      runtime host --> builder
                   |   deployments row, then orchestration_jobs row               |         |  `------> router host
                   +---- cancel, domains, env, members, incidents:                |      edge, database host,
                   |     the API asks the engine itself, then writes the row      |      object storage, Coolify
                   +---- dashboard: pages of rows, log chunks                     +-- sweep: rows left behind by jobs
```

API and worker share nothing but the database. There are no transactions across
statements: every PostgREST call is one atomic statement, and everything between
two `await`s can be interleaved with other processes. The hosts are single
Node processes: what lies between two `await`s is one step there too.

| Component | State it keeps | What is hard | What makes it correct |
|---|---|---|---|
| Job queue (`packages/database/src/sql-queue.ts`, migrations 0003, 0008, 0028) | `orchestration_jobs`: state, attempts, lease, deferral, age | leases that lapse under a live worker; settle calls that name only the job; a budget kept in three places | one holder at a time, one final outcome, budget charged exactly once per failure, nothing wedged |
| Worker loop and processor (`apps/worker/src/processor.ts`, `runtime.ts`) | one tick in memory | crash at any await; late settlement | every job ends; success only if a handler said so |
| Deployment execution (`deployment-executor.ts`, `deployment-job.ts`) | `deployments` row, project application reference, engine builds | redelivery after a crash, lost engine answers, an outcome written late | no second build beside a running one, no invented success, staged builds held back |
| Deployment sweep (`deployment-reconcile.ts`) | a snapshot of stranded rows | the snapshot is stale; it competes with jobs, cancels and other sweeps | every row leaves pending and running |
| Deployment API (`apps/api/src/procedures/deployments.ts`) | none of its own | dies between row and job; cancels with a stale read | one row per key; a refused cancel changes nothing |
| Git webhook (`git-hook.ts`, `git-links.ts`) | links, delivery keys | redelivered and concurrent deliveries | an accepted push has a deployment and a job |
| Hosting adapter (`coolify.ts`, `selfhosted.ts`, `http.ts`) | none | timeouts after the engine acted | statuses are the engine's, never guessed |
| Security policy distribution (`policy-job.ts`, `procedures/security.ts`) | policy versions, edge state | a superseded version applied late, answers lost | what is called active is what the edge enforces |
| Edge compile (`packages/security/src/security-edge.ts`, `edge-loaders.ts`, `protection.ts`) | rules, trusted sources, postures; a cache in the process | tables and halves of a posture read one after the other while customers change them | an artifact stops what its tables mean to stop, and opens a hostname only if its posture was open |
| Security incidents | incident rows | concurrent transitions decided on stale reads | only legal transitions |
| Backups, restores, usage | rows, jobs, objects, the usage ledger | job and row settle separately; the cap is checked before the row | a row says what its job did; used is what was charged |
| Environment variables (`env-vars.ts`, `env-sync.ts`) | rows, the engine's copy | a sync races a change; half of it fails | a build uses the stored values, or says it may not |
| Domains (`domains.ts`) | domain rows, the engine's list, edge routes | two requests of one hostname; the list is replaced as a whole | row, route and engine agree on who serves a name |
| Members (`organizations.ts`) | memberships | two concurrent removals | an organization keeps an owner |
| Access (`apps/api/src/router.ts`, `context.ts`, `guard.ts`, `packages/authorization`, `packages/auth`) | API keys | a demotion or revocation while a request is served | what is done was granted to the principal since the request began |
| Projects (`organizations.ts`, `deployments.ts`, the executor's first deploy) | project rows, job payloads, the engine's application | a rename between an order and the first deploy | the application is made as the project says |
| Runtime host (`infra/deployment/runtime-server.mjs`) | applications, attempts, ports, containers, routes | overlapping deploys, restarts in the middle, partial publication | an attempt records its own outcome; a reachable host is routed |
| Build plane (`builder-server.mjs`) | jobs, keys, slots, an index on disk | cancel while waiting for a slot, overlapping writes, restart | every accepted build ends, slots add up, the disk follows |
| Router host (`router-server.mjs`) | routes, certificates, one file | a publish while a certificate is obtained, overlapping saves | a host without a certificate says why; a restart serves what was stored |
| Database host (`postgres-server.mjs`) | databases, ports, dumps, one file | ports drawn before they are taken, saves that overlap | no two databases on a port; what was answered survives |
| Dashboard (`apps/web`) | pages of rows, a log drawer, dialogs | answers that arrive after the list was replaced or the dialog closed; log polls that overlap | what is shown is a contiguous part of the history; a dialog shows the answer of its own opening |
| Other adapters, observability, docs | - | - | - |

`PROJECT.json` records for each component what is modelled and why the rest is not.

## 2. Modules

### The queue and the deployments on it

| Module | Models | Corresponds to |
|---|---|---|
| `JobQueue` | the queue's rows; one operator per SQL statement | `Enqueue`, `ClaimOldest`, `Complete`, `Fail`, `Terminate`, `Defer`, `ReapExpired` are the methods of `SqlJobQueue` and the SQL functions they call. `Fail` takes what an earlier read (`Spent`) decided, because `fail` is a GET and a PATCH |
| `Worker` | `InProcessWorker.tick` and the loop | `wk[w].pc` is the await the tick is at: `handling`, `settling`, `failing` (between the read and the write of `fail`), `applying`. `said` is a history variable: the jobs for which a handler reported success |
| `JobContract` | what `packages/adapters/src/queue.ts` promises, with no leases, clocks or rows | phases waiting, taken, ended; a holder; a charge per transient failure |
| `WorkerContract` | the refinement mapping from `Worker` to `JobContract` | |
| `Deployments` | the rows and ledgers a deployment leaves, and the engine; one operator per statement or engine call | `builds[d]` is the engine's own record, of which the control plane sees only what calls return |
| `DeploymentPipeline` | the composition: request API, handler, applier, sweep, cancel and promote API over the workers of `Worker` | `hand[w]` is what handler or sweep holds in memory between awaits, `cancel` the same for a cancel request, `asking` the requests between row and job |

A pipeline action that claims, returns or settles contains the `Worker` action of
that name; all others leave `Worker`'s variables alone. That the pipeline's
workers are those of `Worker` (`RunsWorkers`) is proved, so what holds of
`Worker` holds of deployment jobs.

### The rest of the control plane

Each module has one variable for the requests in flight: an action is what a
request does between two awaits, and a request holds what it read.

| Module | Models | Corresponds to |
|---|---|---|
| `HostedDomains` | add, verify, remove a domain; the edge's route and the engine's list of the application | `domains.ts`; what the verifier finds in DNS is a choice |
| `EdgePolicy` | save and distribute a policy; the worker's handler and its applier; the edge's version guard | `procedures/security.ts`, `policy-job.ts`; the edge itself is external, known from `security-edge.ts` |
| `SecurityIncidents` | transitions of an incident by concurrent requests, with the guard trigger of the database | `procedures/security.ts:1200-1261`, the trigger on its table |
| `Members` | create an organization, change a role, remove a member | `organizations.ts`, guards of the migrations |
| `DataJobs` | backups and restores: the cap, the row, the job, the worker's handler and applier, usage | `procedures/data.ts`, `billing.ts`, the appliers of `apps/worker` |
| `ApiAccess` | a request by session or API key: the key, the memberships, the guard, the write; issue and revocation of keys | `router.ts`, `context.ts`, `guard.ts`, `packages/authorization`, `packages/auth` (keys), `settings.ts` |
| `Projects` | create and update a project, order a deployment, the worker's first creation of the application | `organizations.ts`, the payload in `deployments.ts`, `deployment-executor.ts` |
| `EnvVars` | set and remove a variable, the sync before a deploy, the runtime's copy, the build | `env-vars.ts`, `env-sync.ts`, `selfhosted.ts` |
| `GitDeliveries` | deliveries, replays, preview targets, the deployment row and its job | `git-hook.ts`, `git-links.ts` |
| `DatabaseHost` | create, destroy, back up and rotate on the database engine; its file and restart | `postgres-server.mjs` |
| `DeploymentsPage` | the paged list under reloads, and the log drawer's poll | `react/hooks.ts`, `pages/pages.tsx`, `deployments.ts` (`listDeployments`, `deploymentLogs`) |
| `Dialogs` | every dialog of the dashboard over the list it changes: opened, sent, closed, answered, reloaded | `pages/pages.tsx`, `database.tsx`, `members-panel.tsx`, `react/hooks.ts`, `api-client.ts` |
| `MCControlPlane` | all of these on small instances | |

### The hosts

| Module | Models | Corresponds to |
|---|---|---|
| `RuntimeEngine` | deploys, builds, containers, ports, hosts, cancels, rollbacks, probes, removal, restart | `runtime-server.mjs`; the builder and the router are called as their modules say |
| `BuildPlane` | accept, queue for a slot, build, cancel, expire, write the index, restart | `builder-server.mjs` |
| `BuildContract` | what the runtime relies on: an accepted build ends once, and its outcome is not changed | the polling in `runtime-server.mjs` |
| `RouterHost` | publish, withdraw, obtain and renew certificates, save, restart | `router-server.mjs`; ACME exchanges are one call with an outcome |
| `EdgeRules` | rules, trusted sources and the policy under a load of the three tables; the directives they are compiled to, walked by every kind of request | `security-edge.ts` (`compileEdge` and what it calls), `edge-loaders.ts`, rules and trusted sources in `procedures/security.ts` |
| `EdgePostures` | save a posture, publish a hostname, apply the policy; the two reads of a posture and the cache between compiles | `procedures/security.ts` (`saveDeploymentProtection`), `protection.ts`, `edge-loaders.ts` |
| `MCHosts`, `MCBuildPlane` | small instances | |

The proofs are in modules of their own (section 4); `MCWorker` and
`MCDeploymentPipeline` are small instances of the first group.

### Abstractions

- **Time** is relative in the queue: what remains of a lease or deferral, and the
  age of a row up to the last value anything reads. `Tick` lets one unit pass for
  all rows; jobs and deployments age together (`TimePasses`). Elsewhere a timeout
  is an outcome a call may have.
- **Results** are four classes. `pending` counts as `running` (the processor
  treats both alike) and `not_configured` as `degraded` in jobs and rows: both
  are terminal and settle the job the same way. In the sweep, where the code
  does tell it apart, an engine that disowns a build is the verdict `failed`.
- **A crash, and a control-plane call that throws**, drop the memory of the
  worker or request. The call may have been carried out or not, and both are
  behaviours. Inside the handler a throw is caught by the processor and is a
  failed result (`HandlerThrows`).
- **Engine calls** may be refused, and a call that changes something may be
  carried out while its answer is lost.
- The **claim order** is the order of insertion. Jobs of one tenant or another
  are not told apart.
- **`promote_deployment`** locks the rows it touches and a partial unique index
  keeps one current row per project, so it is one step.
- **Cancels** of the pipeline are served one at a time, and the sweep visits its
  rows in any order.
- **Files.** A host's save takes the state of the moment it starts and ends later
  (`RouterHost`, `BuildPlane`, `DatabaseHost`); several may be under way and end
  in any order, a crash loses the ones that have not ended. `RuntimeEngine`'s
  save stores the state of the moment it ends. Router saves write in place, so
  that a crash in the middle leaves an unreadable file.
- `RuntimeEngine`: a failing poll of the builder stands for a cancelled, failed
  or forgotten build and for the deadline alike; attempts beyond the last 50, logs
  and variables are left out; the default hostname is one of the hosts; besides
  the deploys one other request runs at a time; builds are numbered in order.
- `BuildPlane`: the builder runs with a state directory; writes may fail or end
  out of order.
- `DataJobs`: all outcomes of a backup or restore other than success are one.
- `Members`: one role stands for all that are not owner or admin.
- `EdgeRules`: a request is the set of what can be matched about it, and a score; a
  rule is the set of what it matches, so that an address, a block and an agent are
  one case. The walk of the directives stands for the external engine and follows
  the chain semantics the compiler's comments state; a marker that was never set
  "differs from 1", so a negated test matches it. One load at a time.
- `EdgePostures`: a posture is its mode, the save that wrote its user or addresses,
  and the save that wrote its password. One process stands for API and worker, which share only
  the tables; one compile at a time.
- `ApiAccess`: the identity provider names a user or refuses. Memberships change by
  an action of the environment. Keys do not expire.
- `Projects`: one worker. What follows once the application is known is
  `DeploymentPipeline`; previews have an application of their own.
- `Dialogs`: a dialog is a record of what sets it apart (keyed, shows its answer,
  forgets it, frees its button), one dialog is open at a time, a change is its
  number in the server's order. The client never throws, so a lost answer and a
  notice of a failure are both refusals, of something the server may still do. What
  follows when a page is left (a project or organization was created) is not followed.
- `DeploymentsPage`: a row is its number in the order of creation, a line its
  number in the log it belongs to.
- Audit events, notifications, log capture and reasons are left out where nothing
  reads them to decide anything.

### Bounds

| Bound | Meaning |
|---|---|
| `MaxAttempts`, `LeaseTicks`, `BackoffTicks`, `CeilingTicks`, `PolicyAttempts`, `DataAttempts` | the queue's own parameters, small |
| `MaxBuilds` | an engine asked for that many builds of one request refuses more |
| `Many` = 2 | billing units and applications are counted 0, 1, more |
| `StaleTicks`, `GiveUpTicks` | the sweep's own parameters, small; ages saturate there |
| `MaxSaves`, `MaxSets`, `Limit` | saves of a policy, values a variable takes, backups the cap allows |
| `MaxServed`, `MaxRestarts`, `MaxRouterStarts`, `MaxDbStarts` | requests other than deploys and container exits of the runtime; restarts |
| `MaxRoutes`, `MaxCerts`, `MaxDbCalls`, `MaxBuildJobs`, `MaxWrites` | route objects, certificates, calls and jobs numbered, and writes of the index under way |
| `PageSize`, `MaxRows`, `MaxReads`, `MaxLines` | the page, and how far history, reads and logs go |
| `MaxRuleChanges`, `MaxPostures` | changes of rules, sources and policy while a load is under way; saves of postures |
| `MaxRoleChanges`, `CarryAttempts` | changes of memberships; the queue's budget for a first deploy |
| `MaxOpenings`, `MaxPresses`, `MaxLoads` | openings of a dialog, requests it sends, reads besides those an answer causes |

## 3. What the runs check

Passing runs:

| Run | Instance | Shows |
|---|---|---|
| `worker_timely` | 2 workers, 2 jobs (one without a handler), budget 2, lease 2 | while leases hold on live workers: exclusive holding (`Exclusive`: one holder, and what is held runs), budget left in every queued row, outcomes final, `JobContract` implemented, every job settles |
| `worker_stale` | 2 workers, 1 job, budget 3, lease 1 | with leases lapsing: `Honest`, and no deferral of a settled job |
| `pipeline_cancel` | 1 request, 1 worker, 2 builds, budget 2, lease 1 | all actions together: only the engine's successes are reported, made live or billed. It is also the deployed configuration of the queue, one worker process: leases may lapse and `JobContract` holds anyway. Every row and every job settles (`AllSettle`) |
| `pipeline_project` | a rollback and a staged deploy of one project, 1 worker, budget 2 | a build in flight with a recorded handle is polled, not asked for again; a staged build goes live only by a customer's promotion; the remembered application is reused |
| `builder` | 2 keys, 1 slot, 2 jobs, 2 writes under way, restarts | slots are never lost or lent twice (`PoolIsSound`), the disk follows the index once writes ended, a key is answered with a job that exists, `BuildContract` is implemented, every build ends |
| `hosts` | runtime: an application built from source with a hostname and one from an image, 2 attempts, 2 ports, 1 other request, 1 restart; router: 1 name, 2 calls, 2 route objects, 2 certificates, 1 restart; rules: 2 addresses, 2 agents, a block, 3 policies, 3 scores, 2 changes during a load; postures: 2 hostnames of 2 projects, 2 saves | attempts record their own outcome and run their own build (`OutcomesAreOwn`); ports differ, the current image runs and a reachable host is routed (`RuntimeServes`); a host without certificate says why, the file follows the routes; an artifact does with every request what its tables mean (`EdgeDoesAsStored`); a hostname is open only if its posture was (`PosturesHold`) |
| `control_plane` | 2 concurrent requests in each part: 3 domain rows of 2 hostnames; 2 saves of a policy with 2 attempts; 2 incidents; 3 users; 2 backups and a restore under a cap of 1; 2 variables of 3 values; 3 pushes, 2 of them previews; 2 databases, 1 dump, 2 ports, 3 calls, 1 restart; a user, a key and 2 organizations, 2 role changes; 2 editors and 2 orders of a project; pages of 2 of 7 rows, 4 reads; logs of 2 lines; every dialog, 2 openings, 2 requests, 2 reads | the properties named in section 1 for each of them |

Several properties are conjunctions of named parts: `PolicyIsTrue` is
`ActiveIsEnforced` and `SettledIsTrue`; `DataHolds` is `LedgerHolds` and
`RowFollowsJob`; `RuntimeServes` is `PortsDiffer`, `ServesCurrent` and
`ReachableIsRouted`; `OutcomesAreOwn` is `NoInventedSuccess`, `RecordsOwnOutcome`
and `RunsOwnBuild`; `OpeningsKeepApart` is `OpeningAsksOnce` and
`AnswersOwnOpening`.

In `control_plane` and `hosts` the parts share no variable, so a behaviour of all of
them is an interleaving of behaviours of each, and an invariant about one part
holds in the composition if it holds while the others rest. A run therefore
chooses one part at the start (`part`) and explores that one alone.

Why these bounds: the interesting events of the queue are a lapse, a reap, a
second claim, a last attempt and a stale call. A budget of 2 separates the first
attempt from the last, and 3 leaves a live attempt after a stale one; a lease
of 1 lapses at once and a lease of 2 separates "still valid" from "about to
lapse", which `TimelySpec` needs. Two workers are enough for a conflict: each
property relates at most two of them. Two builds separate the build in flight
from its double. One request is enough for properties about one row; a second
matters where requests share something, namely the production pointer and the
application (`pipeline_project`, where the engine refuses a second build of one
request: asking for it is what the property forbids). The pipeline with several
workers is the business of the proofs, which need no bound.

In the other parts a property relates the state to one request that acts on a
stale read of it, so two requests and one object they fight over are what a
violation takes, plus what makes them meet again: a second row of the same
hostname (added after a removal), a third user (two owners who remove each other,
and somebody to remove), a second port (the one that is free), a preview of each
of two targets. The builder needs one slot fewer than builds, and two writes to
end in the wrong order. A page of two rows over seven lets three pages follow
each other while rows arrive; a log of two lines is read in two chunks. A rule and
a source added or removed between two of the three reads of a load is what makes
an artifact out of two moments; two saves of postures, what tears one. A key and
two organizations tell a key's own organization from another; two openings, a late
answer from its own.

Every passing property is shown to be falsifiable: `PROJECT.json` gives for each a
mutated definition, beginning with the comment "Faulty", under which TLC finds it
violated.

### Where the code departs from what it says

Five runs end in a counterexample. Each checks one sentence of the repository.

| Run | Says | What happens |
|---|---|---|
| `worker_wedged` | a crashed worker "does not wedge it" (`queue.ts:8-9`) | `fail` of a worker that lost its lease requeues a row whose budget another worker has just spent; no claim and no reap sees it again |
| `pipeline_redeploy` | a redelivery for a terminal row "must not re-deploy" (`deployment-executor.ts:537`) | `resumeRunningDeployment` returns `null` for a terminal row, which is the caller's signal to deploy |
| `pipeline_counted` | "will be counted once" (`deployment-job.ts:193-195`) | the sweep bills the deployment, the redelivered job bills it again |
| `pipeline_refused` | a refused cancel is to "keep the row where it is" (`deployments.ts:612`) | the status read before the engine was asked is written over the outcome stored meanwhile |
| `domains_served` | a verified hostname "must also be reachable" (`domains.ts:287`) | verifying a second hostname sends the engine a list of that one, and the engine withdraws the first |

`worker_wedged` needs a second worker process; the others happen with one. Two
more promises hold only for one worker process, and are checked for one: that a
job is taken by exactly one worker at a time (`Exclusive`, since no lease is
renewed while a handler runs), and that a project's application is created once
(`RememberedIsReused`, since the handler decides from an earlier read).

Some properties hold only because of an assumption the code does not enforce, and
are stated with it: an owner remains if role changes and removals of owners do not
overlap (`organizations.ts:278-279` reads, then writes); a build uses the stored
variables unless a sync failed or an edit came while one was under way
(`BuildsWithStored`); a policy called active is the one the edge enforces
unless it was saved while the worker distributed it (`SettledIsTrue` says what is
true of its job then).

### Other differences met while modelling

They are not runs, because nothing in the code depends on them or the sentence is
too loose to check, but a reader of the code should know of them:

- Removing a variable does nothing on the self-hosted engine: `selfhosted.ts:334-348`
  sends the engine's reference, `runtime-server.mjs:897` deletes by key.
- `data.ts:323-325` never enqueues a second backup for a key, but each request
  draws a fresh one.
- `policy-job.ts:141-147`: saving the version the edge acknowledged can set a
  policy edited meanwhile back to the older version.
- `runtime-server.mjs:545`: the record is saved before the build is asked for, but
  its outcome reaches the disk with the next save only; `builder-server.mjs:111`: a
  failed flush is retried only when something else changes.
- `hooks.ts:188-206`: a "load more" that fails is an empty page, and the list says
  "That is the full history"; so it does during every reload. `pages.tsx:1463-1465`:
  polls of the log that overlap append lines twice, and a cursor outlives the log
  it counts in (`deployments.ts:839-858`).
- A serverless project's first deployment can never succeed: `ensureTarget` is called
  without an artifact (`deployment-executor.ts:380-389`, `deployments.ts:1146`) and
  `createFunction` refuses, before the build step that would make one (against the
  comment at 446-449 and ADR-0018:52). No request stores a function reference, so
  nothing reaches that step. A container project switched to serverless hands
  Lambda the application's id, and a serverless deployment stores no handle, so each
  redelivery would build and publish again.
- A job carries the slug and root directory of its request (`deployments.ts:1030-1045`,
  `deployment-job.ts:100`), and a project may be renamed until its application is
  recorded (`organizations.ts:417`): the application of a deployment queued before
  the rename is made under the old slug. `MadeAsProject` exempts exactly this.
- `router-server.mjs:79-83`: the file is written in place; a crash in the middle
  loses all routes. `398-399`: a route withdrawn during a renewal ends the loop.
- `postgres-server.mjs:299-302`: a failed `docker rm` is answered as a removal;
  `143-144`: diagnostics are part of a dump. The adapter gives up after 20 s where
  the host may take 200 s, and leaves a database nobody knows.
- Distributing a policy again at the same version does nothing: the job's key is
  `distribute-<id>-v<version>` and the queue ignores a key it knows
  (`sql-queue.ts:80-107`), although the procedure's comment (`procedures/security.ts:1070`),
  `packages/security/src/index.ts:89` and `docs/runbooks/backup-and-dr.md:58` offer it as
  the repair of an edge that lost its state.
- `edge-loaders.ts:167-190`: the cache of postures lives as long as the process, not
  as one compile, so a posture that was changed is compiled as it was. Row and
  password digest of a posture are two reads: one saved from password to addresses
  in between is compiled as open, and a save that keeps the password can write back
  an older digest.
- `edge-loaders.ts` lists the 200 newest rules and trusted sources, and adding one
  has no cap: older ones are not compiled.
- Rate limits are "never counted" for trusted sources, but the limits that are
  compiled carry no exemption.
- A member who left an organization and joined it again finds their old keys valid.
- `security-edge.ts`: trusted sources are "never challenged or blocked", but the
  WAF's own rules apply to them; the `protect` stage is first in the order its
  comment gives and last in the ladder it compiles.

- Keys of dialogs (against `ids.ts:4-7`): `GitPage` draws its `deployKey` once per
  mount (`pages.tsx:2460`), so that a second "Deploy now" is answered with the first
  deployment; `EnvVarModal` says "queued" when its redeploy was a replay
  (`pages.tsx:3152`); a rollback keeps its key while its commit may be edited.
- Dialogs that are not mounted anew and whose "Done" forgets nothing show their answer
  at the next opening: `CreateApiKeyModal` (`pages.tsx:6530-6604`), `VerifyDomainModal`
  (2250-2328), `DistributePolicyModal` (4755-4850) and those of `database.tsx:705-1198`.
  "Done" of `AddDomainModal` reloads and does not close (2108-2116). A dialog that was
  closed by its cross after a success does not reload the list. `SetBudgetModal`'s
  "Cancel" frees its button while the request is under way (6036-6040).
- Pages are rendered without a key: another project or organization finds the rows,
  dialogs and fields of the last one until its own answers arrive. `App.tsx:91-94` says
  that signing out leaves no workspace selected; the effect clears the choice, and
  falls back to the first of the list still loaded.

### Fairness

`WorkerFairness` is weak fairness of each worker's steps and of the clock. The
loop of `runtime.ts` never leaves its `while` and every failed cycle is retried
after a delay; every adapter call carries a timeout (30 s) and the build poll is
bounded, so a handler always returns. Crashes are not assumed to stop: a crash
costs the attempt its claim spent. Nothing is assumed of callers.

`PipelineFairness` adds strong fairness of reaping, claiming and the sweep's
list, ask and write. Every cycle of the loop reaps, drains at most 50 jobs and,
once per 60 s, sweeps, so each of these comes round again; strong fairness says
that neither the others nor crashes crowd one of them out for ever. It is needed
because a worker that always finds a job, or always crashes in the sweep, would
otherwise never settle a row. The engine is not assumed to finish a build and
customers not to do anything.

`BuilderFairness` is weak fairness of the steps of each build: clone, plan and
build run under timeouts (`builder-server.mjs`), so a process it waits for ends. It
says nothing of cancels, requests, expiry or restarts.

## 4. What is proved

`tlapm` checks the following for instances of any size: any number of jobs,
requests, workers, rows, users, keys, variables, pushes, names, applications,
builds, databases and dialogs, and any budget, lease, backoff, ceiling and bound.

| Module | Theorems | State |
|---|---|---|
| `PipelineProofs` | `TypeCorrect`, `Honesty`, `DeferSafety` | `TypeOK`, `Honest` and `DeferNeverResurrects` of `Spec`: leases may lapse, calls may be stale |
| | `TimelyExclusion`, `TimelyBudget`, `TimelyFinal` | `Exclusive`, `BudgetLeft`, `SettledIsFinal` of `TimelySpec` |
| | `SoloSafety` | the same three of `Spec` with one worker process, leases lapsing in its hands |
| | `TimelyPromise`, `SoloPromise` | the leased queue implements `JobContract`: under `TimelySpec`, and under `Spec` with one worker |
| | `PipelineTypeCorrect`, `OnlyTheEngine`, `StagedStays` | `PipelineTypeOK`, `OnlyTheEngineSucceeds`, `StagedIsHeldBack` |
| | `WorkersRun`, `PipelineJobs` | the pipeline refines `Worker`, hence inherits `Honest` and `DeferNeverResurrects` |
| | `PipelinePromise`, `ApplicationReused`, `InFlightPolled` | with one worker process: the pipeline implements `JobContract`; an application is created only where none is remembered; no build is asked for beside one in flight (`QuietSpec`: customers do not cancel) |
| `ControlPlaneProofs` | `IncidentsForward`, `AnOwnerRemains`, `AcceptedPushesAreQueued`, `BuildsUseStored`, `ServedHostnamesAgree` | incidents move along the legal transitions; an organization keeps an owner; an accepted push has a row and a job; a build in sync runs with the stored variables; row, route and engine agree about a hostname |
| | `AccessTypeAlways`, `ActsAsGrantedAlways` | what a session or key is let do was granted to its principal since its request began |
| | `ProjectTypeAlways`, `MadeAsProjectAlways` | the application is made as its project says |
| | `PolicyTypeAlways`, `PolicyIsTrueAlways` | an active policy is the enforced one |
| `EdgeProofs` | `PostureTypeAlways`, `PosturesHoldAlways` | a hostname is opened only by an open posture |
| | `RulesTypeAlways`, `DirectivesMeanTables`, `EdgeDoesAsStoredAlways` | directives deny what the tables they were compiled of mean; an artifact treats every request as the tables did at a moment of its load, while rows are only added |
| | `PartsOfHosts`, `HostsHold`, `HostsTypeAlways` | all of this, and the types, of everything on the hosts side by side (`HostsSpec`) |
| `DataProofs` | `DataTypeAlways`, `DataHoldsAlways`, `DatabaseTypeAlways`, `DatabasesStandAlways` | ledger and rows follow the jobs done; databases told of stand, on ports of their own |
| `PageProofs` | `HeardIsShownAlways`, `OpeningsKeepApartAlways` | the newest read shows all a page heard; a dialog shows the answer of its own opening |
| | `ShowsHistoryAlways` | the deployments page shows a stretch of the history down to its end, and each line of a log once |
| | `DialogsTypeAlways`, `PageTypeAlways` | the types of both, with their bounds |
| `CompositionProofs` | `PartsOfControlPlane`, `ControlPlaneHolds`, `ControlPlaneTypeAlways` | all of `ControlPlaneProofs`, `DataProofs` and `PageProofs`, and the types, of the parts side by side (`ControlPlaneSpec`) |
| `BuilderProofs` | `PoolIsSoundAlways`, `DiskFollowsAlways`, `KeysAreAnsweredAlways`, `BuildPromiseKept` | the pool, the disk and the keys; the build plane implements `BuildContract` |
| `RuntimeProofs` | `RuntimeTypeAlways`, `RuntimeServesAlways`, `OutcomesAreOwnAlways` | what is reported deployed is what its hosts lead to; an attempt is on record as it ended |
| | `RouterTyped`, `BareHostsSayWhy`, `RestartServesRoutes` | the router's types; a route without certificate gives a reason; the file follows the routes |

The assumptions are those of the constants, one named `...Assumption` in each module
that needs any, which TLC evaluates in the runs. They say that bounds are numbers, that
what stands for "none" is none of the things it is told from, which sets are parts of
which, that jobs and backups are finitely many, and that a budget, a lease, a page or a
pool of slots is not zero; that crawlers are a list and the choices of rules and of
trusted sources finitely many. Three say more. Requests of the pipeline are the queue's
jobs and all have a handler. The runtime host has a port for every application:
`allocatePort` searches a range of them, and when none is left takes a random one
beyond it, which is not modelled. And there is an application at all, for an idle operation to carry.

**The queue.** `TypeOK` is inductive: the conjunct that a lease exists exactly
while the row runs is what every statement preserves. `Honest` needs `Backed` (a
worker about to complete a job holds a reported success), which survives stale
calls because it speaks of worker memory and history only. The rest goes through
`HoldInv`: what a worker carries out is running, holders are distinct, queued rows
have budget, and the budget a `failing` worker read is still the row's. It is
inductive as long as the reaper spares what a live worker holds (`SparesLive`), and
there are two reasons why it may. In `TimelySpec` the lease of every held job has
time left (`HeldLease`). With one worker process the reaper runs between its ticks
only, when it holds nothing. Otherwise `HoldInv` is false, which is the run
`worker_wedged`.

For the contract, a row is charged the attempt its claim spent (`Charged`), so that a
claim maps to `Take`, a settled job to `End`, a defer to `Poll`, a failure to `Retry`
or the end of the job, a crash to `Die` and the reaper to `TakeBack` of all it takes
together; enqueueing is `Submit`, and the clock, the reads before a write and what no longer
finds its row are stutters (`PromiseStep`). `DataJobs` and `EdgePolicy` take their queue from
this contract: what they leave out of it is justified by these theorems.

**The pipeline.** `OnlyTheEngineSucceeds` is not inductive: an applier that
holds a success writes it whatever the row says, so the invariant has to speak
of memories. `PipeInv` says that a handle held anywhere (a row, a worker, the
sweep's list, a cancel) names a build the engine has, and that whoever is about
to write, promote or bill a success, or carries a `succeeded` result, has a
deployment with a finished build. It is stable because builds only grow and a
finished build stays finished (`Grows`, `GrowthKeeps`); each step of a worker is
shown to leave its own memory known (`Turn`) and the rest follows
(`TurnKeepsHands`). `StepIsWorkerStep` shows that every step is a step of
`Worker` or leaves it alone, and `WorkersRun` combines the two.

With one worker, what a handler read of the project stands until it acts on it
(`ProjectStands`), because nobody else writes what the project remembers; so does what
it read of its row (`RowStands`), unless a customer cancels, which is why
`InFlightPolled` is about `QuietSpec`.

**The tables.** Each invariant has to speak of what requests in flight have read.
Incidents: a triager holds a state of an incident that exists (`TriagedExist`);
the trigger of the database judges the stored state, not the one read. Members:
while a request is about to remove or demote an owner there is another one it
spares. Pushes: every row is in the hands of a request or has its job
(`RowsAccountedFor`). Variables: while nobody edits, what a sync has not sent yet is
all that may differ (`FedBut`). Domains: `RouteInv` says who may hold a route, and
`AloneInv` that an active row is alone with its hostname. Access (`AccessInv`): what
a request has learnt its principal had while it was served, and a key's row never
changes but by its revocation. Projects (`ProjectInv`): what orders and the worker
carry is the project's while no edit raced with them, and an editor that saw an
application does not change what it was made from.

**The edge.** `PolicyInv`: what the worker holds is the stored policy unless it was
saved meanwhile, and then the row is a draft, so that the applier's activation is of
the version it sent; versions only go up except by the save of an older one.
`PostureInv`: the histories know the present posture and all it was during a load;
what is read by halves is whole or known to be torn; a process keeps no open posture.

The artifact takes two arguments. That directives deny what the tables mean
(`DirectivesMeanTables`) is an induction on the natural numbers, through the set of
those for which it holds, over the walk of the list, a recursive function (`Denied`).
The list has five parts; those of rules and sources are sets put in some order, of
which it is enough that every member is reached. `LoadInv` then says of a load what it
has read and, while rows are only added, that the rules read are those of a moment whose
sources are among the sources read after them. So a request from none of the sources
read is treated as at the moment of the rules; and one from such a source, which neither
rules nor challenges touch, as at the moment of the sources.

**Data.** `DataInv` gives every row at most one request, one job and one worker; what
the engine did follows from their places, and usage is short of the backups that
succeeded by at most the one being counted. For the types, an attempt in which a row
was carried out is charged before the next one (`WithinBudget`). `DatabaseInv`: saves end in the order
they began unless one overtook another, so that every snapshot under way holds what
was promised before it and the last one all that was told; a create works on an id
nobody knows until it is registered; a container that was started keeps its port
from the others or is known to have been released.

**The dashboard.** `DialogsInv`: the newest read knows the route shown and, once it
was served, every change the page was told of; a key belongs to one opening; a
dialog mounted anew is of the opening it shows; one that is mounted once waits for
at most one answer as long as its openings ended in order. `ListInv`, of the deployments
page: what is in memory is a stretch of the history; while no read of the newest page is
under way, a read of an older one follows the last row in memory or is stale; a page
that is not full ends with the oldest row. `DrawerInv`: without cursors whatever is read is
the beginning of one log; with them, and while the polls are kept apart, what is shown
is the log up to the cursor and the one read under way continues it. The types have
bounds, which need more: a request changes the server at most once, so changes and
waiting requests are at most the presses (`DialogsBounds`); what a read carries is of
rows and lines there were (`ListBounds`, `DrawerBounds`).

**The build plane.** `BuildInv`: stage, status and key of a job agree. The count of
running builds is the cardinality of those that hold a slot, and nobody waits twice,
so a release passes its slot to the first that waits or frees it (`PoolFits`). What
is known of a job in memory, on disk or in a write under way is under one key, and
says succeeded only if it was built. As long as no write failed or was overtaken the
writes under way are snapshots in order: disk and writes have all that was accepted
or built by then and the last has everything (`DiskKnows`). For the contract a job's
key is the one it is known under anywhere (`KeyOf`): a request maps to `Ask`, the
end of a build to `End`, expiry to `Forget`, a restart to `Recall`.

**The runtime host.** None of its three properties is inductive: a deploy that
ends copies the status all operations on its application share, and a restart puts
back what the file says. `RuntimeInv` has two parts. `Standing` holds always: the file holds what
memory held (the same applications, the same port or none yet, no more attempts and no
higher count), an attempt is one application's and is on record, it succeeded only if
its container was seen running, and two applications never have one port.
`AppFits` holds of an application on which operations neither overlapped nor were cut:
there is at most one operation, and both memory and file answer for attempts as they
ended, name the image that runs unless a rollback is replacing it, and lead the
hosts to the port unless routes are being changed (`Remembers`, `FileRemembers`). Builds were asked for under
counts up to the saved one only (`KeysUpTo`), so that the key a deploy draws is
new and what it waits for is its own (`DeployFits`), also when the process restarted and counts from its file.

**The router.** `BareSaysWhy` becomes inductive when the route object a call holds
counts as excused while its certificate is asked for (`Excused`). `FileFollows`
needs that writes under way carry what the routes were when they began, and that
the last one carries what they are (`FileInv`).

**Side by side.** The runs `control_plane` and `hosts` check their properties of all
parts together. A step of the composition is one part's and a stutter of every other,
so its behaviours are behaviours of each part (`PartsOfControlPlane`,
`PartsOfHosts`) and what is proved of a part holds of the composition. The composed types
follow from those of the parts, because a run stays with the part it chose.

**Only model-checked**: liveness (`EveryJobSettles`, `AllSettle`, `BuildsEnd`), which is
out of the prover's reach (`ENABLED`). Every invariant and every action property of a
passing run is a theorem.

## 5. What is not modelled

- *Deployments*: the build step of serverless projects, which nothing reaches (see
  above); a sweep that falls back to the application reference of a row without a
  deployment handle; a rollback for which the engine returns no deployment id; Coolify
  answering a deduplicated deploy with another request's build; more than one cancel
  at a time. Previews are modelled up to their job (`GitDeliveries`); their build is
  a deploy like any.
- *Paths without a queue*: every procedure can carry out its command itself;
  `bootstrap.ts:169-190` always passes a queue, so they are not taken. The in-memory
  queue and store are doubles for tests.
- *Git*: signatures, payloads and the reads behind links.
- *Security*: rate limits, observations, quarantine, the grammars of the validators.
  More than one row of a policy and its first save by two requests.
- *Data*: `rotateDataCredentials` (the host's part is modelled), imports, the
  contents of databases.
- *Billing*: `saveBudget`, `removeBudget`, the usage report.
- *Members*: invitations, environments, the sessions of the identity provider.
- *API server*: CORS, body limits, health, shutdown, the demo session.
- *Row security and column guards*: they are static and the repository tests them
  in SQL; where a trigger decides (incidents, owners, promotion) it is modelled.
- *Other adapters, observability*: they format one call or one read.
- *Dashboard*: pages that only read, and the forms of sign-in, setup and project
  settings.

## 6. What comes next

1. The hosts of an artifact, and rate limits beside the directives.
2. The exclusion of several worker processes when only some leases lapse.
3. The forms of the dashboard that are not dialogs: project settings, setup and
   sign-in.
