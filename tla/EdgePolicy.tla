------------------------------ MODULE EdgePolicy ------------------------------
(***************************************************************************)
(* The security policy of one organization: the requests that save it and  *)
(* ask for its distribution (apps/api security.ts), the worker that sends  *)
(* it to the security edge and records the answer (policy-job.ts).  The    *)
(* queue is the one JobContract promises, with one job for each version    *)
(* of the policy; the single worker of the deployed configuration settles  *)
(* a job before it applies the outcome.  The edge is external: it refuses a version older  *)
(* than the one it holds.                                                  *)
(***************************************************************************)
EXTENDS Naturals

CONSTANTS PolicyRequests, \* API requests served at a time
          Worker1,        \* the worker process
          MaxSaves,       \* bound: saves of the policy
          PolicyAttempts, \* max_attempts of a job
          NoHolder

ASSUME SavesAssumption ==
  /\ MaxSaves \in Nat \ {0} /\ PolicyAttempts \in Nat
  /\ NoHolder # Worker1

Versions == 1 .. MaxSaves + 1

VARIABLES
  policy,     \* the stored row: version, state, and which save wrote its content
  saves,      \* saves begun
  edge,       \* the version and content the edge enforces
  client,     \* request -> its place and what it read
  agent,      \* the worker's place, its job, what it read and the result
  phase, holder, spent, said,   \* the queue
  moved,      \* history: the policy was saved while the worker was at it
  mixed,      \* history: the active row was written by such a distribution
  rewound,    \* history: the stored version went down
  reported    \* history: jobs with a refusal on record, or whose worker died

Queue == INSTANCE JobContract WITH
  Jobs <- Versions, Workers <- {Worker1}, MaxAttempts <- PolicyAttempts, Nobody <- NoHolder

queueVars == <<phase, holder, spent, said>>
historyVars == <<moved, mixed, rewound, reported>>
policyVars == <<policy, saves, edge, client, agent, queueVars, historyVars>>

NoClient == [at |-> "idle", version |-> 0, text |-> 0]
AtRest == [at |-> "idle", job |-> 0, read |-> 0, load |-> [version |-> 0, text |-> 0],
           text |-> 0, result |-> "none"]

PolicyInit ==
  /\ policy = [version |-> 1, state |-> "draft", text |-> 0]
  /\ saves = 0
  /\ edge = [version |-> 0, text |-> 0]
  /\ client = [r \in PolicyRequests |-> NoClient]
  /\ agent = AtRest
  /\ Queue!ContractInit
  /\ moved = FALSE
  /\ mixed = FALSE
  /\ rewound = FALSE
  /\ reported = {}

\* The row is upserted whole; the table has no guard on the version.
StorePolicy(row) ==
  /\ policy' = row
  /\ rewound' = (rewound \/ row.version < policy.version)

Ask(r, place) ==
  /\ client[r] = NoClient
  /\ client' = [client EXCEPT ![r] = place]

Answer(r) == client' = [client EXCEPT ![r] = NoClient]

\* saveSecurityPolicy: the stored row is read, the next version is written.
SaveReads(r) ==
  /\ saves < MaxSaves
  /\ saves' = saves + 1
  /\ Ask(r, [at |-> "save", version |-> policy.version, text |-> saves'])
  /\ UNCHANGED <<policy, edge, agent, queueVars, historyVars>>

SaveWrites(r) ==
  /\ client[r].at = "save"
  /\ StorePolicy([version |-> client[r].version + 1, state |-> "draft", text |-> client[r].text])
  /\ moved' = (agent.at # "idle")
  /\ mixed' = FALSE
  /\ Answer(r)
  /\ UNCHANGED <<saves, edge, agent, queueVars, reported>>

\* distributeSecurityPolicy: the stored version is read, and the job of that
\* version is added to the queue unless there already was one.
DistributeReads(r) ==
  /\ Ask(r, [NoClient EXCEPT !.at = "enqueue", !.version = policy.version])
  /\ UNCHANGED <<policy, saves, edge, agent, queueVars, historyVars>>

DistributeEnqueues(r) ==
  /\ client[r].at = "enqueue"
  /\ IF phase[client[r].version] = "absent"
     THEN Queue!Submit(client[r].version) ELSE UNCHANGED queueVars
  /\ Answer(r)
  /\ UNCHANGED <<policy, saves, edge, agent, historyVars>>

\* The API process stops.
ClientDies(r) ==
  /\ client[r] # NoClient
  /\ Answer(r)
  /\ UNCHANGED <<policy, saves, edge, agent, queueVars, historyVars>>

\* The worker takes a job and its handler reads the policy as it is now.
TakesJob(v) ==
  /\ agent = AtRest
  /\ Queue!Take(v, Worker1)
  /\ agent' = [AtRest EXCEPT !.at = "load", !.job = v, !.read = policy.version]
  /\ UNCHANGED <<policy, saves, edge, client, historyVars>>

\* Faulty: what was read when the job began is not what is compiled.
LoadsOldPolicy ==
  /\ agent.at = "load"
  /\ agent' = [agent EXCEPT !.at = "send",
                            !.load = [version |-> edge.version, text |-> edge.text]]
  /\ UNCHANGED <<policy, saves, edge, client, queueVars, historyVars>>

\* applyPolicy loads the policy again to compile it.
LoadsPolicy ==
  /\ agent.at = "load"
  /\ agent' = [agent EXCEPT !.at = "send",
                            !.load = [version |-> policy.version, text |-> policy.text]]
  /\ UNCHANGED <<policy, saves, edge, client, queueVars, historyVars>>

\* What was sent plays no part in what becomes of a refusal.
HandlerReturns(result) ==
  agent' = [(IF result = "succeeded" THEN agent ELSE [AtRest EXCEPT !.job = agent.job])
              EXCEPT !.at = "settle", !.result = result]

EdgeAccepts ==
  /\ agent.at = "send"
  /\ agent.load.version >= edge.version
  /\ edge' = agent.load
  /\ HandlerReturns("succeeded")
  /\ Queue!Report(agent.job)
  /\ UNCHANGED <<policy, saves, client, historyVars>>

\* The edge took it but the answer was lost or late.
AnswerLost ==
  /\ agent.at = "send"
  /\ agent.load.version >= edge.version
  /\ edge' = agent.load
  /\ HandlerReturns("failed")
  /\ UNCHANGED <<policy, saves, client, queueVars, historyVars>>

\* A stale version, an edge out of reach (failed, to be retried), or none
\* configured (degraded, which is final).
EdgeRefuses ==
  /\ agent.at = "send"
  /\ \E result \in {"failed", "degraded"} : HandlerReturns(result)
  /\ UNCHANGED <<policy, saves, edge, client, queueVars, historyVars>>

\* The processor settles the job first.
Settles ==
  /\ agent.at = "settle"
  /\ CASE agent.result = "succeeded" -> Queue!End(agent.job, "succeeded")
       [] agent.result = "degraded"  -> Queue!End(agent.job, "failed")
       [] agent.result = "failed"    -> Queue!Retry(agent.job)
  /\ agent' = [agent EXCEPT !.at = "apply"]
  /\ UNCHANGED <<policy, saves, edge, client, historyVars>>

\* The applier reads the row again; on success it writes its content with the version
\* the edge acknowledged, never below the one the handler had read.
ApplierReads ==
  /\ agent.at = "apply"
  /\ agent' = [agent EXCEPT !.at = "write", !.text = IF agent.result = "succeeded" THEN policy.text ELSE @]
  /\ UNCHANGED <<policy, saves, edge, client, queueVars, historyVars>>

WorkerRests == agent' = AtRest /\ moved' = FALSE

\* Faulty: the version after the one acknowledged.
AcknowledgedNext == 1 + (IF agent.load.version > agent.read THEN agent.load.version ELSE agent.read)

Acknowledged == IF agent.load.version > agent.read THEN agent.load.version ELSE agent.read

\* Faulty: any answer of the edge makes the policy active.
ApplierActivatesAnyway ==
  /\ agent.at = "write"
  /\ StorePolicy([version |-> Acknowledged, state |-> "active", text |-> agent.text])
  /\ mixed' = moved
  /\ WorkerRests
  /\ UNCHANGED <<saves, edge, client, queueVars, reported>>

ApplierActivates ==
  /\ agent.at = "write" /\ agent.result = "succeeded"
  /\ StorePolicy([version |-> Acknowledged, state |-> "active", text |-> agent.text])
  /\ mixed' = moved
  /\ WorkerRests
  /\ UNCHANGED <<saves, edge, client, queueVars, reported>>

\* Faulty: only a refusal that is final is recorded.
ApplierReportsFinal ==
  /\ agent.at = "write" /\ agent.result # "succeeded"
  /\ reported' = IF agent.result = "degraded" THEN reported \cup {agent.job} ELSE reported
  /\ WorkerRests
  /\ UNCHANGED <<policy, saves, edge, client, queueVars, mixed, rewound>>

\* A refusal of any attempt is recorded and opens an incident (SecurityIncidents).
ApplierReports ==
  /\ agent.at = "write" /\ agent.result # "succeeded"
  /\ reported' = reported \cup {agent.job}
  /\ WorkerRests
  /\ UNCHANGED <<policy, saves, edge, client, queueVars, mixed, rewound>>

\* The worker stops anywhere; a job it had not settled is taken back later.
WorkerDies ==
  /\ agent # AtRest
  /\ IF holder[agent.job] = Worker1 THEN Queue!Die(agent.job) ELSE UNCHANGED queueVars
  /\ reported' = reported \cup {agent.job}
  /\ WorkerRests
  /\ UNCHANGED <<policy, saves, edge, client, mixed, rewound>>

TakenBack ==
  /\ Queue!TakeBack
  /\ UNCHANGED <<policy, saves, edge, client, agent, historyVars>>

PolicyNext ==
  \/ \E r \in PolicyRequests :
       \/ SaveReads(r) \/ SaveWrites(r)
       \/ DistributeReads(r) \/ DistributeEnqueues(r)
       \/ ClientDies(r)
  \/ \E v \in Versions : TakesJob(v)
  \/ LoadsPolicy \/ EdgeAccepts \/ AnswerLost \/ EdgeRefuses \/ Settles
  \/ ApplierReads \/ ApplierActivates \/ ApplierReports
  \/ WorkerDies \/ TakenBack

PolicySpec == PolicyInit /\ [][PolicyNext]_policyVars

-----------------------------------------------------------------------------
Row == [version : Versions \cup {0}, state : {"draft", "active"}, text : 0 .. MaxSaves]
Sent == [version : Versions \cup {0}, text : 0 .. MaxSaves]

PolicyType ==
  /\ policy \in Row /\ policy.version \in Versions
  /\ saves \in 0 .. MaxSaves
  /\ edge \in Sent
  /\ client \in [PolicyRequests ->
       [at : {"idle", "save", "enqueue"}, version : Versions \cup {0}, text : 0 .. MaxSaves]]
  /\ agent \in [at : {"idle", "load", "send", "settle", "apply", "write"},
                job : Versions \cup {0}, read : Versions \cup {0}, load : Sent, text : 0 .. MaxSaves,
                result : {"none", "succeeded", "degraded", "failed"}]
  /\ phase \in [Versions -> {"absent", "waiting", "taken", "succeeded", "failed"}]
  /\ moved \in BOOLEAN /\ mixed \in BOOLEAN /\ rewound \in BOOLEAN

\* A policy shown as active is the one the edge enforces, content and version,
\* unless it was saved while the worker distributed it (policy-job.ts:198).
ActiveIsEnforced ==
  (policy.state = "active" /\ ~mixed) =>
    edge = [version |-> policy.version, text |-> policy.text]

\* A distribution that succeeded brought the edge to its version or a later
\* one, whatever was saved meanwhile, while the stored version never went down
\* (policy-job.ts:101); one that ended in failure left a refusal on record,
\* unless its worker died (policy-job.ts:157).
SucceededIsEnforced ==
  ~rewound => \A v \in Versions : phase[v] = "succeeded" => edge.version >= v

RefusalIsReported ==
  \A v \in Versions :
    phase[v] = "failed" => v \in reported \/ agent.job = v

SettledIsTrue == SucceededIsEnforced /\ RefusalIsReported

\* What the policy row and its jobs say is what the edge does.
PolicyIsTrue == ActiveIsEnforced /\ SettledIsTrue
=============================================================================
