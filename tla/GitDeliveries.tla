----------------------------- MODULE GitDeliveries -----------------------------
(***************************************************************************)
(* The deliveries of a git provider to one repository link: each is        *)
(* verified against the link, looked up by the key of what it delivers,    *)
(* turned into a deployment row and then into a job (git-hook.ts,          *)
(* git-links.ts).  The provider delivers again whatever was not answered,  *)
(* and whatever it is asked to.  A repository linked again gets another    *)
(* link, with keys of its own.  What becomes of the row and the job is     *)
(* DeploymentPipeline.                                                     *)
(***************************************************************************)
CONSTANTS Pushes,       \* what is delivered: a target and a commit
          Previews,     \* those that are commits of one pull request
          Hooks,        \* deliveries received at a time
          NoPush

ASSUME PushAssumption == Previews \subseteq Pushes /\ NoPush \notin Pushes

VARIABLES
  link,       \* none yet, with or without previews, removed
  deployment, \* pushes with a deployment row
  target,     \* the pull request has its preview target
  queued,     \* pushes with a job
  hook,       \* delivery -> its place and what it delivers
  accepted,   \* history: pushes answered as deployed or as replayed
  cut         \* history: pushes whose request ended between the row and the job

deliveryVars == <<link, deployment, target, queued, hook, accepted, cut>>

NoHook == [at |-> "idle", push |-> NoPush]
Linked == {"production", "previews"}

DeliveryInit ==
  /\ link = "none"
  /\ deployment = {}
  /\ target = FALSE
  /\ queued = {}
  /\ hook = [h \in Hooks |-> NoHook]
  /\ accepted = {}
  /\ cut = {}

HookGoes(h, place) == hook' = [hook EXCEPT ![h].at = place]
HookEnds(h) == hook' = [hook EXCEPT ![h] = NoHook]
Accepts(h) == accepted' = accepted \cup {hook[h].push} /\ HookEnds(h)

\* connectGitLink and disconnectGitLink.
ConnectGitLink(previews) ==
  /\ link = "none"
  /\ link' = previews
  /\ UNCHANGED <<deployment, target, queued, hook, accepted, cut>>

DisconnectGitLink ==
  /\ link \in Linked
  /\ link' = "removed"
  /\ UNCHANGED <<deployment, target, queued, hook, accepted, cut>>

\* A delivery is verified with the link's secret and goes on with the link it
\* read.  A preview a link does not want is ignored.
Delivered(h, p) ==
  /\ hook[h] = NoHook
  /\ link \in Linked
  /\ p \in Previews => link = "previews"
  /\ hook' = [hook EXCEPT ![h] = [at |-> "find", push |-> p]]
  /\ UNCHANGED <<link, deployment, target, queued, accepted, cut>>

\* A key that has a row is a replay.
FindDeployment(h) ==
  /\ hook[h].at = "find"
  /\ IF hook[h].push \in deployment THEN Accepts(h)
     ELSE HookGoes(h, "create") /\ UNCHANGED accepted
  /\ UNCHANGED <<link, deployment, target, queued, cut>>

\* The table keeps one row per key: the second of two deliveries fails.
CreateDeployment(h) ==
  LET p == hook[h].push IN
  /\ hook[h].at = "create"
  /\ deployment' = deployment \cup {p}
  /\ IF p \in deployment THEN HookEnds(h)
     ELSE HookGoes(h, IF p \in Previews THEN "target" ELSE "enqueue")
  /\ UNCHANGED <<link, target, queued, accepted, cut>>

\* Faulty: a pull request that has its target needs nothing more.
EnsuredPreviewTarget(h) ==
  /\ hook[h].at = "target"
  /\ target' = TRUE
  /\ IF target THEN Accepts(h) ELSE HookGoes(h, "enqueue") /\ UNCHANGED accepted
  /\ UNCHANGED <<link, deployment, queued, cut>>

\* ensurePreviewTarget: found or created, then the job is enqueued all the same.
EnsurePreviewTarget(h) ==
  /\ hook[h].at = "target"
  /\ target' = TRUE
  /\ HookGoes(h, "enqueue")
  /\ UNCHANGED <<link, deployment, queued, accepted, cut>>

EnqueueJob(h) ==
  /\ hook[h].at = "enqueue"
  /\ queued' = queued \cup {hook[h].push}
  /\ Accepts(h)
  /\ UNCHANGED <<link, deployment, target, cut>>

\* Over the cap, refused, a failing store, or the process stopped.
HookStops(h) ==
  /\ hook[h] # NoHook
  /\ cut' = IF hook[h].at \in {"target", "enqueue"} THEN cut \cup {hook[h].push} ELSE cut
  /\ HookEnds(h)
  /\ UNCHANGED <<link, deployment, target, queued, accepted>>

DeliveryNext ==
  \/ \E previews \in Linked : ConnectGitLink(previews)
  \/ DisconnectGitLink
  \/ \E h \in Hooks :
       \/ \E p \in Pushes : Delivered(h, p)
       \/ FindDeployment(h) \/ CreateDeployment(h) \/ EnsurePreviewTarget(h)
       \/ EnqueueJob(h) \/ HookStops(h)

DeliverySpec == DeliveryInit /\ [][DeliveryNext]_deliveryVars

-----------------------------------------------------------------------------
DeliveryType ==
  /\ link \in {"none", "removed"} \cup Linked
  /\ deployment \subseteq Pushes /\ queued \subseteq Pushes
  /\ target \in BOOLEAN
  /\ hook \in [Hooks -> [at : {"idle", "find", "create", "target", "enqueue"},
                         push : Pushes \cup {NoPush}]]
  /\ accepted \subseteq Pushes /\ cut \subseteq Pushes

\* A push that was answered as deployed or as replayed has its job, or another
\* delivery of it is about to enqueue one - unless that request was cut short
\* after it wrote the row: the provider's retry is then a replay and no job
\* ever exists (git-hook.ts:310).
AcceptedIsQueued ==
  \A p \in accepted :
    \/ p \in queued
    \/ \E h \in Hooks : hook[h].push = p /\ hook[h].at \in {"target", "enqueue"}
    \/ p \in cut
=============================================================================
