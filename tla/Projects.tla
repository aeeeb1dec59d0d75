------------------------------- MODULE Projects -------------------------------
(***************************************************************************)
(* A project and its application on the hosting engine: the request that   *)
(* changes a project's slug, root directory or execution model             *)
(* (organizations.ts), the deployment requests that carry what they read   *)
(* of it in the payload of a job (deployments.ts), and the worker that     *)
(* creates the application at the first deployment and records it          *)
(* (deployment-executor.ts).  The slug names the application and the root  *)
(* directory is what it builds from; the engine can change neither.        *)
(* Outside: the queue, which gives a job to one worker and takes it back   *)
(* when the worker dies; how a deployment goes on once its application is  *)
(* known (DeploymentPipeline); previews, whose application is their own.   *)
(* Bounds: Changes and OwnDirectories, sets of inputs; CarryAttempts.      *)
(***************************************************************************)
EXTENDS Naturals

CONSTANTS Editors,        \* requests that change the project, served at a time
          Orders,         \* deployment requests
          Changes,        \* what editors ask for
          OwnDirectories, \* what deployment requests give for a directory, or Same
          CarryAttempts, Same, NoTarget

Slugs == 1 .. 2
Directories == 0 .. 1     \* 0: the root of the repository
TargetsMade == [name : Slugs, own : BOOLEAN, dir : Directories]

ASSUME ProjectAssumption ==
  /\ Changes \subseteq [slug : Slugs \cup {Same}, root : Directories \cup {Same},
                        model : {"container", "serverless", Same}]
  /\ OwnDirectories \subseteq Directories \cup {Same}
  /\ CarryAttempts \in Nat \ {0} /\ NoTarget \notin TargetsMade

VARIABLES
  project,   \* the row; app is the application it records, if any
  editing,   \* editor -> its place and what it writes
  order,     \* deployment request -> its place, then its job's
  carrier,   \* the worker, with what it read of the project
  raced      \* history: a change met a deployment or an application it had not seen

projectVars == <<project, editing, order, carrier, raced>>

NoEditing == [at |-> "idle"]
NotOrdered == [at |-> "none", slug |-> 1, root |-> 0, own |-> FALSE, tries |-> 0]
Unoccupied == [at |-> "idle"]

\* createProject, with the model and the directory it was given.
ProjectInit ==
  /\ project \in [slug : {1}, root : Directories, model : {"container"}, app : {NoTarget}]
  /\ editing = [r \in Editors |-> NoEditing]
  /\ order = [d \in Orders |-> NotOrdered]
  /\ carrier = Unoccupied
  /\ raced = FALSE

Becomes(old, new) == IF new = Same THEN old ELSE new

\* A change of what the application is made from.
Retargets(c) ==
  \/ Becomes(project.slug, c.slug) # project.slug
  \/ Becomes(project.root, c.root) # project.root

Unfinished(d) == order[d].at \in {"asking", "queued", "carried"}

-----------------------------------------------------------------------------
(* Changes. *)

\* Faulty: any change is accepted.
AnyChange(c) == TRUE

\* Neither can change once the application is recorded.
MayChange(c) == Retargets(c) => project.app = NoTarget

UpdateReads(r, c) ==
  /\ editing[r] = NoEditing
  /\ MayChange(c)
  /\ editing' = [editing EXCEPT ![r] = [at |-> "write", change |-> c, app |-> project.app]]
  /\ UNCHANGED <<project, order, carrier, raced>>

\* The fields that were given are written, whatever the row has become.
UpdateWrites(r) ==
  LET c == editing[r].change IN
  /\ editing[r].at = "write"
  /\ project' = [project EXCEPT !.slug = Becomes(@, c.slug), !.root = Becomes(@, c.root),
                                !.model = Becomes(@, c.model)]
  /\ raced' = \/ raced
              \/ Retargets(c) /\ (editing[r].app # project.app \/ \E d \in Orders : Unfinished(d))
  /\ editing' = [editing EXCEPT ![r] = NoEditing]
  /\ UNCHANGED <<order, carrier>>

UpdateStops(r) ==
  /\ editing[r].at = "write"
  /\ editing' = [editing EXCEPT ![r] = NoEditing]
  /\ UNCHANGED <<project, order, carrier, raced>>

-----------------------------------------------------------------------------
(* Deployments. *)

\* The directory is the request's own, if it gives one, or the project's.
OrderReads(d, asked) ==
  /\ order[d].at = "none"
  /\ order' = [order EXCEPT ![d] =
       [@ EXCEPT !.at = "asking", !.slug = project.slug, !.root = Becomes(project.root, asked),
                 !.own = (asked # Same)]]
  /\ UNCHANGED <<project, editing, carrier, raced>>

OrderEnqueued(d) ==
  /\ order[d].at = "asking"
  /\ order' = [order EXCEPT ![d].at = "queued"]
  /\ UNCHANGED <<project, editing, carrier, raced>>

\* The API process stops before the job is stored.
OrderStops(d) ==
  /\ order[d].at = "asking"
  /\ order' = [order EXCEPT ![d] = [NotOrdered EXCEPT !.at = "ended"]]
  /\ UNCHANGED <<project, editing, carrier, raced>>

OrderTaken(d) ==
  /\ carrier = Unoccupied /\ order[d].at = "queued"
  /\ order' = [order EXCEPT ![d].at = "carried", ![d].tries = @ + 1]
  /\ carrier' = [at |-> "start", job |-> d]
  /\ UNCHANGED <<project, editing, raced>>

\* getProjectDeploymentTargetForService: once, at the start.
TargetRead ==
  /\ carrier.at = "start"
  /\ carrier' = [at |-> IF project.app = NoTarget THEN "create" ELSE "deploy", job |-> carrier.job,
                 root |-> project.root, model |-> project.model]
  /\ UNCHANGED <<project, editing, order, raced>>

\* The application is named after the slug of the request.  A directory the payload
\* leaves out is the project's.
NewApplicationFor(d) ==
  [name |-> order[d].slug, own |-> order[d].own,
   dir |-> IF order[d].root = 0 THEN carrier.root ELSE order[d].root]

ApplicationCreated ==
  /\ carrier.at = "create" /\ carrier.model = "container"
  /\ carrier' = [at |-> "record", job |-> carrier.job, app |-> NewApplicationFor(carrier.job)]
  /\ UNCHANGED <<project, editing, order, raced>>

ApplicationRecorded ==
  /\ carrier.at = "record"
  /\ project' = [project EXCEPT !.app = carrier.app]
  /\ carrier' = [at |-> "deploy", job |-> carrier.job]
  /\ UNCHANGED <<editing, order, raced>>

\* A job that is over, or is taken back to be tried again.
Leaves(place) ==
  /\ place = "queued" => order[carrier.job].tries < CarryAttempts
  /\ order' = [order EXCEPT ![carrier.job] =
       IF place = "queued" THEN [@ EXCEPT !.at = place] ELSE [NotOrdered EXCEPT !.at = place]]
  /\ carrier' = Unoccupied
  /\ UNCHANGED <<project, editing, raced>>

\* The engine refuses, for good or for now; or it creates the application and is not
\* heard.  The serverless engine refuses a function without code, and none is built
\* before.
ApplicationNotCreated ==
  /\ carrier.at = "create"
  /\ \E place \in IF carrier.model = "container" THEN {"queued", "ended"} ELSE {"ended"} :
       Leaves(place)

OrderEnds == carrier.at = "deploy" /\ Leaves("ended")

\* The worker stops anywhere; its job is taken back, or ends if it was the last try.
CarrierDies ==
  /\ carrier # Unoccupied
  /\ Leaves(IF order[carrier.job].tries < CarryAttempts THEN "queued" ELSE "ended")

ProjectNext ==
  \/ \E r \in Editors : (\E c \in Changes : UpdateReads(r, c)) \/ UpdateWrites(r) \/ UpdateStops(r)
  \/ \E d \in Orders :
       \/ \E asked \in OwnDirectories : OrderReads(d, asked)
       \/ OrderEnqueued(d) \/ OrderStops(d) \/ OrderTaken(d)
  \/ TargetRead \/ ApplicationCreated \/ ApplicationRecorded \/ ApplicationNotCreated
  \/ OrderEnds \/ CarrierDies

ProjectSpec == ProjectInit /\ [][ProjectNext]_projectVars

-----------------------------------------------------------------------------
ProjectType ==
  /\ project \in [slug : Slugs, root : Directories, model : {"container", "serverless"},
                  app : TargetsMade \cup {NoTarget}]
  /\ \A r \in Editors : editing[r].at \in {"idle", "write"}
  /\ order \in [Orders -> [at : {"none", "asking", "queued", "carried", "ended"}, slug : Slugs,
                          root : Directories, own : BOOLEAN, tries : 0 .. CarryAttempts]]
  /\ carrier.at \in {"idle", "start", "create", "record", "deploy"}

\* The recorded application has the project's slug for a name, and builds from its
\* directory unless the deployment asked for one of its own (organizations.ts:389-416),
\* where no change met a deployment that was under way, or an application it had
\* not seen.
MadeAsProject ==
  (project.app # NoTarget /\ ~ raced) =>
    /\ project.app.name = project.slug
    /\ project.app.own \/ project.app.dir = project.root
=============================================================================
