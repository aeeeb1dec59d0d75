------------------------------- MODULE EnvVars -------------------------------
(***************************************************************************)
(* The environment variables of one environment of one project: the table  *)
(* that keeps them, the requests that set and remove one (env-vars.ts), the *)
(* sync a deployment runs before it builds (env-sync.ts), and the copy the *)
(* application has on the runtime host, which every build and container is *)
(* given (runtime-server.mjs).                                             *)
(***************************************************************************)
EXTENDS Naturals

CONSTANTS VarKeys,     \* names of variables
          VarRequests, \* API requests served at a time
          MaxSets,     \* bound: values set
          NoVar

ASSUME VarAssumption == MaxSets \in Nat \ {0} /\ NoVar \notin VarKeys

VARIABLES
  stored,    \* key -> the value of its row, Unset without a row
  handle,    \* key -> its row carries the engine's handle
  sets,      \* values set so far
  envApp,    \* the project has an application
  engineEnv, \* key -> the application's copy
  editor,    \* request -> its place, key and value
  sync,      \* the deployment's place, the rows it listed, those still to send
  quiet,     \* history: the sync under way met no refusal and no request
  synced     \* history: a quiet sync ended and nothing was edited since

syncHistory == <<quiet, synced>>
envVars == <<stored, handle, sets, envApp, engineEnv, editor, sync, syncHistory>>

Unset == 0
Values == 0 .. MaxSets
NoEdit == [at |-> "idle", key |-> NoVar, value |-> Unset]
NoSync == [at |-> "idle", rows |-> [k \in VarKeys |-> Unset], left |-> {}]

EnvInit ==
  /\ stored = [k \in VarKeys |-> Unset]
  /\ handle = [k \in VarKeys |-> FALSE]
  /\ sets = 0
  /\ envApp = FALSE
  /\ engineEnv = [k \in VarKeys |-> Unset]
  /\ editor = [r \in VarRequests |-> NoEdit]
  /\ sync = NoSync
  /\ quiet = FALSE
  /\ synced = FALSE

EditGoes(r, place) == editor' = [editor EXCEPT ![r].at = place]
EditEnds(r) == editor' = [editor EXCEPT ![r] = NoEdit]

StartsEdit(r, place, k, value) ==
  /\ editor[r] = NoEdit
  /\ editor' = [editor EXCEPT ![r] = [at |-> place, key |-> k, value |-> value]]
  /\ quiet' = FALSE
  /\ synced' = FALSE

\* setEnvVar: the row is upserted before the engine is asked; its handle stays.
SaveEnvVar(r, k) ==
  /\ sets < MaxSets
  /\ sets' = sets + 1
  /\ StartsEdit(r, "target", k, sets')
  /\ stored' = [stored EXCEPT ![k] = sets']
  /\ UNCHANGED <<handle, envApp, engineEnv, sync>>

\* Without an application the value waits for the first deployment.
SetTarget(r) ==
  /\ editor[r].at = "target"
  /\ IF envApp THEN EditGoes(r, "create") ELSE EditEnds(r)
  /\ UNCHANGED <<stored, handle, sets, envApp, engineEnv, sync, syncHistory>>

CreateEnvVar(r) ==
  /\ editor[r].at = "create"
  /\ engineEnv' = [engineEnv EXCEPT ![editor[r].key] = editor[r].value]
  /\ EditGoes(r, "handle") \/ EditEnds(r)   \* the answer may be lost
  /\ UNCHANGED <<stored, handle, sets, envApp, sync, syncHistory>>

\* A handle is patched by key: onto whatever row there is.
NoteHandle(k) == handle' = [handle EXCEPT ![k] = stored[k] # Unset]

SetEngineRef(r) ==
  /\ editor[r].at = "handle"
  /\ NoteHandle(editor[r].key)
  /\ EditEnds(r)
  /\ UNCHANGED <<stored, sets, envApp, engineEnv, sync, syncHistory>>

\* removeEnvVar: the row is found, then the application, then the handle.
FindEnvVar(r, k) ==
  /\ stored[k] # Unset
  /\ StartsEdit(r, "held", k, Unset)
  /\ UNCHANGED <<stored, handle, sets, envApp, engineEnv, sync>>

GetEngineRef(r) ==
  /\ editor[r].at = "held"
  /\ EditGoes(r, IF envApp /\ handle[editor[r].key] THEN "erase" ELSE "delete")
  /\ UNCHANGED <<stored, handle, sets, envApp, engineEnv, sync, syncHistory>>

\* The runtime host is sent the handle and deletes the variable of that name:
\* there is none, and it answers that it did.
EraseEnvVar(r) ==
  /\ editor[r].at = "erase"
  /\ EditGoes(r, "delete")
  /\ UNCHANGED <<stored, handle, sets, envApp, engineEnv, sync, syncHistory>>

DeleteEnvVar(r) ==
  LET k == editor[r].key IN
  /\ editor[r].at = "delete"
  /\ stored' = [stored EXCEPT ![k] = Unset]
  /\ handle' = [handle EXCEPT ![k] = FALSE]
  /\ EditEnds(r)
  /\ UNCHANGED <<sets, envApp, engineEnv, sync, syncHistory>>

\* The engine refused (the row stays), or the process stopped.
EditStops(r) ==
  /\ editor[r] # NoEdit
  /\ EditEnds(r)
  /\ UNCHANGED <<stored, handle, sets, envApp, engineEnv, sync, syncHistory>>

\* Faulty: a row that has the engine's handle is taken as sent.
SyncListsUnsent ==
  /\ sync = NoSync
  /\ envApp' = TRUE
  /\ quiet' = (\A r \in VarRequests : editor[r] = NoEdit)
  /\ LET rows == {k \in VarKeys : stored[k] # Unset /\ ~handle[k]}
     IN /\ sync' = IF rows = {} THEN NoSync
                   ELSE [at |-> "list", rows |-> stored, left |-> rows]
        /\ synced' = (rows = {} /\ quiet')
  /\ UNCHANGED <<stored, handle, sets, engineEnv, editor>>

\* A deployment has its application, made on the first one, and lists the rows;
\* with none there is nothing to do.
SyncLists ==
  /\ sync = NoSync
  /\ envApp' = TRUE
  /\ quiet' = (\A r \in VarRequests : editor[r] = NoEdit)
  /\ LET rows == {k \in VarKeys : stored[k] # Unset}
     IN /\ sync' = IF rows = {} THEN NoSync
                   ELSE [at |-> "list", rows |-> stored, left |-> rows]
        /\ synced' = (rows = {} /\ quiet')
  /\ UNCHANGED <<stored, handle, sets, engineEnv, editor>>

\* The engine's variables are listed; an engine that cannot be is left alone.
SyncSeesEngine ==
  /\ sync.at = "list"
  /\ \/ sync' = [sync EXCEPT !.at = "send"] /\ UNCHANGED quiet
     \/ sync' = NoSync /\ quiet' = FALSE
  /\ UNCHANGED <<stored, handle, sets, envApp, engineEnv, editor, synced>>

\* Every listed row is sent with the value it was listed with; one the engine
\* refuses, or whose answer is lost, is left to the next deployment.
SyncSends(k) ==
  /\ sync.at = "send" /\ k \in sync.left
  /\ \/ /\ engineEnv' = [engineEnv EXCEPT ![k] = sync.rows[k]]
        /\ \/ NoteHandle(k) /\ UNCHANGED quiet
           \/ quiet' = FALSE /\ UNCHANGED handle
     \/ quiet' = FALSE /\ UNCHANGED <<engineEnv, handle>>
  /\ sync' = [sync EXCEPT !.left = @ \ {k}]
  /\ UNCHANGED <<stored, sets, envApp, editor, synced>>

\* The deployment goes on to build.
SyncEnds ==
  /\ sync.at = "send" /\ sync.left = {}
  /\ sync' = NoSync
  /\ synced' = quiet
  /\ quiet' = FALSE
  /\ UNCHANGED <<stored, handle, sets, envApp, engineEnv, editor>>

\* The worker stops.
SyncDies ==
  /\ sync # NoSync
  /\ sync' = NoSync
  /\ quiet' = FALSE
  /\ UNCHANGED <<stored, handle, sets, envApp, engineEnv, editor, synced>>

EnvNext ==
  \/ \E r \in VarRequests :
       \/ \E k \in VarKeys : SaveEnvVar(r, k) \/ FindEnvVar(r, k)
       \/ SetTarget(r) \/ CreateEnvVar(r) \/ SetEngineRef(r)
       \/ GetEngineRef(r) \/ EraseEnvVar(r) \/ DeleteEnvVar(r)
       \/ EditStops(r)
  \/ SyncLists \/ SyncSeesEngine \/ SyncEnds \/ SyncDies
  \/ \E k \in VarKeys : SyncSends(k)

EnvSpec == EnvInit /\ [][EnvNext]_envVars

-----------------------------------------------------------------------------
EnvType ==
  /\ stored \in [VarKeys -> Values]
  /\ handle \in [VarKeys -> BOOLEAN]
  /\ sets \in Values
  /\ envApp \in BOOLEAN
  /\ engineEnv \in [VarKeys -> Values]
  /\ editor \in [VarRequests ->
       [at : {"idle", "target", "create", "handle", "held", "erase", "delete"},
        key : VarKeys \cup {NoVar}, value : Values]]
  /\ sync \in [at : {"idle", "list", "send"}, rows : [VarKeys -> Values], left : SUBSET VarKeys]
  /\ quiet \in BOOLEAN /\ synced \in BOOLEAN

\* A deployment whose sync met no refusal and no concurrent edit builds with
\* every stored value, the ones the engine had missed or held an older value of
\* included: "the next deploy retries" (env-sync.ts:115).
BuildsWithStored ==
  synced => \A k \in VarKeys : stored[k] # Unset => engineEnv[k] = stored[k]
=============================================================================
