----------------------------- MODULE EdgePostures -----------------------------
(***************************************************************************)
(* Deployment protection: the posture a customer gives a project           *)
(* (saveDeploymentProtection), and how it reaches the fragment of each     *)
(* hostname in the artifacts the edge is sent.  The API compiles one when  *)
(* it publishes a verified hostname, the worker when it applies the        *)
(* policy; a process reads a posture and its password digest in two reads, *)
(* and keeps the protected ones it has compiled (edge-loaders.ts).  The    *)
(* two processes share only the tables, so one stands for either.          *)
(***************************************************************************)
EXTENDS Naturals, FiniteSets

CONSTANTS
  Sites, NoSite,      \* verified or verifiable hostnames
  Projects, ProjectOf,
  PostureRequests,    \* saves served at a time
  MaxPostures         \* bound: saves

ASSUME PosturesAssumption ==
  /\ ProjectOf \in [Sites -> Projects] /\ Projects # {} /\ NoSite \notin Sites
  /\ MaxPostures \in Nat

VARIABLES
  posture,     \* project -> its row; no row is an open one
  saved,       \* saves begun
  saver,       \* request -> its place and the row it will write
  policied,    \* a policy has been saved
  verified,    \* the verified hostnames
  compiler,    \* the process: its place, the hostnames left, the fragments so far
  remembered,  \* project -> the posture the process keeps, if any
  were,        \* history: project -> what its posture was since the load began
  had,         \* history: project -> the postures it has had
  torn         \* history: projects saved between the two reads of one posture

tablesVars == <<posture, saved, saver, policied, verified>>
compilerVars == <<compiler, remembered>>
postureHistory == <<were, had, torn>>
postureVars == <<tablesVars, compilerVars, postureHistory>>

\* text and digest are the saves that wrote the user or the addresses, and the password.
Open == [mode |-> "none", text |-> 0, digest |-> 0]
NoRow == [mode |-> "none", text |-> 0, digest |-> 0, lapsed |-> FALSE]
Unread == [mode |-> "unread", text |-> 0, digest |-> 0]
NoSave == [at |-> "idle", project |-> CHOOSE p \in Projects : TRUE, row |-> NoRow]
NoLoad == [at |-> "idle", first |-> NoSite, left |-> {}, listed |-> FALSE, host |-> NoSite,
           row |-> NoRow, got |-> [h \in Sites |-> Unread]]

\* compiledProtectionFor: a lapsed posture is open, and so is a password without a digest.
CompiledFrom(row, digest) ==
  IF row.lapsed \/ row.mode = "none" \/ (row.mode = "password" /\ digest = 0)
  THEN Open
  ELSE [mode |-> row.mode, text |-> row.text, digest |-> IF row.mode = "ip" THEN 0 ELSE digest]

Effective(row) == CompiledFrom(row, row.digest)

PostureInit ==
  /\ posture = [p \in Projects |-> NoRow]
  /\ saved = 0
  /\ saver = [r \in PostureRequests |-> NoSave]
  /\ policied = FALSE
  /\ verified = {}
  /\ compiler = NoLoad
  /\ remembered = [p \in Projects |-> Unread]
  /\ were = [p \in Projects |-> {}]
  /\ had = [p \in Projects |-> {}]
  /\ torn = {}

-----------------------------------------------------------------------------
(* saveDeploymentProtection. *)

\* The stored posture is read first: a password may be left out of a save only
\* if there is one.
SaveProtection(r, p, mode, keep) ==
  /\ saver[r] = NoSave /\ saved < MaxPostures
  /\ keep => mode = "password" /\ posture[p].mode = "password"
  /\ saved' = saved + 1
  /\ LET row == [mode |-> mode, text |-> IF mode = "none" THEN 0 ELSE saved',
                 digest |-> IF mode = "password" THEN saved' ELSE 0, lapsed |-> FALSE]
     IN saver' = [saver EXCEPT ![r] =
                    [at |-> IF keep THEN "digest" ELSE "write", project |-> p, row |-> row]]
  /\ UNCHANGED <<posture, policied, verified, compilerVars, postureHistory>>

\* The digest to keep is read by itself; none is refused.
SaveReadsDigest(r) ==
  /\ saver[r].at = "digest"
  /\ LET digest == posture[saver[r].project].digest
     IN saver' = [saver EXCEPT ![r] = IF digest = 0 THEN NoSave
                                      ELSE [@ EXCEPT !.at = "write", !.row.digest = digest]]
  /\ UNCHANGED <<posture, saved, policied, verified, compilerVars, postureHistory>>

\* The row becomes what it is from now on, for the loads under way.
PostureBecomes(p, row) ==
  /\ posture' = [posture EXCEPT ![p] = row]
  /\ had' = [had EXCEPT ![p] = @ \cup {Effective(row)}]
  /\ were' = IF compiler = NoLoad THEN were ELSE [were EXCEPT ![p] = @ \cup {Effective(row)}]
  /\ torn' = IF compiler.at = "digest" /\ ProjectOf[compiler.host] = p
             THEN torn \cup {p} ELSE torn

SaveWritesRow(r) ==
  /\ saver[r].at = "write"
  /\ PostureBecomes(saver[r].project, saver[r].row)
  /\ saver' = [saver EXCEPT ![r] = NoSave]
  /\ UNCHANGED <<saved, policied, verified, compilerVars>>

\* A posture with an expiry passes it.
PostureLapses(p) ==
  /\ posture[p].mode # "none" /\ ~posture[p].lapsed
  /\ PostureBecomes(p, [posture[p] EXCEPT !.lapsed = TRUE])
  /\ UNCHANGED <<saved, saver, policied, verified, compilerVars>>

PolicyIsSaved ==
  /\ ~policied
  /\ policied' = TRUE
  /\ UNCHANGED <<posture, saved, saver, verified, compilerVars, postureHistory>>

-----------------------------------------------------------------------------
(* The loaders of one process. *)

Begins(load) ==
  /\ compiler = NoLoad
  /\ compiler' = load
  /\ were' = [p \in Projects |-> {Effective(posture[p])}]
  /\ UNCHANGED <<posture, saved, saver, policied, remembered, had, torn>>

\* A hostname is marked verified and published: its route is loaded first.
PublishRoute(h) ==
  /\ Begins([NoLoad EXCEPT !.at = "posture", !.first = h, !.left = {h}])
  /\ verified' = verified \cup {h}

\* The worker applies a stored policy, if there is a hostname to serve.
ApplyPolicy ==
  /\ policied /\ verified # {}
  /\ Begins([NoLoad EXCEPT !.at = "posture", !.left = verified, !.listed = TRUE])
  /\ UNCHANGED verified

\* The hostnames of the policy, once the route is loaded; none if there is no policy.
LoadsPolicyHosts ==
  /\ compiler.at = "posture" /\ compiler.left = {} /\ ~compiler.listed
  /\ compiler' = [compiler EXCEPT !.listed = TRUE, !.left = IF policied THEN verified ELSE {}]
  /\ UNCHANGED <<tablesVars, remembered, postureHistory>>

\* Faulty: an open posture is kept too, and is not read again.
KeepsAll(p, compiled) == [remembered EXCEPT ![p] = compiled]

\* protectionCache: an open posture is stored as undefined, which reads as not kept.
Keeps(p, compiled) ==
  IF compiled = Open THEN remembered ELSE [remembered EXCEPT ![p] = compiled]

\* The published hostname's fragment is the one its own route was loaded with.
HostLoaded(h, compiled) ==
  /\ compiler' = [compiler EXCEPT !.at = "posture", !.left = @ \ {h}, !.host = NoSite,
                                  !.row = NoRow, !.got[h] = IF @ = Unread THEN compiled ELSE @]
  /\ remembered' = Keeps(ProjectOf[h], compiled)
  /\ UNCHANGED <<tablesVars, postureHistory>>

ReadyFor(h) == compiler.at = "posture" /\ h \in compiler.left

HostRemembered(h) ==
  /\ ReadyFor(h) /\ remembered[ProjectOf[h]] # Unread
  /\ HostLoaded(h, remembered[ProjectOf[h]])

HostReadsOpen(h) ==
  /\ ReadyFor(h) /\ remembered[ProjectOf[h]] = Unread
  /\ posture[ProjectOf[h]].mode # "password"
  /\ HostLoaded(h, Effective(posture[ProjectOf[h]]))

\* The digest of a password is a read of its own.
HostReadsPassword(h) ==
  /\ ReadyFor(h) /\ remembered[ProjectOf[h]] = Unread
  /\ posture[ProjectOf[h]].mode = "password"
  /\ compiler' = [compiler EXCEPT !.at = "digest", !.host = h, !.row = posture[ProjectOf[h]]]
  /\ UNCHANGED <<tablesVars, remembered, postureHistory>>

HostReadsDigest ==
  /\ compiler.at = "digest"
  /\ LET h == compiler.host
     IN HostLoaded(h, CompiledFrom(compiler.row, posture[ProjectOf[h]].digest))

\* Every hostname is loaded; the artifact goes to the edge (EdgePolicy).
ArtifactGoes ==
  /\ compiler.at = "posture" /\ compiler.left = {} /\ compiler.listed
  /\ compiler' = NoLoad
  /\ were' = [p \in Projects |-> {}]
  /\ UNCHANGED <<tablesVars, remembered, had, torn>>

\* A process that starts again keeps nothing.
ProcessRestarts ==
  /\ compiler' = NoLoad
  /\ remembered' = [p \in Projects |-> Unread]
  /\ were' = [p \in Projects |-> {}]
  /\ torn' = {}
  /\ UNCHANGED <<tablesVars, had>>

PostureNext ==
  \/ \E r \in PostureRequests :
       \/ \E p \in Projects, mode \in {"none", "password", "ip"}, keep \in BOOLEAN :
            SaveProtection(r, p, mode, keep)
       \/ SaveReadsDigest(r) \/ SaveWritesRow(r)
  \/ \E p \in Projects : PostureLapses(p)
  \/ PolicyIsSaved \/ ApplyPolicy \/ LoadsPolicyHosts
  \/ \E h \in Sites :
       \/ PublishRoute(h)
       \/ HostRemembered(h) \/ HostReadsOpen(h) \/ HostReadsPassword(h)
  \/ HostReadsDigest \/ ArtifactGoes \/ ProcessRestarts

PostureSpec == PostureInit /\ [][PostureNext]_postureVars

-----------------------------------------------------------------------------
Postures == [mode : {"none", "password", "ip", "unread"}, text : 0 .. MaxPostures,
             digest : 0 .. MaxPostures]
Rows == [mode : {"none", "password", "ip"}, text : 0 .. MaxPostures,
         digest : 0 .. MaxPostures, lapsed : BOOLEAN]

PostureType ==
  /\ posture \in [Projects -> Rows]
  /\ saved \in 0 .. MaxPostures
  /\ saver \in [PostureRequests ->
       [at : {"idle", "digest", "write"}, project : Projects, row : Rows]]
  /\ policied \in BOOLEAN /\ verified \subseteq Sites
  /\ compiler \in
       [at : {"idle", "posture", "digest"}, first : Sites \cup {NoSite}, left : SUBSET Sites,
        listed : BOOLEAN, host : Sites \cup {NoSite}, row : Rows, got : [Sites -> Postures]]
  /\ remembered \in [Projects -> Postures]

\* An artifact opens a hostname only if its project's posture was open, or had
\* lapsed, at some moment of the load, or was saved between the two reads of it:
\* what a process keeps never opens one (edge-loaders.ts:194).
OpenedByChoice ==
  \A h \in Sites :
    compiler.got[h] = Open => Open \in were[ProjectOf[h]] \/ ProjectOf[h] \in torn

\* A hostname is protected with a posture its own project has had, user and
\* password of one save, unless one was saved between the two reads of it since
\* the process started.
ProtectedAsSaved ==
  \A h \in Sites :
    compiler.got[h] \in had[ProjectOf[h]] \cup {Open, Unread} \/ ProjectOf[h] \in torn

\* A password posture always has a digest to check against (security.ts:985).
PasswordsHaveDigests ==
  \A p \in Projects : posture[p].mode = "password" => posture[p].digest > 0

PosturesHold == OpenedByChoice /\ ProtectedAsSaved /\ PasswordsHaveDigests
=============================================================================
