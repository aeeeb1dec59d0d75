------------------------------ MODULE EdgeProofs ------------------------------
(***************************************************************************)
(* Proofs about what the security edge is sent: the postures of protected  *)
(* projects, for any number of hostnames, projects and saves; and the      *)
(* artifact, for any crawlers, rules and trusted sources and any changes   *)
(* during a load.  And the types of everything that stands on the hosts.   *)
(***************************************************************************)
EXTENDS MCHosts, RuntimeProofs, FiniteSetTheorems, WellFoundedInduction, TLAPS

-----------------------------------------------------------------------------
(* Postures.  The histories know what a posture is and what it was during  *)
(* a load; what is read by halves is whole unless it is known to be torn,  *)
(* and a process keeps no open posture.                                    *)

\* A save that keeps a password writes a row with a digest.
SavesHaveDigests ==
  \A r \in PostureRequests :
    /\ saver[r].at = "digest" => saver[r].row.mode = "password"
    /\ saver[r].at # "idle" /\ saver[r].row.mode = "password" => saver[r].row.digest > 0

\* The loader's place: at rest it is as it began; between the two reads it has
\* a hostname.
LoaderPlaces ==
  /\ compiler.at = "idle" => compiler = NoLoad
  /\ compiler.at = "digest" => compiler.host \in Sites

\* What the histories hold of the present: the posture a project has, unless it
\* never had another than the open one, and what it was during the load.
Noted ==
  /\ had \in [Projects -> SUBSET Postures] /\ were \in [Projects -> SUBSET Postures]
  /\ \A p \in Projects :
    /\ Effective(posture[p]) \in had[p] \cup {Open}
    /\ compiler # NoLoad => Effective(posture[p]) \in were[p]

\* What is read by halves is whole, or known to be torn.
ReadWhole ==
  compiler.at = "digest" =>
    \/ compiler.row = posture[ProjectOf[compiler.host]]
    \/ ProjectOf[compiler.host] \in torn

\* A process never keeps an open posture, and keeps none that was not saved.
KeptAsSaved ==
  \A p \in Projects :
    /\ remembered[p] # Open
    /\ remembered[p] \in had[p] \cup {Unread} \/ p \in torn

PostureInv ==
  /\ PostureType /\ SavesHaveDigests /\ LoaderPlaces
  /\ Noted /\ ReadWhole /\ KeptAsSaved
  /\ PosturesHold

LEMMA CompiledTyped ==
  \A row \in Rows, digest \in 0 .. MaxPostures :
    CompiledFrom(row, digest) \in Postures /\ CompiledFrom(row, digest) # Unread
BY PosturesAssumption DEF CompiledFrom, Rows, Postures, Open, Unread

LEMMA EffectiveTyped ==
  \A row \in Rows : Effective(row) \in Postures /\ Effective(row) # Unread
BY CompiledTyped DEF Effective, Rows

LEMMA RestTyped ==
  /\ NoRow \in Rows /\ Open \in Postures /\ Unread \in Postures /\ Open # Unread
  /\ NoLoad.at = "idle" /\ NoLoad.row \in Rows /\ NoLoad.got \in [Sites -> Postures]
  /\ NoLoad \in [at : {"idle", "posture", "digest"}, first : Sites \cup {NoSite}, left : SUBSET Sites,
        listed : BOOLEAN, host : Sites \cup {NoSite}, row : Rows, got : [Sites -> Postures]]
  /\ \A h \in Sites : NoLoad.got[h] = Unread
  /\ NoSave.at = "idle" /\ NoSave \in [at : {"idle", "digest", "write"}, project : Projects, row : Rows]
  /\ Effective(NoRow) = Open
<1> USE PosturesAssumption
<1>1. NoRow \in Rows /\ Open \in Postures /\ Unread \in Postures /\ Open # Unread
  BY DEF NoRow, Rows, Open, Unread, Postures
<1>2. NoSave.at = "idle" /\ NoSave \in [at : {"idle", "digest", "write"}, project : Projects, row : Rows]
  BY <1>1 DEF NoSave
<1>3. Effective(NoRow) = Open
  BY DEF Effective, CompiledFrom, NoRow
<1>4. [h \in Sites |-> Unread] \in [Sites -> Postures]
  BY <1>1
<1> QED BY <1>1, <1>2, <1>3, <1>4 DEF NoLoad

\* A row is written, or lapses: the histories note it.
LEMMA BecomesKeeps ==
  ASSUME PostureInv, NEW p \in Projects, NEW row \in Rows, row.mode = "password" => row.digest > 0,
         PostureBecomes(p, row), UNCHANGED <<saved, policied, verified, compilerVars>>,
         saver' \in [PostureRequests ->
           [at : {"idle", "digest", "write"}, project : Projects, row : Rows]],
         SavesHaveDigests'
  PROVE  PostureInv'
<1> USE PosturesAssumption DEF PostureInv, PostureBecomes, compilerVars
<1>1. PostureType'
  BY DEF PostureType
<1>2. LoaderPlaces'
  BY DEF LoaderPlaces
<1>3. Noted'
  <2> DEFINE now == Effective(row)
  <2>1. /\ had \in [Projects -> SUBSET Postures] /\ were \in [Projects -> SUBSET Postures]
        /\ had' = [had EXCEPT ![p] = @ \cup {now}]
        /\ compiler # NoLoad => were' = [were EXCEPT ![p] = @ \cup {now}]
    BY DEF Noted
  <2>2. posture'[p] = row /\ \A q \in Projects \ {p} : posture'[q] = posture[q]
    BY DEF PostureType
  <2>3. now = Effective(posture'[p])
    BY <2>2
  <2>4. had' \in [Projects -> SUBSET Postures] /\ were' \in [Projects -> SUBSET Postures]
    <3>1. now \in Postures
      BY EffectiveTyped
    <3> QED BY <2>1, <3>1
  <2>5. /\ now \in had'[p] /\ (compiler # NoLoad => now \in were'[p])
        /\ \A q \in Projects \ {p} :
             had'[q] = had[q] /\ (compiler # NoLoad => were'[q] = were[q])
    BY <2>1
  <2> HIDE DEF now
  <2>6. ASSUME NEW q \in Projects
        PROVE  /\ Effective(posture'[q]) \in had'[q] \cup {Open}
               /\ compiler # NoLoad => Effective(posture'[q]) \in were'[q]
    <3>1. CASE q = p
      BY <2>3, <2>5, <3>1
    <3>2. CASE q # p
      BY <2>2, <2>5, <3>2 DEF Noted
    <3> QED BY <3>1, <3>2
  <2> QED BY <2>4, <2>6 DEF Noted, Effective
<1>4. ReadWhole'
  BY DEF ReadWhole, PostureType, LoaderPlaces
<1>5. KeptAsSaved'
  BY DEF KeptAsSaved, PostureType
<1>6. OpenedByChoice'
  BY DEF OpenedByChoice, PosturesHold, PostureType
<1>7. ProtectedAsSaved'
  BY DEF ProtectedAsSaved, PosturesHold, PostureType
<1>8. PasswordsHaveDigests'
  BY DEF PasswordsHaveDigests, PosturesHold, PostureType
<1> QED BY <1>1, <1>2, <1>3, <1>4, <1>5, <1>6, <1>7, <1>8 DEF PosturesHold

\* A hostname's fragment is put together from a posture its project has.
LEMMA LoadedKeeps ==
  ASSUME PostureInv, NEW h \in Sites, compiler.at # "idle", NEW compiled \in Postures,
         compiled # Unread, HostLoaded(h, compiled),
         ProjectOf[h] \in torn \/ compiled \in had[ProjectOf[h]] \cup {Open},
         compiled = Open => ProjectOf[h] \in torn \/ Open \in were[ProjectOf[h]]
  PROVE  PostureInv'
<1> USE PosturesAssumption, RestTyped DEF PostureInv, HostLoaded, tablesVars, postureHistory
<1>1. PostureType'
  <2>1. remembered' \in [Projects -> Postures]
    BY DEF PostureType, Keeps
  <2>2. [compiler.got EXCEPT ![h] = IF @ = Unread THEN compiled ELSE @] \in [Sites -> Postures]
    BY DEF PostureType
  <2> QED BY <2>1, <2>2 DEF PostureType
<1>2. SavesHaveDigests'
  BY DEF SavesHaveDigests
<1>3. LoaderPlaces'
  BY DEF LoaderPlaces, PostureType
<1>4. Noted'
  BY DEF Noted, Effective, PostureType
<1>5. ReadWhole'
  BY DEF ReadWhole, PostureType
<1>6. KeptAsSaved'
  BY DEF KeptAsSaved, PostureType, Keeps
<1>7. OpenedByChoice'
  BY DEF OpenedByChoice, PosturesHold, PostureType
<1>8. ProtectedAsSaved'
  BY DEF ProtectedAsSaved, PosturesHold, PostureType
<1>9. PasswordsHaveDigests'
  BY DEF PasswordsHaveDigests, PosturesHold
<1> QED BY <1>1, <1>2, <1>3, <1>4, <1>5, <1>6, <1>7, <1>8, <1>9 DEF PosturesHold

LEMMA SaveProtectionKeeps == ASSUME PostureInv, NEW r \in PostureRequests, NEW p \in Projects, NEW mode \in {"none", "password", "ip"}, NEW keep \in BOOLEAN, SaveProtection(r, p, mode, keep) PROVE PostureInv'
<1> USE PosturesAssumption, RestTyped DEF PostureInv, SaveProtection
<1>1. PostureType'
  BY DEF PostureType, Rows, tablesVars, compilerVars, postureHistory
<1>2. SavesHaveDigests'
  BY DEF SavesHaveDigests, PostureType, Rows, PosturesHold, PasswordsHaveDigests, tablesVars, compilerVars, postureHistory
<1>3. LoaderPlaces'
  BY DEF LoaderPlaces, PostureType, tablesVars, compilerVars, postureHistory
<1>4. Noted'
  BY DEF Noted, Effective, PostureType, tablesVars, compilerVars, postureHistory
<1>5. ReadWhole'
  BY DEF ReadWhole, PostureType, tablesVars, compilerVars, postureHistory
<1>6. KeptAsSaved'
  BY DEF KeptAsSaved, PostureType, tablesVars, compilerVars, postureHistory
<1>7. PosturesHold'
  BY DEF PosturesHold, OpenedByChoice, ProtectedAsSaved, PasswordsHaveDigests, PostureType, tablesVars, compilerVars, postureHistory
<1> QED BY <1>1, <1>2, <1>3, <1>4, <1>5, <1>6, <1>7

\* A save that gains a digest is a save.
LEMMA DigestedTyped ==
  ASSUME NEW s, s \in [at : {"idle", "digest", "write"}, project : Projects, row : Rows],
         NEW digest, digest \in 0 .. MaxPostures
  PROVE  [s EXCEPT !.at = "write", !.row.digest = digest]
           \in [at : {"idle", "digest", "write"}, project : Projects, row : Rows]
<1>1. PICK row : row = [s.row EXCEPT !.digest = digest]
  OBVIOUS
<1>2. row \in Rows
  BY <1>1 DEF Rows
<1> QED BY <1>1, <1>2

LEMMA SaveReadsDigestKeeps == ASSUME PostureInv, NEW r \in PostureRequests, SaveReadsDigest(r) PROVE PostureInv'
<1> USE PosturesAssumption, RestTyped DEF PostureInv, SaveReadsDigest
<1>1. PostureType'
  <2> DEFINE digest == posture[saver[r].project].digest
             new == IF digest = 0 THEN NoSave
                    ELSE [saver[r] EXCEPT !.at = "write", !.row.digest = digest]
  <2>1. saver[r] \in [at : {"idle", "digest", "write"}, project : Projects, row : Rows]
    BY DEF PostureType
  <2>2. digest \in 0 .. MaxPostures
    BY <2>1 DEF PostureType, Rows
  <2>3. NoSave \in [at : {"idle", "digest", "write"}, project : Projects, row : Rows]
    BY RestTyped
  <2>4. new \in [at : {"idle", "digest", "write"}, project : Projects, row : Rows]
    BY <2>1, <2>2, <2>3, DigestedTyped
  <2>5. saver' = [saver EXCEPT ![r] = new]
    OBVIOUS
  <2> QED BY <2>4, <2>5 DEF PostureType, tablesVars, compilerVars, postureHistory
<1>2. SavesHaveDigests'
  BY DEF SavesHaveDigests, PostureType, Rows, PosturesHold, PasswordsHaveDigests, tablesVars, compilerVars, postureHistory
<1>3. LoaderPlaces'
  BY DEF LoaderPlaces, PostureType, tablesVars, compilerVars, postureHistory
<1>4. Noted'
  BY DEF Noted, Effective, PostureType, tablesVars, compilerVars, postureHistory
<1>5. ReadWhole'
  BY DEF ReadWhole, PostureType, tablesVars, compilerVars, postureHistory
<1>6. KeptAsSaved'
  BY DEF KeptAsSaved, PostureType, tablesVars, compilerVars, postureHistory
<1>7. PosturesHold'
  BY DEF PosturesHold, OpenedByChoice, ProtectedAsSaved, PasswordsHaveDigests, PostureType, tablesVars, compilerVars, postureHistory
<1> QED BY <1>1, <1>2, <1>3, <1>4, <1>5, <1>6, <1>7

LEMMA PolicyIsSavedKeeps == ASSUME PostureInv, PolicyIsSaved PROVE PostureInv'
<1> USE PosturesAssumption, RestTyped DEF PostureInv, PolicyIsSaved
<1>1. PostureType'
  BY DEF PostureType, Rows, tablesVars, compilerVars, postureHistory
<1>2. SavesHaveDigests'
  BY DEF SavesHaveDigests, PostureType, Rows, PosturesHold, PasswordsHaveDigests, tablesVars, compilerVars, postureHistory
<1>3. LoaderPlaces'
  BY DEF LoaderPlaces, PostureType, tablesVars, compilerVars, postureHistory
<1>4. Noted'
  BY DEF Noted, Effective, PostureType, tablesVars, compilerVars, postureHistory
<1>5. ReadWhole'
  BY DEF ReadWhole, PostureType, tablesVars, compilerVars, postureHistory
<1>6. KeptAsSaved'
  BY DEF KeptAsSaved, PostureType, tablesVars, compilerVars, postureHistory
<1>7. PosturesHold'
  BY DEF PosturesHold, OpenedByChoice, ProtectedAsSaved, PasswordsHaveDigests, PostureType, tablesVars, compilerVars, postureHistory
<1> QED BY <1>1, <1>2, <1>3, <1>4, <1>5, <1>6, <1>7

LEMMA ApplyPolicyKeeps == ASSUME PostureInv, ApplyPolicy PROVE PostureInv'
<1> USE PosturesAssumption, RestTyped DEF PostureInv, ApplyPolicy, Begins
<1>1. PostureType'
  BY DEF PostureType, Rows, tablesVars, compilerVars, postureHistory
<1>2. SavesHaveDigests'
  BY DEF SavesHaveDigests, PostureType, Rows, PosturesHold, PasswordsHaveDigests, tablesVars, compilerVars, postureHistory
<1>3. LoaderPlaces'
  BY DEF LoaderPlaces, PostureType, tablesVars, compilerVars, postureHistory
<1>4. Noted'
  BY DEF Noted, Effective, PostureType, tablesVars, compilerVars, postureHistory
<1>5. ReadWhole'
  BY DEF ReadWhole, PostureType, tablesVars, compilerVars, postureHistory
<1>6. KeptAsSaved'
  BY DEF KeptAsSaved, PostureType, tablesVars, compilerVars, postureHistory
<1>7. PosturesHold'
  BY DEF PosturesHold, OpenedByChoice, ProtectedAsSaved, PasswordsHaveDigests, PostureType, tablesVars, compilerVars, postureHistory
<1> QED BY <1>1, <1>2, <1>3, <1>4, <1>5, <1>6, <1>7

LEMMA PublishRouteKeeps == ASSUME PostureInv, NEW h \in Sites, PublishRoute(h) PROVE PostureInv'
<1> USE PosturesAssumption, RestTyped DEF PostureInv, PublishRoute, Begins
<1>1. PostureType'
  BY DEF PostureType, Rows, tablesVars, compilerVars, postureHistory
<1>2. SavesHaveDigests'
  BY DEF SavesHaveDigests, PostureType, Rows, PosturesHold, PasswordsHaveDigests, tablesVars, compilerVars, postureHistory
<1>3. LoaderPlaces'
  BY DEF LoaderPlaces, PostureType, tablesVars, compilerVars, postureHistory
<1>4. Noted'
  BY DEF Noted, Effective, PostureType, tablesVars, compilerVars, postureHistory
<1>5. ReadWhole'
  BY DEF ReadWhole, PostureType, tablesVars, compilerVars, postureHistory
<1>6. KeptAsSaved'
  BY DEF KeptAsSaved, PostureType, tablesVars, compilerVars, postureHistory
<1>7. PosturesHold'
  BY DEF PosturesHold, OpenedByChoice, ProtectedAsSaved, PasswordsHaveDigests, PostureType, tablesVars, compilerVars, postureHistory
<1> QED BY <1>1, <1>2, <1>3, <1>4, <1>5, <1>6, <1>7

LEMMA LoadsPolicyHostsKeeps == ASSUME PostureInv, LoadsPolicyHosts PROVE PostureInv'
<1> USE PosturesAssumption, RestTyped DEF PostureInv, LoadsPolicyHosts
<1>1. PostureType'
  BY DEF PostureType, Rows, tablesVars, compilerVars, postureHistory
<1>2. SavesHaveDigests'
  BY DEF SavesHaveDigests, PostureType, Rows, PosturesHold, PasswordsHaveDigests, tablesVars, compilerVars, postureHistory
<1>3. LoaderPlaces'
  BY DEF LoaderPlaces, PostureType, tablesVars, compilerVars, postureHistory
<1>4. Noted'
  BY DEF Noted, Effective, PostureType, tablesVars, compilerVars, postureHistory
<1>5. ReadWhole'
  BY DEF ReadWhole, PostureType, tablesVars, compilerVars, postureHistory
<1>6. KeptAsSaved'
  BY DEF KeptAsSaved, PostureType, tablesVars, compilerVars, postureHistory
<1>7. PosturesHold'
  BY DEF PosturesHold, OpenedByChoice, ProtectedAsSaved, PasswordsHaveDigests, PostureType, tablesVars, compilerVars, postureHistory
<1> QED BY <1>1, <1>2, <1>3, <1>4, <1>5, <1>6, <1>7

LEMMA HostReadsPasswordKeeps == ASSUME PostureInv, NEW h \in Sites, HostReadsPassword(h) PROVE PostureInv'
<1> USE PosturesAssumption, RestTyped DEF PostureInv, HostReadsPassword, ReadyFor
<1>1. PostureType'
  BY DEF PostureType, Rows, tablesVars, compilerVars, postureHistory
<1>2. SavesHaveDigests'
  BY DEF SavesHaveDigests, PostureType, Rows, PosturesHold, PasswordsHaveDigests, tablesVars, compilerVars, postureHistory
<1>3. LoaderPlaces'
  BY DEF LoaderPlaces, PostureType, tablesVars, compilerVars, postureHistory
<1>4. Noted'
  BY DEF Noted, Effective, PostureType, tablesVars, compilerVars, postureHistory
<1>5. ReadWhole'
  BY DEF ReadWhole, PostureType, tablesVars, compilerVars, postureHistory
<1>6. KeptAsSaved'
  BY DEF KeptAsSaved, PostureType, tablesVars, compilerVars, postureHistory
<1>7. PosturesHold'
  BY DEF PosturesHold, OpenedByChoice, ProtectedAsSaved, PasswordsHaveDigests, PostureType, tablesVars, compilerVars, postureHistory
<1> QED BY <1>1, <1>2, <1>3, <1>4, <1>5, <1>6, <1>7

LEMMA ArtifactGoesKeeps == ASSUME PostureInv, ArtifactGoes PROVE PostureInv'
<1> USE PosturesAssumption, RestTyped DEF PostureInv, ArtifactGoes
<1>1. PostureType'
  BY DEF PostureType, Rows, tablesVars, compilerVars, postureHistory
<1>2. SavesHaveDigests'
  BY DEF SavesHaveDigests, PostureType, Rows, PosturesHold, PasswordsHaveDigests, tablesVars, compilerVars, postureHistory
<1>3. LoaderPlaces'
  BY DEF LoaderPlaces, PostureType, tablesVars, compilerVars, postureHistory
<1>4. Noted'
  BY DEF Noted, Effective, PostureType, tablesVars, compilerVars, postureHistory
<1>5. ReadWhole'
  BY DEF ReadWhole, PostureType, tablesVars, compilerVars, postureHistory
<1>6. KeptAsSaved'
  BY DEF KeptAsSaved, PostureType, tablesVars, compilerVars, postureHistory
<1>7. PosturesHold'
  BY DEF PosturesHold, OpenedByChoice, ProtectedAsSaved, PasswordsHaveDigests, PostureType, tablesVars, compilerVars, postureHistory
<1> QED BY <1>1, <1>2, <1>3, <1>4, <1>5, <1>6, <1>7

LEMMA ProcessRestartsKeeps == ASSUME PostureInv, ProcessRestarts PROVE PostureInv'
<1> USE PosturesAssumption, RestTyped DEF PostureInv, ProcessRestarts
<1>1. PostureType'
  BY DEF PostureType, Rows, tablesVars, compilerVars, postureHistory
<1>2. SavesHaveDigests'
  BY DEF SavesHaveDigests, PostureType, Rows, PosturesHold, PasswordsHaveDigests, tablesVars, compilerVars, postureHistory
<1>3. LoaderPlaces'
  BY DEF LoaderPlaces, PostureType, tablesVars, compilerVars, postureHistory
<1>4. Noted'
  BY DEF Noted, Effective, PostureType, tablesVars, compilerVars, postureHistory
<1>5. ReadWhole'
  BY DEF ReadWhole, PostureType, tablesVars, compilerVars, postureHistory
<1>6. KeptAsSaved'
  BY DEF KeptAsSaved, PostureType, tablesVars, compilerVars, postureHistory
<1>7. PosturesHold'
  BY DEF PosturesHold, OpenedByChoice, ProtectedAsSaved, PasswordsHaveDigests, PostureType, tablesVars, compilerVars, postureHistory
<1> QED BY <1>1, <1>2, <1>3, <1>4, <1>5, <1>6, <1>7


LEMMA SaveWritesRowKeeps ==
  ASSUME PostureInv, NEW r \in PostureRequests, SaveWritesRow(r) PROVE PostureInv'
<1>1. saver[r].project \in Projects /\ saver[r].row \in Rows
  BY DEF PostureInv, PostureType
<1>2. saver[r].row.mode = "password" => saver[r].row.digest > 0
  BY DEF PostureInv, SavesHaveDigests, SaveWritesRow
<1>3. saver' \in [PostureRequests ->
        [at : {"idle", "digest", "write"}, project : Projects, row : Rows]]
  BY RestTyped DEF PostureInv, PostureType, SaveWritesRow
<1>4. SavesHaveDigests'
  BY RestTyped DEF PostureInv, PostureType, SavesHaveDigests, SaveWritesRow
<1> QED BY <1>1, <1>2, <1>3, <1>4, BecomesKeeps DEF SaveWritesRow

LEMMA PostureLapsesKeeps ==
  ASSUME PostureInv, NEW p \in Projects, PostureLapses(p) PROVE PostureInv'
<1> DEFINE row == [posture[p] EXCEPT !.lapsed = TRUE]
<1>1. row \in Rows /\ (row.mode = "password" => row.digest > 0)
  BY DEF PostureInv, PostureType, Rows, PosturesHold, PasswordsHaveDigests
<1>2. SavesHaveDigests' /\ saver' = saver
  BY DEF PostureInv, SavesHaveDigests, PostureLapses
<1>3. saver' \in [PostureRequests ->
        [at : {"idle", "digest", "write"}, project : Projects, row : Rows]]
  BY <1>2 DEF PostureInv, PostureType
<1> QED BY <1>1, <1>2, <1>3, BecomesKeeps DEF PostureLapses

LEMMA HostRememberedKeeps ==
  ASSUME PostureInv, NEW h \in Sites, HostRemembered(h) PROVE PostureInv'
<1> DEFINE compiled == remembered[ProjectOf[h]]
<1>1. ProjectOf[h] \in Projects
  BY PosturesAssumption
<1>2. compiled \in Postures /\ compiled # Unread /\ compiled # Open /\ compiler.at # "idle"
  BY <1>1 DEF PostureInv, PostureType, KeptAsSaved, HostRemembered, ReadyFor
<1>3. ProjectOf[h] \in torn \/ compiled \in had[ProjectOf[h]] \cup {Open}
  BY <1>1, <1>2 DEF PostureInv, KeptAsSaved
<1> QED BY <1>2, <1>3, LoadedKeeps DEF HostRemembered

LEMMA HostReadsOpenKeeps ==
  ASSUME PostureInv, NEW h \in Sites, HostReadsOpen(h) PROVE PostureInv'
<1> DEFINE compiled == Effective(posture[ProjectOf[h]])
<1>1. ProjectOf[h] \in Projects /\ posture[ProjectOf[h]] \in Rows
  BY PosturesAssumption DEF PostureInv, PostureType
<1>2. compiled \in Postures /\ compiled # Unread
  BY <1>1, EffectiveTyped
<1>3. compiler.at # "idle" /\ compiler # NoLoad
  BY RestTyped DEF HostReadsOpen, ReadyFor
<1>4. compiled \in had[ProjectOf[h]] \cup {Open} /\ compiled \in were[ProjectOf[h]]
  BY <1>1, <1>3 DEF PostureInv, Noted
<1> QED BY <1>2, <1>3, <1>4, LoadedKeeps DEF HostReadsOpen

LEMMA HostReadsDigestKeeps ==
  ASSUME PostureInv, HostReadsDigest PROVE PostureInv'
<1> DEFINE h == compiler.host
           p == ProjectOf[h]
           compiled == CompiledFrom(compiler.row, posture[p].digest)
<1>1. h \in Sites /\ p \in Projects /\ compiler.row \in Rows /\ posture[p].digest \in 0 .. MaxPostures
  BY PosturesAssumption DEF PostureInv, PostureType, LoaderPlaces, HostReadsDigest, Rows
<1>2. compiled \in Postures /\ compiled # Unread
  BY <1>1, CompiledTyped
<1>3. compiler.at # "idle" /\ compiler # NoLoad
  BY RestTyped DEF HostReadsDigest
<1>4. p \in torn \/ compiled = Effective(posture[p])
  BY DEF PostureInv, ReadWhole, HostReadsDigest, Effective
<1>5. p \in torn \/ (compiled \in had[p] \cup {Open} /\ compiled \in were[p])
  BY <1>1, <1>3, <1>4 DEF PostureInv, Noted
<1>6. HostLoaded(h, compiled)
  BY DEF HostReadsDigest
<1> QED BY <1>1, <1>2, <1>3, <1>5, <1>6, LoadedKeeps

LEMMA PostureBegins == PostureInit => PostureInv
<1> SUFFICES ASSUME PostureInit PROVE PostureInv
  OBVIOUS
<1> USE PosturesAssumption, RestTyped DEF PostureInit
<1>1. PostureType
  <2>1. posture \in [Projects -> Rows] /\ remembered \in [Projects -> Postures]
    OBVIOUS
  <2>2. saver \in [PostureRequests ->
          [at : {"idle", "digest", "write"}, project : Projects, row : Rows]]
    OBVIOUS
  <2>3. saved \in 0 .. MaxPostures
    OBVIOUS
  <2> QED BY <2>1, <2>2, <2>3 DEF PostureType
<1>2. SavesHaveDigests /\ LoaderPlaces
  BY DEF SavesHaveDigests, LoaderPlaces
<1>3. Noted /\ ReadWhole /\ KeptAsSaved
  BY DEF Noted, ReadWhole, KeptAsSaved
<1>4. PosturesHold
  BY DEF PosturesHold, OpenedByChoice, ProtectedAsSaved, PasswordsHaveDigests, NoRow
<1> QED BY <1>1, <1>2, <1>3, <1>4 DEF PostureInv

LEMMA PostureGoesOn == PostureInv /\ [PostureNext]_postureVars => PostureInv'
<1> SUFFICES ASSUME PostureInv, [PostureNext]_postureVars PROVE PostureInv'
  OBVIOUS
<1>1. CASE \E r \in PostureRequests :
             \/ \E p \in Projects, mode \in {"none", "password", "ip"}, keep \in BOOLEAN :
                  SaveProtection(r, p, mode, keep)
             \/ SaveReadsDigest(r) \/ SaveWritesRow(r)
  BY <1>1, SaveProtectionKeeps, SaveReadsDigestKeeps, SaveWritesRowKeeps
<1>2. CASE \E p \in Projects : PostureLapses(p)
  BY <1>2, PostureLapsesKeeps
<1>3. CASE PolicyIsSaved \/ ApplyPolicy \/ LoadsPolicyHosts
  BY <1>3, PolicyIsSavedKeeps, ApplyPolicyKeeps, LoadsPolicyHostsKeeps
<1>4. CASE \E h \in Sites :
             \/ PublishRoute(h)
             \/ HostRemembered(h) \/ HostReadsOpen(h) \/ HostReadsPassword(h)
  BY <1>4, PublishRouteKeeps, HostRememberedKeeps, HostReadsOpenKeeps, HostReadsPasswordKeeps
<1>5. CASE HostReadsDigest \/ ArtifactGoes \/ ProcessRestarts
  BY <1>5, HostReadsDigestKeeps, ArtifactGoesKeeps, ProcessRestartsKeeps
<1>6. CASE UNCHANGED postureVars
  BY <1>6 DEF postureVars, tablesVars, compilerVars, postureHistory, PostureInv, PostureType,
       SavesHaveDigests, LoaderPlaces, Noted, ReadWhole, KeptAsSaved, PosturesHold,
       OpenedByChoice, ProtectedAsSaved, PasswordsHaveDigests
<1> QED BY <1>1, <1>2, <1>3, <1>4, <1>5, <1>6 DEF PostureNext

LEMMA PostureAlways == PostureSpec => []PostureInv
BY PostureBegins, PostureGoesOn, PTL DEF PostureSpec

\* The posture rows, the saves and the loader always are of their types.
THEOREM PostureTypeAlways == PostureSpec => []PostureType
<1>1. PostureInv => PostureType
  BY DEF PostureInv
<1> QED BY <1>1, PostureAlways, PTL

\* What the edge is sent for a hostname opens it only if its project's posture
\* was open during the load, and protects it with one that was saved, except
\* where a save came between the two reads of it; a password posture always has
\* a digest (edge-loaders.ts:194, security.ts:985).
THEOREM PosturesHoldAlways == PostureSpec => []PosturesHold
<1>1. PostureInv => PosturesHold
  BY DEF PostureInv
<1> QED BY <1>1, PostureAlways, PTL

-----------------------------------------------------------------------------
(* What the artifact makes the edge do.  The walk and the flattened lists   *)
(* are recursive functions, and their proofs are inductions over the        *)
(* naturals: through the least number a property would not hold of, whose   *)
(* existence the well-foundedness of < gives.                               *)

\* What holds of zero and goes on from a number to the next holds of all.
LEMMA Least == ASSUME NEW T, T \subseteq Nat, T # {} PROVE \E m \in T : \A n \in T : m <= n
<1> DEFINE R == OpToRel(<, Nat)
<1>1. IsWellFoundedOn(R, Nat)
  BY NatLessThanWellFounded
<1>2. \A m, n \in Nat : n < m => <<n, m>> \in R
  BY DEF OpToRel
<1> HIDE DEF R
<1>3. PICK m \in T : \A n \in T : ~ (<<n, m>> \in R)
  BY <1>1, WFMin
<1>4. \A n \in T : n \in Nat /\ m \in Nat /\ ~ (n < m)
  BY <1>2, <1>3
<1> QED BY <1>4

LEMMA GoesOnForAll ==
  ASSUME NEW T, 0 \in T, \A n \in Nat : n \in T => n + 1 \in T
  PROVE  \A n \in Nat : n \in T
<1> SUFFICES ASSUME Nat \ T # {} PROVE FALSE
  OBVIOUS
<1>1. PICK m \in Nat \ T : \A n \in Nat \ T : m <= n
  BY Least
<1>2. m # 0 /\ m - 1 \in Nat
  BY <1>1
<1>3. m - 1 \in T
  BY <1>1, <1>2
<1> QED BY <1>1, <1>2, <1>3

\* The walk of the directives, line by line.
IsWalk(f, directives, request, n) ==
  f = [k \in 0 .. n |-> IF k = 0 THEN Entered ELSE Take(directives[k], request, f[k - 1])]

LEMMA WalkExists ==
  ASSUME NEW directives, NEW request, NEW len \in Nat
  PROVE  \E f : IsWalk(f, directives, request, len)
<1> DEFINE T == {n \in Nat : \E f : IsWalk(f, directives, request, n)}
<1>1. 0 \in T
  <2>1. PICK f : f = [k \in 0 .. 0 |-> Entered]
    OBVIOUS
  <2>2. IsWalk(f, directives, request, 0)
    BY <2>1 DEF IsWalk
  <2> QED BY <2>2
<1>2. ASSUME NEW n \in Nat, n \in T PROVE n + 1 \in T
  <2>1. PICK f : IsWalk(f, directives, request, n)
    BY <1>2
  <2>2. PICK last : last = Take(directives[n + 1], request, f[n])
    OBVIOUS
  <2>3. PICK g : g = [k \in 0 .. n + 1 |-> IF k = n + 1 THEN last ELSE f[k]]
    OBVIOUS
  <2>4. \A k \in 0 .. n : f[k] = IF k = 0 THEN Entered ELSE Take(directives[k], request, f[k - 1])
    BY <2>1 DEF IsWalk
  <2>5. \A k \in 0 .. n + 1 : g[k] = IF k = 0 THEN Entered ELSE Take(directives[k], request, g[k - 1])
    <3> TAKE k \in 0 .. n + 1
    <3>1. CASE k = n + 1
      <4>1. g[k] = last /\ g[k - 1] = f[n] /\ k # 0
        BY <2>3, <3>1
      <4> QED BY <2>2, <3>1, <4>1
    <3>2. CASE k = 0
      BY <2>3, <2>4, <3>2
    <3>3. CASE k \in 1 .. n
      <4>1. g[k] = f[k] /\ g[k - 1] = f[k - 1] /\ k # 0 /\ k \in 0 .. n
        BY <2>3, <3>3
      <4> QED BY <2>4, <4>1
    <3> QED BY <3>1, <3>2, <3>3
  <2>6. IsWalk(g, directives, request, n + 1)
    BY <2>3, <2>5 DEF IsWalk
  <2> QED BY <2>6
<1> HIDE DEF T
<1>3. \A n \in Nat : n \in T
  BY <1>1, <1>2, GoesOnForAll
<1> QED BY <1>3 DEF T

LEMMA DeniedByWalk ==
  ASSUME NEW directives, Len(directives) \in Nat, NEW request
  PROVE  \E f : /\ f[0] = Entered
                /\ \A k \in 1 .. Len(directives) : f[k] = Take(directives[k], request, f[k - 1])
                /\ Denied(directives, request) = f[Len(directives)].denied
<1> DEFINE f == CHOOSE walk : IsWalk(walk, directives, request, Len(directives))
<1>1. IsWalk(f, directives, request, Len(directives))
  BY WalkExists
<1>2. Denied(directives, request) = f[Len(directives)].denied
  BY DEF Denied, IsWalk
<1> HIDE DEF f
<1>3. f[0] = Entered /\ \A k \in 1 .. Len(directives) : f[k] = Take(directives[k], request, f[k - 1])
  BY <1>1 DEF IsWalk
<1> QED BY <1>2, <1>3

\* Pieces put one after the other, piece by piece.
IsFlat(g, pieces, n) ==
  g = [i \in 1 .. n |-> IF i = 1 THEN pieces[i] ELSE g[i - 1] \o pieces[i]]

LEMMA FlatExists ==
  ASSUME NEW pieces, NEW len \in Nat
  PROVE  \E g : IsFlat(g, pieces, len)
<1> DEFINE T == {n \in Nat : \E g : IsFlat(g, pieces, n)}
<1>1. 0 \in T
  <2>1. PICK g : g = [i \in 1 .. 0 |-> pieces[i]]
    OBVIOUS
  <2>2. IsFlat(g, pieces, 0)
    BY <2>1 DEF IsFlat
  <2> QED BY <2>2
<1>2. ASSUME NEW n \in Nat, n \in T PROVE n + 1 \in T
  <2>1. PICK f : IsFlat(f, pieces, n)
    BY <1>2
  <2>2. PICK last : last = IF n = 0 THEN pieces[n + 1] ELSE f[n] \o pieces[n + 1]
    OBVIOUS
  <2>3. PICK g : g = [i \in 1 .. n + 1 |-> IF i = n + 1 THEN last ELSE f[i]]
    OBVIOUS
  <2>4. \A i \in 1 .. n : f[i] = IF i = 1 THEN pieces[i] ELSE f[i - 1] \o pieces[i]
    BY <2>1 DEF IsFlat
  <2>5. \A i \in 1 .. n + 1 : g[i] = IF i = 1 THEN pieces[i] ELSE g[i - 1] \o pieces[i]
    <3> TAKE i \in 1 .. n + 1
    <3>1. CASE i = n + 1
      <4>1. g[i] = last /\ (i # 1 => g[i - 1] = f[n])
        BY <2>3, <3>1
      <4> QED BY <2>2, <3>1, <4>1
    <3>2. CASE i \in 1 .. n
      <4>1. g[i] = f[i] /\ (i # 1 => g[i - 1] = f[i - 1])
        BY <2>3, <3>2
      <4> QED BY <2>4, <3>2, <4>1
    <3> QED BY <3>1, <3>2
  <2>6. IsFlat(g, pieces, n + 1)
    BY <2>3, <2>5 DEF IsFlat
  <2> QED BY <2>6
<1> HIDE DEF T
<1>3. \A n \in Nat : n \in T
  BY <1>1, <1>2, GoesOnForAll
<1> QED BY <1>3 DEF T

LEMMA FlattenedBySteps ==
  ASSUME NEW S, NEW pieces \in Seq(Seq(S))
  PROVE  \E g : /\ g[0] = << >> /\ \A i \in 1 .. Len(pieces) : g[i] = g[i - 1] \o pieces[i]
                /\ \A i \in 0 .. Len(pieces) : g[i] \in Seq(S)
                /\ FlattenSeq(pieces) = g[Len(pieces)]
<1> DEFINE n == Len(pieces)
           f == CHOOSE flatten : IsFlat(flatten, pieces, n)
<1>0. n \in Nat /\ \A i \in 1 .. n : pieces[i] \in Seq(S)
  OBVIOUS
<1>1. IsFlat(f, pieces, n)
  BY <1>0, FlatExists
<1>2. n # 0 => FlattenSeq(pieces) = f[n]
  BY DEF FlattenSeq, IsFlat
<1>3. n = 0 => FlattenSeq(pieces) = << >>
  BY DEF FlattenSeq
<1> HIDE DEF f
<1>4. \A i \in 1 .. n : f[i] = IF i = 1 THEN pieces[i] ELSE f[i - 1] \o pieces[i]
  BY <1>1 DEF IsFlat
<1>5. PICK g : g = [i \in 0 .. n |-> IF i = 0 THEN << >> ELSE f[i]]
  OBVIOUS
<1>6. \A i \in 1 .. n : g[i] = g[i - 1] \o pieces[i]
  <2> TAKE i \in 1 .. n
  <2>1. CASE i = 1
    <3>1. g[i] = pieces[i] /\ g[i - 1] = << >> /\ pieces[i] \in Seq(S)
      BY <1>0, <1>4, <1>5, <2>1
    <3>2. << >> \o pieces[i] = pieces[i]
      BY <3>1
    <3> QED BY <3>1, <3>2
  <2>2. CASE i # 1
    <3>1. g[i] = f[i] /\ g[i - 1] = f[i - 1]
      BY <1>0, <1>5, <2>2
    <3> QED BY <1>4, <2>2, <3>1
  <2> QED BY <2>1, <2>2
<1>7. \A i \in 0 .. n : g[i] \in Seq(S)
  <2> DEFINE T == {i \in Nat : i <= n => g[i] \in Seq(S)}
  <2>1. 0 \in T
    BY <1>0, <1>5
  <2>2. ASSUME NEW i \in Nat, i \in T PROVE i + 1 \in T
    <3> SUFFICES ASSUME i + 1 <= n PROVE g[i + 1] \in Seq(S)
      OBVIOUS
    <3>1. i + 1 \in 1 .. n /\ (i + 1) - 1 = i /\ i <= n
      BY <1>0
    <3>2. g[i] \in Seq(S) /\ pieces[i + 1] \in Seq(S)
      BY <1>0, <2>2, <3>1
    <3>3. g[i + 1] = g[i] \o pieces[i + 1]
      BY <1>6, <3>1
    <3> QED BY <3>2, <3>3
  <2> HIDE DEF T
  <2>3. \A i \in Nat : i \in T
    BY <2>1, <2>2, GoesOnForAll
  <2> QED BY <1>0, <2>3 DEF T
<1>8. FlattenSeq(pieces) = g[n] /\ g[0] = << >>
  BY <1>0, <1>2, <1>3, <1>5
<1> QED BY <1>6, <1>7, <1>8

\* All lines there are.
AllLines ==
  {BotChain(Bots[i])[j] : i \in DOMAIN Bots, j \in 1 .. 2} \cup {InternalLine}
    \cup {TrustedLine(s) : s \in TrustChoices}
    \cup {DenyChain(r)[j] : r \in DenyChoices, j \in 1 .. 4}
    \cup {WafLines(p)[j] : p \in PolicyChoices, j \in 1 .. 2}

\* s stands in d after the first n lines.
Stands(s, d, n) == n + Len(s) <= Len(d) /\ \A i \in 1 .. Len(s) : d[n + i] = s[i]

LEMMA StandsWhole == ASSUME NEW d \in Seq(AllLines) PROVE Stands(d, d, 0)
BY DEF Stands

LEMMA StandsInParts ==
  ASSUME NEW s \in Seq(AllLines), NEW t \in Seq(AllLines), NEW d \in Seq(AllLines), NEW n \in Nat,
         Stands(s \o t, d, n)
  PROVE  Stands(s, d, n) /\ Stands(t, d, n + Len(s)) /\ Len(s \o t) = Len(s) + Len(t)
<1>1. Len(s \o t) = Len(s) + Len(t) /\ Len(s) \in Nat /\ Len(t) \in Nat /\ Len(d) \in Nat
  OBVIOUS
<1>2. \A i \in 1 .. Len(s) : (s \o t)[i] = s[i]
  OBVIOUS
<1>3. \A i \in 1 .. Len(t) : (s \o t)[Len(s) + i] = t[i]
  OBVIOUS
<1>4. Stands(s, d, n)
  BY <1>1, <1>2 DEF Stands
<1>5. \A i \in 1 .. Len(t) : d[(n + Len(s)) + i] = t[i]
  <2> TAKE i \in 1 .. Len(t)
  <2>1. Len(s) + i \in 1 .. Len(s \o t) /\ n + (Len(s) + i) = (n + Len(s)) + i
    BY <1>1
  <2>2. d[n + (Len(s) + i)] = (s \o t)[Len(s) + i]
    BY <2>1 DEF Stands
  <2> QED BY <1>3, <2>1, <2>2
<1>6. (n + Len(s)) + Len(t) <= Len(d)
  BY <1>1 DEF Stands
<1> QED BY <1>1, <1>4, <1>5, <1>6 DEF Stands

\* What a line tests.
LEMMA Matching ==
  ASSUME NEW line, NEW q, NEW w
  PROVE  /\ line.test = "always" => Matches(line, q, w)
         /\ line.test = "carries" => (Matches(line, q, w) <=> line.on \cap q.traits # {})
         /\ line.test = "unmarked" => (Matches(line, q, w) <=> line.on \cap w.markers = {})
         /\ line.test = "score" => (Matches(line, q, w) <=> q.score >= w.threshold)
BY DEF Matches

\* The lines, field by field.
LEMMA BotFields ==
  ASSUME NEW bot
  PROVE  LET k == BotChain(bot)[1]
             l == BotChain(bot)[2]
         IN  /\ k.test = "carries" /\ k.on = {bot.word} /\ k.sets = {} /\ k.threshold = 0
             /\ k.chain /\ ~ k.deny
             /\ l.test = "carries" /\ l.on = {bot.name} /\ l.sets = {"bot"} /\ l.threshold = 0
             /\ ~ l.chain /\ ~ l.deny
BY DEF BotChain, Carries, Line

LEMMA MarkFields ==
  ASSUME NEW source
  PROVE  LET k == InternalLine
             l == TrustedLine(source)
         IN  /\ k.test = "carries" /\ k.on = {Internal} /\ k.sets = {"internal"} /\ k.threshold = 0
             /\ ~ k.chain /\ ~ k.deny
             /\ l.test = "carries" /\ l.on = source /\ l.sets = {"trusted"} /\ l.threshold = 0
             /\ ~ l.chain /\ ~ l.deny
BY DEF InternalLine, TrustedLine, Carries, Line

LEMMA DenyFields ==
  ASSUME NEW rule
  PROVE  LET j == DenyChain(rule)[1]
             k == DenyChain(rule)[2]
             l == DenyChain(rule)[3]
             m == DenyChain(rule)[4]
         IN  /\ j.test = "carries" /\ j.on = rule /\ j.sets = {} /\ j.threshold = 0
             /\ j.chain /\ j.deny
             /\ k.test = "unmarked" /\ k.on = {"trusted"} /\ k.sets = {} /\ k.threshold = 0
             /\ k.chain /\ ~ k.deny
             /\ l.test = "unmarked" /\ l.on = {"internal"} /\ l.sets = {} /\ l.threshold = 0
             /\ l.chain /\ ~ l.deny
             /\ m.test = "unmarked" /\ m.on = {"bot"} /\ m.sets = {} /\ m.threshold = 0
             /\ ~ m.chain /\ ~ m.deny
BY DEF DenyChain, Carries, Unmarked, Line

LEMMA WafFields ==
  ASSUME NEW choice
  PROVE  LET k == WafLines(choice)[1]
             l == WafLines(choice)[2]
         IN  /\ k.test = "always" /\ k.sets = {} /\ k.threshold = Threshold(choice.risk)
             /\ ~ k.chain /\ ~ k.deny
             /\ l.test = "score" /\ l.sets = {} /\ l.threshold = 0
             /\ ~ l.chain /\ (l.deny <=> Denies(choice.action))
BY DEF WafLines, Line

\* The walk between two entries of the list.
Between(w, marks) == w.markers = marks /\ w.threshold = 5 /\ ~ w.linked

\* A line that can only mark, or only match, and one that is a chain's member.
LEMMA FirstQuiet ==
  ASSUME NEW line, NEW q, NEW w, NEW r, r = Take(line, q, w), ~ w.linked,
         line.threshold = 0, line.test = "carries", ~ line.deny \/ line.chain
  PROVE  /\ line.on \cap q.traits # {} => r.markers = w.markers \cup line.sets
         /\ line.on \cap q.traits = {} => r.markers = w.markers
         /\ r.threshold = w.threshold /\ (r.linked <=> line.chain) /\ (r.deny <=> line.deny)
         /\ r.hit <=> line.on \cap q.traits # {}
         /\ r.denied <=> w.denied
<1>1. Matches(line, q, w) <=> line.on \cap q.traits # {}
  BY Matching
<1>2. r.denied <=> w.denied
  BY DEF Take
<1>3. r.threshold = w.threshold
  <2>1. ~ (line.threshold > 0)
    OBVIOUS
  <2> QED BY <2>1 DEF Take
<1>4. (r.linked <=> line.chain) /\ (r.deny <=> line.deny) /\ (r.hit <=> Matches(line, q, w))
  BY DEF Take
<1>5. r.markers = w.markers \cup (IF Matches(line, q, w) THEN line.sets ELSE {})
  BY DEF Take
<1> QED BY <1>1, <1>2, <1>3, <1>4, <1>5

LEMMA MemberWalked ==
  ASSUME NEW line, NEW q, NEW w, NEW r, r = Take(line, q, w), w.linked, line.threshold = 0
  PROVE  /\ w.hit /\ Matches(line, q, w) => r.markers = w.markers \cup line.sets
         /\ ~ (w.hit /\ Matches(line, q, w)) => r.markers = w.markers
         /\ r.threshold = w.threshold /\ (r.linked <=> line.chain) /\ (r.deny <=> w.deny)
         /\ r.hit <=> w.hit /\ Matches(line, q, w)
         /\ line.chain \/ ~ w.deny => (r.denied <=> w.denied)
         /\ ~ line.chain /\ w.deny =>
              (r.denied <=> w.denied \/ (w.hit /\ Matches(line, q, w)))
<1>1. /\ line.chain \/ ~ w.deny => (r.denied <=> w.denied)
      /\ ~ line.chain /\ w.deny =>
           (r.denied <=> w.denied \/ (w.hit /\ Matches(line, q, w)))
  BY DEF Take
<1>2. r.threshold = w.threshold
  <2>1. ~ (line.threshold > 0)
    OBVIOUS
  <2> QED BY <2>1 DEF Take
<1>3. (r.linked <=> line.chain) /\ (r.deny <=> w.deny) /\ (r.hit <=> w.hit /\ Matches(line, q, w))
  BY DEF Take
<1>4. r.markers = w.markers \cup (IF w.hit /\ Matches(line, q, w) THEN line.sets ELSE {})
  BY DEF Take
<1> QED BY <1>1, <1>2, <1>3, <1>4

\* A deny rule's exemptions: one that goes on, and the last.
LEMMA ExemptionWalked ==
  ASSUME NEW line, NEW q, NEW w, NEW r, r = Take(line, q, w), w.linked, w.deny,
         line.test = "unmarked", line.sets = {}, line.threshold = 0, line.chain
  PROVE  /\ r.markers = w.markers /\ r.threshold = w.threshold /\ r.linked /\ r.deny
         /\ r.hit <=> w.hit /\ line.on \cap w.markers = {}
         /\ r.denied <=> w.denied
<1>1. Matches(line, q, w) <=> line.on \cap w.markers = {}
  BY Matching
<1>2. r.markers = w.markers /\ r.threshold = w.threshold
  BY MemberWalked
<1>3. r.linked /\ r.deny /\ (r.hit <=> w.hit /\ Matches(line, q, w))
  BY DEF Take
<1>4. r.denied <=> w.denied
  BY DEF Take
<1> QED BY <1>1, <1>2, <1>3, <1>4

LEMMA LastExemptionWalked ==
  ASSUME NEW line, NEW q, NEW w, NEW r, r = Take(line, q, w), w.linked, w.deny,
         line.test = "unmarked", line.sets = {}, line.threshold = 0, ~ line.chain
  PROVE  /\ r.markers = w.markers /\ r.threshold = w.threshold /\ ~ r.linked
         /\ r.denied <=> w.denied \/ (w.hit /\ line.on \cap w.markers = {})
<1>1. Matches(line, q, w) <=> line.on \cap w.markers = {}
  BY Matching
<1>2. r.markers = w.markers /\ r.threshold = w.threshold
  BY MemberWalked
<1>3. ~ r.linked
  BY DEF Take
<1>4. r.denied <=> w.denied \/ (w.hit /\ Matches(line, q, w))
  BY DEF Take
<1> QED BY <1>1, <1>2, <1>3, <1>4

\* The markers an entry sets for a request.
BotMark(bot, q) == IF {bot.word, bot.name} \subseteq q.traits THEN {"bot"} ELSE {}
InternalMark(q) == IF Internal \in q.traits THEN {"internal"} ELSE {}
TrustedMark(source, q) == IF source \cap q.traits # {} THEN {"trusted"} ELSE {}
Stopping(rule, marks, q) == rule \cap q.traits # {} /\ marks \cap {"trusted", "internal", "bot"} = {}

LEMMA BotWalked ==
  ASSUME NEW bot, NEW q, NEW w, NEW marks,
         Between(w, marks),
         NEW u, u = Take(BotChain(bot)[1], q, w), NEW v, v = Take(BotChain(bot)[2], q, u)
  PROVE  Between(v, marks \cup BotMark(bot, q)) /\ (v.denied <=> w.denied)
<1> DEFINE k == BotChain(bot)[1]
           l == BotChain(bot)[2]
<1>0. /\ k.test = "carries" /\ k.on = {bot.word} /\ k.sets = {} /\ k.threshold = 0
      /\ k.chain /\ ~ k.deny
      /\ l.test = "carries" /\ l.on = {bot.name} /\ l.sets = {"bot"} /\ l.threshold = 0
      /\ ~ l.chain
  BY BotFields
<1> HIDE DEF k, l
<1>1. ~ w.linked /\ w.markers = marks /\ w.threshold = 5
  BY DEF Between
<1>2. /\ u.markers = marks /\ u.threshold = 5 /\ u.linked /\ ~ u.deny
      /\ u.hit <=> {bot.word} \cap q.traits # {}
      /\ u.denied <=> w.denied
  <2>1. u = Take(k, q, w)
    BY DEF k
  <2>2. /\ k.on \cap q.traits # {} => u.markers = w.markers \cup k.sets
        /\ k.on \cap q.traits = {} => u.markers = w.markers
        /\ u.threshold = w.threshold /\ (u.linked <=> k.chain) /\ (u.deny <=> k.deny)
        /\ u.hit <=> k.on \cap q.traits # {}
        /\ u.denied <=> w.denied
    BY <1>0, <1>1, <2>1, FirstQuiet
  <2> QED BY <1>0, <1>1, <2>2
<1>3. Matches(l, q, u) <=> {bot.name} \cap q.traits # {}
  BY <1>0, Matching
<1>4. /\ u.hit /\ Matches(l, q, u) => v.markers = marks \cup {"bot"}
      /\ ~ (u.hit /\ Matches(l, q, u)) => v.markers = marks
      /\ v.threshold = 5 /\ ~ v.linked /\ (v.denied <=> w.denied)
  <2>1. v = Take(l, q, u)
    BY DEF l
  <2>2. /\ u.hit /\ Matches(l, q, u) => v.markers = u.markers \cup l.sets
        /\ ~ (u.hit /\ Matches(l, q, u)) => v.markers = u.markers
        /\ v.threshold = u.threshold /\ (v.linked <=> l.chain) /\ (v.deny <=> u.deny)
        /\ v.hit <=> u.hit /\ Matches(l, q, u)
        /\ v.denied <=> u.denied
    BY <1>0, <1>2, <2>1, MemberWalked
  <2> QED BY <1>0, <1>2, <2>2
<1>5. u.hit /\ Matches(l, q, u) <=> {bot.word, bot.name} \subseteq q.traits
  BY <1>2, <1>3
<1> QED BY <1>4, <1>5 DEF Between, BotMark

LEMMA InternalWalked ==
  ASSUME NEW q, NEW w, NEW marks, Between(w, marks),
         NEW v, v = Take(InternalLine, q, w)
  PROVE  Between(v, marks \cup InternalMark(q)) /\ (v.denied <=> w.denied)
<1> DEFINE k == InternalLine
<1>0. /\ k.test = "carries" /\ k.on = {Internal} /\ k.sets = {"internal"} /\ k.threshold = 0
      /\ ~ k.chain /\ ~ k.deny
  BY MarkFields
<1> HIDE DEF k
<1>1. ~ w.linked /\ w.markers = marks /\ w.threshold = 5
  BY DEF Between
<1>2. /\ {Internal} \cap q.traits # {} => v.markers = marks \cup {"internal"}
      /\ {Internal} \cap q.traits = {} => v.markers = marks
      /\ v.threshold = 5 /\ ~ v.linked /\ (v.denied <=> w.denied)
  <2>1. v = Take(k, q, w)
    BY DEF k
  <2>2. /\ k.on \cap q.traits # {} => v.markers = w.markers \cup k.sets
        /\ k.on \cap q.traits = {} => v.markers = w.markers
        /\ v.threshold = w.threshold /\ (v.linked <=> k.chain) /\ (v.deny <=> k.deny)
        /\ v.hit <=> k.on \cap q.traits # {}
        /\ v.denied <=> w.denied
    BY <1>0, <1>1, <2>1, FirstQuiet
  <2> QED BY <1>0, <1>1, <2>2
<1>3. {Internal} \cap q.traits # {} <=> Internal \in q.traits
  OBVIOUS
<1> QED BY <1>2, <1>3 DEF Between, InternalMark

LEMMA TrustedWalked ==
  ASSUME NEW source, NEW q, NEW w, NEW marks,
         Between(w, marks), NEW v, v = Take(TrustedLine(source), q, w)
  PROVE  Between(v, marks \cup TrustedMark(source, q)) /\ (v.denied <=> w.denied)
<1> DEFINE k == TrustedLine(source)
<1>0. /\ k.test = "carries" /\ k.on = source /\ k.sets = {"trusted"} /\ k.threshold = 0
      /\ ~ k.chain /\ ~ k.deny
  BY MarkFields
<1> HIDE DEF k
<1>1. ~ w.linked /\ w.markers = marks /\ w.threshold = 5
  BY DEF Between
<1>2. /\ source \cap q.traits # {} => v.markers = marks \cup {"trusted"}
      /\ source \cap q.traits = {} => v.markers = marks
      /\ v.threshold = 5 /\ ~ v.linked /\ (v.denied <=> w.denied)
  <2>1. v = Take(k, q, w)
    BY DEF k
  <2>2. /\ k.on \cap q.traits # {} => v.markers = w.markers \cup k.sets
        /\ k.on \cap q.traits = {} => v.markers = w.markers
        /\ v.threshold = w.threshold /\ (v.linked <=> k.chain) /\ (v.deny <=> k.deny)
        /\ v.hit <=> k.on \cap q.traits # {}
        /\ v.denied <=> w.denied
    BY <1>0, <1>1, <2>1, FirstQuiet
  <2> QED BY <1>0, <1>1, <2>2
<1> QED BY <1>2 DEF Between, TrustedMark

LEMMA DenyWalked ==
  ASSUME NEW rule, NEW q, NEW w, NEW marks,
         Between(w, marks),
         NEW u, u = Take(DenyChain(rule)[1], q, w), NEW v, v = Take(DenyChain(rule)[2], q, u),
         NEW y, y = Take(DenyChain(rule)[3], q, v), NEW z, z = Take(DenyChain(rule)[4], q, y)
  PROVE  Between(z, marks) /\ (z.denied <=> w.denied \/ Stopping(rule, marks, q))
<1> DEFINE j == DenyChain(rule)[1]
           k == DenyChain(rule)[2]
           l == DenyChain(rule)[3]
           m == DenyChain(rule)[4]
<1>01. j.test = "carries" /\ j.on = rule /\ j.sets = {} /\ j.threshold = 0 /\ j.chain /\ j.deny
  BY DenyFields
<1>02. k.test = "unmarked" /\ k.on = {"trusted"} /\ k.sets = {} /\ k.threshold = 0 /\ k.chain
  BY DenyFields
<1>03. l.test = "unmarked" /\ l.on = {"internal"} /\ l.sets = {} /\ l.threshold = 0 /\ l.chain
  BY DenyFields
<1>04. m.test = "unmarked" /\ m.on = {"bot"} /\ m.sets = {} /\ m.threshold = 0 /\ ~ m.chain
  BY DenyFields
<1> HIDE DEF j, k, l, m
<1>1. ~ w.linked /\ w.markers = marks /\ w.threshold = 5
  BY DEF Between
<1>2. /\ u.markers = marks /\ u.threshold = 5 /\ u.linked /\ u.deny
      /\ u.hit <=> rule \cap q.traits # {}
      /\ u.denied <=> w.denied
  <2>1. u = Take(j, q, w)
    BY DEF j
  <2>2. /\ j.on \cap q.traits # {} => u.markers = w.markers \cup j.sets
        /\ j.on \cap q.traits = {} => u.markers = w.markers
        /\ u.threshold = w.threshold /\ (u.linked <=> j.chain) /\ (u.deny <=> j.deny)
        /\ u.hit <=> j.on \cap q.traits # {}
        /\ u.denied <=> w.denied
    BY <1>01, <1>1, <2>1, FirstQuiet
  <2> QED BY <1>01, <1>1, <2>2
<1>3. /\ v.markers = marks /\ v.threshold = 5 /\ v.linked /\ v.deny
      /\ v.hit <=> rule \cap q.traits # {} /\ {"trusted"} \cap marks = {}
      /\ v.denied <=> w.denied
  <2>1. /\ v.markers = u.markers /\ v.threshold = u.threshold /\ v.linked /\ v.deny
        /\ v.hit <=> u.hit /\ k.on \cap u.markers = {}
        /\ v.denied <=> u.denied
    BY <1>02, <1>2, ExemptionWalked DEF k
  <2> QED BY <1>02, <1>2, <2>1
<1>4. /\ y.markers = marks /\ y.threshold = 5 /\ y.linked /\ y.deny
      /\ y.hit <=> /\ rule \cap q.traits # {} /\ {"trusted"} \cap marks = {}
                   /\ {"internal"} \cap marks = {}
      /\ y.denied <=> w.denied
  <2>1. /\ y.markers = v.markers /\ y.threshold = v.threshold /\ y.linked /\ y.deny
        /\ y.hit <=> v.hit /\ l.on \cap v.markers = {}
        /\ y.denied <=> v.denied
    BY <1>03, <1>3, ExemptionWalked DEF l
  <2> QED BY <1>03, <1>3, <2>1
<1>5. /\ z.markers = y.markers /\ z.threshold = y.threshold /\ ~ z.linked
      /\ z.denied <=> y.denied \/ (y.hit /\ m.on \cap y.markers = {})
  BY <1>04, <1>4, LastExemptionWalked DEF m
<1>6. z.markers = marks /\ z.threshold = 5 /\ ~ z.linked
  BY <1>4, <1>5
<1>7. (y.hit /\ m.on \cap y.markers = {}) <=> Stopping(rule, marks, q)
  <2>1. m.on \cap y.markers = {} <=> {"bot"} \cap marks = {}
    BY <1>04, <1>4
  <2>2. marks \cap {"trusted", "internal", "bot"} = {}
          <=> {"trusted"} \cap marks = {} /\ {"internal"} \cap marks = {} /\ {"bot"} \cap marks = {}
    OBVIOUS
  <2>3. y.hit <=> rule \cap q.traits # {} /\ {"trusted"} \cap marks = {} /\ {"internal"} \cap marks = {}
    BY <1>4
  <2> QED BY <2>1, <2>2, <2>3 DEF Stopping
<1>8. y.denied <=> w.denied
  BY <1>4
<1>9. z.denied <=> w.denied \/ Stopping(rule, marks, q)
  BY <1>5, <1>7, <1>8
<1> QED BY <1>6, <1>9 DEF Between

LEMMA WafWalked ==
  ASSUME NEW choice, NEW q, NEW w, NEW marks,
         Between(w, marks),
         NEW u, u = Take(WafLines(choice)[1], q, w), NEW v, v = Take(WafLines(choice)[2], q, u)
  PROVE  v.denied <=> w.denied \/ (Denies(choice.action) /\ q.score >= Threshold(choice.risk))
<1> DEFINE k == WafLines(choice)[1]
           l == WafLines(choice)[2]
           limit == Threshold(choice.risk)
<1>0. /\ k.test = "always" /\ k.threshold = limit /\ ~ k.chain /\ ~ k.deny
      /\ l.test = "score" /\ ~ l.chain /\ (l.deny <=> Denies(choice.action))
      /\ limit > 0
  <2>1. limit > 0
    BY DEF Threshold
  <2> QED BY <2>1, WafFields
<1> HIDE DEF k, l, limit
<1>1. ~ w.linked
  BY DEF Between
<1>2. Matches(k, q, w)
  BY <1>0, Matching
<1>3. u.threshold = limit /\ ~ u.linked /\ (u.denied <=> w.denied)
  BY <1>0, <1>1, <1>2 DEF Take, k
<1>4. Matches(l, q, u) <=> q.score >= limit
  BY <1>0, <1>3, Matching
<1>5. v.denied <=> u.denied \/ (Matches(l, q, u) /\ l.deny)
  BY <1>0, <1>3 DEF Take, l
<1> QED BY <1>0, <1>3, <1>4, <1>5 DEF limit

\* The walk f of the directives d takes line after line.
Walks(f, d, q) == \A k \in 1 .. Len(d) : f[k] = Take(d[k], q, f[k - 1])

LEMMA PartTaken ==
  ASSUME NEW d \in Seq(AllLines), NEW s \in Seq(AllLines), NEW n \in Nat, Stands(s, d, n),
         NEW q, NEW f, Walks(f, d, q)
  PROVE  \A i \in 1 .. Len(s) : f[n + i] = Take(s[i], q, f[n + (i - 1)])
<1> TAKE i \in 1 .. Len(s)
<1>1. n + i \in 1 .. Len(d) /\ d[n + i] = s[i] /\ (n + i) - 1 = n + (i - 1)
  BY DEF Stands
<1>2. f[n + i] = Take(d[n + i], q, f[(n + i) - 1])
  BY <1>1 DEF Walks
<1> QED BY <1>1, <1>2

LEMMA OneTaken ==
  ASSUME NEW d \in Seq(AllLines), NEW s \in Seq(AllLines), NEW n \in Nat, Stands(s, d, n),
         NEW q, NEW f, Walks(f, d, q)
  PROVE  Len(s) = 1 => f[n + 1] = Take(s[1], q, f[n])
<1>1. \A i \in 1 .. Len(s) : f[n + i] = Take(s[i], q, f[n + (i - 1)])
  BY PartTaken
<1>2. SUFFICES ASSUME Len(s) = 1 PROVE f[n + 1] = Take(s[1], q, f[n])
  OBVIOUS
<1>3. 1 \in 1 .. Len(s) /\ n + (1 - 1) = n
  BY <1>2
<1> QED BY <1>1, <1>3

LEMMA TwoTaken ==
  ASSUME NEW d \in Seq(AllLines), NEW s \in Seq(AllLines), NEW n \in Nat, Stands(s, d, n),
         NEW q, NEW f, Walks(f, d, q)
  PROVE  Len(s) = 2 => f[n + 1] = Take(s[1], q, f[n]) /\ f[n + 2] = Take(s[2], q, f[n + 1])
<1>1. \A i \in 1 .. Len(s) : f[n + i] = Take(s[i], q, f[n + (i - 1)])
  BY PartTaken
<1>2. SUFFICES ASSUME Len(s) = 2
               PROVE  f[n + 1] = Take(s[1], q, f[n]) /\ f[n + 2] = Take(s[2], q, f[n + 1])
  OBVIOUS
<1>3. /\ 1 \in 1 .. Len(s) /\ 2 \in 1 .. Len(s) /\ n + (1 - 1) = n /\ n + (2 - 1) = n + 1
  BY <1>2
<1> QED BY <1>1, <1>3

LEMMA FourTaken ==
  ASSUME NEW d \in Seq(AllLines), NEW s \in Seq(AllLines), NEW n \in Nat, Stands(s, d, n),
         NEW q, NEW f, Walks(f, d, q)
  PROVE  Len(s) = 4 =>
           /\ f[n + 1] = Take(s[1], q, f[n]) /\ f[n + 2] = Take(s[2], q, f[n + 1])
           /\ f[n + 3] = Take(s[3], q, f[n + 2]) /\ f[n + 4] = Take(s[4], q, f[n + 3])
<1>1. \A i \in 1 .. Len(s) : f[n + i] = Take(s[i], q, f[n + (i - 1)])
  BY PartTaken
<1>2. SUFFICES ASSUME Len(s) = 4
               PROVE  /\ f[n + 1] = Take(s[1], q, f[n]) /\ f[n + 2] = Take(s[2], q, f[n + 1])
                      /\ f[n + 3] = Take(s[3], q, f[n + 2]) /\ f[n + 4] = Take(s[4], q, f[n + 3])
  OBVIOUS
<1>3. /\ 1 \in 1 .. Len(s) /\ 2 \in 1 .. Len(s) /\ 3 \in 1 .. Len(s) /\ 4 \in 1 .. Len(s)
      /\ n + (1 - 1) = n /\ n + (2 - 1) = n + 1 /\ n + (3 - 1) = n + 2 /\ n + (4 - 1) = n + 3
  BY <1>2
<1> QED BY <1>1, <1>3

LEMMA ChainsTyped ==
  /\ \A i \in DOMAIN Bots : BotChain(Bots[i]) \in Seq(AllLines) /\ Len(BotChain(Bots[i])) = 2
  /\ \A r \in DenyChoices : DenyChain(r) \in Seq(AllLines) /\ Len(DenyChain(r)) = 4
  /\ \A p \in PolicyChoices : WafLines(p) \in Seq(AllLines) /\ Len(WafLines(p)) = 2
<1>1. ASSUME NEW i \in DOMAIN Bots
      PROVE  BotChain(Bots[i]) \in Seq(AllLines) /\ Len(BotChain(Bots[i])) = 2
  <2>1. BotChain(Bots[i])[1] \in AllLines /\ BotChain(Bots[i])[2] \in AllLines
    BY DEF AllLines
  <2> QED BY <2>1 DEF BotChain
<1>2. ASSUME NEW r \in DenyChoices PROVE DenyChain(r) \in Seq(AllLines) /\ Len(DenyChain(r)) = 4
  <2>1. /\ DenyChain(r)[1] \in AllLines /\ DenyChain(r)[2] \in AllLines
        /\ DenyChain(r)[3] \in AllLines /\ DenyChain(r)[4] \in AllLines
    BY DEF AllLines
  <2> QED BY <2>1 DEF DenyChain
<1>3. ASSUME NEW p \in PolicyChoices PROVE WafLines(p) \in Seq(AllLines) /\ Len(WafLines(p)) = 2
  <2>1. WafLines(p)[1] \in AllLines /\ WafLines(p)[2] \in AllLines
    BY DEF AllLines
  <2> QED BY <2>1 DEF WafLines
<1> QED BY <1>1, <1>2, <1>3

LEMMA Sums == ASSUME NEW k \in Nat, NEW m \in Nat, NEW n \in Nat PROVE k + (m + n) = (k + m) + n
OBVIOUS

\* What holds of the entry pieces stand after, and goes on from a piece to the
\* next, holds where they end; P[i] are the places where it holds after i pieces.
LEMMA InPieces ==
  ASSUME NEW d \in Seq(AllLines), NEW pieces \in Seq(Seq(AllLines)), NEW n \in Nat,
         Stands(FlattenSeq(pieces), d, n), NEW P, n \in P[0],
         \A i \in 1 .. Len(pieces) : \A a \in Nat :
           a \in P[i - 1] /\ Stands(pieces[i], d, a) => a + Len(pieces[i]) \in P[i]
  PROVE  n + Len(FlattenSeq(pieces)) \in P[Len(pieces)]
<1>1. PICK g : /\ g[0] = << >> /\ \A i \in 1 .. Len(pieces) : g[i] = g[i - 1] \o pieces[i]
               /\ \A i \in 0 .. Len(pieces) : g[i] \in Seq(AllLines)
               /\ FlattenSeq(pieces) = g[Len(pieces)]
  BY FlattenedBySteps
<1>2. Len(pieces) \in Nat /\ \A i \in 1 .. Len(pieces) : pieces[i] \in Seq(AllLines)
  OBVIOUS
<1> DEFINE T == {i \in Nat : i <= Len(pieces) /\ Stands(g[i], d, n) => n + Len(g[i]) \in P[i]}
<1>3. 0 \in T
  <2>1. Len(g[0]) = 0
    BY <1>1
  <2>2. n + Len(g[0]) = n
    BY <2>1
  <2> QED BY <2>2
<1>4. ASSUME NEW i \in Nat, i \in T PROVE i + 1 \in T
  <2> SUFFICES ASSUME i + 1 <= Len(pieces), Stands(g[i + 1], d, n)
               PROVE  n + Len(g[i + 1]) \in P[i + 1]
    OBVIOUS
  <2>1. i + 1 \in 1 .. Len(pieces) /\ (i + 1) - 1 = i /\ i \in 0 .. Len(pieces) /\ i <= Len(pieces)
    <3>1. PICK m \in Nat : m = Len(pieces)
      BY <1>2
    <3>2. i + 1 <= m
      BY <3>1
    <3>3. i + 1 \in 1 .. m /\ (i + 1) - 1 = i /\ i \in 0 .. m /\ i <= m
      BY <3>2
    <3> QED BY <3>1, <3>3
  <2>2. g[i] \in Seq(AllLines) /\ pieces[i + 1] \in Seq(AllLines) /\ g[i + 1] = g[i] \o pieces[i + 1]
    BY <1>1, <1>2, <2>1
  <2>3. Stands(g[i] \o pieces[i + 1], d, n)
    BY <2>2
  <2>4. /\ Stands(g[i], d, n) /\ Stands(pieces[i + 1], d, n + Len(g[i]))
        /\ Len(g[i] \o pieces[i + 1]) = Len(g[i]) + Len(pieces[i + 1])
    BY <2>2, <2>3, StandsInParts
  <2>5. n + Len(g[i]) \in P[i] /\ n + Len(g[i]) \in Nat
    BY <1>4, <2>1, <2>2, <2>4
  <2>6. (n + Len(g[i])) + Len(pieces[i + 1]) \in P[i + 1]
    BY <2>1, <2>4, <2>5
  <2>7. n + Len(g[i + 1]) = (n + Len(g[i])) + Len(pieces[i + 1])
    <3>1. Len(g[i]) \in Nat /\ Len(pieces[i + 1]) \in Nat
      BY <2>2
    <3>2. Len(g[i + 1]) = Len(g[i]) + Len(pieces[i + 1])
      BY <2>2, <2>4
    <3>3. n + (Len(g[i]) + Len(pieces[i + 1])) = (n + Len(g[i])) + Len(pieces[i + 1])
      BY <3>1, Sums
    <3> QED BY <3>2, <3>3
  <2> QED BY <2>6, <2>7
<1> HIDE DEF T
<1>5. \A i \in Nat : i \in T
  BY <1>3, <1>4, GoesOnForAll
<1> QED BY <1>1, <1>2, <1>5 DEF T

\* The same of entries of one line each.
LEMMA InLines ==
  ASSUME NEW s \in Seq(AllLines), NEW d, NEW n \in Nat, Stands(s, d, n), NEW P, n \in P[0],
         \A i \in 1 .. Len(s) : n + (i - 1) \in P[i - 1] => n + i \in P[i]
  PROVE  n + Len(s) \in P[Len(s)]
<1> DEFINE T == {i \in Nat : i <= Len(s) => n + i \in P[i]}
<1>1. 0 \in T /\ Len(s) \in Nat
  OBVIOUS
<1>2. ASSUME NEW i \in Nat, i \in T PROVE i + 1 \in T
  <2> SUFFICES ASSUME i + 1 <= Len(s) PROVE n + (i + 1) \in P[i + 1]
    OBVIOUS
  <2>1. i + 1 \in 1 .. Len(s) /\ (i + 1) - 1 = i /\ i <= Len(s)
    BY <1>1
  <2>2. n + i \in P[i]
    BY <1>2, <2>1
  <2> QED BY <2>1, <2>2
<1> HIDE DEF T
<1>3. \A i \in Nat : i \in T
  BY <1>1, <1>2, GoesOnForAll
<1> QED BY <1>1, <1>3 DEF T

\* The markers the crawlers' chains and the trusted sources' lines leave.
BotMarks(q, n) ==
  IF \E j \in 1 .. n : {Bots[j].word, Bots[j].name} \subseteq q.traits THEN {"bot"} ELSE {}
TrustedMarks(sources, q, n) ==
  IF \E j \in 1 .. n : sources[j] \cap q.traits # {} THEN {"trusted"} ELSE {}

LEMMA MoreNumbers == ASSUME NEW i \in Nat \ {0} PROVE 1 .. i = (1 .. (i - 1)) \cup {i}
OBVIOUS

LEMMA MoreBots ==
  ASSUME NEW q, NEW i \in Nat \ {0} PROVE BotMarks(q, i) = BotMarks(q, i - 1) \cup BotMark(Bots[i], q)
<1>1. (\E j \in 1 .. i : {Bots[j].word, Bots[j].name} \subseteq q.traits)
        <=> \/ \E j \in 1 .. (i - 1) : {Bots[j].word, Bots[j].name} \subseteq q.traits
            \/ {Bots[i].word, Bots[i].name} \subseteq q.traits
  BY MoreNumbers
<1> QED BY <1>1 DEF BotMarks, BotMark

LEMMA MoreTrusted ==
  ASSUME NEW sources, NEW q, NEW i \in Nat \ {0}
  PROVE  TrustedMarks(sources, q, i) = TrustedMarks(sources, q, i - 1) \cup TrustedMark(sources[i], q)
<1>1. (\E j \in 1 .. i : sources[j] \cap q.traits # {})
        <=> \/ \E j \in 1 .. (i - 1) : sources[j] \cap q.traits # {}
            \/ sources[i] \cap q.traits # {}
  BY MoreNumbers
<1> QED BY <1>1 DEF TrustedMarks, TrustedMark

LEMMA BotPiece ==
  ASSUME NEW d \in Seq(AllLines), NEW q, NEW f, Walks(f, d, q), NEW i \in DOMAIN Bots, NEW a \in Nat,
         Stands(BotChain(Bots[i]), d, a), NEW marks, Between(f[a], marks)
  PROVE  /\ Between(f[a + 2], marks \cup BotMark(Bots[i], q))
         /\ f[a + 2].denied <=> f[a].denied
<1>1. BotChain(Bots[i]) \in Seq(AllLines) /\ Len(BotChain(Bots[i])) = 2
  BY ChainsTyped
<1>2. PICK s : s = BotChain(Bots[i])
  OBVIOUS
<1>3. s \in Seq(AllLines) /\ Len(s) = 2 /\ Stands(s, d, a)
  BY <1>1, <1>2
<1>4. f[a + 1] = Take(s[1], q, f[a]) /\ f[a + 2] = Take(s[2], q, f[a + 1])
  BY <1>3, TwoTaken
<1>5. /\ f[a + 1] = Take(BotChain(Bots[i])[1], q, f[a])
      /\ f[a + 2] = Take(BotChain(Bots[i])[2], q, f[a + 1])
  BY <1>2, <1>4
<1>6. PICK bot : bot = Bots[i]
  OBVIOUS
<1>7. /\ f[a + 1] = Take(BotChain(bot)[1], q, f[a])
      /\ f[a + 2] = Take(BotChain(bot)[2], q, f[a + 1])
  BY <1>5, <1>6
<1>8. Between(f[a + 2], marks \cup BotMark(bot, q)) /\ (f[a + 2].denied <=> f[a].denied)
  BY <1>7, BotWalked
<1> QED BY <1>6, <1>8

LEMMA BotsWalked ==
  ASSUME NEW d \in Seq(AllLines), NEW q, NEW f, Walks(f, d, q), NEW n \in Nat,
         Stands(Each(BotChain, Bots), d, n), Between(f[n], {})
  PROVE  /\ Between(f[n + Len(Each(BotChain, Bots))], BotMarks(q, Len(Bots)))
         /\ f[n + Len(Each(BotChain, Bots))].denied <=> f[n].denied
<1>1. PICK pieces : pieces = [i \in DOMAIN Bots |-> BotChain(Bots[i])]
  OBVIOUS
<1>2. Len(Bots) \in Nat /\ DOMAIN Bots = 1 .. Len(Bots)
  BY RulesAssumption
<1>3. pieces \in Seq(Seq(AllLines)) /\ Len(pieces) = Len(Bots)
  <2>1. \A i \in 1 .. Len(Bots) : BotChain(Bots[i]) \in Seq(AllLines)
    BY <1>2, ChainsTyped
  <2>2. pieces \in [1 .. Len(Bots) -> Seq(AllLines)]
    BY <1>1, <1>2, <2>1
  <2> QED BY <1>2, <2>2
<1>4. PICK flat : flat = FlattenSeq(pieces)
  OBVIOUS
<1>5. Each(BotChain, Bots) = flat
  BY <1>1, <1>4 DEF Each
<1>6. PICK P : P = [i \in 0 .. Len(Bots) |->
                      {a \in Nat : /\ Between(f[a], BotMarks(q, i))
                                   /\ f[a].denied <=> f[n].denied}]
  OBVIOUS
<1>7. n \in P[0]
  <2>1. BotMarks(q, 0) = {}
    BY DEF BotMarks
  <2>2. Between(f[n], BotMarks(q, 0)) /\ (f[n].denied <=> f[n].denied) /\ n \in Nat
    BY <2>1
  <2>3. P[0] = {a \in Nat : Between(f[a], BotMarks(q, 0)) /\ (f[a].denied <=> f[n].denied)}
    BY <1>2, <1>6
  <2> QED BY <2>2, <2>3
<1>8. ASSUME NEW i \in 1 .. Len(pieces), NEW a \in Nat, a \in P[i - 1], Stands(pieces[i], d, a)
      PROVE  a + Len(pieces[i]) \in P[i]
  <2>1. i \in DOMAIN Bots /\ i - 1 \in 0 .. Len(Bots) /\ i \in 0 .. Len(Bots) /\ i \in Nat \ {0}
    BY <1>2, <1>3
  <2>2. pieces[i] = BotChain(Bots[i]) /\ Len(pieces[i]) = 2
    BY <1>1, <2>1, ChainsTyped
  <2>3. Between(f[a], BotMarks(q, i - 1)) /\ (f[a].denied <=> f[n].denied)
    BY <1>6, <1>8, <2>1
  <2>4. Stands(BotChain(Bots[i]), d, a)
    BY <1>8, <2>2
  <2>5. /\ Between(f[a + 2], BotMarks(q, i - 1) \cup BotMark(Bots[i], q))
        /\ f[a + 2].denied <=> f[a].denied
    BY <2>1, <2>3, <2>4, BotPiece
  <2>6. Between(f[a + 2], BotMarks(q, i))
    BY <2>1, <2>5, MoreBots
  <2>7. a + 2 \in P[i]
    BY <1>6, <2>1, <2>3, <2>5, <2>6
  <2> QED BY <2>2, <2>7
<1>9. Stands(FlattenSeq(pieces), d, n)
  BY <1>4, <1>5
<1>10. n + Len(FlattenSeq(pieces)) \in P[Len(pieces)]
  BY <1>3, <1>7, <1>8, <1>9, InPieces
<1>11. n + Len(flat) \in P[Len(Bots)] /\ Len(Bots) \in 0 .. Len(Bots)
  BY <1>2, <1>3, <1>4, <1>10
<1> QED BY <1>5, <1>6, <1>11

LEMMA TrustedPiece ==
  ASSUME NEW source, NEW q, NEW f, NEW a, NEW b,
         f[b] = Take(TrustedLine(source), q, f[a]), NEW marks, Between(f[a], marks)
  PROVE  /\ Between(f[b], marks \cup TrustedMark(source, q))
         /\ f[b].denied <=> f[a].denied
<1>1. PICK v : v = f[b]
  OBVIOUS
<1>2. PICK w : w = f[a]
  OBVIOUS
<1>3. v = Take(TrustedLine(source), q, w) /\ Between(w, marks)
  BY <1>1, <1>2
<1>4. Between(v, marks \cup TrustedMark(source, q)) /\ (v.denied <=> w.denied)
  BY <1>3, TrustedWalked
<1> QED BY <1>1, <1>2, <1>4

LEMMA SourcesWalked ==
  ASSUME NEW d \in Seq(AllLines), NEW q, NEW f, Walks(f, d, q), NEW n \in Nat,
         NEW sources \in Seq(TrustChoices),
         Stands(One(TrustedLine, sources), d, n), NEW marks, Between(f[n], marks)
  PROVE  /\ Len(One(TrustedLine, sources)) = Len(sources)
         /\ Between(f[n + Len(sources)], marks \cup TrustedMarks(sources, q, Len(sources)))
         /\ f[n + Len(sources)].denied <=> f[n].denied
<1>1. PICK s : s = One(TrustedLine, sources)
  OBVIOUS
<1>2. Len(sources) \in Nat /\ DOMAIN sources = 1 .. Len(sources)
  OBVIOUS
<1>3. s = [i \in 1 .. Len(sources) |-> TrustedLine(sources[i])]
  BY <1>1, <1>2 DEF One
<1>4. s \in Seq(AllLines) /\ Len(s) = Len(sources)
  <2>1. \A i \in 1 .. Len(sources) : TrustedLine(sources[i]) \in AllLines
    BY <1>2 DEF AllLines
  <2>2. s \in [1 .. Len(sources) -> AllLines]
    BY <1>3, <2>1
  <2> QED BY <1>2, <2>2
<1>5. PICK P : P = [i \in 0 .. Len(sources) |->
                      {a \in Nat : /\ Between(f[a], marks \cup TrustedMarks(sources, q, i))
                                   /\ f[a].denied <=> f[n].denied}]
  OBVIOUS
<1>6. n \in P[0]
  <2>1. marks \cup TrustedMarks(sources, q, 0) = marks
    BY DEF TrustedMarks
  <2> QED BY <1>2, <1>5, <2>1
<1>7. Stands(s, d, n)
  BY <1>1
<1>8. \A i \in 1 .. Len(s) : f[n + i] = Take(s[i], q, f[n + (i - 1)])
  BY <1>4, <1>7, PartTaken
<1>9. ASSUME NEW i \in 1 .. Len(s), n + (i - 1) \in P[i - 1] PROVE n + i \in P[i]
  <2>1. /\ i \in 1 .. Len(sources) /\ i - 1 \in 0 .. Len(sources) /\ i \in 0 .. Len(sources)
        /\ i \in Nat \ {0} /\ n + (i - 1) \in Nat /\ n + i \in Nat /\ n + i = (n + (i - 1)) + 1
    BY <1>2, <1>4
  <2>2. f[n + i] = Take(TrustedLine(sources[i]), q, f[n + (i - 1)])
    BY <1>3, <1>8, <2>1
  <2>3. /\ Between(f[n + (i - 1)], marks \cup TrustedMarks(sources, q, i - 1))
        /\ f[n + (i - 1)].denied <=> f[n].denied
    BY <1>5, <1>9, <2>1
  <2>40. PICK m : m = marks \cup TrustedMarks(sources, q, i - 1)
    OBVIOUS
  <2>41. PICK p : p = n + (i - 1)
    OBVIOUS
  <2>42. PICK r : r = n + i
    OBVIOUS
  <2>43. f[r] = Take(TrustedLine(sources[i]), q, f[p]) /\ Between(f[p], m)
    BY <2>1, <2>2, <2>3, <2>40, <2>41, <2>42
  <2>44. Between(f[r], m \cup TrustedMark(sources[i], q)) /\ (f[r].denied <=> f[p].denied)
    BY <2>43, TrustedPiece
  <2>4. /\ Between(f[n + i], (marks \cup TrustedMarks(sources, q, i - 1))
                              \cup TrustedMark(sources[i], q))
        /\ f[n + i].denied <=> f[n + (i - 1)].denied
    BY <2>40, <2>41, <2>42, <2>44
  <2>5. (marks \cup TrustedMarks(sources, q, i - 1)) \cup TrustedMark(sources[i], q)
          = marks \cup TrustedMarks(sources, q, i)
    BY <2>1, MoreTrusted
  <2>6. Between(f[n + i], marks \cup TrustedMarks(sources, q, i))
    BY <2>4, <2>5
  <2> QED BY <1>5, <2>1, <2>3, <2>4, <2>6
<1>10. n + Len(s) \in P[Len(s)]
  BY <1>4, <1>6, <1>7, <1>9, InLines
<1>11. n + Len(sources) \in P[Len(sources)] /\ Len(sources) \in 0 .. Len(sources)
  BY <1>2, <1>4, <1>10
<1> QED BY <1>1, <1>4, <1>5, <1>11

LEMMA DenyPiece ==
  ASSUME NEW d \in Seq(AllLines), NEW q, NEW f, Walks(f, d, q), NEW r \in DenyChoices, NEW a \in Nat,
         Stands(DenyChain(r), d, a), NEW marks, Between(f[a], marks)
  PROVE  /\ Between(f[a + 4], marks)
         /\ f[a + 4].denied <=> f[a].denied \/ Stopping(r, marks, q)
<1>1. DenyChain(r) \in Seq(AllLines) /\ Len(DenyChain(r)) = 4
  BY ChainsTyped
<1>2. PICK s : s = DenyChain(r)
  OBVIOUS
<1>3. s \in Seq(AllLines) /\ Len(s) = 4 /\ Stands(s, d, a)
  BY <1>1, <1>2
<1>4. /\ f[a + 1] = Take(s[1], q, f[a]) /\ f[a + 2] = Take(s[2], q, f[a + 1])
      /\ f[a + 3] = Take(s[3], q, f[a + 2]) /\ f[a + 4] = Take(s[4], q, f[a + 3])
  BY <1>3, FourTaken
<1>5. /\ f[a + 1] = Take(DenyChain(r)[1], q, f[a]) /\ f[a + 2] = Take(DenyChain(r)[2], q, f[a + 1])
      /\ f[a + 3] = Take(DenyChain(r)[3], q, f[a + 2]) /\ f[a + 4] = Take(DenyChain(r)[4], q, f[a + 3])
  BY <1>2, <1>4
<1> QED BY <1>5, DenyWalked

LEMMA RulesWalked ==
  ASSUME NEW d \in Seq(AllLines), NEW q, NEW f, Walks(f, d, q), NEW n \in Nat,
         NEW rules \in Seq(DenyChoices),
         Stands(Each(DenyChain, rules), d, n), NEW marks, Between(f[n], marks)
  PROVE  /\ Between(f[n + Len(Each(DenyChain, rules))], marks)
         /\ f[n + Len(Each(DenyChain, rules))].denied
              <=> f[n].denied \/ \E j \in 1 .. Len(rules) : Stopping(rules[j], marks, q)
<1>1. PICK pieces : pieces = [i \in DOMAIN rules |-> DenyChain(rules[i])]
  OBVIOUS
<1>2. /\ Len(rules) \in Nat /\ DOMAIN rules = 1 .. Len(rules)
      /\ \A i \in 1 .. Len(rules) : rules[i] \in DenyChoices
  OBVIOUS
<1>3. pieces \in Seq(Seq(AllLines)) /\ Len(pieces) = Len(rules)
  <2>1. \A i \in 1 .. Len(rules) : DenyChain(rules[i]) \in Seq(AllLines)
    BY <1>2, ChainsTyped
  <2>2. pieces \in [1 .. Len(rules) -> Seq(AllLines)]
    BY <1>1, <1>2, <2>1
  <2> QED BY <1>2, <2>2
<1>4. PICK flat : flat = FlattenSeq(pieces)
  OBVIOUS
<1>5. Each(DenyChain, rules) = flat
  BY <1>1, <1>4 DEF Each
<1>6. PICK P : P = [i \in 0 .. Len(rules) |->
                      {a \in Nat : /\ Between(f[a], marks)
                                   /\ f[a].denied <=> \/ f[n].denied
                                                      \/ \E j \in 1 .. i : Stopping(rules[j], marks, q)}]
  OBVIOUS
<1>7. n \in P[0]
  <2>1. ~ (\E j \in 1 .. 0 : Stopping(rules[j], marks, q))
    OBVIOUS
  <2> QED BY <1>2, <1>6, <2>1
<1>8. ASSUME NEW i \in 1 .. Len(pieces), NEW a \in Nat, a \in P[i - 1], Stands(pieces[i], d, a)
      PROVE  a + Len(pieces[i]) \in P[i]
  <2>1. i \in 1 .. Len(rules) /\ i - 1 \in 0 .. Len(rules) /\ i \in 0 .. Len(rules) /\ i \in Nat \ {0}
    BY <1>2, <1>3
  <2>2. pieces[i] = DenyChain(rules[i]) /\ Len(pieces[i]) = 4 /\ rules[i] \in DenyChoices
    BY <1>1, <1>2, <2>1, ChainsTyped
  <2>3. /\ Between(f[a], marks)
        /\ f[a].denied <=> f[n].denied \/ \E j \in 1 .. (i - 1) : Stopping(rules[j], marks, q)
    BY <1>6, <1>8, <2>1
  <2>4. Stands(DenyChain(rules[i]), d, a)
    BY <1>8, <2>2
  <2>5. /\ Between(f[a + 4], marks)
        /\ f[a + 4].denied <=> f[a].denied \/ Stopping(rules[i], marks, q)
    BY <2>2, <2>3, <2>4, DenyPiece
  <2>6. (\E j \in 1 .. i : Stopping(rules[j], marks, q))
          <=> (\E j \in 1 .. (i - 1) : Stopping(rules[j], marks, q)) \/ Stopping(rules[i], marks, q)
    BY <2>1, MoreNumbers
  <2>7. f[a + 4].denied <=> f[n].denied \/ \E j \in 1 .. i : Stopping(rules[j], marks, q)
    BY <2>3, <2>5, <2>6
  <2>8. a + 4 \in P[i]
    BY <1>6, <2>1, <2>5, <2>7
  <2> QED BY <2>2, <2>8
<1>9. Stands(FlattenSeq(pieces), d, n)
  BY <1>4, <1>5
<1>10. n + Len(FlattenSeq(pieces)) \in P[Len(pieces)]
  BY <1>3, <1>7, <1>8, <1>9, InPieces
<1>11. n + Len(flat) \in P[Len(rules)] /\ Len(rules) \in 0 .. Len(rules)
  BY <1>2, <1>3, <1>4, <1>10
<1> QED BY <1>5, <1>6, <1>11

\* A set put in some order: each of its members has a place.
LEMMA OrderedSet ==
  ASSUME NEW S, IsFiniteSet(S)
  PROVE  /\ SetToSeq(S) \in Seq(S)
         /\ \A j \in 1 .. Len(SetToSeq(S)) : SetToSeq(S)[j] \in S
         /\ \A x \in S : \E j \in 1 .. Len(SetToSeq(S)) : SetToSeq(S)[j] = x
<1>1. PICK n : n = Cardinality(S)
  OBVIOUS
<1>2. n \in Nat /\ ExistsBijection(1 .. n, S)
  BY <1>1, FS_CardinalityType
<1>3. PICK b : b \in Bijection(1 .. n, S)
  BY <1>2 DEF ExistsBijection
<1>4. b \in [1 .. n -> S] /\ IsInjective(b)
  BY <1>3 DEF Bijection, Injection, IsInjective
<1>5. PICK f : f = CHOOSE g \in [1 .. n -> S] : IsInjective(g)
  OBVIOUS
<1>6. SetToSeq(S) = f
  BY <1>1, <1>5 DEF SetToSeq
<1>7. f \in [1 .. n -> S] /\ IsInjective(f)
  BY <1>4, <1>5
<1>8. f \in Injection(1 .. n, S)
  BY <1>7 DEF Injection, IsInjective
<1>9. Cardinality(1 .. n) = n
  BY <1>2, FS_Interval
<1>10. f \in Surjection(1 .. n, S)
  BY <1>1, <1>8, <1>9, FS_Injection
<1>11. \A x \in S : \E j \in 1 .. n : f[j] = x
  BY <1>10 DEF Surjection
<1>12. f \in Seq(S) /\ Len(f) = n
  BY <1>2, <1>7
<1>13. \A j \in 1 .. n : f[j] \in S
  BY <1>7
<1> QED BY <1>6, <1>11, <1>12, <1>13

\* The markers a request has when the deny rules are reached.
Marks(t, q) ==
  (IF IsConfirmedBot(q) THEN {"bot"} ELSE {}) \cup InternalMark(q)
    \cup (IF \E s \in t.trusted : s \cap q.traits # {} THEN {"trusted"} ELSE {})

LEMMA AllBotMarks ==
  ASSUME NEW q PROVE BotMarks(q, Len(Bots)) = IF IsConfirmedBot(q) THEN {"bot"} ELSE {}
<1>1. DOMAIN Bots = 1 .. Len(Bots)
  BY RulesAssumption
<1> QED BY <1>1 DEF BotMarks, IsConfirmedBot

LEMMA AllTrustedMarks ==
  ASSUME NEW S, IsFiniteSet(S), NEW q
  PROVE  TrustedMarks(SetToSeq(S), q, Len(SetToSeq(S)))
           = IF \E s \in S : s \cap q.traits # {} THEN {"trusted"} ELSE {}
<1>1. PICK f : f = SetToSeq(S)
  OBVIOUS
<1>2. /\ \A j \in 1 .. Len(f) : f[j] \in S
      /\ \A x \in S : \E j \in 1 .. Len(f) : f[j] = x
  BY <1>1, OrderedSet
<1>3. (\E s \in S : s \cap q.traits # {}) <=> \E j \in 1 .. Len(f) : f[j] \cap q.traits # {}
  BY <1>2
<1>4. TrustedMarks(f, q, Len(f)) = IF \E s \in S : s \cap q.traits # {} THEN {"trusted"} ELSE {}
  BY <1>3 DEF TrustedMarks
<1> QED BY <1>1, <1>4

LEMMA AnyRuleStops ==
  ASSUME NEW S, IsFiniteSet(S), NEW q, NEW marks
  PROVE  (\E j \in 1 .. Len(SetToSeq(S)) : Stopping(SetToSeq(S)[j], marks, q))
           <=> \E r \in S : Stopping(r, marks, q)
<1>1. PICK f : f = SetToSeq(S)
  OBVIOUS
<1>2. /\ \A j \in 1 .. Len(f) : f[j] \in S
      /\ \A x \in S : \E j \in 1 .. Len(f) : f[j] = x
  BY <1>1, OrderedSet
<1>3. (\E r \in S : Stopping(r, marks, q)) <=> \E j \in 1 .. Len(f) : Stopping(f[j], marks, q)
  BY <1>2
<1> QED BY <1>1, <1>3

\* Marked at all is trusted, the deployment's own or a confirmed crawler.
LEMMA Exempt ==
  ASSUME NEW t, NEW q, NEW r
  PROVE  Stopping(r, Marks(t, q), q)
           <=> /\ r \cap q.traits # {}
               /\ \A s \in t.trusted : s \cap q.traits = {}
               /\ Internal \notin q.traits
               /\ ~ IsConfirmedBot(q)
<1>1. "bot" # "trusted" /\ "bot" # "internal" /\ "internal" # "trusted"
  OBVIOUS
<1>2. Marks(t, q) \cap {"trusted", "internal", "bot"} = {}
        <=> /\ \A s \in t.trusted : s \cap q.traits = {}
            /\ Internal \notin q.traits
            /\ ~ IsConfirmedBot(q)
  BY <1>1 DEF Marks, InternalMark
<1> QED BY <1>2 DEF Stopping

LEMMA FlatTyped ==
  ASSUME NEW S, NEW pieces \in Seq(Seq(S)) PROVE FlattenSeq(pieces) \in Seq(S)
<1>1. PICK g : /\ \A i \in 0 .. Len(pieces) : g[i] \in Seq(S)
               /\ FlattenSeq(pieces) = g[Len(pieces)]
  BY FlattenedBySteps
<1>2. Len(pieces) \in Nat
  OBVIOUS
<1> QED BY <1>1, <1>2

LEMMA BotLinesTyped == Each(BotChain, Bots) \in Seq(AllLines)
<1>1. PICK pieces : pieces = [i \in DOMAIN Bots |-> BotChain(Bots[i])]
  OBVIOUS
<1>2. Len(Bots) \in Nat /\ DOMAIN Bots = 1 .. Len(Bots)
  BY RulesAssumption
<1>3. \A i \in 1 .. Len(Bots) : BotChain(Bots[i]) \in Seq(AllLines)
  BY <1>2, ChainsTyped
<1>4. pieces \in [1 .. Len(Bots) -> Seq(AllLines)]
  BY <1>1, <1>2, <1>3
<1>5. pieces \in Seq(Seq(AllLines))
  BY <1>2, <1>4
<1>6. FlattenSeq(pieces) \in Seq(AllLines)
  BY <1>5, FlatTyped
<1> QED BY <1>1, <1>6 DEF Each

LEMMA DenyLinesTyped ==
  ASSUME NEW rules \in Seq(DenyChoices) PROVE Each(DenyChain, rules) \in Seq(AllLines)
<1>1. PICK pieces : pieces = [i \in DOMAIN rules |-> DenyChain(rules[i])]
  OBVIOUS
<1>2. /\ Len(rules) \in Nat /\ DOMAIN rules = 1 .. Len(rules)
      /\ \A i \in 1 .. Len(rules) : rules[i] \in DenyChoices
  OBVIOUS
<1>3. \A i \in 1 .. Len(rules) : DenyChain(rules[i]) \in Seq(AllLines)
  BY <1>2, ChainsTyped
<1>4. pieces \in [1 .. Len(rules) -> Seq(AllLines)]
  BY <1>1, <1>2, <1>3
<1>5. pieces \in Seq(Seq(AllLines))
  BY <1>2, <1>4
<1>6. FlattenSeq(pieces) \in Seq(AllLines)
  BY <1>5, FlatTyped
<1> QED BY <1>1, <1>6 DEF Each

LEMMA TrustedLinesTyped ==
  ASSUME NEW sources \in Seq(TrustChoices) PROVE One(TrustedLine, sources) \in Seq(AllLines)
<1>1. Len(sources) \in Nat /\ DOMAIN sources = 1 .. Len(sources)
  OBVIOUS
<1>2. \A i \in 1 .. Len(sources) : TrustedLine(sources[i]) \in AllLines
  BY <1>1 DEF AllLines
<1>3. One(TrustedLine, sources) \in [1 .. Len(sources) -> AllLines]
  BY <1>1, <1>2 DEF One
<1> QED BY <1>1, <1>3

LEMMA SplitInTwo ==
  ASSUME NEW d \in Seq(AllLines)
  PROVE  \A u, v, h \in Seq(AllLines) : h = u \o v /\ Stands(h, d, 0) =>
           Stands(u, d, 0) /\ Stands(v, d, Len(u)) /\ Len(h) = Len(u) + Len(v)
<1> SUFFICES ASSUME NEW u \in Seq(AllLines), NEW v \in Seq(AllLines), NEW h \in Seq(AllLines),
                    h = u \o v, Stands(h, d, 0)
             PROVE  Stands(u, d, 0) /\ Stands(v, d, Len(u)) /\ Len(h) = Len(u) + Len(v)
  OBVIOUS
<1>1. Stands(u \o v, d, 0)
  OBVIOUS
<1>2. Stands(u, d, 0) /\ Stands(v, d, 0 + Len(u)) /\ Len(u \o v) = Len(u) + Len(v)
  BY <1>1, StandsInParts
<1>3. 0 + Len(u) = Len(u)
  OBVIOUS
<1> QED BY <1>2, <1>3

\* The five parts of the directives, and where each stands.
ListParts(d, a, b, c, e, g) ==
  /\ a \in Seq(AllLines) /\ b \in Seq(AllLines) /\ c \in Seq(AllLines)
  /\ e \in Seq(AllLines) /\ g \in Seq(AllLines)
  /\ d = a \o b \o c \o e \o g

LEMMA FiveParts ==
  ASSUME NEW d, NEW a, NEW b, NEW c, NEW e, NEW g, ListParts(d, a, b, c, e, g)
  PROVE  /\ d \in Seq(AllLines)
         /\ Stands(a, d, 0) /\ Stands(b, d, Len(a)) /\ Stands(c, d, Len(a) + Len(b))
         /\ Stands(e, d, Len(a) + Len(b) + Len(c))
         /\ Stands(g, d, Len(a) + Len(b) + Len(c) + Len(e))
         /\ Len(d) = Len(a) + Len(b) + Len(c) + Len(e) + Len(g)
<1>p. /\ a \in Seq(AllLines) /\ b \in Seq(AllLines) /\ c \in Seq(AllLines)
      /\ e \in Seq(AllLines) /\ g \in Seq(AllLines)
      /\ d = a \o b \o c \o e \o g
  BY DEF ListParts
<1>1. PICK x : x = a \o b
  OBVIOUS
<1>2. PICK y : y = x \o c
  OBVIOUS
<1>3. PICK z : z = y \o e
  OBVIOUS
<1>4. d = z \o g
  BY <1>p, <1>1, <1>2, <1>3
<1>5. x \in Seq(AllLines) /\ y \in Seq(AllLines) /\ z \in Seq(AllLines) /\ d \in Seq(AllLines)
  BY <1>p, <1>1, <1>2, <1>3, <1>4
<1>0. \A u, v, h \in Seq(AllLines) : h = u \o v /\ Stands(h, d, 0) =>
        Stands(u, d, 0) /\ Stands(v, d, Len(u)) /\ Len(h) = Len(u) + Len(v)
  BY <1>5, SplitInTwo
<1>6. Stands(d, d, 0)
  BY <1>5, StandsWhole
<1>7. Stands(z, d, 0) /\ Stands(g, d, Len(z)) /\ Len(d) = Len(z) + Len(g)
  BY <1>p, <1>0, <1>4, <1>5, <1>6
<1>8. Stands(y, d, 0) /\ Stands(e, d, Len(y)) /\ Len(z) = Len(y) + Len(e)
  <2>1. z = y \o e /\ y \in Seq(AllLines) /\ e \in Seq(AllLines) /\ z \in Seq(AllLines)
    BY <1>p, <1>3, <1>5
  <2>2. Stands(z, d, 0)
    BY <1>7
  <2> QED BY <1>0, <2>1, <2>2
<1>9. Stands(x, d, 0) /\ Stands(c, d, Len(x)) /\ Len(y) = Len(x) + Len(c)
  <2>1. y = x \o c /\ x \in Seq(AllLines) /\ c \in Seq(AllLines) /\ y \in Seq(AllLines)
    BY <1>p, <1>2, <1>5
  <2>2. Stands(y, d, 0)
    BY <1>8
  <2> QED BY <1>0, <2>1, <2>2
<1>10. Stands(a, d, 0) /\ Stands(b, d, Len(a)) /\ Len(x) = Len(a) + Len(b)
  <2>1. x = a \o b /\ a \in Seq(AllLines) /\ b \in Seq(AllLines) /\ x \in Seq(AllLines)
    BY <1>p, <1>1, <1>5
  <2>2. Stands(x, d, 0)
    BY <1>9
  <2> QED BY <1>0, <2>1, <2>2
<1>11. /\ Len(a) \in Nat /\ Len(b) \in Nat /\ Len(c) \in Nat /\ Len(e) \in Nat /\ Len(g) \in Nat
  BY <1>p
<1>12. /\ Len(x) = Len(a) + Len(b) /\ Len(y) = Len(a) + Len(b) + Len(c)
       /\ Len(z) = Len(a) + Len(b) + Len(c) + Len(e)
       /\ Len(d) = Len(a) + Len(b) + Len(c) + Len(e) + Len(g)
  BY <1>7, <1>8, <1>9, <1>10, <1>11
<1> QED BY <1>5, <1>7, <1>8, <1>9, <1>10, <1>12

LEMMA BeginsBetween == ASSUME NEW w, w = Entered PROVE Between(w, {}) /\ ~ w.denied
BY DEF Between, Entered

LEMMA InternalPiece ==
  ASSUME NEW d \in Seq(AllLines), NEW q, NEW f, Walks(f, d, q), NEW a \in Nat,
         Stands(<<InternalLine>>, d, a), NEW marks, Between(f[a], marks)
  PROVE  /\ Between(f[a + 1], marks \cup InternalMark(q))
         /\ f[a + 1].denied <=> f[a].denied
<1>1. PICK s : s = <<InternalLine>>
  OBVIOUS
<1>2. s \in Seq(AllLines) /\ Len(s) = 1 /\ s[1] = InternalLine /\ Stands(s, d, a)
  BY <1>1 DEF AllLines
<1>3. f[a + 1] = Take(s[1], q, f[a])
  BY <1>2, OneTaken
<1>4. f[a + 1] = Take(InternalLine, q, f[a])
  BY <1>2, <1>3
<1>5. PICK v : v = f[a + 1]
  OBVIOUS
<1>6. PICK w : w = f[a]
  OBVIOUS
<1>7. v = Take(InternalLine, q, w) /\ Between(w, marks)
  BY <1>4, <1>5, <1>6
<1>8. Between(v, marks \cup InternalMark(q)) /\ (v.denied <=> w.denied)
  BY <1>7, InternalWalked
<1> QED BY <1>5, <1>6, <1>8

LEMMA WafPiece ==
  ASSUME NEW d \in Seq(AllLines), NEW q, NEW f, Walks(f, d, q), NEW a \in Nat,
         NEW choice \in PolicyChoices, Stands(WafLines(choice), d, a),
         NEW marks, Between(f[a], marks)
  PROVE  f[a + 2].denied
           <=> f[a].denied \/ (Denies(choice.action) /\ q.score >= Threshold(choice.risk))
<1>1. WafLines(choice) \in Seq(AllLines) /\ Len(WafLines(choice)) = 2
  BY ChainsTyped
<1>2. PICK s : s = WafLines(choice)
  OBVIOUS
<1>3. s \in Seq(AllLines) /\ Len(s) = 2 /\ Stands(s, d, a)
  BY <1>1, <1>2
<1>4. f[a + 1] = Take(s[1], q, f[a]) /\ f[a + 2] = Take(s[2], q, f[a + 1])
  BY <1>3, TwoTaken
<1>5. /\ f[a + 1] = Take(WafLines(choice)[1], q, f[a])
      /\ f[a + 2] = Take(WafLines(choice)[2], q, f[a + 1])
  BY <1>2, <1>4
<1> QED BY <1>5, WafWalked

\* Compiled from any tables, the directives deny a request exactly where the
\* tables mean it to be stopped, however many crawlers, sources and rules there
\* are and whatever the request carries (security-edge.ts: compileEdge).
THEOREM DirectivesMeanTables ==
  ASSUME NEW t \in Tables, NEW q
  PROVE  Denied(Directives(t), q) <=> Meant(t, q)
<1>1. PICK rules : rules = SetToSeq(t.rules)
  OBVIOUS
<1>2. PICK sources : sources = SetToSeq(t.trusted)
  OBVIOUS
<1>3. /\ t.policy \in PolicyChoices /\ t.rules \subseteq DenyChoices /\ t.trusted \subseteq TrustChoices
      /\ IsFiniteSet(t.rules) /\ IsFiniteSet(t.trusted)
  BY RulesAssumption, FS_Subset DEF Tables
<1>4. rules \in Seq(DenyChoices) /\ sources \in Seq(TrustChoices)
  <2>1. rules \in Seq(t.rules) /\ sources \in Seq(t.trusted)
    BY <1>1, <1>2, <1>3, OrderedSet
  <2> QED BY <1>3, <2>1
<1>5. PICK a : a = Each(BotChain, Bots)
  OBVIOUS
<1>6. PICK b : b = <<InternalLine>>
  OBVIOUS
<1>7. PICK c : c = One(TrustedLine, sources)
  OBVIOUS
<1>8. PICK e : e = Each(DenyChain, rules)
  OBVIOUS
<1>9. PICK g : g = WafLines(t.policy)
  OBVIOUS
<1>10. PICK d : d = Directives(t)
  OBVIOUS
<1>11. d = a \o b \o c \o e \o g
  BY <1>1, <1>2, <1>5, <1>6, <1>7, <1>8, <1>9, <1>10 DEF Directives
<1>12. /\ a \in Seq(AllLines) /\ c \in Seq(AllLines) /\ e \in Seq(AllLines)
       /\ g \in Seq(AllLines) /\ Len(g) = 2
  BY <1>3, <1>4, <1>5, <1>7, <1>8, <1>9, BotLinesTyped, TrustedLinesTyped, DenyLinesTyped, ChainsTyped
<1>13. b \in Seq(AllLines) /\ Len(b) = 1
  BY <1>6 DEF AllLines
<1>14. /\ d \in Seq(AllLines)
       /\ Stands(a, d, 0) /\ Stands(b, d, Len(a)) /\ Stands(c, d, Len(a) + Len(b))
       /\ Stands(e, d, Len(a) + Len(b) + Len(c))
       /\ Stands(g, d, Len(a) + Len(b) + Len(c) + Len(e))
       /\ Len(d) = Len(a) + Len(b) + Len(c) + Len(e) + Len(g)
  <2>1. ListParts(d, a, b, c, e, g)
    BY <1>11, <1>12, <1>13 DEF ListParts
  <2> QED BY <2>1, FiveParts
<1>15. /\ Len(a) \in Nat /\ Len(c) \in Nat /\ Len(e) \in Nat /\ Len(d) \in Nat
  BY <1>12, <1>14
<1>16. PICK f : /\ f[0] = Entered
                /\ \A k \in 1 .. Len(d) : f[k] = Take(d[k], q, f[k - 1])
                /\ Denied(d, q) = f[Len(d)].denied
  BY <1>15, DeniedByWalk
<1>17. Walks(f, d, q)
  BY <1>16 DEF Walks
<1>18. PICK n1 : n1 = Len(a)
  OBVIOUS
<1>19. PICK n2 : n2 = n1 + 1
  OBVIOUS
<1>20. PICK n3 : n3 = n2 + Len(c)
  OBVIOUS
<1>21. PICK n4 : n4 = n3 + Len(e)
  OBVIOUS
<1>22. /\ n1 \in Nat /\ n2 \in Nat /\ n3 \in Nat /\ n4 \in Nat
       /\ n2 = Len(a) + Len(b) /\ n3 = Len(a) + Len(b) + Len(c)
       /\ n4 = Len(a) + Len(b) + Len(c) + Len(e) /\ Len(d) = n4 + 2 /\ 0 + Len(a) = n1
  BY <1>12, <1>13, <1>14, <1>15, <1>18, <1>19, <1>20, <1>21
<1>23. Stands(a, d, 0) /\ Stands(b, d, n1) /\ Stands(c, d, n2) /\ Stands(e, d, n3) /\ Stands(g, d, n4)
  BY <1>14, <1>18, <1>22
<1>24. Between(f[0], {}) /\ ~ f[0].denied
  BY <1>16, BeginsBetween
<1>25. PICK bots : bots = BotMarks(q, Len(Bots))
  OBVIOUS
<1>26. Between(f[n1], bots) /\ (f[n1].denied <=> f[0].denied)
  BY <1>5, <1>14, <1>17, <1>22, <1>23, <1>24, <1>25, BotsWalked
<1>27. Between(f[n2], bots \cup InternalMark(q)) /\ (f[n2].denied <=> f[n1].denied)
  BY <1>6, <1>14, <1>17, <1>19, <1>22, <1>23, <1>26, InternalPiece
<1>28. PICK marks : marks = (bots \cup InternalMark(q)) \cup TrustedMarks(sources, q, Len(sources))
  OBVIOUS
<1>29. /\ Len(c) = Len(sources)
       /\ Between(f[n3], marks) /\ (f[n3].denied <=> f[n2].denied)
  <2>1. PICK m2 : m2 = bots \cup InternalMark(q)
    OBVIOUS
  <2>2. Between(f[n2], m2) /\ Stands(One(TrustedLine, sources), d, n2)
    BY <1>7, <1>23, <1>27, <2>1
  <2>3. /\ Len(One(TrustedLine, sources)) = Len(sources)
        /\ Between(f[n2 + Len(sources)], m2 \cup TrustedMarks(sources, q, Len(sources)))
        /\ f[n2 + Len(sources)].denied <=> f[n2].denied
    <3>1. d \in Seq(AllLines) /\ n2 \in Nat /\ sources \in Seq(TrustChoices)
      BY <1>4, <1>14, <1>22
    <3> QED BY <1>17, <2>2, <3>1, SourcesWalked
  <2> QED BY <1>7, <1>20, <1>28, <2>1, <2>3
<1>30. /\ Between(f[n4], marks)
       /\ f[n4].denied <=> f[n3].denied \/ \E j \in 1 .. Len(rules) : Stopping(rules[j], marks, q)
  <2>1. Stands(Each(DenyChain, rules), d, n3)
    BY <1>8, <1>23
  <2>2. Between(f[n3], marks)
    BY <1>29
  <2>3. /\ Between(f[n3 + Len(Each(DenyChain, rules))], marks)
        /\ f[n3 + Len(Each(DenyChain, rules))].denied
             <=> f[n3].denied \/ \E j \in 1 .. Len(rules) : Stopping(rules[j], marks, q)
    BY <1>4, <1>14, <1>17, <1>22, <2>1, <2>2, RulesWalked
  <2>4. n4 = n3 + Len(Each(DenyChain, rules))
    BY <1>8, <1>21
  <2> QED BY <2>3, <2>4
<1>31. f[n4 + 2].denied
         <=> f[n4].denied \/ (Denies(t.policy.action) /\ q.score >= Threshold(t.policy.risk))
  <2>1. Stands(WafLines(t.policy), d, n4)
    BY <1>9, <1>23
  <2> QED BY <1>3, <1>14, <1>17, <1>22, <1>30, <2>1, WafPiece
<1>32. marks = Marks(t, q)
  <2>1. bots = IF IsConfirmedBot(q) THEN {"bot"} ELSE {}
    BY <1>25, AllBotMarks
  <2>2. TrustedMarks(sources, q, Len(sources))
          = IF \E s \in t.trusted : s \cap q.traits # {} THEN {"trusted"} ELSE {}
    BY <1>2, <1>3, AllTrustedMarks
  <2> QED BY <1>28, <2>1, <2>2 DEF Marks
<1>33. (\E j \in 1 .. Len(rules) : Stopping(rules[j], marks, q))
         <=> \E r \in t.rules : Stopping(r, marks, q)
  BY <1>1, <1>3, AnyRuleStops
<1>34. (\E r \in t.rules : Stopping(r, marks, q))
         <=> /\ \E r \in t.rules : r \cap q.traits # {}
             /\ \A s \in t.trusted : s \cap q.traits = {}
             /\ Internal \notin q.traits
             /\ ~ IsConfirmedBot(q)
  BY <1>32, Exempt
<1>35. Denied(d, q) <=> f[n4 + 2].denied
  BY <1>16, <1>22
<1>36. Denied(d, q) <=> \/ \E r \in t.rules : Stopping(r, marks, q)
                        \/ Denies(t.policy.action) /\ q.score >= Threshold(t.policy.risk)
  BY <1>24, <1>26, <1>27, <1>29, <1>30, <1>31, <1>33, <1>35
<1>37. Denied(d, q) <=> Meant(t, q)
  BY <1>34, <1>36 DEF Meant
<1> QED BY <1>10, <1>37

-----------------------------------------------------------------------------
(* The loader: what it has read is what some of the moments of the load held. *)

LoadTyped ==
  /\ table \in Tables
  /\ load \in [at : 0 .. 3, read : Tables]
  /\ moments \subseteq Tables
  /\ undone \in BOOLEAN

\* What is stored now is one of the moments; nothing kept was saved over or removed.
LoadKept ==
  load.at >= 1 =>
    /\ table \in moments
    /\ ~ undone => \A t \in moments : /\ t.policy = load.read.policy
                                      /\ t.rules \subseteq table.rules
                                      /\ t.trusted \subseteq table.trusted

\* The rules read are a moment's, whose sources are among those read after them.
LoadOfMoments ==
  /\ load.at = 2 /\ ~ undone => \E t \in moments : t.rules = load.read.rules
  /\ load.at = 3 /\ ~ undone =>
       /\ \E t \in moments : t.rules = load.read.rules /\ t.trusted \subseteq load.read.trusted
       /\ \E t \in moments : t.trusted = load.read.trusted

LoadInv ==
  /\ LoadTyped
  /\ load.at = 0 <=> load = NotLoading
  /\ LoadKept
  /\ LoadOfMoments

LEMMA IdleLoad ==
  ASSUME table \in Tables
  PROVE  /\ NotLoading \in [at : 0 .. 3, read : Tables] /\ NotLoading.at = 0
         /\ NotLoading.read \in Tables
<1>1. \E p \in PolicyChoices : TRUE
  BY DEF Tables
<1>2. (CHOOSE p \in PolicyChoices : TRUE) \in PolicyChoices
  BY <1>1
<1>3. [policy |-> CHOOSE p \in PolicyChoices : TRUE, rules |-> {}, trusted |-> {}] \in Tables
  BY <1>2 DEF Tables
<1> QED BY <1>3 DEF NotLoading

LEMMA LoadStarts == RulesInit => LoadInv
<1> SUFFICES ASSUME RulesInit PROVE LoadInv
  OBVIOUS
<1>1. /\ table \in Tables /\ load = NotLoading /\ moments = {} /\ undone = FALSE
  BY DEF RulesInit
<1>2. load \in [at : 0 .. 3, read : Tables] /\ load.at = 0
  BY <1>1, IdleLoad
<1>3. LoadTyped
  BY <1>1, <1>2 DEF LoadTyped
<1>4. LoadKept /\ LoadOfMoments
  BY <1>2 DEF LoadKept, LoadOfMoments
<1> QED BY <1>1, <1>2, <1>3, <1>4 DEF LoadInv

\* A change while a load is under way: what is not undone only adds.
LEMMA ChangeKeeps ==
  ASSUME LoadInv, NEW new \in Tables, NEW undoes \in BOOLEAN, Change(new, undoes),
         ~ undoes => /\ new.policy = table.policy
                     /\ table.rules \subseteq new.rules /\ table.trusted \subseteq new.trusted
  PROVE  LoadInv'
<1>0. /\ LoadTyped /\ LoadKept /\ LoadOfMoments /\ (load.at = 0 <=> load = NotLoading)
  BY DEF LoadInv
<1>1. /\ load # NotLoading /\ table' = new /\ moments' = moments \cup {new}
      /\ undone' = (undone \/ undoes) /\ load' = load
  BY DEF Change
<1>2. load.at \in 1 .. 3
  BY <1>0, <1>1 DEF LoadTyped
<1>3. LoadTyped'
  BY <1>0, <1>1 DEF LoadTyped
<1>4. LoadKept'
  <2>1. table' \in moments'
    BY <1>1
  <2>2. ASSUME ~ undone', NEW t \in moments'
        PROVE  /\ t.policy = load'.read.policy
               /\ t.rules \subseteq table'.rules /\ t.trusted \subseteq table'.trusted
    <3>1. ~ undone /\ ~ undoes
      BY <1>0, <1>1, <2>2 DEF LoadTyped
    <3>2. /\ table \in moments
          /\ \A o \in moments : /\ o.policy = load.read.policy
                                /\ o.rules \subseteq table.rules /\ o.trusted \subseteq table.trusted
      BY <1>0, <1>2, <3>1 DEF LoadKept
    <3>3. CASE t = new
      BY <1>1, <3>1, <3>2, <3>3
    <3>4. CASE t \in moments
      BY <1>1, <3>1, <3>2, <3>4
    <3> QED BY <1>1, <2>2, <3>3, <3>4
  <2> QED BY <2>1, <2>2 DEF LoadKept
<1>5. LoadOfMoments'
  <2>1. ~ undone' => ~ undone
    BY <1>1
  <2>2. moments \subseteq moments' /\ load' = load
    BY <1>1
  <2> QED BY <1>0, <2>1, <2>2 DEF LoadOfMoments
<1>6. load'.at = 0 <=> load' = NotLoading
  BY <1>0, <1>1
<1>7. NotLoading' = NotLoading
  BY DEF NotLoading
<1> QED BY <1>3, <1>4, <1>5, <1>6, <1>7 DEF LoadInv

LEMMA BeginsKeeps == ASSUME LoadInv, LoadBegins PROVE LoadInv'
<1>0. LoadTyped /\ load = NotLoading
  BY DEF LoadInv, LoadBegins
<1>1. /\ load' = [load EXCEPT !.at = 1, !.read.policy = table.policy]
      /\ moments' = {table} /\ table' = table /\ undone' = undone
  BY DEF LoadBegins
<1>2. table \in Tables /\ load.read \in Tables /\ table.policy \in PolicyChoices
  BY <1>0 DEF LoadTyped, Tables
<1>3. load'.at = 1 /\ load'.read.policy = table.policy /\ load' \in [at : 0 .. 3, read : Tables]
  <2>1. PICK v : v = table.policy
    OBVIOUS
  <2>2. PICK l : l = load
    OBVIOUS
  <2>3. l \in [at : 0 .. 3, read : Tables] /\ l.read \in Tables /\ v \in PolicyChoices
    BY <1>0, <1>2, <2>1, <2>2 DEF LoadTyped, Tables
  <2>4. PICK n : n = [l.read EXCEPT !["policy"] = v]
    OBVIOUS
  <2>5. n \in Tables /\ n.policy = v /\ n.rules = l.read.rules /\ n.trusted = l.read.trusted
    BY <2>3, <2>4 DEF Tables
  <2>6. load' = [l EXCEPT !.at = 1, !.read = n]
    BY <1>1, <2>1, <2>2, <2>4
  <2>7. load'.at = 1 /\ load'.read = n /\ load' \in [at : 0 .. 3, read : Tables]
    <3>1. PICK m : m = [l EXCEPT !.at = 1, !.read = n]
      OBVIOUS
    <3>2. l \in [at : 0 .. 3, read : Tables] /\ n \in Tables
      BY <2>3, <2>5
    <3>3. m = [at |-> 1, read |-> n]
      BY <3>1, <3>2
    <3>4. m.at = 1 /\ m.read = n /\ m \in [at : 0 .. 3, read : Tables]
      BY <3>2, <3>3
    <3> QED BY <2>6, <3>1, <3>4
  <2> QED BY <2>1, <2>5, <2>7
<1>4. LoadTyped'
  BY <1>0, <1>1, <1>2, <1>3 DEF LoadTyped
<1>5. LoadKept'
  BY <1>1, <1>3 DEF LoadKept
<1>6. LoadOfMoments'
  BY <1>3 DEF LoadOfMoments
<1>7. NotLoading.at = 0 /\ NotLoading' = NotLoading
  BY DEF NotLoading
<1> QED BY <1>3, <1>4, <1>5, <1>6, <1>7 DEF LoadInv

LEMMA ReadsKeeps == ASSUME LoadInv, LoadReads PROVE LoadInv'
<1>0. LoadTyped /\ LoadKept /\ LoadOfMoments
  BY DEF LoadInv
<1>1. /\ load.at \in 1 .. 2 /\ table' = table /\ moments' = moments /\ undone' = undone
      /\ load' = [load EXCEPT !.at = @ + 1, !.read[ReadOrder[load.at]] = table[ReadOrder[load.at]]]
  BY DEF LoadReads, ReadOrder
<1>2. /\ table \in Tables /\ load \in [at : 0 .. 3, read : Tables]
      /\ table \in moments
      /\ ~ undone => \A t \in moments : /\ t.policy = load.read.policy
                                        /\ t.rules \subseteq table.rules
                                        /\ t.trusted \subseteq table.trusted
  BY <1>0, <1>1 DEF LoadTyped, LoadKept
<1>3. CASE load.at = 1
  <2>1. PICK v : v = table.rules
    OBVIOUS
  <2>2. /\ load'.at = 2 /\ load'.read.rules = table.rules /\ load' \in [at : 0 .. 3, read : Tables]
        /\ load'.read.policy = load.read.policy
    <3>1. ReadOrder[load.at] = "rules" /\ load.at + 1 = 2
      BY <1>3 DEF ReadOrder
    <3>2. load' = [load EXCEPT !.at = 2, !.read["rules"] = v]
      <4>1. load' = [load EXCEPT !.at = load.at + 1,
                                 !.read[ReadOrder[load.at]] = table[ReadOrder[load.at]]]
        BY <1>1
      <4>2. table[ReadOrder[load.at]] = v
        BY <2>1, <3>1
      <4> QED BY <3>1, <4>1, <4>2
    <3>3. PICK l : l = load
      OBVIOUS
    <3>4. l \in [at : 0 .. 3, read : Tables] /\ l.read \in Tables /\ v \in SUBSET DenyChoices
      BY <1>2, <2>1, <3>3 DEF LoadTyped, Tables
    <3>5. PICK n : n = [l.read EXCEPT !["rules"] = v]
      OBVIOUS
    <3>6. n \in Tables /\ n.rules = v /\ n.policy = l.read.policy /\ n.trusted = l.read.trusted
      BY <3>4, <3>5 DEF Tables
    <3>7. load' = [l EXCEPT !.at = 2, !.read = n]
      BY <3>2, <3>3, <3>5
    <3>8. load'.at = 2 /\ load'.read = n /\ load' \in [at : 0 .. 3, read : Tables]
      <4>1. PICK m : m = [l EXCEPT !.at = 2, !.read = n]
        OBVIOUS
      <4>2. l \in [at : 0 .. 3, read : Tables] /\ n \in Tables
        BY <3>4, <3>6
      <4>3. m = [at |-> 2, read |-> n]
        BY <4>1, <4>2
      <4>4. m.at = 2 /\ m.read = n /\ m \in [at : 0 .. 3, read : Tables]
        BY <4>2, <4>3
      <4> QED BY <3>7, <4>1, <4>4
    <3> QED BY <2>1, <3>3, <3>6, <3>8
  <2>3. LoadTyped'
    BY <1>0, <1>1, <2>2 DEF LoadTyped
  <2>4. LoadKept'
    BY <1>1, <1>2, <2>2 DEF LoadKept
  <2>5. LoadOfMoments'
    BY <1>1, <1>2, <2>2 DEF LoadOfMoments
  <2>6. NotLoading.at = 0 /\ NotLoading' = NotLoading
    BY DEF NotLoading
  <2> QED BY <2>2, <2>3, <2>4, <2>5, <2>6 DEF LoadInv
<1>4. CASE load.at = 2
  <2>1. PICK v : v = table.trusted
    OBVIOUS
  <2>2. /\ load'.at = 3 /\ load'.read.trusted = table.trusted /\ load' \in [at : 0 .. 3, read : Tables]
        /\ load'.read.policy = load.read.policy /\ load'.read.rules = load.read.rules
    <3>1. ReadOrder[load.at] = "trusted" /\ load.at + 1 = 3
      BY <1>4 DEF ReadOrder
    <3>2. load' = [load EXCEPT !.at = 3, !.read["trusted"] = v]
      <4>1. load' = [load EXCEPT !.at = load.at + 1,
                                 !.read[ReadOrder[load.at]] = table[ReadOrder[load.at]]]
        BY <1>1
      <4>2. table[ReadOrder[load.at]] = v
        BY <2>1, <3>1
      <4> QED BY <3>1, <4>1, <4>2
    <3>3. PICK l : l = load
      OBVIOUS
    <3>4. l \in [at : 0 .. 3, read : Tables] /\ l.read \in Tables /\ v \in SUBSET TrustChoices
      BY <1>2, <2>1, <3>3 DEF LoadTyped, Tables
    <3>5. PICK n : n = [l.read EXCEPT !["trusted"] = v]
      OBVIOUS
    <3>6. n \in Tables /\ n.trusted = v /\ n.policy = l.read.policy /\ n.rules = l.read.rules
      BY <3>4, <3>5 DEF Tables
    <3>7. load' = [l EXCEPT !.at = 3, !.read = n]
      BY <3>2, <3>3, <3>5
    <3>8. load'.at = 3 /\ load'.read = n /\ load' \in [at : 0 .. 3, read : Tables]
      <4>1. PICK m : m = [l EXCEPT !.at = 3, !.read = n]
        OBVIOUS
      <4>2. l \in [at : 0 .. 3, read : Tables] /\ n \in Tables
        BY <3>4, <3>6
      <4>3. m = [at |-> 3, read |-> n]
        BY <4>1, <4>2
      <4>4. m.at = 3 /\ m.read = n /\ m \in [at : 0 .. 3, read : Tables]
        BY <4>2, <4>3
      <4> QED BY <3>7, <4>1, <4>4
    <3> QED BY <2>1, <3>3, <3>6, <3>8
  <2>3. LoadTyped'
    BY <1>0, <1>1, <2>2 DEF LoadTyped
  <2>4. LoadKept'
    BY <1>1, <1>2, <2>2 DEF LoadKept
  <2>5. LoadOfMoments'
    <3> SUFFICES ASSUME ~ undone
                 PROVE  /\ \E t \in moments : /\ t.rules = load'.read.rules
                                              /\ t.trusted \subseteq load'.read.trusted
                        /\ \E t \in moments : t.trusted = load'.read.trusted
      BY <1>1, <2>2 DEF LoadOfMoments
    <3>1. PICK t \in moments : t.rules = load.read.rules
      BY <1>0, <1>4 DEF LoadOfMoments
    <3>2. t.trusted \subseteq table.trusted
      BY <1>2
    <3>3. \E m \in moments : m.rules = load'.read.rules /\ m.trusted \subseteq load'.read.trusted
      BY <2>2, <3>1, <3>2
    <3>4. \E m \in moments : m.trusted = load'.read.trusted
      BY <1>2, <2>2
    <3> QED BY <3>3, <3>4
  <2>6. NotLoading.at = 0 /\ NotLoading' = NotLoading
    BY DEF NotLoading
  <2> QED BY <2>2, <2>3, <2>4, <2>5, <2>6 DEF LoadInv
<1> QED BY <1>1, <1>3, <1>4

LEMMA SentKeeps == ASSUME LoadInv, ArtifactSent PROVE LoadInv'
<1>1. LoadTyped /\ load' = NotLoading /\ moments' = {} /\ undone' = FALSE /\ table' = table
  BY DEF LoadInv, ArtifactSent
<1>2. table \in Tables
  BY <1>1 DEF LoadTyped
<1>3. load' \in [at : 0 .. 3, read : Tables] /\ load'.at = 0
  BY <1>1, <1>2, IdleLoad
<1>4. LoadTyped'
  BY <1>1, <1>2, <1>3 DEF LoadTyped
<1>5. LoadKept' /\ LoadOfMoments'
  BY <1>3 DEF LoadKept, LoadOfMoments
<1>6. NotLoading' = NotLoading
  BY DEF NotLoading
<1> QED BY <1>1, <1>3, <1>4, <1>5, <1>6 DEF LoadInv

LEMMA RulesStep == LoadInv /\ [RulesNext]_rulesVars => LoadInv'
<1> SUFFICES ASSUME LoadInv, [RulesNext]_rulesVars PROVE LoadInv'
  OBVIOUS
<1>0. table \in Tables /\ table.rules \subseteq DenyChoices /\ table.trusted \subseteq TrustChoices
  BY DEF LoadInv, LoadTyped, Tables
<1>1. ASSUME NEW p \in PolicyChoices, SavesPolicy(p) PROVE LoadInv'
  <2>1. [table EXCEPT !.policy = p] \in Tables
    BY <1>0 DEF Tables
  <2>2. Change([table EXCEPT !.policy = p], TRUE)
    BY <1>1 DEF SavesPolicy
  <2> QED BY <2>1, <2>2, ChangeKeeps
<1>2. ASSUME NEW r \in DenyChoices, AddSecurityRule(r) PROVE LoadInv'
  <2>1. PICK new : new = [table EXCEPT !.rules = @ \cup {r}]
    OBVIOUS
  <2>2. /\ new \in Tables /\ new.policy = table.policy
        /\ table.rules \subseteq new.rules /\ table.trusted \subseteq new.trusted
    BY <1>0, <2>1 DEF Tables
  <2>3. Change(new, FALSE)
    BY <1>2, <2>1 DEF AddSecurityRule
  <2> QED BY <2>2, <2>3, ChangeKeeps
<1>3. ASSUME NEW r \in DenyChoices, RemoveSecurityRule(r) PROVE LoadInv'
  <2>1. [table EXCEPT !.rules = @ \ {r}] \in Tables
    BY <1>0 DEF Tables
  <2>2. Change([table EXCEPT !.rules = @ \ {r}], TRUE)
    BY <1>3 DEF RemoveSecurityRule
  <2> QED BY <2>1, <2>2, ChangeKeeps
<1>4. ASSUME NEW s \in TrustChoices, AddTrustedSource(s) PROVE LoadInv'
  <2>1. PICK new : new = [table EXCEPT !.trusted = @ \cup {s}]
    OBVIOUS
  <2>2. /\ new \in Tables /\ new.policy = table.policy
        /\ table.rules \subseteq new.rules /\ table.trusted \subseteq new.trusted
    BY <1>0, <2>1 DEF Tables
  <2>3. Change(new, FALSE)
    BY <1>4, <2>1 DEF AddTrustedSource
  <2> QED BY <2>2, <2>3, ChangeKeeps
<1>5. ASSUME NEW s \in TrustChoices, RemoveTrustedSource(s) PROVE LoadInv'
  <2>1. [table EXCEPT !.trusted = @ \ {s}] \in Tables
    BY <1>0 DEF Tables
  <2>2. Change([table EXCEPT !.trusted = @ \ {s}], TRUE)
    BY <1>5 DEF RemoveTrustedSource
  <2> QED BY <2>1, <2>2, ChangeKeeps
<1>6. CASE UNCHANGED rulesVars
  <2>1. NotLoading' = NotLoading
    BY DEF NotLoading
  <2> QED BY <1>6, <2>1 DEF rulesVars, LoadInv, LoadTyped, LoadKept, LoadOfMoments
<1> QED BY <1>1, <1>2, <1>3, <1>4, <1>5, <1>6, BeginsKeeps, ReadsKeeps, SentKeeps DEF RulesNext

LEMMA LoadTypes == LoadInv => RulesType
<1> SUFFICES ASSUME LoadInv PROVE RulesType
  OBVIOUS
<1>1. /\ table \in Tables /\ load \in [at : 0 .. 3, read : Tables] /\ moments \subseteq Tables
      /\ undone \in BOOLEAN
  BY DEF LoadInv, LoadTyped
<1>2. Len(ReadOrder) + 1 = 3
  BY DEF ReadOrder
<1> QED BY <1>1, <1>2 DEF RulesType

LEMMA LoadAlways == RulesSpec => []LoadInv
<1> QED BY LoadStarts, RulesStep, PTL DEF RulesSpec

\* Two tables that agree on a request treat it alike.
LEMMA Skipped ==
  ASSUME NEW t, NEW q
  PROVE  q.traits \cap SkipChallengeAddresses(t) = {} <=> \A s \in t.trusted : s \cap q.traits = {}
BY DEF SkipChallengeAddresses

LEMMA StopsWhat ==
  ASSUME NEW t \in Tables, NEW q \in Traffic
  PROVE  q \in Stopped(t) <=> Challenged(t, q) \/ Meant(t, q)
<1>1. q \in Stopped(t) <=> Challenged(t, q) \/ Denied(Directives(t), q)
  BY DEF Stopped
<1> QED BY <1>1, DirectivesMeanTables

LEMMA UntrustedAlike ==
  ASSUME NEW t \in Tables, NEW m \in Tables, NEW q \in Traffic, m.policy = t.policy, m.rules = t.rules,
         \A s \in t.trusted : s \cap q.traits = {}, \A s \in m.trusted : s \cap q.traits = {}
  PROVE  q \in Stopped(t) <=> q \in Stopped(m)
<1>1. Challenged(t, q) <=> Challenged(m, q)
  BY Skipped DEF Challenged
<1>2. Meant(t, q) <=> Meant(m, q)
  BY DEF Meant
<1> QED BY <1>1, <1>2, StopsWhat

LEMMA TrustedAlike ==
  ASSUME NEW t \in Tables, NEW m \in Tables, NEW q \in Traffic, m.policy = t.policy,
         m.trusted = t.trusted, NEW s \in t.trusted, s \cap q.traits # {}
  PROVE  q \in Stopped(t) <=> q \in Stopped(m)
<1>1. ~ Challenged(t, q) /\ ~ Challenged(m, q)
  BY Skipped DEF Challenged
<1>2. Meant(t, q) <=> Meant(m, q)
  BY DEF Meant
<1> QED BY <1>1, <1>2, StopsWhat

LEMMA LoadMeans == LoadInv => EdgeDoesAsStored
<1> SUFFICES ASSUME LoadInv PROVE EdgeDoesAsStored
  OBVIOUS
<1>1. /\ table \in Tables /\ load \in [at : 0 .. 3, read : Tables] /\ moments \subseteq Tables
      /\ undone \in BOOLEAN /\ LoadKept /\ LoadOfMoments
  BY DEF LoadInv, LoadTyped
<1>2. load.read \in Tables
  BY <1>1
<1>3. Compiled => load.at = 3
  BY DEF Compiled, ReadOrder
<1>4. DirectivesMeanRules
  <2> SUFFICES ASSUME NEW q \in Traffic
               PROVE  Denied(Directives(load.read), q) <=> Meant(load.read, q)
    BY DEF DirectivesMeanRules
  <2> QED BY <1>2, DirectivesMeanTables
<1>5. ArtifactOfAMoment
  <2> SUFFICES ASSUME Compiled, ~ undone, NEW q \in Traffic
               PROVE  \E stopped \in {Stopped(t) : t \in moments} :
                        q \in Stopped(load.read) <=> q \in stopped
    BY DEF ArtifactOfAMoment
  <2>1. \A t \in moments : t \in Tables /\ t.policy = load.read.policy
    BY <1>1, <1>3 DEF LoadKept
  <2>2. SUFFICES \E t \in moments : q \in Stopped(load.read) <=> q \in Stopped(t)
    OBVIOUS
  <2>3. CASE \A s \in load.read.trusted : s \cap q.traits = {}
    <3>1. PICK t \in moments : t.rules = load.read.rules /\ t.trusted \subseteq load.read.trusted
      BY <1>1, <1>3 DEF LoadOfMoments
    <3>2. t \in Tables /\ t.policy = load.read.policy /\ \A s \in t.trusted : s \cap q.traits = {}
      BY <2>1, <2>3, <3>1
    <3>3. q \in Stopped(load.read) <=> q \in Stopped(t)
      BY <1>2, <2>3, <3>1, <3>2, UntrustedAlike
    <3> QED BY <3>1, <3>3
  <2>4. CASE \E s \in load.read.trusted : s \cap q.traits # {}
    <3>1. PICK t \in moments : t.trusted = load.read.trusted
      BY <1>1, <1>3 DEF LoadOfMoments
    <3>2. PICK s \in load.read.trusted : s \cap q.traits # {}
      BY <2>4
    <3>3. q \in Stopped(load.read) <=> q \in Stopped(t)
      BY <1>2, <2>1, <3>1, <3>2, TrustedAlike
    <3> QED BY <3>1, <3>3
  <2> QED BY <2>3, <2>4
<1> QED BY <1>4, <1>5 DEF EdgeDoesAsStored

\* The tables, what the loader has read of them and the moments of a load keep
\* their types (edge-loaders.ts: loadPolicy).
THEOREM RulesTypeAlways == RulesSpec => []RulesType
<1> QED BY LoadAlways, LoadTypes, PTL

\* Whatever bots are listed, rules and sources stored, and in whatever order they
\* change during a load: the directives deny exactly what the tables mean to stop,
\* and an artifact loaded while rows are only added treats each request as the
\* tables did at some moment of the load (security-edge.ts: compileEdge).
THEOREM EdgeDoesAsStoredAlways == RulesSpec => []EdgeDoesAsStored
<1> QED BY LoadAlways, LoadMeans, PTL

-----------------------------------------------------------------------------
(* The hosts.  A step of the composition is one part's, and the others     *)
(* rest, so that every behaviour of it is one of each part.                *)

\* Every behaviour of the hosts is one of each part: no one's file or memory is
\* written by another.
THEOREM PartsOfHosts == HostsSpec => RuntimeSpec /\ RouterSpec /\ RulesSpec /\ PostureSpec
<1>1. HostsInit => RuntimeInit /\ RouterInit /\ RulesInit /\ PostureInit
  BY DEF HostsInit
<1>2. [HostsNext]_hostsVars =>
        /\ [RuntimeNext]_runtimeVars /\ [RouterNext]_routerVars
        /\ [RulesNext]_rulesVars /\ [PostureNext]_postureVars
  BY DEF HostsNext, hostsVars, Steps
<1> QED BY <1>1, <1>2, PTL DEF HostsSpec, RuntimeSpec, RouterSpec, RulesSpec, PostureSpec

\* What is proved of each part holds of them side by side: the applications, the
\* routes, the artifact and the postures.
THEOREM HostsHold ==
  HostsSpec =>
    [](/\ OutcomesAreOwn /\ RuntimeServes /\ BareSaysWhy /\ FileFollows
       /\ EdgeDoesAsStored /\ PosturesHold)
BY PartsOfHosts, OutcomesAreOwnAlways, RuntimeServesAlways, BareHostsSayWhy, RestartServesRoutes,
   EdgeDoesAsStoredAlways, PosturesHoldAlways, PTL

\* Whichever part moves, every record, file, route, table and posture keeps its type.
THEOREM HostsTypeAlways == HostsSpec => []HostsType
<1>1. HostsInit => part \in Parts
  BY DEF HostsInit
<1>2. part \in Parts /\ [HostsNext]_hostsVars => (part \in Parts)'
  BY DEF HostsNext, hostsVars, Steps
<1>3. part \in Parts /\ RuntimeType /\ RouterType /\ RulesType /\ PostureType => HostsType
  BY DEF Parts, HostsType
<1> QED BY <1>1, <1>2, <1>3, PartsOfHosts, RuntimeTypeAlways, RouterTyped, RulesTypeAlways,
           PostureTypeAlways, PTL DEF HostsSpec
=============================================================================
