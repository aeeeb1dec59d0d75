------------------------------- MODULE Members -------------------------------
(***************************************************************************)
(* The members of one organization: its creation in two writes, and the    *)
(* requests that change a role or remove a member (organizations.ts).  A   *)
(* request carries the role its caller had when it was authenticated; it   *)
(* lists the members, decides, and writes later.                           *)
(***************************************************************************)
CONSTANTS Users, MemberRequests, NoUser

ASSUME NoUserAssumption == NoUser \notin Users

VARIABLES
  role,      \* user -> the role of the membership, none without one
  call,      \* request -> its place, caller, caller's role, target, new role
  founder,   \* who has created the organization and not joined it yet, or that it is joined
  together   \* history: two requests decided on an owner at the same time

memberVars == <<role, call, founder, together>>

\* A viewer may do here what a member may.
Roles == {"owner", "admin", "member"}
NoCall == [at |-> "idle", by |-> NoUser, as |-> "none", on |-> NoUser, to |-> "none"]

Owners == {u \in Users : role[u] = "owner"}

MemberInit ==
  /\ role = [u \in Users |-> "none"]
  /\ call = [r \in MemberRequests |-> NoCall]
  /\ founder = [user |-> NoUser, joined |-> FALSE]
  /\ together = FALSE

\* createOrganization: the organization, then the owner's membership; the
\* request may die between the two.
CreateOrganization(u) ==
  /\ founder.user = NoUser /\ ~founder.joined
  /\ founder' = [user |-> u, joined |-> FALSE]
  /\ UNCHANGED <<role, call, together>>

CreateMembership ==
  /\ founder.user # NoUser
  /\ founder' = [user |-> NoUser, joined |-> TRUE]
  /\ role' = [role EXCEPT ![founder.user] = "owner"]
  /\ UNCHANGED <<call, together>>

\* A membership added by an owner, or by an administrator for a role below
\* (the insert policy of migration 0026).
AddMember(by, u, to) ==
  /\ role[u] = "none"
  /\ role[by] = "owner" \/ (role[by] = "admin" /\ to # "owner")
  /\ role' = [role EXCEPT ![u] = to]
  /\ UNCHANGED <<call, founder, together>>

\* member:invite and member:remove, granted to owners and administrators; a
\* member may remove itself but nobody changes their own role.
Capable(c) ==
  \/ c.as \in {"owner", "admin"} /\ c.by # c.on
  \/ c.to = "none" /\ c.by = c.on

\* Authentication reads the caller's memberships into the request; what the
\* request may do is checked against that role.
Authenticate(r, by, on, to) ==
  LET c == [at |-> "decide", by |-> by, as |-> role[by], on |-> on, to |-> to] IN
  /\ call[r] = NoCall
  /\ role[by] # "none" /\ Capable(c)
  /\ call' = [call EXCEPT ![r] = c]
  /\ UNCHANGED <<role, founder, together>>

\* Only an owner touches an owner or makes one.
Outranks(c) == \/ c.as = "owner"
               \/ role[c.on] # "owner" /\ c.to # "owner"
               \/ c.by = c.on

\* Faulty: the owner who goes is counted.
OwnersLeft(c) == Owners # {}

OtherOwnersLeft(c) == Owners \ {c.on} # {}

\* The members are listed, through the caller's own membership, and the
\* request is decided on that list.
Decides(r) ==
  LET c == call[r] IN
  /\ c.at = "decide"
  /\ role[c.by] # "none" /\ role[c.on] # "none"
  /\ Outranks(c)
  /\ (role[c.on] = "owner" /\ c.to # "owner") => OtherOwnersLeft(c)
  /\ call' = [call EXCEPT ![r].at = "write"]
  /\ together' = (together \/ (/\ role[c.on] = "owner"
                               /\ \E s \in MemberRequests :
                                    call[s].at = "write" /\ role[call[s].on] = "owner"))
  /\ UNCHANGED <<role, founder>>

\* The row is patched or deleted; the caller must still be a member.
Writes(r) ==
  LET c == call[r] IN
  /\ c.at = "write"
  /\ role' = IF role[c.by] = "none" \/ role[c.on] = "none"
             THEN role ELSE [role EXCEPT ![c.on] = c.to]
  /\ call' = [call EXCEPT ![r] = NoCall]
  /\ UNCHANGED <<founder, together>>

\* Refused, or the process stopped.
EndsUnwritten(r) ==
  /\ call[r] # NoCall
  /\ call' = [call EXCEPT ![r] = NoCall]
  /\ UNCHANGED <<role, founder, together>>

MemberNext ==
  \/ \E u \in Users : CreateOrganization(u)
  \/ CreateMembership
  \/ \E by, u \in Users, to \in Roles : AddMember(by, u, to)
  \/ \E r \in MemberRequests :
       \/ \E by, on \in Users, to \in Roles \cup {"none"} : Authenticate(r, by, on, to)
       \/ Decides(r) \/ Writes(r) \/ EndsUnwritten(r)

MemberSpec == MemberInit /\ [][MemberNext]_memberVars

-----------------------------------------------------------------------------
MemberType ==
  /\ role \in [Users -> Roles \cup {"none"}]
  /\ call \in [MemberRequests ->
       [at : {"idle", "decide", "write"}, by : Users \cup {NoUser}, as : Roles \cup {"none"},
        on : Users \cup {NoUser}, to : Roles \cup {"none"}]]
  /\ founder \in [user : Users \cup {NoUser}, joined : BOOLEAN]
  /\ together \in BOOLEAN

\* Once its founder has joined, the organization has an owner, unless two
\* requests decided on an owner at the same time (organizations.ts:244, 303).
OwnerRemains == founder.joined => Owners # {} \/ together
=============================================================================
