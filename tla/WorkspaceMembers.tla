-------------------------- MODULE WorkspaceMembers --------------------------
(***************************************************************************)
(* The members of one workspace: the bootstrap that gives it its first     *)
(* owner, and the owners adding members, changing their roles and removing *)
(* them.  Each request reads the rows, evaluates its guards, and commits   *)
(* later; the guards of two requests can so hold at once although the two  *)
(* writes together are not allowed.                                        *)
(*                                                                         *)
(* A request that a guard answers at its first read changes nothing and is *)
(* not a step.                                                             *)
(***************************************************************************)
CONSTANTS
  Membership,  \* ids of workspace_members rows, each used once
  User,        \* users
  UserOf,      \* the user of each row that can be inserted
  Request,     \* requests, each of which is served once
  NoMember     \* "no row"

Role == {"OWNER", "OPERATOR", "VIEWER"}
NoRole == "NONE"

ASSUME UserOfAssumption == UserOf \in [Membership -> User]
ASSUME NoMemberAssumption == NoMember \notin Membership

VARIABLES
  bootstrapped,  \* the platform_state row exists
  role,          \* the role in each row, NoRole where there is no row
  used,          \* ids that have been inserted, also the deleted ones
  pc,            \* what each request does next
  subject,       \* the row each request works on
  asked,         \* the role it asks for
  loaded         \* the role of the subject as the request read it

db == <<bootstrapped, role, used>>
vars == <<db, pc, subject, asked, loaded>>

InFlight == {"bootstrapping", "adding", "updating", "removing"}
Member(m) == role[m] # NoRole
Owners == {m \in Membership : role[m] = "OWNER"}
IsOwner(u) == \E m \in Owners : UserOf[m] = u

Init ==
  /\ bootstrapped = FALSE
  /\ role = [m \in Membership |-> NoRole]
  /\ used = {}
  /\ pc = [r \in Request |-> "idle"]
  /\ subject = [r \in Request |-> NoMember]
  /\ asked = [r \in Request |-> NoRole]
  /\ loaded = [r \in Request |-> NoRole]
-----------------------------------------------------------------------------
Begin(r, step, m, to) ==
  /\ pc[r] = "idle"
  /\ pc' = [pc EXCEPT ![r] = step]
  /\ subject' = [subject EXCEPT ![r] = m]
  /\ asked' = [asked EXCEPT ![r] = to]
  /\ loaded' = [loaded EXCEPT ![r] = role[m]]
  /\ UNCHANGED db

(* The response is sent and the session is closed.                         *)
Finish(r, from) ==
  /\ pc[r] = from
  /\ pc' = [pc EXCEPT ![r] = "done"]
  /\ subject' = [subject EXCEPT ![r] = NoMember]
  /\ asked' = [asked EXCEPT ![r] = NoRole]
  /\ loaded' = [loaded EXCEPT ![r] = NoRole]

InsertReusable(m, to) ==
  /\ used' = used
  /\ role' = [role EXCEPT ![m] = to]
Insert(m, to) ==
  /\ role' = [role EXCEPT ![m] = to]
  /\ used' = used \cup {m}
-----------------------------------------------------------------------------
(* Bootstrap: the platform_state row with id 1 is inserted once.           *)

AnyBootstrap == bootstrapped \in BOOLEAN
BootstrapUnique == ~bootstrapped

LoadForBootstrap(r, m) ==
  /\ ~bootstrapped
  /\ m \notin used
  /\ Begin(r, "bootstrapping", m, "OWNER")

CommitBootstrap(r) ==
  /\ Finish(r, "bootstrapping")
  /\ BootstrapUnique
  /\ bootstrapped' = TRUE
  /\ Insert(subject[r], "OWNER")
-----------------------------------------------------------------------------
(* Adding a member.                                                        *)

(* uq_workspace_member_identity.                                           *)
AnyIdentity(m) == m \in Membership
IdentityUnique(m) ==
  \A other \in Membership : UserOf[other] = UserOf[m] => ~Member(other)

LoadForAdd(r, actor, m, to) ==
  /\ IsOwner(actor)
  /\ m \notin used
  /\ IdentityUnique(m)
  /\ Begin(r, "adding", m, to)

(* An id is drawn at random, so it is not one that is already in use.      *)
CommitAdd(r) ==
  /\ Finish(r, "adding")
  /\ subject[r] \notin used
  /\ IdentityUnique(subject[r])
  /\ Insert(subject[r], asked[r])
  /\ UNCHANGED bootstrapped
-----------------------------------------------------------------------------
(* Changing a role and removing a member.                                  *)

AnotherOwner(m) == Owners \ {m} # {}

LoadForUpdate(r, actor, m, to) ==
  /\ IsOwner(actor)
  /\ Member(m)
  /\ UserOf[m] = actor => role[m] = to
  /\ role[m] = "OWNER" /\ to # "OWNER" => AnotherOwner(m)
  /\ Begin(r, "updating", m, to)

(* The role is written when it differs from the one the session loaded; an *)
(* UPDATE that meets no row raises StaleDataError and is rolled back.      *)
Upserted(m, from, to) == IF from = to THEN role[m] ELSE to
Written(m, from, to) == IF from = to \/ ~Member(m) THEN role[m] ELSE to

CommitUpdate(r) ==
  LET m == subject[r] IN
  /\ Finish(r, "updating")
  /\ role' = [role EXCEPT ![m] = Written(m, loaded[r], asked[r])]
  /\ UNCHANGED <<bootstrapped, used>>

LoadForRemove(r, actor, m) ==
  /\ IsOwner(actor)
  /\ Member(m)
  /\ UserOf[m] # actor
  /\ role[m] = "OWNER" => AnotherOwner(m)
  /\ Begin(r, "removing", m, NoRole)

(* A DELETE that meets no row changes nothing and is answered as usual.    *)
CommitRemove(r) ==
  /\ Finish(r, "removing")
  /\ role' = [role EXCEPT ![subject[r]] = NoRole]
  /\ UNCHANGED <<bootstrapped, used>>

(* A violated constraint or a worker that dies: nothing is written.        *)
RollBack(r) ==
  /\ \E step \in InFlight : Finish(r, step)
  /\ UNCHANGED db

Next ==
  \E r \in Request :
    \/ \E m \in Membership :
         \/ LoadForBootstrap(r, m)
         \/ \E actor \in User :
              \/ \E to \in Role :
                   LoadForAdd(r, actor, m, to) \/ LoadForUpdate(r, actor, m, to)
              \/ LoadForRemove(r, actor, m)
    \/ CommitBootstrap(r) \/ CommitAdd(r) \/ CommitUpdate(r) \/ CommitRemove(r)
    \/ RollBack(r)

Spec == Init /\ [][Next]_vars
-----------------------------------------------------------------------------
(* Properties.                                                             *)

(* Type invariant.                                                         *)
TypeOK ==
  /\ bootstrapped \in BOOLEAN
  /\ role \in [Membership -> Role \cup {NoRole}]
  /\ used \subseteq Membership
  /\ \A m \in Membership : Member(m) => m \in used
  /\ pc \in [Request -> InFlight \cup {"idle", "done"}]
  /\ subject \in [Request -> Membership \cup {NoMember}]
  /\ \A r \in Request : pc[r] \in InFlight => subject[r] \in Membership
  /\ asked \in [Request -> Role \cup {NoRole}]
  /\ loaded \in [Request -> Role \cup {NoRole}]

(* A user has one role in the workspace: two additions of the same user,   *)
(* or an addition after a removal, never leave two rows.                   *)
OneMembershipPerUser ==
  \A m1, m2 \in Membership :
    Member(m1) /\ Member(m2) /\ UserOf[m1] = UserOf[m2] => m1 = m2

(* Concurrent bootstraps found the workspace once.                         *)
FoundedOnce ==
  [][bootstrapped =>
       \A m \in Membership : ~Member(m) /\ role'[m] = "OWNER" =>
         \E r \in Request : pc[r] = "adding" /\ pc'[r] = "done"]_vars

(* A removed member stays removed: a role change that read the row before  *)
(* the removal does not bring it back.                                     *)
RemovedStaysRemoved ==
  [][\A m \in used : ~Member(m) => role'[m] = NoRole]_vars

-----------------------------------------------------------------------------
(* What the service says, and concurrent requests break.                   *)

(* "A workspace must retain at least one owner": whoever is demoted or     *)
(* removed, somebody can still administer the workspace.                   *)
AtLeastOneOwner == bootstrapped => Owners # {}
=============================================================================
