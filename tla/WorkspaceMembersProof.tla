----------------------- MODULE WorkspaceMembersProof -----------------------
(***************************************************************************)
(* Proofs of the safety properties of WorkspaceMembers, for every set of   *)
(* users, membership rows and requests.                                    *)
(***************************************************************************)
EXTENDS WorkspaceMembers, TLAPS

USE UserOfAssumption, NoMemberAssumption

(* Rows and additions come after the bootstrap that founds the workspace.  *)
FoundedInv ==
  /\ used # {} => bootstrapped
  /\ \A r \in Request : pc[r] = "adding" => bootstrapped

(* A change works on a row that has been inserted, and whoever writes a    *)
(* role has been asked for one; a removal is asked for none.               *)
SubjectInv ==
  \A r \in Request :
    /\ pc[r] \in {"updating", "removing"} => subject[r] \in used
    /\ pc[r] \in {"bootstrapping", "adding", "updating"} => asked[r] \in Role
    /\ pc[r] = "removing" => asked[r] = NoRole

(* The inductive invariant.                                                *)
IInv == TypeOK /\ FoundedInv /\ SubjectInv /\ OneMembershipPerUser

(* The empty workspace satisfies the invariant.                            *)
LEMMA InvInit == Init => IInv
<1> SUFFICES ASSUME Init PROVE IInv
  OBVIOUS
<1>1. \A m \in Membership : ~Member(m)
  BY DEF Init, Member
<1>2. TypeOK
  BY <1>1 DEF Init, TypeOK, InFlight
<1>3. FoundedInv /\ SubjectInv
  BY DEF Init, FoundedInv, SubjectInv
<1>4. OneMembershipPerUser
  BY <1>1 DEF OneMembershipPerUser
<1> QED
  BY <1>2, <1>3, <1>4 DEF IInv

(* The reads of a request begin it and change no row.                      *)
LEMMA BeginStep ==
  ASSUME IInv, NEW r \in Request, NEW m \in Membership,
         NEW to \in Role \cup {NoRole}, NEW step \in InFlight,
         Begin(r, step, m, to),
         step \in {"updating", "removing"} => m \in used,
         IF step = "removing" THEN to = NoRole ELSE to \in Role,
         step = "adding" => bootstrapped
  PROVE  IInv'
  BY DEF Begin, IInv, TypeOK, InFlight, Member, FoundedInv, SubjectInv,
         OneMembershipPerUser, db

(* A bootstrap, an addition, a change and a removal each keep IInv.        *)
LEMMA CommitStep ==
  ASSUME IInv, NEW r \in Request,
         \/ CommitBootstrap(r) \/ CommitAdd(r)
         \/ CommitUpdate(r) \/ CommitRemove(r)
  PROVE  IInv'
<1> USE DEF IInv, TypeOK, InFlight, Member, FoundedInv, SubjectInv,
            OneMembershipPerUser, Finish, Role, NoRole
<1>1. CASE CommitBootstrap(r)
  <2>1. used = {} /\ \A m \in Membership : role[m] = NoRole
    BY <1>1 DEF CommitBootstrap, BootstrapUnique
  <2> QED
    BY <1>1, <2>1 DEF CommitBootstrap, Insert
<1>2. CASE CommitAdd(r)
  <2> DEFINE m == subject[r]
  <2>1. /\ m \in Membership /\ asked[r] \in Role
        /\ role' = [role EXCEPT ![m] = asked[r]] /\ used' = used \cup {m}
    BY <1>2 DEF CommitAdd, Insert
  <2>2. \A other \in Membership : UserOf[other] = UserOf[m] => ~Member(other)
    BY <1>2 DEF CommitAdd, IdentityUnique
  <2>3. bootstrapped /\ bootstrapped'
    BY <1>2 DEF CommitAdd
  <2> HIDE DEF m
  <2>4. OneMembershipPerUser'
    BY <2>1, <2>2
  <2> QED
    BY <1>2, <2>1, <2>3, <2>4 DEF CommitAdd
<1>3. CASE CommitUpdate(r)
  BY <1>3 DEF CommitUpdate, Written
<1>4. CASE CommitRemove(r)
  BY <1>4 DEF CommitRemove
<1> QED
  BY <1>1, <1>2, <1>3, <1>4

(* IInv holds in every reachable state.                                    *)
LEMMA Invariant == Spec => []IInv
<1>1. ASSUME IInv, [Next]_vars PROVE IInv'
  <2>1. CASE UNCHANGED vars
    BY <1>1, <2>1 DEF IInv, TypeOK, Member, FoundedInv, SubjectInv,
      OneMembershipPerUser, vars, db
  <2>2. ASSUME NEW r \in Request, NEW m \in Membership, LoadForBootstrap(r, m)
        PROVE  IInv'
    BY <1>1, <2>2, BeginStep DEF LoadForBootstrap, InFlight, Role
  <2>3. ASSUME NEW r \in Request, NEW m \in Membership, NEW actor \in User,
               NEW to \in Role,
               LoadForAdd(r, actor, m, to) \/ LoadForUpdate(r, actor, m, to)
        PROVE  IInv'
    <3>1. CASE LoadForAdd(r, actor, m, to)
      <4>1. bootstrapped
        BY <1>1, <3>1 DEF LoadForAdd, IsOwner, Owners, IInv, TypeOK, Member,
          NoRole, FoundedInv
      <4> QED
        BY <1>1, <3>1, <4>1, BeginStep DEF LoadForAdd, InFlight
    <3>2. CASE LoadForUpdate(r, actor, m, to)
      BY <1>1, <3>2, BeginStep DEF LoadForUpdate, InFlight, IInv, TypeOK
    <3> QED
      BY <2>3, <3>1, <3>2
  <2>4. ASSUME NEW r \in Request, NEW m \in Membership, NEW actor \in User,
               LoadForRemove(r, actor, m)
        PROVE  IInv'
    BY <1>1, <2>4, BeginStep DEF LoadForRemove, InFlight, IInv, TypeOK
  <2>5. ASSUME NEW r \in Request, RollBack(r) PROVE IInv'
    BY <1>1, <2>5 DEF RollBack, Finish, IInv, TypeOK, InFlight, Member,
      FoundedInv, SubjectInv, OneMembershipPerUser, db
  <2> QED
    BY <1>1, <2>1, <2>2, <2>3, <2>4, <2>5, CommitStep DEF Next
<1> QED
  BY <1>1, InvInit, PTL DEF Spec

(* Every reachable state is well typed; no row's id is drawn twice.        *)
THEOREM TypeCorrect == Spec => []TypeOK
<1>1. IInv => TypeOK
  BY DEF IInv
<1> QED
  BY <1>1, Invariant, PTL

(* However additions and removals race, a user has one role.               *)
THEOREM OneMembership == Spec => []OneMembershipPerUser
<1>1. IInv => OneMembershipPerUser
  BY DEF IInv
<1> QED
  BY <1>1, Invariant, PTL

(* Only the commits write a role.                                          *)
LEMMA RoleStep ==
  ASSUME Next
  PROVE  \E r \in Request :
           \/ UNCHANGED role
           \/ CommitBootstrap(r) \/ CommitAdd(r)
           \/ CommitUpdate(r) \/ CommitRemove(r)
BY DEF Next, LoadForBootstrap, LoadForAdd, LoadForUpdate, LoadForRemove,
  Begin, RollBack, db

(* A removal is final for its row: no request that read the row earlier    *)
(* brings it back.                                                         *)
THEOREM RemovalIsFinal == Spec => RemovedStaysRemoved
<1> DEFINE Gone == \A m \in used : ~Member(m) => role'[m] = NoRole
<1>1. IInv /\ [Next]_vars => [Gone]_vars
  <2> SUFFICES ASSUME IInv, Next, NEW m \in used, ~Member(m)
               PROVE  role'[m] = NoRole
    OBVIOUS
  <2> USE DEF IInv, TypeOK, Member, InFlight, Finish
  <2>1. PICK r \in Request :
          \/ UNCHANGED role
          \/ CommitBootstrap(r) \/ CommitAdd(r)
          \/ CommitUpdate(r) \/ CommitRemove(r)
    BY RoleStep
  <2>2. CASE CommitBootstrap(r)
    BY <2>2 DEF CommitBootstrap, BootstrapUnique, FoundedInv
  <2>3. CASE CommitAdd(r)
    BY <2>3 DEF CommitAdd, Insert
  <2>4. CASE CommitUpdate(r)
    BY <2>4 DEF CommitUpdate, Written
  <2>5. CASE CommitRemove(r)
    BY <2>5 DEF CommitRemove
  <2> QED
    BY <2>1, <2>2, <2>3, <2>4, <2>5
<1> QED
  BY <1>1, Invariant, PTL DEF Spec, RemovedStaysRemoved

(* The workspace is founded once: after that, a new owner is one that an   *)
(* owner added, however bootstraps race.                                   *)
THEOREM FoundingIsUnique == Spec => FoundedOnce
<1> DEFINE Once == bootstrapped =>
             \A m \in Membership : ~Member(m) /\ role'[m] = "OWNER" =>
               \E r \in Request : pc[r] = "adding" /\ pc'[r] = "done"
<1>1. IInv /\ [Next]_vars => [Once]_vars
  <2> SUFFICES ASSUME IInv, Next, bootstrapped,
                      NEW m \in Membership, ~Member(m), role'[m] = "OWNER"
               PROVE  \E r \in Request : pc[r] = "adding" /\ pc'[r] = "done"
    OBVIOUS
  <2> USE DEF IInv, TypeOK, Member, NoRole, InFlight, Finish
  <2>1. PICK r \in Request :
          \/ UNCHANGED role
          \/ CommitBootstrap(r) \/ CommitAdd(r)
          \/ CommitUpdate(r) \/ CommitRemove(r)
    BY RoleStep
  <2>2. CASE CommitBootstrap(r)
    BY <2>2 DEF CommitBootstrap, BootstrapUnique
  <2>3. CASE CommitAdd(r)
    BY <2>3 DEF CommitAdd, Insert
  <2>4. CASE CommitUpdate(r)
    BY <2>4 DEF CommitUpdate, Written
  <2>5. CASE CommitRemove(r)
    BY <2>5 DEF CommitRemove
  <2> QED
    BY <2>1, <2>2, <2>3, <2>4, <2>5
<1> QED
  BY <1>1, Invariant, PTL DEF Spec, FoundedOnce
-----------------------------------------------------------------------------
(* AtLeastOneOwner is not an invariant of the members, because two owners  *)
(* can be taken away at once.  That is the only way to break it.           *)

(* A request that will take an owner away if it commits now.               *)
Demotes(r) ==
  /\ pc[r] \in {"updating", "removing"}
  /\ role[subject[r]] = "OWNER"
  /\ asked[r] # "OWNER"

(* What a lock on the rows of the owners would ensure.                     *)
DemotionsTakeTurns ==
  \A r, q \in Request : Demotes(r) /\ Demotes(q) => r = q

(* The guard of _require_another_owner still holds when it is relied upon. *)
GuardHolds == \A r \in Request : Demotes(r) => AnotherOwner(subject[r])

(* The reads of a request keep the guard: it has just been evaluated, or   *)
(* the member was no owner when the request came.                          *)
LEMMA GuardAtLoad ==
  ASSUME IInv, GuardHolds, NEW r \in Request, NEW m \in Membership,
         NEW to \in Role \cup {NoRole}, NEW step \in InFlight,
         Begin(r, step, m, to),
         step \in {"updating", "removing"} /\ role[m] = "OWNER" /\ to # "OWNER"
           => AnotherOwner(m)
  PROVE  GuardHolds'
BY DEF Begin, IInv, TypeOK, InFlight, GuardHolds, Demotes, AnotherOwner,
  Owners, db

(* A commit that takes no owner away keeps the guard of every other one.   *)
LEMMA GuardIfOwnersStay ==
  ASSUME IInv, GuardHolds, AtLeastOneOwner,
         NEW r \in Request, NEW step \in InFlight, Finish(r, step),
         Owners \subseteq Owners',
         \A m \in Membership \ {subject[r]} : role'[m] = role[m]
  PROVE  GuardHolds'
<1> USE DEF IInv, TypeOK, InFlight
<1> SUFFICES ASSUME NEW q \in Request, Demotes(q)'
             PROVE  AnotherOwner(subject[q])'
  BY DEF GuardHolds
<1>1. q # r /\ pc'[q] = pc[q] /\ subject'[q] = subject[q] /\ asked'[q] = asked[q]
  BY DEF Demotes, Finish
<1>2. subject[q] \in Membership /\ subject[q] \in used
  BY <1>1 DEF Demotes, SubjectInv
<1>3. CASE subject[q] \in Owners
  <2>1. Demotes(q)
    BY <1>1, <1>3 DEF Demotes, Owners
  <2>2. AnotherOwner(subject[q])
    BY <2>1 DEF GuardHolds
  <2> QED
    BY <1>1, <2>2 DEF AnotherOwner
<1>4. CASE subject[q] \notin Owners
  <2>1. Owners # {}
    BY <1>2 DEF AtLeastOneOwner, FoundedInv
  <2> QED
    BY <1>1, <1>4, <2>1 DEF AnotherOwner
<1> QED
  BY <1>3, <1>4

(* As long as owners are taken away one after the other, the workspace     *)
(* keeps one, however additions, promotions and bootstraps race: what      *)
(* AtLeastOneOwner lacks in the code is that turn, and nothing else.       *)
THEOREM OwnerKeptByTurns == Spec /\ []DemotionsTakeTurns => []AtLeastOneOwner
<1> DEFINE Kept == GuardHolds /\ AtLeastOneOwner
<1>1. Init => Kept
  BY DEF Init, GuardHolds, Demotes, AtLeastOneOwner
<1>2. ASSUME IInv, IInv', Kept, DemotionsTakeTurns, [Next]_vars PROVE Kept'
  <2> USE DEF IInv, TypeOK, InFlight, Finish
  <2>1. CASE UNCHANGED vars
    BY <1>2, <2>1 DEF GuardHolds, Demotes, AnotherOwner, Owners,
      AtLeastOneOwner, vars, db
  <2>2. ASSUME NEW r \in Request, NEW m \in Membership, LoadForBootstrap(r, m)
        PROVE  Kept'
    BY <1>2, <2>2, GuardAtLoad
      DEF LoadForBootstrap, Begin, Role, AtLeastOneOwner, Owners, db
  <2>3. ASSUME NEW r \in Request, NEW m \in Membership, NEW actor \in User,
               NEW to \in Role,
               LoadForAdd(r, actor, m, to) \/ LoadForUpdate(r, actor, m, to)
        PROVE  Kept'
    BY <1>2, <2>3, GuardAtLoad
      DEF LoadForAdd, LoadForUpdate, Begin, AtLeastOneOwner, Owners, db
  <2>4. ASSUME NEW r \in Request, NEW m \in Membership, NEW actor \in User,
               LoadForRemove(r, actor, m)
        PROVE  Kept'
    BY <1>2, <2>4, GuardAtLoad
      DEF LoadForRemove, Begin, AtLeastOneOwner, Owners, db
  <2>5. ASSUME NEW r \in Request, RollBack(r) PROVE Kept'
    <3>1. role' = role /\ bootstrapped' = bootstrapped /\ Owners' = Owners
      BY <2>5 DEF RollBack, Owners, db
    <3>2. PICK step \in InFlight : Finish(r, step)
      BY <2>5 DEF RollBack
    <3>3. GuardHolds'
      BY <1>2, <3>1, <3>2, GuardIfOwnersStay
    <3> QED
      BY <1>2, <3>1, <3>3 DEF AtLeastOneOwner
  <2>6. ASSUME NEW r \in Request, CommitBootstrap(r) PROVE Kept'
    <3>1. subject[r] \in Membership
      BY <1>2, <2>6 DEF CommitBootstrap
    <3>2. used = {} /\ \A q \in Request : pc'[q] \notin {"updating", "removing"}
      BY <1>2, <2>6 DEF CommitBootstrap, BootstrapUnique, FoundedInv, SubjectInv
    <3>3. subject[r] \in Owners'
      BY <1>2, <2>6, <3>1 DEF CommitBootstrap, Insert, Owners
    <3> QED
      BY <3>2, <3>3 DEF GuardHolds, Demotes, AtLeastOneOwner
  <2>7. ASSUME NEW r \in Request, CommitAdd(r) PROVE Kept'
    <3>1. Owners \subseteq Owners'
      BY <1>2, <2>7 DEF CommitAdd, Insert, Owners, Member, NoRole
    <3>2. GuardHolds'
      BY <1>2, <2>7, <3>1, GuardIfOwnersStay DEF CommitAdd, Insert
    <3> QED
      BY <1>2, <2>7, <3>1, <3>2 DEF CommitAdd, AtLeastOneOwner
  <2>8. ASSUME NEW r \in Request, CommitUpdate(r) \/ CommitRemove(r) PROVE Kept'
    <3> DEFINE m == subject[r]
    <3>1. /\ m \in Membership /\ bootstrapped' = bootstrapped
          /\ pc[r] \in {"updating", "removing"}
          /\ \A other \in Membership \ {m} : role'[other] = role[other]
      BY <1>2, <2>8 DEF CommitUpdate, CommitRemove
    <3>2. asked[r] = "OWNER" => Owners \subseteq Owners'
      BY <1>2, <2>8 DEF CommitUpdate, CommitRemove, Written, Owners, SubjectInv,
        Role, NoRole
    <3>3. CASE Demotes(r)
      <4>1. PICK other \in Owners : other # m
        BY <1>2, <3>3 DEF GuardHolds, AnotherOwner
      <4>2. other \in Owners'
        BY <3>1, <4>1 DEF Owners
      <4>3. ASSUME NEW q \in Request, Demotes(q)'
            PROVE  AnotherOwner(subject[q])'
        <5>1. q # r /\ pc'[q] = pc[q] /\ subject'[q] = subject[q]
              /\ asked'[q] = asked[q]
          BY <1>2, <2>8, <4>3 DEF Demotes, CommitUpdate, CommitRemove
        <5>2. subject[q] \in Membership
          BY <1>2, <4>3, <5>1 DEF Demotes
        <5>3. subject[q] = m
          BY <1>2, <3>1, <3>3, <4>3, <5>1, <5>2 DEF Demotes, DemotionsTakeTurns
        <5> QED
          BY <4>1, <4>2, <5>1, <5>3 DEF AnotherOwner
      <4> QED
        BY <4>2, <4>3 DEF GuardHolds, AtLeastOneOwner
    <3>4. CASE ~Demotes(r)
      <4>1. Owners \subseteq Owners'
        BY <3>1, <3>2, <3>4 DEF Demotes, Owners
      <4>2. GuardHolds'
        BY <1>2, <2>8, <3>1, <4>1, GuardIfOwnersStay
          DEF CommitUpdate, CommitRemove
      <4> QED
        BY <1>2, <3>1, <4>1, <4>2 DEF AtLeastOneOwner
    <3> QED
      BY <3>3, <3>4
  <2> QED
    BY <1>2, <2>1, <2>2, <2>3, <2>4, <2>5, <2>6, <2>7, <2>8 DEF Next
<1>3. Kept => AtLeastOneOwner
  OBVIOUS
<1> QED
  BY <1>1, <1>2, <1>3, Invariant, PTL DEF Spec
=============================================================================
