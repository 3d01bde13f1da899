-------------------------- MODULE ProjectAccessProof --------------------------
(***************************************************************************)
(* Proofs about ProjectAccess for any projects, tokens, sessions and any   *)
(* number of requests.                                                     *)
(***************************************************************************)
EXTENDS ProjectAccess, TLAPS

(* What a request has read stays true as far as it matters: the tokens a   *)
(* deletion knows are tokens its project has had, a session that is about  *)
(* to be deleted has existed.                                              *)
ReadsHold ==
  \A r \in Request :
    /\ pc[r] = "deleting" =>
         \A t \in known[r] : ProjectOf[t] = subject[r] /\ row[t] # "new"
    /\ pc[r] \in WebStep => row[subject[r]] # "new"

(* An end that was answered is in effect.                                  *)
EndsHold ==
  /\ \A c \in expired : row[c] # "new"
  /\ \A c \in acknowledged : row[c] # "new" /\ ~Usable(c)

IInv == TypeOK /\ TokensHaveProject /\ ReadsHold /\ EndsHold

USE DEF Credential, InFlight, WebStep, TokenStep, Proceed, Finish, Begin

(* The invariant holds before the first request.                           *)
LEMMA InitInv == Init => IInv
  BY ReferenceAssumption
  DEF Init, IInv, TypeOK, TokensHaveProject, ReadsHold, EndsHold, Exists

(* No step leaves the types.                                               *)
LEMMA TypeStep == TypeOK /\ [Next]_vars => TypeOK'
<1> SUFFICES ASSUME TypeOK, [Next]_vars PROVE TypeOK'
  OBVIOUS
<1> USE DistinctAssumption DEF TypeOK, db, local
<1>1. ASSUME NEW r \in Request, NEW p \in Project, CreateProject(r, p) PROVE TypeOK'
  BY <1>1 DEF CreateProject
<1>2. ASSUME NEW r \in Request, NEW p \in Project, LoadForDelete(r, p) PROVE TypeOK'
  BY <1>2 DEF LoadForDelete, TokensOf
<1>3. ASSUME NEW r \in Request, CommitDelete(r) PROVE TypeOK'
  BY <1>3 DEF CommitDelete
<1>4. ASSUME NEW r \in Request, NEW t \in Token,
             LoadForIssue(r, t) \/ LoadForRevoke(r, t) \/ Authenticate(r, t)
      PROVE  TypeOK'
  BY <1>4 DEF LoadForIssue, LoadForRevoke, Authenticate
<1>5. ASSUME NEW r \in Request, NEW t \in Token, RevokeAgain(r, t) PROVE TypeOK'
  BY <1>5 DEF RevokeAgain
<1>6. ASSUME NEW r \in Request, CommitIssue(r) \/ CommitRevoke(r) PROVE TypeOK'
  BY <1>6 DEF CommitIssue, CommitRevoke
<1>7. ASSUME NEW r \in Request, CommitTouch(r) \/ LoadPrincipal(r) PROVE TypeOK'
  BY <1>7 DEF CommitTouch, Touch, LoadPrincipal
<1>8. ASSUME NEW r \in Request, AuthenticateOpen(r) \/ Act(r) \/ RollBack(r) PROVE TypeOK'
  BY <1>8 DEF AuthenticateOpen, Act, RollBack
<1>9. ASSUME NEW r \in Request, NEW s \in WebSession,
             Login(r, s) \/ LoadForLogout(r, s) \/ LoadExpired(r, s)
      PROVE  TypeOK'
  BY <1>9 DEF Login, LoadForLogout, LoadExpired
<1>10. ASSUME NEW r \in Request, CommitLogout(r) \/ CommitSweep(r) PROVE TypeOK'
  BY <1>10 DEF CommitLogout, CommitSweep, DeleteSession
<1>11. ASSUME NEW c \in Credential, Expire(c) PROVE TypeOK'
  BY <1>11 DEF Expire
<1>12. CASE UNCHANGED vars
  BY <1>12 DEF vars
<1> QED
  BY <1>1, <1>2, <1>3, <1>4, <1>5, <1>6, <1>7, <1>8, <1>9, <1>10, <1>11, <1>12 DEF Next

(* No step separates a token from its project: an issue finds the project  *)
(* when it writes, a deletion knows every token that is left.              *)
LEMMA ProjectStep ==
  TypeOK /\ TokensHaveProject /\ ReadsHold /\ [Next]_vars => TokensHaveProject'
<1> SUFFICES ASSUME TypeOK, TokensHaveProject, ReadsHold, [Next]_vars
             PROVE  TokensHaveProject'
  OBVIOUS
<1> USE ReferenceAssumption, DistinctAssumption DEF TypeOK, TokensHaveProject, Exists, db
<1>1. ASSUME NEW r \in Request, NEW p \in Project, CreateProject(r, p)
      PROVE  TokensHaveProject'
  BY <1>1 DEF CreateProject
<1>2. ASSUME NEW r \in Request, CommitDelete(r) PROVE TokensHaveProject'
  <2>1. subject[r] \in Project
    BY <1>2 DEF CommitDelete
  <2>2. ASSUME NEW t \in Token, Exists(t)' PROVE project'[ProjectOf[t]] = "live"
    <3>1. t \notin known[r] /\ Exists(t)
      BY <1>2, <2>2 DEF CommitDelete
    <3>2. ProjectOf[t] # subject[r]
      BY <1>2, <3>1 DEF CommitDelete, Unreferenced, TokensOf
    <3> QED
      BY <1>2, <3>1, <3>2 DEF CommitDelete
  <2> QED
    BY <2>2
<1>3. ASSUME NEW r \in Request, CommitIssue(r) PROVE TokensHaveProject'
  BY <1>3 DEF CommitIssue, ProjectThere
<1>4. ASSUME NEW r \in Request, CommitRevoke(r) PROVE TokensHaveProject'
  BY <1>4 DEF CommitRevoke
<1>5. ASSUME NEW r \in Request, NEW s \in WebSession, Login(r, s)
      PROVE  TokensHaveProject'
  BY <1>5 DEF Login
<1>6. ASSUME NEW r \in Request, CommitLogout(r) \/ CommitSweep(r)
      PROVE  TokensHaveProject'
  BY <1>6 DEF CommitLogout, CommitSweep, DeleteSession
<1>7. CASE UNCHANGED <<project, row>>
  BY <1>7
<1> QED
  BY <1>1, <1>2, <1>3, <1>4, <1>5, <1>6, <1>7
  DEF Next, vars, LoadForDelete, LoadForIssue, RevokeAgain, LoadForRevoke,
      Authenticate, CommitTouch, Touch, LoadPrincipal, AuthenticateOpen, Act,
      LoadForLogout, LoadExpired, Expire, RollBack

(* A row that has existed is never new again, so what was read of it       *)
(* stays true.                                                             *)
LEMMA NeverNewAgain ==
  ASSUME TypeOK, ReadsHold, [Next]_vars, NEW c \in Credential, row[c] # "new"
  PROVE  row'[c] # "new"
<1> USE DistinctAssumption DEF TypeOK, db
<1>1. ASSUME NEW r \in Request, CommitDelete(r) \/ CommitIssue(r) \/ CommitRevoke(r)
      PROVE  row'[c] # "new"
  BY <1>1 DEF CommitDelete, CommitIssue, CommitRevoke
<1>2. ASSUME NEW r \in Request, CommitLogout(r) \/ CommitSweep(r)
      PROVE  row'[c] # "new"
  BY <1>2 DEF CommitLogout, CommitSweep, DeleteSession
<1>3. ASSUME NEW r \in Request, NEW s \in WebSession, Login(r, s)
      PROVE  row'[c] # "new"
  BY <1>3 DEF Login
<1>4. CASE UNCHANGED row
  BY <1>4
<1> QED
  BY <1>1, <1>2, <1>3, <1>4
  DEF Next, vars, CreateProject, LoadForDelete, LoadForIssue, RevokeAgain,
      LoadForRevoke, Authenticate, CommitTouch, Touch, LoadPrincipal,
      AuthenticateOpen, Act, LoadForLogout, LoadExpired, Expire, RollBack

(* What the requests in flight have read holds after every step.           *)
LEMMA ReadsStep == TypeOK /\ ReadsHold /\ [Next]_vars => ReadsHold'
<1> SUFFICES ASSUME TypeOK, ReadsHold, [Next]_vars, NEW q \in Request
             PROVE  /\ pc'[q] = "deleting" =>
                         \A t \in known'[q] :
                            ProjectOf[t] = subject'[q] /\ row'[t] # "new"
                    /\ pc'[q] \in WebStep => row'[subject'[q]] # "new"
  BY DEF ReadsHold
<1> DEFINE Kept == UNCHANGED <<pc[q], subject[q], known[q]>>
           Elsewhere == pc'[q] \notin {"deleting"} \cup WebStep
           Loaded == /\ pc'[q] \in {"deleting"} \cup WebStep
                     /\ pc'[q] = "deleting" => known'[q] = TokensOf(subject'[q])
                     /\ pc'[q] \in WebStep => row[subject'[q]] # "new"
                     /\ UNCHANGED row
<1>1. Kept \/ Elsewhere \/ Loaded
  <2> USE DEF TypeOK, local, db
  <2>1. ASSUME NEW r \in Request, NEW p \in Project,
               CreateProject(r, p) \/ LoadForDelete(r, p)
        PROVE  Kept \/ Elsewhere \/ Loaded
    BY <2>1 DEF CreateProject, LoadForDelete
  <2>2. ASSUME NEW r \in Request, CommitDelete(r) \/ CommitIssue(r) \/ CommitRevoke(r)
        PROVE  Kept \/ Elsewhere
    BY <2>2 DEF CommitDelete, CommitIssue, CommitRevoke
  <2>3. ASSUME NEW r \in Request, NEW t \in Token,
               \/ LoadForIssue(r, t) \/ RevokeAgain(r, t)
               \/ LoadForRevoke(r, t) \/ Authenticate(r, t)
        PROVE  Kept \/ Elsewhere
    BY <2>3 DEF LoadForIssue, RevokeAgain, LoadForRevoke, Authenticate
  <2>4. ASSUME NEW r \in Request,
               CommitTouch(r) \/ LoadPrincipal(r) \/ AuthenticateOpen(r) \/ Act(r)
        PROVE  Kept \/ Elsewhere
    BY <2>4 DEF CommitTouch, LoadPrincipal, AuthenticateOpen, Act
  <2>5. ASSUME NEW r \in Request, NEW s \in WebSession,
               Login(r, s) \/ LoadForLogout(r, s) \/ LoadExpired(r, s)
        PROVE  Kept \/ Elsewhere \/ Loaded
    BY <2>5 DEF Login, LoadForLogout, LoadExpired
  <2>6. ASSUME NEW r \in Request, CommitLogout(r) \/ CommitSweep(r) \/ RollBack(r)
        PROVE  Kept \/ Elsewhere
    BY <2>6 DEF CommitLogout, CommitSweep, RollBack
  <2>7. CASE UNCHANGED <<pc, local>>
    BY <2>7
  <2> QED
    BY <2>1, <2>2, <2>3, <2>4, <2>5, <2>6, <2>7 DEF Next, vars, Expire
<1>2. \A c \in Credential : row[c] # "new" => row'[c] # "new"
  BY NeverNewAgain
<1>3. CASE Kept
  BY <1>2, <1>3 DEF ReadsHold, TypeOK
<1>4. CASE Loaded
  BY <1>4 DEF TokensOf, Exists
<1> QED
  BY <1>1, <1>3, <1>4

(* An end that was answered, or came by time, stays in effect.             *)
LEMMA EndsStep == TypeOK /\ IInv /\ [Next]_vars => EndsHold'
<1> SUFFICES ASSUME TypeOK, IInv, [Next]_vars PROVE EndsHold'
  OBVIOUS
<1> USE DistinctAssumption DEF TypeOK, IInv, EndsHold, Usable, Exists, db
<1>1. \A c \in Credential : row[c] # "new" => row'[c] # "new"
  BY NeverNewAgain
<1>2. ASSUME NEW r \in Request, CommitDelete(r) PROVE EndsHold'
  <2>1. ASSUME NEW t \in Token, ProjectOf[t] = subject[r], row[t] # "new"
        PROVE  row'[t] \in {"revoked", "gone"}
    BY <1>2, <2>1 DEF CommitDelete, Unreferenced, TokensOf
  <2> QED
    BY <1>1, <1>2, <2>1 DEF CommitDelete
<1>3. ASSUME NEW r \in Request, CommitIssue(r) PROVE EndsHold'
  BY <1>3 DEF CommitIssue
<1>4. ASSUME NEW r \in Request, CommitRevoke(r) PROVE EndsHold'
  BY <1>4 DEF CommitRevoke
<1>5. ASSUME NEW r \in Request, NEW t \in Token, RevokeAgain(r, t) PROVE EndsHold'
  BY <1>5 DEF RevokeAgain
<1>6. ASSUME NEW r \in Request, NEW s \in WebSession, Login(r, s) PROVE EndsHold'
  BY <1>6 DEF Login
<1>7. ASSUME NEW r \in Request, CommitLogout(r) \/ CommitSweep(r) PROVE EndsHold'
  BY <1>7 DEF CommitLogout, CommitSweep, DeleteSession, ReadsHold
<1>8. ASSUME NEW c \in Credential, Expire(c) PROVE EndsHold'
  BY <1>8 DEF Expire
<1>9. CASE UNCHANGED <<row, expired, acknowledged>>
  BY <1>9
<1> QED
  BY <1>2, <1>3, <1>4, <1>5, <1>6, <1>7, <1>8, <1>9
  DEF Next, vars, CreateProject, LoadForDelete, LoadForIssue, LoadForRevoke,
      Authenticate, CommitTouch, Touch, LoadPrincipal, AuthenticateOpen, Act,
      LoadForLogout, LoadExpired, RollBack

(* The invariant is inductive, and so holds in every reachable state.      *)
LEMMA InvStep == IInv /\ [Next]_vars => IInv'
  BY TypeStep, ProjectStep, ReadsStep, EndsStep DEF IInv

(* Every reachable state satisfies the invariant.                          *)
LEMMA Invariance == Spec => []IInv
  BY InitInv, InvStep, PTL DEF Spec
-----------------------------------------------------------------------------
(* Every reachable state is well typed.                                    *)
THEOREM TypeCorrect == Spec => []TypeOK
  BY Invariance, PTL DEF IInv

(* No token ever outlives its project, however issues and deletions race.  *)
THEOREM NoOrphans == Spec => []TokensHaveProject
  BY Invariance, PTL DEF IInv

(* A token's row disappears only together with its project.                *)
LEMMA DeletionStep ==
  ASSUME IInv, [Next]_vars, NEW t \in Token, Exists(t), row'[t] = "gone"
  PROVE  project'[ProjectOf[t]] = "gone"
<1> USE DistinctAssumption DEF IInv, TypeOK, Exists, db
<1>1. ASSUME NEW r \in Request, CommitDelete(r) PROVE project'[ProjectOf[t]] = "gone"
  BY <1>1 DEF CommitDelete, ReadsHold
<1>2. ASSUME NEW r \in Request, CommitIssue(r) \/ CommitRevoke(r) PROVE FALSE
  BY <1>2 DEF CommitIssue, CommitRevoke
<1>3. ASSUME NEW r \in Request, CommitLogout(r) \/ CommitSweep(r) PROVE FALSE
  BY <1>3 DEF CommitLogout, CommitSweep, DeleteSession
<1>4. ASSUME NEW r \in Request, NEW s \in WebSession, Login(r, s) PROVE FALSE
  BY <1>4 DEF Login
<1>5. CASE UNCHANGED row
  BY <1>5
<1> QED
  BY <1>1, <1>2, <1>3, <1>4, <1>5
  DEF Next, vars, CreateProject, LoadForDelete, LoadForIssue, RevokeAgain,
      LoadForRevoke, Authenticate, CommitTouch, Touch, LoadPrincipal,
      AuthenticateOpen, Act, LoadForLogout, LoadExpired, Expire, RollBack

(* The deletion of a project is all or nothing.                            *)
THEOREM DeletionIsAtomic == Spec => TokensGoWithProject
<1>1. IInv /\ [Next]_vars =>
        [\A t \in Token : Exists(t) /\ row'[t] = "gone" =>
           project'[ProjectOf[t]] = "gone"]_vars
  BY DeletionStep
<1> QED
  BY <1>1, Invariance, PTL DEF Spec, TokensGoWithProject
-----------------------------------------------------------------------------
(* A step that issues nothing and makes nothing usable is a withdrawal.    *)
LEMMA WithdrawalStep ==
  ASSUME TypeOK, EndsHold', acknowledged' \subseteq Credential,
         \A c \in Credential : row[c] = "new" <=> row'[c] = "new",
         \A c \in Credential :
           row'[c] = "live" /\ c \notin expired' => Usable(c),
         acknowledged \subseteq acknowledged'
  PROVE  Lifecycle!Next
<1> USE DEF Usable
<1>1. PICK lapsed \in SUBSET Credential :
        lapsed = {c \in Credential :
                    Usable(c) /\ ~(row'[c] = "live" /\ c \notin expired')}
  OBVIOUS
<1>2. Lifecycle!Withdraw(lapsed)
  BY <1>1 DEF Lifecycle!Withdraw
<1>3. Lifecycle!Acknowledge
  BY DEF Lifecycle!Acknowledge, EndsHold
<1> QED
  BY <1>2, <1>3 DEF Lifecycle!Next

(* A step that makes one new row live is an issue.                         *)
LEMMA IssueStep ==
  ASSUME TypeOK, EndsHold, NEW c \in Credential, row[c] = "new",
         row' = [row EXCEPT ![c] = "live"], UNCHANGED <<expired, acknowledged>>
  PROVE  Lifecycle!Next
<1> USE DEF Usable
<1>1. c \notin expired
  BY DEF EndsHold
<1>2. Lifecycle!Issue(c)
  BY <1>1 DEF Lifecycle!Issue, TypeOK
<1> QED
  BY <1>2 DEF Lifecycle!Next

(* Every step of the program is a step of the lifecycle or a stutter.      *)
LEMMA RefinementStep ==
  ASSUME IInv, IInv', [Next]_vars
  PROVE  Lifecycle!Next \/ UNCHANGED <<row, expired, acknowledged>>
<1> USE DistinctAssumption DEF IInv, db, Usable
<1>0. acknowledged' \subseteq Credential
  BY DEF TypeOK
<1>1. ASSUME NEW r \in Request, CommitDelete(r) PROVE Lifecycle!Next
  BY <1>0, <1>1, WithdrawalStep DEF CommitDelete, ReadsHold, Usable, TypeOK
<1>2. ASSUME NEW r \in Request, CommitIssue(r) PROVE Lifecycle!Next
  BY <1>2, IssueStep DEF CommitIssue, TypeOK
<1>3. ASSUME NEW r \in Request, CommitRevoke(r) PROVE Lifecycle!Next
  BY <1>0, <1>3, WithdrawalStep DEF CommitRevoke, Usable, TypeOK, Exists
<1>4. ASSUME NEW r \in Request, NEW t \in Token, RevokeAgain(r, t)
      PROVE  Lifecycle!Next
  BY <1>0, <1>4, WithdrawalStep DEF RevokeAgain, Usable
<1>5. ASSUME NEW r \in Request, NEW s \in WebSession, Login(r, s)
      PROVE  Lifecycle!Next
  BY <1>5, IssueStep DEF Login
<1>6. ASSUME NEW r \in Request, CommitLogout(r) \/ CommitSweep(r)
      PROVE  Lifecycle!Next
  BY <1>0, <1>6, WithdrawalStep
  DEF CommitLogout, CommitSweep, DeleteSession, ReadsHold, Usable, TypeOK
<1>7. ASSUME NEW c \in Credential, Expire(c) PROVE Lifecycle!Next
  BY <1>0, <1>7, WithdrawalStep DEF Expire, Usable
<1>8. CASE UNCHANGED <<row, expired, acknowledged>>
  BY <1>8
<1> QED
  BY <1>1, <1>2, <1>3, <1>4, <1>5, <1>6, <1>7, <1>8
  DEF Next, vars, CreateProject, LoadForDelete, LoadForIssue, LoadForRevoke,
      Authenticate, CommitTouch, Touch, LoadPrincipal, AuthenticateOpen, Act,
      LoadForLogout, LoadExpired, RollBack

(* Every credential is issued once and its end is final.                   *)
THEOREM RefinesLifecycle == Spec => ImplementsLifecycle
<1>1. Init => Lifecycle!Init
  BY DEF Init, Lifecycle!Init, Usable
<1>2. IInv /\ IInv' /\ [Next]_vars => [Lifecycle!Next]_(Lifecycle!vars)
  BY RefinementStep DEF Lifecycle!vars, Usable
<1> QED
  BY <1>1, <1>2, Invariance, PTL DEF Spec, ImplementsLifecycle, Lifecycle!Spec
=============================================================================
