---------------------------- MODULE ProjectAccess ----------------------------
(***************************************************************************)
(* The projects of a workspace, the integration tokens issued for them and *)
(* the web sessions of its users.                                          *)
(*                                                                         *)
(* A request reads rows, evaluates its guards, and writes in a later       *)
(* transaction step; the foreign key from a token to its project and the   *)
(* unique constraints are evaluated by the database when it writes.  The   *)
(* web requests are those whose session and role passed the checks at      *)
(* their start.  A request answered by a guard of its first read changes   *)
(* nothing and is not a step.                                              *)
(***************************************************************************)
CONSTANTS
  Project,     \* ids of projects rows, each used once
  Token,       \* ids of integration_tokens rows, each used once
  WebSession,  \* token hashes of web_sessions rows, each used once
  RefOf,       \* the provider and reference each project is registered with
  ProjectOf,   \* the project of each token
  NameOf,      \* the name of each token
  Request,     \* requests, each of which is served once
  Nothing      \* "no row"

Credential == Token \cup WebSession

ASSUME ReferenceAssumption ==
  /\ ProjectOf \in [Token -> Project]
  /\ DOMAIN RefOf = Project /\ DOMAIN NameOf = Token
ASSUME DistinctAssumption ==
  /\ Token \cap WebSession = {} /\ Project \cap Credential = {}
  /\ Nothing \notin Project \cup Credential

VARIABLES
  project,       \* the stage of each project row
  row,           \* the stage of each credential's row
  expired,       \* the credentials whose expires_at has passed
  acknowledged,  \* those whose end was answered with success
  pc,            \* what each request does next
  subject,       \* the row each request works on
  known          \* the tokens of the project that a deletion read

db == <<project, row, expired, acknowledged>>
local == <<subject, known>>
vars == <<db, pc, local>>

WebStep == {"loggingOut", "sweeping"}
TokenStep == {"issuing", "revoking", "touching", "refreshing", "acting"}
InFlight == {"deleting"} \cup WebStep \cup TokenStep

(* A revoked token keeps its row.                                          *)
Exists(c) == row[c] \in {"live", "revoked"}
TokensOf(p) == {t \in Token : ProjectOf[t] = p /\ Exists(t)}
Usable(c) == row[c] = "live" /\ c \notin expired

Init ==
  /\ project = [p \in Project |-> "new"]
  /\ row = [c \in Credential |-> "new"]
  /\ expired = {} /\ acknowledged = {}
  /\ pc = [r \in Request |-> "idle"]
  /\ subject = [r \in Request |-> Nothing]
  /\ known = [r \in Request |-> {}]
-----------------------------------------------------------------------------
Proceed(r, from, to) == pc[r] = from /\ pc' = [pc EXCEPT ![r] = to]

Begin(r, step, what) ==
  /\ Proceed(r, "idle", step)
  /\ subject' = [subject EXCEPT ![r] = what]
  /\ UNCHANGED <<db, known>>

(* The response is sent and the session, with all it loaded, is closed.    *)
Finish(r, from) ==
  /\ Proceed(r, from, "done")
  /\ subject' = [subject EXCEPT ![r] = Nothing]
  /\ known' = [known EXCEPT ![r] = {}]
-----------------------------------------------------------------------------
(* Projects.                                                               *)

(* uq_project_provider_reference.                                          *)
ReferenceUnique(p) ==
  \A q \in Project : RefOf[q] = RefOf[p] => project[q] # "live"

CreateProject(r, p) ==
  /\ Finish(r, "idle")
  /\ project[p] = "new"
  /\ ReferenceUnique(p)
  /\ project' = [project EXCEPT ![p] = "live"]
  /\ UNCHANGED <<row, expired, acknowledged>>

LoadForDelete(r, p) ==
  /\ project[p] = "live"
  /\ Proceed(r, "idle", "deleting")
  /\ subject' = [subject EXCEPT ![r] = p]
  /\ known' = [known EXCEPT ![r] = TokensOf(p)]
  /\ UNCHANGED db

(* The foreign key of integration_tokens: a project row that a token row   *)
(* refers to cannot be deleted.                                            *)
Unreferenced(p, deleted) == TokensOf(p) \subseteq deleted

(* The tokens that were read are deleted, then the project, in one         *)
(* transaction; a DELETE that meets no row is only warned about.           *)
CommitTokensBeforeProject(r) ==
  /\ Finish(r, "deleting")
  /\ row' = [c \in Credential |-> IF c \in known[r] THEN "gone" ELSE row[c]]
  /\ project' = IF Unreferenced(subject[r], known[r])
                THEN [project EXCEPT ![subject[r]] = "gone"] ELSE project
  /\ acknowledged' = acknowledged \cup
       {t \in Token : /\ ProjectOf[t] = subject[r] /\ row[t] # "new"
                      /\ Unreferenced(subject[r], known[r])}
  /\ UNCHANGED expired
CommitDelete(r) ==
  /\ Finish(r, "deleting")
  /\ Unreferenced(subject[r], known[r])
  /\ row' = [c \in Credential |-> IF c \in known[r] THEN "gone" ELSE row[c]]
  /\ project' = [project EXCEPT ![subject[r]] = "gone"]
  /\ acknowledged' = acknowledged \cup
       {t \in Token : ProjectOf[t] = subject[r] /\ row[t] # "new"}
  /\ UNCHANGED expired
-----------------------------------------------------------------------------
(* Issuing and revoking integration tokens.                                *)

LoadForIssue(r, t) ==
  /\ project[ProjectOf[t]] = "live"
  /\ row[t] = "new"
  /\ Begin(r, "issuing", t)

(* uq_integration_token_project_name.                                      *)
NameUnique(t) ==
  \A other \in TokensOf(ProjectOf[t]) : NameOf[other] # NameOf[t]

(* The foreign key again, from the other side.                             *)
AnyProject(t) == ProjectOf[t] \in Project
ProjectThere(t) == project[ProjectOf[t]] = "live"

(* An id is drawn at random, so it is not one that is already in use.      *)
CommitIssue(r) ==
  LET t == subject[r] IN
  /\ Finish(r, "issuing")
  /\ row[t] = "new"
  /\ ProjectThere(t) /\ NameUnique(t)
  /\ row' = [row EXCEPT ![t] = "live"]
  /\ UNCHANGED <<project, expired, acknowledged>>

(* Revoking a revoked token is answered with success and writes nothing.   *)
RevokeAgain(r, t) ==
  /\ row[t] = "revoked"
  /\ Finish(r, "idle")
  /\ acknowledged' = acknowledged \cup {t}
  /\ UNCHANGED <<project, row, expired>>

LoadForRevoke(r, t) ==
  /\ row[t] = "live" /\ project[ProjectOf[t]] = "live"
  /\ Begin(r, "revoking", t)

(* An UPDATE that meets no row raises StaleDataError and is rolled back.   *)
CommitRevoke(r) ==
  /\ Finish(r, "revoking")
  /\ Exists(subject[r])
  /\ row' = [row EXCEPT ![subject[r]] = "revoked"]
  /\ acknowledged' = acknowledged \cup {subject[r]}
  /\ UNCHANGED <<project, expired>>
-----------------------------------------------------------------------------
(* A request of a pipeline's agent.                                        *)

(* With a bearer token: the row is looked up, last_used_at is written and  *)
(* committed, and project and token are read again for the principal.      *)
Authenticate(r, t) ==
  /\ Usable(t)
  /\ project[ProjectOf[t]] = "live"
  /\ Begin(r, "touching", t)

(* The UPDATE sets last_used_at alone, whatever else the row now says.     *)
TouchAsLoaded(t) == row' = [row EXCEPT ![t] = "live"]
Touch(t) == row' = row

CommitTouch(r) ==
  /\ Proceed(r, "touching", "refreshing")
  /\ Exists(subject[r])
  /\ Touch(subject[r])
  /\ UNCHANGED <<project, expired, acknowledged, local>>

LoadPrincipal(r) ==
  /\ Proceed(r, "refreshing", "acting")
  /\ Exists(subject[r]) /\ project[ProjectOf[subject[r]]] = "live"
  /\ UNCHANGED <<db, local>>

(* Without one: open as long as there is no token row, and so again after  *)
(* the last one is deleted.                                                *)
TouchNothing(r) ==
  /\ \A t \in Token : ~Exists(t)
  /\ Begin(r, "touching", Nothing)
AuthenticateOpen(r) ==
  /\ \A t \in Token : ~Exists(t)
  /\ Begin(r, "acting", Nothing)

(* The principal is checked against the run and the scope of the route;    *)
(* what the route then does belongs to its own module.                     *)
Act(r) == Finish(r, "acting") /\ UNCHANGED db
-----------------------------------------------------------------------------
(* Web sessions.                                                           *)

Login(r, s) ==
  /\ row[s] = "new"
  /\ Finish(r, "idle")
  /\ row' = [row EXCEPT ![s] = "live"]
  /\ UNCHANGED <<project, expired, acknowledged>>

LoadForLogout(r, s) == row[s] = "live" /\ Begin(r, "loggingOut", s)

(* A DELETE that meets no row is only warned about.                        *)
DeleteSession(s) == row' = [row EXCEPT ![s] = "gone"]

CommitLogout(r) ==
  /\ Finish(r, "loggingOut")
  /\ DeleteSession(subject[r])
  /\ acknowledged' = acknowledged \cup {subject[r]}
  /\ UNCHANGED <<project, expired>>

(* A request that presents an expired session deletes its row and is       *)
(* answered as if there were none.                                         *)
LoadExpired(r, s) ==
  row[s] = "live" /\ s \in expired /\ Begin(r, "sweeping", s)

CommitSweep(r) ==
  /\ Finish(r, "sweeping")
  /\ DeleteSession(subject[r])
  /\ UNCHANGED <<project, expired, acknowledged>>
-----------------------------------------------------------------------------
(* Time passes.                                                            *)
Expire(c) ==
  /\ row[c] # "new" /\ c \notin expired
  /\ expired' = expired \cup {c}
  /\ UNCHANGED <<project, row, acknowledged, pc, local>>

(* A violated constraint, a row that is gone, a refused principal or a     *)
(* worker that dies: nothing is written.                                   *)
RollBack(r) ==
  /\ \E step \in InFlight : Finish(r, step)
  /\ UNCHANGED db

Next ==
  \/ \E r \in Request :
       \/ \E p \in Project : CreateProject(r, p) \/ LoadForDelete(r, p)
       \/ CommitDelete(r)
       \/ \E t \in Token :
            \/ LoadForIssue(r, t) \/ RevokeAgain(r, t) \/ LoadForRevoke(r, t)
            \/ Authenticate(r, t)
       \/ CommitIssue(r) \/ CommitRevoke(r)
       \/ CommitTouch(r) \/ LoadPrincipal(r) \/ AuthenticateOpen(r) \/ Act(r)
       \/ \E s \in WebSession :
            Login(r, s) \/ LoadForLogout(r, s) \/ LoadExpired(r, s)
       \/ CommitLogout(r) \/ CommitSweep(r)
       \/ RollBack(r)
  \/ \E c \in Credential : Expire(c)

Spec == Init /\ [][Next]_vars
-----------------------------------------------------------------------------
(* Properties.                                                             *)

(* Type invariant.                                                         *)
TypeOK ==
  /\ project \in [Project -> {"new", "live", "gone"}]
  /\ row \in [Credential -> {"new", "live", "revoked", "gone"}]
  /\ expired \subseteq Credential /\ acknowledged \subseteq Credential
  /\ pc \in [Request -> InFlight \cup {"idle", "done"}]
  /\ subject \in [Request -> Project \cup Credential \cup {Nothing}]
  /\ known \in [Request -> SUBSET Token]
  /\ \A r \in Request :
       /\ pc[r] = "deleting" => subject[r] \in Project
       /\ pc[r] \in TokenStep \ {"acting"} => subject[r] \in Token
       /\ pc[r] \in WebStep => subject[r] \in WebSession

(* No token outlives its project: a token issued while its project is      *)
(* being deleted is refused, or the deletion is.                           *)
TokensHaveProject ==
  \A t \in Token : Exists(t) => project[ProjectOf[t]] = "live"

(* The deletion of a project is all or nothing: no token row disappears    *)
(* while its project stays, whatever the deletion meets on its way.        *)
TokensGoWithProject ==
  [][\A t \in Token : Exists(t) /\ row'[t] = "gone" =>
       project'[ProjectOf[t]] = "gone"]_vars

(* A credential is issued once and its end is final: once a revocation, a  *)
(* project's deletion or a logout was answered, or its time is over, no    *)
(* request that had read it before makes it usable again.                  *)
Lifecycle == INSTANCE CredentialLifecycle WITH
  stage <- [c \in Credential |->
    IF row[c] = "new" THEN "new"
    ELSE IF Usable(c) THEN "usable" ELSE "withdrawn"]
ImplementsLifecycle == Lifecycle!Spec
=============================================================================
