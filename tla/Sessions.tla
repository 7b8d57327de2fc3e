------------------------------ MODULE Sessions ------------------------------
(***************************************************************************)
(* Users and login sessions: auth_service over the tables of               *)
(* auth_repository and the copies in redis_session_cache.                  *)
(*                                                                         *)
(* Requests run side by side: the dependencies that resolve a session are  *)
(* plain functions, which the framework runs in threads, next to the       *)
(* handlers and to any other web process.  One action is one repository or *)
(* Redis call.  A call of the cache fails quietly.                         *)
(***************************************************************************)
EXTENDS Integers, FiniteSets

CONSTANTS
    Requests,        \* threads that serve requests
    Tokens,          \* session tokens, one per login
    UserNames,
    SessionScenes    \* bounds: how often each request and fault may happen

SessionKinds == {"register", "login", "logout", "resolve", "lapse", "outage",
                 "abort"}

ASSUME SessionAssumption == SessionScenes \subseteq [SessionKinds -> Nat]

VARIABLES
    user,        \* users; a draft is not committed yet
    adminLock,   \* who holds users.first_admin_bootstrap
    session,     \* user_sessions
    lapsed,      \* tokens whose expires_at has passed
    stored,      \* tokens in the cache
    serving,     \* what each request does
    left,        \* history: tokens whose logout was answered
    slipped,     \* history: tokens the cache kept or got back after a logout
    admitted,    \* history: <<token, what had ended it before the request>>
    tries

sessionVars == <<user, adminLock, session, lapsed, stored, serving, left,
                 slipped, admitted, tries>>
people == <<user, adminLock>>
diary == <<left, slipped, admitted>>

Try(k) == tries[k] > 0 /\ tries' = [tries EXCEPT ![k] = @ - 1]

Registering(pc, n, first) ==
    [pc |-> pc, name |-> n, token |-> "none", first |-> first, ended |-> "no"]
Using(pc, t, ended) ==
    [pc |-> pc, name |-> "none", token |-> t, first |-> FALSE, ended |-> ended]
IdleRequest == Using("idle", "none", "no")

SessionInit ==
    /\ user = [n \in UserNames |-> [state |-> "none", admin |-> FALSE]]
    /\ adminLock = "nobody"
    /\ session = [t \in Tokens |-> "none"]
    /\ lapsed = {} /\ stored = {}
    /\ serving = [q \in Requests |-> IdleRequest]
    /\ left = {} /\ slipped = {} /\ admitted = {}
    /\ tries \in SessionScenes

Step(q, pc) == serving' = [serving EXCEPT ![q].pc = pc]
Answer(q) == serving' = [serving EXCEPT ![q] = IdleRequest]

-----------------------------------------------------------------------------
(* register and create_user.                                                *)

BeginRegister(q, n) ==
    /\ serving[q].pc = "idle"
    /\ Try("register")
    /\ serving' = [serving EXCEPT ![q] = Registering("lock", n, FALSE)]
    /\ UNCHANGED <<people, session, lapsed, stored, diary>>

TakeAdminLock(q) ==
    /\ serving[q].pc = "lock"
    /\ adminLock = "nobody"
    /\ adminLock' = q
    /\ Step(q, "count")
    /\ UNCHANGED <<user, session, lapsed, stored, diary, tries>>

(* Mutant: the id tells, not the count: uncommitted users count too.        *)
FirstId == \A n \in UserNames : user[n].state = "none"

(* The count sees committed users only.                                     *)
FirstUser == \A n \in UserNames : user[n].state # "saved"

CountUsers(q) ==
    /\ serving[q].pc = "count"
    /\ serving' = [serving EXCEPT ![q] =
                      Registering("insert", serving[q].name, FirstUser)]
    /\ UNCHANGED <<people, session, lapsed, stored, diary, tries>>

(* A name that is taken is refused; one that is being inserted makes wait.  *)
InsertUser(q) ==
    LET n == serving[q].name
    IN  /\ serving[q].pc = "insert"
        /\ user[n].state # "draft"
        /\ IF user[n].state = "saved"
           THEN Step(q, "refused") /\ UNCHANGED user
           ELSE /\ user' = [user EXCEPT ![n] = [state |-> "draft",
                                                admin |-> serving[q].first]]
                /\ Step(q, "release")
        /\ UNCHANGED <<adminLock, session, lapsed, stored, diary, tries>>

(* The lock goes before the commit.                                         *)
ReleaseAdminLock(q) ==
    /\ serving[q].pc \in {"release", "refused"}
    /\ adminLock' = "nobody"
    /\ IF serving[q].pc = "release" THEN Step(q, "commit") ELSE Answer(q)
    /\ UNCHANGED <<user, session, lapsed, stored, diary, tries>>

CommitUser(q) ==
    /\ serving[q].pc = "commit"
    /\ user' = [user EXCEPT ![serving[q].name] =
                   [state |-> "saved", admin |-> user[serving[q].name].admin]]
    /\ Answer(q)
    /\ UNCHANGED <<adminLock, session, lapsed, stored, diary, tries>>

(* The connection breaks: lock and draft go with it.                        *)
RegisterBreaks(q) ==
    /\ serving[q].pc \in {"count", "insert", "release", "commit"}
    /\ Try("abort")
    /\ adminLock' = IF adminLock = q THEN "nobody" ELSE adminLock
    /\ user' = IF serving[q].pc \in {"release", "commit"}
               THEN [user EXCEPT ![serving[q].name] = [state |-> "none", admin |-> FALSE]]
               ELSE user
    /\ Answer(q)
    /\ UNCHANGED <<session, lapsed, stored, diary>>

-----------------------------------------------------------------------------
(* login: the session's row, then its copy in the cache.                    *)

Login(q, n, t) ==
    /\ serving[q].pc = "idle"
    /\ user[n].state = "saved"
    /\ session[t] = "none"
    /\ Try("login")
    /\ session' = [session EXCEPT ![t] = "active"]
    /\ serving' = [serving EXCEPT ![q] = Using("first_store", t, "no")]
    /\ UNCHANGED <<people, lapsed, stored, diary>>

(* store, of a login or of a resolved session, whatever became of it since. *)
StoreSession(q) ==
    LET t == serving[q].token
    IN  /\ serving[q].pc \in {"first_store", "store"}
        /\ \/ stored' = stored \cup {t} /\ UNCHANGED tries
           \/ UNCHANGED stored /\ Try("outage")
        /\ slipped' = IF session[t] = "revoked" THEN slipped \cup {t} ELSE slipped
        /\ IF serving[q].pc = "store" THEN Step(q, "check") ELSE Answer(q)
        /\ UNCHANGED <<people, session, lapsed, left, admitted>>

-----------------------------------------------------------------------------
(* resolve_user_from_session, for every request of a browser.               *)

Known(t) == session[t] # "none"

Resolve(q, t) ==
    /\ serving[q].pc = "idle"
    /\ Known(t)
    /\ Try("resolve")
    /\ serving' = [serving EXCEPT ![q] =
          Using("fetch", t, IF t \in lapsed THEN "expired"
                            ELSE IF t \in left THEN "left" ELSE "no")]
    /\ UNCHANGED <<people, session, lapsed, stored, diary>>

FetchSession(q) ==
    /\ serving[q].pc = "fetch"
    /\ \/ /\ Step(q, IF serving[q].token \in stored THEN "check" ELSE "read")
          /\ UNCHANGED tries
       \/ Step(q, "read") /\ Try("outage")
    /\ UNCHANGED <<people, session, lapsed, stored, diary>>

ReadSession(q) ==
    LET t == serving[q].token
    IN  /\ serving[q].pc = "read"
        /\ IF session[t] = "active" /\ t \notin lapsed
           THEN Step(q, "store") ELSE Answer(q)
        /\ UNCHANGED <<people, session, lapsed, stored, diary, tries>>

(* Mutant: what the cache has is taken as it is.                            *)
ExpiredOnlyInTable(t) == t \in lapsed /\ t \notin stored

Expired(t) == t \in lapsed

(* An expired one is logged out, any other one is let in.                   *)
CheckSession(q) ==
    LET t == serving[q].token
    IN  /\ serving[q].pc = "check"
        /\ IF Expired(t)
           THEN Step(q, "revoke") /\ UNCHANGED admitted
           ELSE /\ Answer(q)
                /\ admitted' = admitted \cup {<<t, serving[q].ended>>}
        /\ UNCHANGED <<people, session, lapsed, stored, left, slipped, tries>>

-----------------------------------------------------------------------------
(* logout: the row first, then the copy.                                    *)

Logout(q, t) ==
    /\ serving[q].pc = "idle"
    /\ Known(t)
    /\ Try("logout")
    /\ serving' = [serving EXCEPT ![q] = Using("revoke", t, "no")]
    /\ UNCHANGED <<people, session, lapsed, stored, diary>>

RevokeSession(q) ==
    /\ serving[q].pc = "revoke"
    /\ session' = [session EXCEPT ![serving[q].token] = "revoked"]
    /\ Step(q, "forget")
    /\ UNCHANGED <<people, lapsed, stored, diary, tries>>

ForgetSession(q) ==
    LET t == serving[q].token
    IN  /\ serving[q].pc = "forget"
        /\ \/ stored' = stored \ {t} /\ UNCHANGED <<slipped, tries>>
           \/ UNCHANGED stored /\ Try("outage") /\ slipped' = slipped \cup {t}
        /\ left' = left \cup {t}
        /\ Answer(q)
        /\ UNCHANGED <<people, session, lapsed, admitted>>

-----------------------------------------------------------------------------
(* expires_at passes; the copy's time to live may end a little later.       *)
Lapse(t) ==
    /\ session[t] # "none" /\ t \notin lapsed
    /\ Try("lapse")
    /\ lapsed' = lapsed \cup {t}
    /\ stored' \in {stored, stored \ {t}}
    /\ UNCHANGED <<people, session, serving, diary>>

SessionNext ==
    \/ \E q \in Requests :
          \/ \E n \in UserNames : BeginRegister(q, n)
          \/ TakeAdminLock(q) \/ CountUsers(q) \/ InsertUser(q)
          \/ ReleaseAdminLock(q) \/ CommitUser(q) \/ RegisterBreaks(q)
          \/ \E n \in UserNames, t \in Tokens : Login(q, n, t)
          \/ StoreSession(q) \/ FetchSession(q) \/ ReadSession(q) \/ CheckSession(q)
          \/ \E t \in Tokens : Resolve(q, t) \/ Logout(q, t)
          \/ RevokeSession(q) \/ ForgetSession(q)
    \/ \E t \in Tokens : Lapse(t)

SessionSpec == SessionInit /\ [][SessionNext]_sessionVars

-----------------------------------------------------------------------------
(* Properties.                                                              *)

(* As soon as there is a user there is an administrator among the users,    *)
(* although the lock of the first registration is let go before its commit  *)
(* and the registration may still break.  (It also lets two registrations   *)
(* both be the first.)                                                      *)
SomeoneIsAdmin ==
    (\E n \in UserNames : user[n].state = "saved") =>
        \E n \in UserNames : user[n].state = "saved" /\ user[n].admin

(* A request that begins after the logout of its session was answered, or   *)
(* after the session expired, is not let in; unless the cache was away when *)
(* its copy was to go, or a request that had read the row before the logout *)
(* put the copy back after it.  An expired session is never let in.         *)
EndedStaysEnded ==
    \A t \in Tokens :
        /\ <<t, "expired">> \notin admitted
        /\ <<t, "left">> \in admitted => t \in slipped
=============================================================================
