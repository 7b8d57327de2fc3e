--------------------------- MODULE SessionProofs ---------------------------
(***************************************************************************)
(* Proofs about Sessions, for any number of requests, tokens and names and *)
(* any number of faults.  The two properties speak of separate variables   *)
(* and have an inductive invariant each: UsersSound follows the requests   *)
(* that register, EndsSound the ones that resolve a session or end it.     *)
(***************************************************************************)
EXTENDS Sessions, TLAPS

RegisterSteps == {"lock", "count", "insert", "refused", "release", "commit"}
TokenSteps == {"first_store", "store", "fetch", "read", "check", "revoke", "forget"}

RequestStates ==
    [pc : {"idle"} \cup RegisterSteps \cup TokenSteps,
     name : UserNames \cup {"none"}, token : Tokens \cup {"none"},
     first : BOOLEAN, ended : {"no", "left", "expired"}]

(* A request that registers has a name, one that handles a session a token. *)
Proper(r) ==
    /\ r \in RequestStates
    /\ r.pc \in RegisterSteps => r.name \in UserNames
    /\ r.pc \in TokenSteps => r.token \in Tokens

ServingTypes ==
    /\ serving \in [Requests -> RequestStates]
    /\ \A q \in Requests : Proper(serving[q])

TableTypes ==
    /\ user \in [UserNames -> [state : {"none", "draft", "saved"}, admin : BOOLEAN]]
    /\ session \in [Tokens -> {"none", "active", "revoked"}]

Drafting(q) == serving[q].pc \in {"release", "commit"}
NobodySaved == \A n \in UserNames : user[n].state # "saved"

(* A draft belongs to one request; as long as nobody is saved, whoever is   *)
(* about to be will be an administrator.                                    *)
UsersSound ==
    /\ \A q \in Requests : Drafting(q) => user[serving[q].name].state = "draft"
    /\ \A p, q \in Requests :
          Drafting(p) /\ Drafting(q) /\ serving[p].name = serving[q].name => p = q
    /\ NobodySaved =>
          /\ \A n \in UserNames : user[n].state = "draft" => user[n].admin
          /\ \A q \in Requests : serving[q].pc = "insert" => serving[q].first
    /\ SomeoneIsAdmin

(* A session that was left is revoked, and in the cache only if it slipped; *)
(* a request that began after the end of its session gets past the table    *)
(* only by way of the cache.                                                *)
LeftIsRevoked ==
    \A t \in left : t \in Tokens /\ session[t] = "revoked" /\ (t \in stored => t \in slipped)

LateRequest(q) ==
    /\ serving[q].pc = "forget" => session[serving[q].token] = "revoked"
    /\ serving[q].pc \in TokenSteps =>
          /\ serving[q].ended = "expired" => serving[q].token \in lapsed
          /\ serving[q].ended = "left" => serving[q].token \in left
    /\ serving[q].pc \in {"store", "check"} /\ serving[q].ended = "left" =>
          serving[q].token \in slipped

EndsSound ==
    LeftIsRevoked /\ (\A q \in Requests : LateRequest(q)) /\ EndedStaysEnded

SessionInv == ServingTypes /\ TableTypes /\ UsersSound /\ EndsSound

-----------------------------------------------------------------------------
(* What a step does to the record of its request, and to no other.          *)

Becomes(q, r) ==
    /\ serving'[q] = r
    /\ \A p \in Requests : p # q => serving'[p] = serving[p]

At(q, pc) == [pc |-> pc, name |-> serving[q].name, token |-> serving[q].token,
              first |-> serving[q].first, ended |-> serving[q].ended]

(* A request that only changes its step.                                    *)
LEMMA RequestWithPc ==
    ASSUME NEW r \in RequestStates, NEW pc
    PROVE  [r EXCEPT !.pc = pc] = [pc |-> pc, name |-> r.name, token |-> r.token,
                                   first |-> r.first, ended |-> r.ended]
  BY SMT DEF RequestStates

(* Step, read as a whole new state of the request.                          *)
LEMMA StepMeans ==
    ASSUME ServingTypes, NEW q \in Requests, NEW pc, Step(q, pc)
    PROVE  serving' = [serving EXCEPT ![q] = At(q, pc)]
<1>1. serving[q] \in RequestStates
  BY SMT DEF ServingTypes
<1>2. [serving[q] EXCEPT !.pc = pc] = At(q, pc)
  BY <1>1, RequestWithPc, Zenon DEF At
<1>3. QED
  BY <1>2, Zenon DEF Step

(* A request that becomes a proper one leaves all requests proper.          *)
LEMMA BecomesProper ==
    ASSUME ServingTypes, NEW q \in Requests, NEW r, Proper(r),
           serving' = [serving EXCEPT ![q] = r]
    PROVE  ServingTypes' /\ Becomes(q, r)
<1>1. r \in RequestStates
  BY DEF Proper
<1>2. Becomes(q, r)
  BY SMT DEF ServingTypes, Becomes
<1>3. serving' \in [Requests -> RequestStates]
  BY <1>1, SMT DEF ServingTypes
<1>4. ASSUME NEW p \in Requests PROVE Proper(serving'[p])
  BY <1>2, Zenon DEF Becomes, ServingTypes
<1>5. QED
  BY <1>2, <1>3, <1>4, Zenon DEF ServingTypes, Proper

(* A request keeps to the family of steps it belongs to.                    *)
LEMMA StepKeepsProper ==
    ASSUME ServingTypes, NEW q \in Requests, NEW pc, Step(q, pc),
           \/ serving[q].pc \in RegisterSteps /\ pc \in RegisterSteps
           \/ serving[q].pc \in TokenSteps /\ pc \in TokenSteps
    PROVE  ServingTypes' /\ Becomes(q, At(q, pc))
<1>1. Proper(serving[q])
  BY DEF ServingTypes
<1>2. pc \in {"idle"} \cup RegisterSteps \cup TokenSteps
  BY Zenon
<1>3. At(q, pc) \in RequestStates
  BY <1>1, <1>2, SMT DEF Proper, At, RequestStates
<1>4. RegisterSteps \cap TokenSteps = {}
  BY SMT DEF RegisterSteps, TokenSteps
<1>5. /\ pc \in RegisterSteps => serving[q].name \in UserNames
      /\ pc \in TokenSteps => serving[q].token \in Tokens
  BY <1>1, <1>4, Zenon DEF Proper
<1>6. Proper(At(q, pc))
  BY <1>3, <1>5, SMT DEF Proper, At
<1>7. QED
  BY <1>6, StepMeans, BecomesProper

(* An answered request is idle again.                                       *)
LEMMA AnswerKeepsProper ==
    ASSUME ServingTypes, NEW q \in Requests, Answer(q)
    PROVE  ServingTypes' /\ Becomes(q, IdleRequest)
<1>1. Proper(IdleRequest)
  BY DEF Proper, IdleRequest, Using, RequestStates, RegisterSteps, TokenSteps
<1>2. QED
  BY <1>1, BecomesProper DEF Answer

-----------------------------------------------------------------------------
(* A step that registers leaves sessions alone, and the other way round.    *)

(* A step that leaves sessions and cache alone keeps what is known of ended *)
(* sessions.                                                                *)
LEMMA EndsStay ==
    ASSUME EndsSound, NEW q \in Requests, NEW r, Becomes(q, r), r.pc \notin TokenSteps,
           UNCHANGED <<session, lapsed, stored, diary>>
    PROVE  EndsSound'
<1>1. ASSUME NEW p \in Requests PROVE LateRequest(p)'
  <2>1. CASE p = q
    <3>1. serving'[p].pc \notin TokenSteps
      BY <2>1, Zenon DEF Becomes
    <3>2. QED
      BY <3>1, SMT DEF LateRequest, TokenSteps
  <2>2. CASE p # q
    BY <2>2, SMT DEF Becomes, LateRequest, EndsSound, diary
  <2>3. QED
    BY <2>1, <2>2
<1>2. LeftIsRevoked' /\ EndedStaysEnded'
  BY SMT DEF EndsSound, LeftIsRevoked, EndedStaysEnded, diary
<1>3. QED
  BY <1>1, <1>2 DEF EndsSound

(* A step that leaves the users alone keeps what is known of the            *)
(* administrators.                                                          *)
LEMMA UsersStay ==
    ASSUME UsersSound, NEW q \in Requests, NEW r, Becomes(q, r),
           r.pc \notin {"insert", "release", "commit"}, UNCHANGED user
    PROVE  UsersSound'
<1>1. \A p \in Requests :
         /\ Drafting(p)' => Drafting(p) /\ serving'[p] = serving[p]
         /\ serving'[p].pc = "insert" => serving[p].pc = "insert" /\ serving'[p] = serving[p]
  BY SMT DEF Becomes, Drafting
<1>2. QED
  BY <1>1, SMT DEF UsersSound, NobodySaved, SomeoneIsAdmin

-----------------------------------------------------------------------------
(* The invariant at the start.                                              *)
LEMMA SessionInvInit == SessionInit => SessionInv
<1> SUFFICES ASSUME SessionInit PROVE SessionInv
  OBVIOUS
<1> USE DEF SessionInit, IdleRequest, Using
<1>1. ServingTypes /\ TableTypes
  BY DEF ServingTypes, TableTypes, Proper, RequestStates, RegisterSteps, TokenSteps
<1>2. UsersSound
  BY DEF UsersSound, Drafting, NobodySaved, SomeoneIsAdmin
<1>3. EndsSound
  BY DEF EndsSound, LeftIsRevoked, LateRequest, TokenSteps, EndedStaysEnded
<1>4. QED
  BY <1>1, <1>2, <1>3 DEF SessionInv

(* Registering: the sessions stay as they are.                              *)
LEMMA RegisterKeeps ==
    ASSUME SessionInv, NEW q \in Requests,
           \/ \E n \in UserNames : BeginRegister(q, n)
           \/ TakeAdminLock(q) \/ CountUsers(q) \/ InsertUser(q)
           \/ ReleaseAdminLock(q) \/ CommitUser(q) \/ RegisterBreaks(q)
    PROVE  SessionInv'
<1> USE DEF SessionInv
<1>0. UNCHANGED <<session, lapsed, stored, diary>>
  BY DEF BeginRegister, TakeAdminLock, CountUsers, InsertUser, ReleaseAdminLock,
         CommitUser, RegisterBreaks, people
<1>a. /\ IdleRequest.pc \notin TokenSteps
      /\ \A pc \in RegisterSteps : pc \notin TokenSteps /\ At(q, pc).pc = pc
  BY SMT DEF IdleRequest, Using, TokenSteps, RegisterSteps, At
<1>1. ASSUME NEW n \in UserNames, BeginRegister(q, n) PROVE SessionInv'
  <2>1. Proper(Registering("lock", n, FALSE))
    BY DEF Proper, Registering, RequestStates, RegisterSteps, TokenSteps
  <2>2. ServingTypes' /\ Becomes(q, Registering("lock", n, FALSE))
    BY <1>1, <2>1, BecomesProper DEF BeginRegister
  <2>3. UNCHANGED user
    BY <1>1 DEF BeginRegister, people
  <2>4. UsersSound'
    BY <2>2, <2>3, UsersStay DEF Registering
  <2>5. EndsSound'
    BY <2>2, <1>0, EndsStay DEF Registering, TokenSteps
  <2>6. QED
    BY <2>2, <2>3, <2>4, <2>5, <1>0 DEF TableTypes
<1>2. CASE TakeAdminLock(q)
  <2>1. ServingTypes' /\ Becomes(q, At(q, "count"))
    BY <1>2, StepKeepsProper DEF TakeAdminLock, RegisterSteps
  <2>2. UNCHANGED user
    BY <1>2 DEF TakeAdminLock
  <2>3. UsersSound'
    BY <2>1, <2>2, UsersStay DEF At
  <2>4. EndsSound'
    BY <2>1, <1>0, <1>a, EndsStay DEF RegisterSteps
  <2>5. QED
    BY <2>1, <2>2, <2>3, <2>4, <1>0 DEF TableTypes
<1>3. CASE CountUsers(q)
  <2> DEFINE r == Registering("insert", serving[q].name, FirstUser)
  <2>1. serving[q].name \in UserNames
    BY <1>3 DEF CountUsers, ServingTypes, Proper, RegisterSteps
  <2>2. FirstUser \in BOOLEAN
    BY Zenon DEF FirstUser
  <2>3. Proper(r)
    BY <2>1, <2>2 DEF Proper, Registering, RequestStates, RegisterSteps, TokenSteps
  <2>4. ServingTypes' /\ Becomes(q, r)
    BY <1>3, <2>3, BecomesProper DEF CountUsers
  <2>5. UNCHANGED user
    BY <1>3 DEF CountUsers, people
  <2>6. r.pc = "insert" /\ r.first = FirstUser
    BY DEF Registering
  <2> HIDE DEF r
  <2>7. UsersSound'
    <3>1. \A p \in Requests : Drafting(p)' => Drafting(p) /\ serving'[p] = serving[p]
      BY <2>4, <2>6 DEF Becomes, Drafting
    <3>2. NobodySaved' => NobodySaved /\ FirstUser
      BY <2>5 DEF NobodySaved, FirstUser
    <3>3. ASSUME NobodySaved', NEW p \in Requests, serving'[p].pc = "insert"
          PROVE  serving'[p].first
      BY <2>4, <2>6, <3>2, <3>3 DEF Becomes, UsersSound
    <3>4. QED
      BY <2>5, <3>1, <3>2, <3>3 DEF UsersSound, SomeoneIsAdmin
  <2>8. EndsSound'
    BY <2>4, <2>6, <1>0, EndsStay DEF TokenSteps
  <2>9. QED
    BY <2>4, <2>5, <2>7, <2>8, <1>0 DEF TableTypes
<1>4. CASE InsertUser(q)
  <2>1. serving[q].name \in UserNames
    BY <1>4 DEF InsertUser, ServingTypes, Proper, RegisterSteps
  <2>2. CASE user[serving[q].name].state = "saved"
    <3>1. ServingTypes' /\ Becomes(q, At(q, "refused"))
      BY <1>4, <2>2, StepKeepsProper DEF InsertUser, RegisterSteps
    <3>2. UNCHANGED user
      BY <1>4, <2>2 DEF InsertUser
    <3>3. UsersSound'
      BY <3>1, <3>2, UsersStay DEF At
    <3>4. EndsSound'
      BY <3>1, <1>0, <1>a, EndsStay DEF RegisterSteps
    <3>5. QED
      BY <3>1, <3>2, <3>3, <3>4, <1>0 DEF TableTypes
  <2>3. CASE user[serving[q].name].state # "saved"
    <3>1. ServingTypes' /\ Becomes(q, At(q, "release"))
      BY <1>4, <2>3, StepKeepsProper DEF InsertUser, RegisterSteps
    <3>2. user' = [user EXCEPT ![serving[q].name] =
                      [state |-> "draft", admin |-> serving[q].first]]
      BY <1>4, <2>3 DEF InsertUser
    <3>3. /\ serving[q].pc = "insert"
          /\ user[serving[q].name].state = "none"
          /\ serving[q].first \in BOOLEAN
      BY <1>4, <2>1, <2>3 DEF InsertUser, TableTypes, ServingTypes, RequestStates
    <3>4. TableTypes'
      BY <2>1, <3>2, <3>3, <1>0 DEF TableTypes
    <3>5. \A p \in Requests \ {q} : Drafting(p) => serving[p].name # serving[q].name
      BY <3>3 DEF UsersSound
    <3>6. /\ serving'[q].pc = "release" /\ serving'[q].name = serving[q].name
          /\ \A p \in Requests \ {q} : serving'[p] = serving[p]
      BY <3>1 DEF Becomes, At
    <3>7. /\ user'[serving[q].name] = [state |-> "draft", admin |-> serving[q].first]
          /\ \A n \in UserNames \ {serving[q].name} : user'[n] = user[n]
      BY <2>1, <3>2 DEF TableTypes
    <3>8. NobodySaved' => NobodySaved
      BY <2>3, <3>7 DEF NobodySaved
    <3>9. \A p \in Requests \ {q} : Drafting(p) => serving[p].name \in UserNames
      BY DEF Drafting, ServingTypes, Proper, RegisterSteps
    <3>10. \A p \in Requests : Drafting(p)' => user'[serving'[p].name].state = "draft"
      BY <3>5, <3>6, <3>7, <3>9 DEF UsersSound, Drafting
    <3>11. \A o, p \in Requests :
              Drafting(o)' /\ Drafting(p)' /\ serving'[o].name = serving'[p].name => o = p
      BY <3>5, <3>6 DEF UsersSound, Drafting
    <3>12. NobodySaved' => /\ \A n \in UserNames : user'[n].state = "draft" => user'[n].admin
                           /\ \A p \in Requests : serving'[p].pc = "insert" => serving'[p].first
      BY <2>1, <3>3, <3>6, <3>7, <3>8 DEF UsersSound
    <3>13. SomeoneIsAdmin'
      BY <2>3, <3>7 DEF UsersSound, SomeoneIsAdmin
    <3>14. UsersSound'
      BY <3>10, <3>11, <3>12, <3>13 DEF UsersSound
    <3>15. EndsSound'
      BY <3>1, <1>0, <1>a, EndsStay DEF RegisterSteps
    <3>16. QED
      BY <3>1, <3>4, <3>14, <3>15
  <2>4. QED
    BY <2>2, <2>3
<1>5. CASE ReleaseAdminLock(q)
  <2>1. UNCHANGED user
    BY <1>5 DEF ReleaseAdminLock
  <2>2. CASE serving[q].pc = "release"
    <3>1. ServingTypes' /\ Becomes(q, At(q, "commit"))
      BY <1>5, <2>2, StepKeepsProper DEF ReleaseAdminLock, RegisterSteps
    <3>2. \A p \in Requests : /\ Drafting(p)' <=> Drafting(p)
                              /\ serving'[p].name = serving[p].name
                              /\ serving'[p].pc = "insert" =>
                                    serving[p].pc = "insert" /\ serving'[p] = serving[p]
      BY <2>2, <3>1, SMT DEF Becomes, At, Drafting
    <3>3. UsersSound'
      BY <2>1, <3>2, SMT DEF UsersSound, NobodySaved, SomeoneIsAdmin
    <3>4. EndsSound'
      BY <3>1, <1>0, <1>a, EndsStay DEF RegisterSteps
    <3>5. QED
      BY <2>1, <3>1, <3>3, <3>4, <1>0 DEF TableTypes
  <2>3. CASE serving[q].pc # "release"
    <3>1. ServingTypes' /\ Becomes(q, IdleRequest)
      BY <1>5, <2>3, AnswerKeepsProper DEF ReleaseAdminLock
    <3>2. UsersSound'
      BY <2>1, <3>1, UsersStay DEF IdleRequest, Using
    <3>3. EndsSound'
      BY <3>1, <1>0, <1>a, EndsStay
    <3>4. QED
      BY <2>1, <3>1, <3>2, <3>3, <1>0 DEF TableTypes
  <2>4. QED
    BY <2>2, <2>3
<1>6. CASE CommitUser(q) \/ RegisterBreaks(q)
  <2>1. ServingTypes' /\ Becomes(q, IdleRequest)
    BY <1>6, AnswerKeepsProper DEF CommitUser, RegisterBreaks
  <2>2. EndsSound'
    BY <2>1, <1>0, <1>a, EndsStay
  <2>3. CASE UNCHANGED user
    <3>1. UsersSound'
      BY <2>1, <2>3, UsersStay DEF IdleRequest, Using
    <3>2. QED
      BY <2>1, <2>2, <2>3, <3>1, <1>0 DEF TableTypes
  <2>4. CASE ~UNCHANGED user
    <3> DEFINE n == serving[q].name
    <3>1. /\ Drafting(q)
          /\ \/ user' = [user EXCEPT ![n] = [state |-> "saved", admin |-> user[n].admin]]
             \/ user' = [user EXCEPT ![n] = [state |-> "none", admin |-> FALSE]]
      BY <1>6, <2>4 DEF CommitUser, RegisterBreaks, Drafting
    <3>2. n \in UserNames
      BY <3>1 DEF ServingTypes, Proper, RegisterSteps, Drafting
    <3> HIDE DEF n
    <3>3. /\ user[n].state = "draft"
          /\ \A p \in Requests \ {q} : Drafting(p) => serving[p].name # n
      BY <3>1 DEF UsersSound, n
    <3>4. TableTypes'
      <4>1. user[n].admin \in BOOLEAN
        BY <3>2 DEF TableTypes
      <4>2. PICK row \in [state : {"none", "draft", "saved"}, admin : BOOLEAN] :
               user' = [user EXCEPT ![n] = row]
        BY <3>1, <4>1
      <4>3. QED
        BY <3>2, <4>2, <1>0, SMT DEF TableTypes
    <3>5. /\ \/ user'[n].state = "saved" /\ user'[n].admin = user[n].admin
             \/ user'[n].state = "none"
          /\ \A m \in UserNames \ {n} : user'[m] = user[m]
      BY <3>1, <3>2 DEF TableTypes
    <3>6. \A p \in Requests \ {q} : serving'[p] = serving[p]
      BY <2>1 DEF Becomes
    <3>7. serving'[q].pc = "idle"
      BY <2>1 DEF Becomes, IdleRequest, Using
    <3>8. \A p \in Requests : Drafting(p)' => Drafting(p) /\ serving'[p] = serving[p] /\ p # q
      BY <3>6, <3>7 DEF Drafting
    <3>9. \A p \in Requests : Drafting(p) => serving[p].name \in UserNames
      BY DEF Drafting, ServingTypes, Proper, RegisterSteps
    <3>10. \A p \in Requests : Drafting(p)' => user'[serving'[p].name].state = "draft"
      BY <3>3, <3>5, <3>8, <3>9 DEF UsersSound
    <3>11. NobodySaved' => NobodySaved
      BY <3>2, <3>3, <3>5 DEF NobodySaved
    <3>12. NobodySaved' => /\ \A m \in UserNames : user'[m].state = "draft" => user'[m].admin
                           /\ \A p \in Requests : serving'[p].pc = "insert" => serving'[p].first
      BY <3>2, <3>5, <3>6, <3>7, <3>11 DEF UsersSound
    <3>13. SomeoneIsAdmin'
      <4>1. CASE NobodySaved
        BY <3>2, <3>3, <3>5, <4>1 DEF NobodySaved, UsersSound, SomeoneIsAdmin
      <4>2. CASE ~NobodySaved
        <5>1. PICK m \in UserNames : user[m].state = "saved" /\ user[m].admin
          BY <4>2 DEF NobodySaved, UsersSound, SomeoneIsAdmin
        <5>2. user'[m] = user[m]
          BY <3>3, <3>5, <5>1
        <5>3. QED
          BY <5>1, <5>2 DEF SomeoneIsAdmin
      <4>3. QED
        BY <4>1, <4>2
    <3>14. UsersSound'
      BY <3>8, <3>10, <3>12, <3>13 DEF UsersSound
    <3>15. QED
      BY <2>1, <2>2, <3>4, <3>14
  <2>5. QED
    BY <2>3, <2>4
<1>7. QED
  BY <1>1, <1>2, <1>3, <1>4, <1>5, <1>6

(* Logging in and out and resolving: the users stay as they are.            *)
LEMMA TokenKeeps ==
    ASSUME SessionInv, NEW q \in Requests,
           \/ \E n \in UserNames, t \in Tokens : Login(q, n, t)
           \/ StoreSession(q) \/ FetchSession(q) \/ ReadSession(q) \/ CheckSession(q)
           \/ \E t \in Tokens : Resolve(q, t) \/ Logout(q, t)
           \/ RevokeSession(q) \/ ForgetSession(q)
    PROVE  SessionInv'
<1> USE DEF SessionInv
<1>0. UNCHANGED user
  BY DEF Login, StoreSession, FetchSession, ReadSession, CheckSession, Resolve,
         Logout, RevokeSession, ForgetSession, people
<1>a. /\ IdleRequest.pc = "idle"
      /\ "idle" \notin TokenSteps
      /\ \A pc \in TokenSteps :
            pc \notin {"insert", "release", "commit"} /\ At(q, pc).pc = pc
  BY SMT DEF IdleRequest, Using, TokenSteps, At
<1>b. ASSUME NEW r, ServingTypes', Becomes(q, r),
             r.pc = "idle" \/ r.pc \in TokenSteps,
             session' \in [Tokens -> {"none", "active", "revoked"}],
             LeftIsRevoked', LateRequest(q)', EndedStaysEnded',
             \A p \in Requests \ {q} : LateRequest(p)'
      PROVE  SessionInv'
  <2>1. r.pc \notin {"insert", "release", "commit"}
    BY <1>a, <1>b
  <2>2. UsersSound'
    BY <1>0, <1>b, <2>1, UsersStay
  <2>3. QED
    BY <1>0, <1>b, <2>2 DEF TableTypes, EndsSound
<1>c. ASSUME UNCHANGED <<session, lapsed, left>>, NEW r, Becomes(q, r),
             slipped \subseteq slipped'
      PROVE  \A p \in Requests \ {q} : LateRequest(p)'
  BY <1>c, SMT DEF EndsSound, LateRequest, Becomes
<1>1. ASSUME NEW n \in UserNames, NEW t \in Tokens, Login(q, n, t)
      PROVE  SessionInv'
  <2> DEFINE r == Using("first_store", t, "no")
  <2>1. Proper(r)
    BY SMT DEF Proper, Using, RequestStates, RegisterSteps, TokenSteps
  <2>2. ServingTypes' /\ Becomes(q, r)
    BY <1>1, <2>1, BecomesProper DEF Login
  <2>3. r.pc = "first_store" /\ r.ended = "no"
    BY DEF Using
  <2> HIDE DEF r
  <2>4. /\ session' = [session EXCEPT ![t] = "active"] /\ session[t] = "none"
        /\ UNCHANGED <<lapsed, stored, left, slipped, admitted>>
    BY <1>1 DEF Login, diary
  <2>5. session' \in [Tokens -> {"none", "active", "revoked"}]
    BY <2>4 DEF TableTypes
  <2>6. \A u \in Tokens : session[u] = "revoked" => session'[u] = "revoked"
    BY <2>4 DEF TableTypes
  <2>7. LeftIsRevoked' /\ EndedStaysEnded'
    BY <2>4, <2>6 DEF EndsSound, LeftIsRevoked, EndedStaysEnded
  <2>8. LateRequest(q)'
    BY <2>2, <2>3, SMT DEF Becomes, LateRequest
  <2>9. ASSUME NEW p \in Requests \ {q} PROVE LateRequest(p)'
    <3>1. serving'[p] = serving[p] /\ LateRequest(p)
      BY <2>2 DEF Becomes, EndsSound
    <3>2. serving[p].pc = "forget" => serving[p].token \in Tokens
      BY DEF ServingTypes, Proper, TokenSteps
    <3>3. QED
      BY <2>4, <2>6, <3>1, <3>2, SMT DEF LateRequest
  <2>10. QED
    BY <1>b, <2>2, <2>3, <2>5, <2>7, <2>8, <2>9 DEF TokenSteps
<1>2. CASE StoreSession(q)
  <2> DEFINE t == serving[q].token
  <2>1. /\ serving[q].pc \in {"first_store", "store"}
        /\ UNCHANGED <<session, lapsed, left, admitted>>
        /\ stored' = stored \cup {t} \/ UNCHANGED stored
        /\ slipped' = IF session[t] = "revoked" THEN slipped \cup {t} ELSE slipped
    BY <1>2 DEF StoreSession
  <2>2. LeftIsRevoked' /\ EndedStaysEnded'
    BY <2>1, SMT DEF EndsSound, LeftIsRevoked, EndedStaysEnded
  <2>3. CASE serving[q].pc = "store"
    <3>1. ServingTypes' /\ Becomes(q, At(q, "check"))
      BY <1>2, <2>3, StepKeepsProper DEF StoreSession, TokenSteps
    <3>2. LateRequest(q)'
      <4>1. LateRequest(q) /\ serving[q].pc \in TokenSteps
        BY <2>3, SMT DEF EndsSound, TokenSteps
      <4>2. QED
        BY <2>1, <2>3, <3>1, <4>1, SMT DEF Becomes, At, LateRequest
    <3>3. QED
      BY <1>a, <1>b, <1>c, <2>1, <2>2, <3>1, <3>2 DEF TableTypes, TokenSteps
  <2>4. CASE serving[q].pc # "store"
    <3>1. ServingTypes' /\ Becomes(q, IdleRequest)
      BY <1>2, <2>4, AnswerKeepsProper DEF StoreSession
    <3>2. LateRequest(q)'
      BY <3>1, <1>a, SMT DEF Becomes, LateRequest, TokenSteps
    <3>3. QED
      BY <1>a, <1>b, <1>c, <2>1, <2>2, <3>1, <3>2 DEF TableTypes
  <2>5. QED
    BY <2>3, <2>4
<1>3. CASE FetchSession(q) \/ ReadSession(q)
  <2> DEFINE t == serving[q].token
  <2>1. UNCHANGED <<session, lapsed, stored, left, slipped, admitted>>
    BY <1>3 DEF FetchSession, ReadSession, diary
  <2>2. LeftIsRevoked' /\ EndedStaysEnded'
    BY <2>1, SMT DEF EndsSound, LeftIsRevoked, EndedStaysEnded
  <2>3. CASE Answer(q)
    <3>1. ServingTypes' /\ Becomes(q, IdleRequest)
      BY <2>3, AnswerKeepsProper
    <3>2. LateRequest(q)'
      BY <3>1, <1>a, SMT DEF Becomes, LateRequest, TokenSteps
    <3>3. QED
      BY <1>a, <1>b, <1>c, <2>1, <2>2, <3>1, <3>2 DEF TableTypes
  <2>4. CASE ~Answer(q)
    <3>1. PICK pc \in {"read", "check", "store"} :
             /\ Step(q, pc)
             /\ pc = "check" => t \in stored
             /\ pc = "store" => session[t] = "active"
      BY <1>3, <2>4, Zenon DEF FetchSession, ReadSession
    <3>2. serving[q].pc \in TokenSteps
      BY <1>3 DEF FetchSession, ReadSession, TokenSteps
    <3>3. pc \in TokenSteps /\ pc # "forget"
      BY DEF TokenSteps
    <3>4. ServingTypes' /\ Becomes(q, At(q, pc))
      BY <3>1, <3>2, <3>3, StepKeepsProper
    <3>5. LateRequest(q) /\ LeftIsRevoked
      BY DEF EndsSound
    <3>6. LateRequest(q)'
      BY <2>1, <3>1, <3>2, <3>3, <3>4, <3>5, SMT
         DEF Becomes, At, LateRequest, LeftIsRevoked
    <3>7. QED
      BY <1>a, <1>b, <1>c, <2>1, <2>2, <3>3, <3>4, <3>6 DEF TableTypes
  <2>5. QED
    BY <2>3, <2>4
<1>4. CASE CheckSession(q)
  <2> DEFINE t == serving[q].token
  <2>1. /\ serving[q].pc = "check"
        /\ UNCHANGED <<session, lapsed, stored, left, slipped>>
    BY <1>4 DEF CheckSession
  <2>2. LeftIsRevoked'
    BY <2>1, SMT DEF EndsSound, LeftIsRevoked
  <2>3. LateRequest(q) /\ EndedStaysEnded /\ serving[q].pc \in TokenSteps
    BY <2>1 DEF EndsSound, TokenSteps
  <2>4. CASE t \in lapsed
    <3>1. Step(q, "revoke") /\ UNCHANGED admitted
      BY <1>4, <2>4 DEF CheckSession, Expired
    <3>2. ServingTypes' /\ Becomes(q, At(q, "revoke"))
      BY <2>1, <3>1, StepKeepsProper DEF TokenSteps
    <3>3. LateRequest(q)'
      BY <2>1, <2>3, <3>2, SMT DEF Becomes, At, LateRequest
    <3>4. EndedStaysEnded'
      BY <2>1, <2>3, <3>1 DEF EndedStaysEnded
    <3>5. QED
      BY <1>a, <1>b, <1>c, <2>1, <2>2, <3>2, <3>3, <3>4 DEF TableTypes, TokenSteps
  <2>5. CASE t \notin lapsed
    <3>1. Answer(q) /\ admitted' = admitted \cup {<<t, serving[q].ended>>}
      BY <1>4, <2>5 DEF CheckSession, Expired
    <3>2. ServingTypes' /\ Becomes(q, IdleRequest)
      BY <3>1, AnswerKeepsProper
    <3>3. LateRequest(q)'
      BY <3>2, <1>a, SMT DEF Becomes, LateRequest, TokenSteps
    <3>4. serving[q].ended # "expired" /\ (serving[q].ended = "left" => t \in slipped)
      BY <2>1, <2>3, <2>5 DEF LateRequest
    <3>5. EndedStaysEnded'
      BY <2>1, <2>3, <3>1, <3>4 DEF EndedStaysEnded
    <3>6. QED
      BY <1>a, <1>b, <1>c, <2>1, <2>2, <3>2, <3>3, <3>5 DEF TableTypes
  <2>6. QED
    BY <2>4, <2>5
<1>5. ASSUME NEW t \in Tokens, Resolve(q, t) \/ Logout(q, t) PROVE SessionInv'
  <2>1. PICK pc \in {"fetch", "revoke"}, ended \in {"no", "expired", "left"} :
           /\ serving' = [serving EXCEPT ![q] = Using(pc, t, ended)]
           /\ ended = "expired" => t \in lapsed
           /\ ended = "left" => t \in left
    BY <1>5, Zenon DEF Resolve, Logout
  <2>2. Proper(Using(pc, t, ended))
    BY SMT DEF Proper, Using, RequestStates, RegisterSteps, TokenSteps
  <2>3. ServingTypes' /\ Becomes(q, Using(pc, t, ended))
    BY <2>1, <2>2, BecomesProper
  <2>4. UNCHANGED <<session, lapsed, stored, left, slipped, admitted>>
    BY <1>5 DEF Resolve, Logout, diary
  <2>5. LeftIsRevoked' /\ EndedStaysEnded'
    BY <2>4, SMT DEF EndsSound, LeftIsRevoked, EndedStaysEnded
  <2>6. LateRequest(q)'
    BY <2>1, <2>3, <2>4, SMT DEF Becomes, Using, LateRequest
  <2>7. Using(pc, t, ended).pc \in TokenSteps
    BY SMT DEF Using, TokenSteps
  <2>8. QED
    BY <1>b, <1>c, <2>3, <2>4, <2>5, <2>6, <2>7 DEF TableTypes
<1>6. CASE RevokeSession(q)
  <2> DEFINE t == serving[q].token
  <2>1. /\ serving[q].pc = "revoke" /\ serving[q].pc \in TokenSteps
        /\ session' = [session EXCEPT ![t] = "revoked"]
        /\ UNCHANGED <<lapsed, stored, left, slipped, admitted>>
    BY <1>6 DEF RevokeSession, diary, TokenSteps
  <2>2. t \in Tokens
    BY <2>1 DEF ServingTypes, Proper
  <2>3. ServingTypes' /\ Becomes(q, At(q, "forget"))
    BY <1>6, <2>1, StepKeepsProper DEF RevokeSession, TokenSteps
  <2>4. /\ session' \in [Tokens -> {"none", "active", "revoked"}]
        /\ session'[t] = "revoked"
        /\ \A u \in Tokens : session[u] = "revoked" => session'[u] = "revoked"
    BY <2>1, <2>2, SMT DEF TableTypes
  <2>5. LeftIsRevoked' /\ EndedStaysEnded'
    BY <2>1, <2>4 DEF EndsSound, LeftIsRevoked, EndedStaysEnded
  <2>6. LateRequest(q)'
    <3>1. LateRequest(q)
      BY DEF EndsSound
    <3>2. QED
      BY <2>1, <2>3, <2>4, <3>1, SMT DEF Becomes, At, LateRequest
  <2>7. ASSUME NEW p \in Requests \ {q} PROVE LateRequest(p)'
    <3>1. serving'[p] = serving[p] /\ LateRequest(p)
      BY <2>3 DEF Becomes, EndsSound
    <3>2. serving[p].pc = "forget" => serving[p].token \in Tokens
      BY DEF ServingTypes, Proper, TokenSteps
    <3>3. QED
      BY <2>1, <2>4, <3>1, <3>2, SMT DEF LateRequest
  <2>8. QED
    BY <1>a, <1>b, <2>3, <2>4, <2>5, <2>6, <2>7 DEF TokenSteps
<1>7. CASE ForgetSession(q)
  <2> DEFINE t == serving[q].token
  <2>1. /\ serving[q].pc = "forget" /\ Answer(q)
        /\ \/ stored' = stored \ {t} /\ UNCHANGED slipped
           \/ UNCHANGED stored /\ slipped' = slipped \cup {t}
        /\ left' = left \cup {t}
        /\ UNCHANGED <<session, lapsed, admitted>>
    BY <1>7 DEF ForgetSession, people
  <2>2. t \in Tokens /\ session[t] = "revoked"
    BY <2>1 DEF ServingTypes, Proper, TokenSteps, EndsSound, LateRequest
  <2>3. ServingTypes' /\ Becomes(q, IdleRequest)
    BY <2>1, AnswerKeepsProper
  <2>4. LeftIsRevoked' /\ EndedStaysEnded'
    BY <2>1, <2>2, SMT DEF EndsSound, LeftIsRevoked, EndedStaysEnded
  <2>5. LateRequest(q)'
    BY <2>3, <1>a, SMT DEF Becomes, LateRequest, TokenSteps
  <2>6. ASSUME NEW p \in Requests \ {q} PROVE LateRequest(p)'
    <3>1. serving'[p] = serving[p] /\ LateRequest(p)
      BY <2>3 DEF Becomes, EndsSound
    <3>2. slipped \subseteq slipped' /\ left \subseteq left'
      BY <2>1
    <3>3. QED
      BY <2>1, <3>1, <3>2, SMT DEF LateRequest
  <2>7. QED
    BY <1>a, <1>b, <2>1, <2>3, <2>4, <2>5, <2>6 DEF TableTypes
<1>8. QED
  BY <1>1, <1>2, <1>3, <1>4, <1>5, <1>6, <1>7

(* Time passes.                                                             *)
LEMMA LapseKeeps ==
    ASSUME SessionInv, NEW t \in Tokens, Lapse(t)
    PROVE  SessionInv'
<1>1. /\ UNCHANGED <<user, session, serving, left, slipped, admitted>>
      /\ lapsed \subseteq lapsed' /\ stored' \subseteq stored
  BY DEF Lapse, people, diary
<1>2. ServingTypes' /\ TableTypes' /\ UsersSound'
  BY <1>1 DEF SessionInv, ServingTypes, TableTypes, UsersSound, Drafting,
              NobodySaved, SomeoneIsAdmin
<1>3. EndsSound'
  BY <1>1, SMT DEF SessionInv, EndsSound, LeftIsRevoked, LateRequest, EndedStaysEnded
<1>4. QED
  BY <1>2, <1>3 DEF SessionInv

-----------------------------------------------------------------------------
(* The invariant of which the properties are parts.                         *)
THEOREM SessionInvariance == SessionSpec => []SessionInv
<1>1. SessionInv /\ UNCHANGED sessionVars => SessionInv'
  BY DEF SessionInv, sessionVars, ServingTypes, TableTypes, UsersSound, Drafting,
         NobodySaved, SomeoneIsAdmin, EndsSound, LeftIsRevoked, LateRequest,
         EndedStaysEnded
<1>2. SessionInv /\ [SessionNext]_sessionVars => SessionInv'
  BY <1>1, RegisterKeeps, TokenKeeps, LapseKeeps DEF SessionNext
<1>3. QED
  BY SessionInvInit, <1>2, PTL DEF SessionSpec

(* However many registrations run at once or break off, as soon as a user   *)
(* is committed one of the committed users is an administrator.             *)
THEOREM AdminExists == SessionSpec => []SomeoneIsAdmin
<1>1. SessionInv => SomeoneIsAdmin
  BY DEF SessionInv, UsersSound
<1>2. QED
  BY <1>1, SessionInvariance, PTL

(* However requests interleave, a session that expired lets nobody in, and  *)
(* one that was left only through a copy that survived in the cache.        *)
THEOREM EndedSessionsStayOut == SessionSpec => []EndedStaysEnded
<1>1. SessionInv => EndedStaysEnded
  BY DEF SessionInv, EndsSound
<1>2. QED
  BY <1>1, SessionInvariance, PTL
=============================================================================
