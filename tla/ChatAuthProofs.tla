--------------------------- MODULE ChatAuthProofs ---------------------------
(***************************************************************************)
(* Type correctness, OkMeansLoggedIn and MenuHasIdentity of ChatAuth, for  *)
(* any number of tasks, accounts, revocations, faults and resets.          *)
(*                                                                         *)
(* The argument: while the profile dialog is open only its auth task logs  *)
(* in, so how far that task has come says what NVS holds, and              *)
(* auth_task_result_ is set only when all of it is stored.  Every task     *)
(* stores the token before user_name, so what user_name promises of NVS is *)
(* true from its first write on, and later logins replace entries and      *)
(* remove none.                                                            *)
(***************************************************************************)
EXTENDS ChatAuth, TLAPS

Storing == {"store", "put_jwt", "put_uid", "put_login", "put_name"}
Over == {"notify", "end", "idle"}

\* Which phases a task goes through: the auth task makes one attempt, of the
\* kind the user chose.
PhaseOK ==
    /\ \A t \in Tasks : phase[t] # "login"
    /\ pc[Auth] \in {"reload", "reload_uid"} => phase[Auth] \in {"login", "register"}

\* A token that is being stored is one of the account the task logged in to.
StoringOK ==
    \A x \in Actors : pc[x] \in Storing =>
        /\ tok[x] # None /\ tok[x].acct = creds[x].login
        /\ tok[x].acct \in registered

\* NVS holds the login to the account the user typed, as far as the steps up
\* to l have stored it.
Stores(l) ==
    /\ nvs.jwt # None /\ nvs.jwt.acct = want
    /\ l \notin {"put_uid"} => nvs.uid = want
    /\ l \notin {"put_uid", "put_login"} => nvs.login = want
    /\ l \notin {"put_uid", "put_login", "put_name"} => want \in registered

\* The dialog and its auth task, which are alone until the menu runs.
DialogOK ==
    /\ creds[Auth].login = want
    /\ stage = "menu" =>
         /\ dlg \in {"start", "none", "ask"}
         /\ pc[Auth] \in Over
         /\ nvs.name \/ dlg = "none"
    /\ stage = "setup" =>
         /\ \A t \in Tasks : pc[t] = "idle"
         /\ pc[Auth] \in {"put_uid", "put_login", "put_name", "report_ok"} => Stores(pc[Auth])
         /\ result => pc[Auth] \in Over /\ Stores("end")
         /\ dlg = "start" => pc[Auth] \in Over
         /\ dlg \in {"save_login", "save_pass"} => pc[Auth] \in Over /\ Stores("end")
         /\ dlg = "save_pass" => nvs.name

\* user_name is stored last: what a task has put before it stays there.
NameIsLast ==
    /\ nvs.name => nvs.jwt # None /\ nvs.uid # None /\ nvs.login \in registered
    /\ \A x \in Actors :
         /\ pc[x] \in {"put_uid", "put_login", "put_name"} => nvs.jwt # None
         /\ pc[x] \in {"put_login", "put_name"} => nvs.uid # None
         /\ pc[x] = "put_name" => nvs.login \in registered

IInv == TypeOK /\ PhaseOK /\ StoringOK /\ DialogOK /\ NameIsLast

\* Every step keeps the types and the phases.
LEMMA TypeStep == TypeOK /\ PhaseOK /\ StoringOK /\ [Next]_vars => (TypeOK /\ PhaseOK)'
<1> SUFFICES ASSUME TypeOK /\ PhaseOK /\ StoringOK, [Next]_vars PROVE (TypeOK /\ PhaseOK)'
  OBVIOUS
<1> USE TaskAssumption, BoundAssumption, NoneAssumption
<1> USE DEF TypeOK, PhaseOK, TaskPc, Name, Token, Actors, Blank, Goto, client, tasks, dialog,
            server
<1>1. ASSUME NEW t \in Tasks, Call(t) PROVE (TypeOK /\ PhaseOK)'
  BY <1>1 DEF Call
<1>2. ASSUME NEW x \in Actors, ReloadToken(x) PROVE (TypeOK /\ PhaseOK)'
  BY <1>2 DEF ReloadToken
<1>3. ASSUME NEW x \in Actors, ReloadUserId(x) PROVE (TypeOK /\ PhaseOK)'
  <2>1. mutex' \in BOOLEAN
    BY <1>3 DEF ReloadUserId
  <2>2. x = Auth => phase[x] \in TaskPc
    BY <1>3 DEF ReloadUserId
  <2>3. pc' \in [Actors -> TaskPc]
    BY <2>2, <1>3 DEF ReloadUserId
  <2>4. tok' \in [Actors -> Token \cup {None}] /\ token' \in Token \cup {None}
    BY <1>3 DEF ReloadUserId
  <2>5. PhaseOK'
    BY <1>3 DEF ReloadUserId
  <2> QED
    BY <2>1, <2>3, <2>4, <2>5, <1>3 DEF ReloadUserId
<1>4. ASSUME NEW t \in Tasks, LoadCredentials(t) PROVE (TypeOK /\ PhaseOK)'
  BY <1>4 DEF LoadCredentials
<1>5. ASSUME NEW x \in Actors, LoginRequest(x) PROVE (TypeOK /\ PhaseOK)'
  BY <1>5 DEF LoginRequest, Fail, Failed, NextPhase, NetworkFault, Fresh
<1>6. ASSUME NEW x \in Actors, RegisterRequest(x) PROVE (TypeOK /\ PhaseOK)'
  BY <1>6 DEF RegisterRequest, Fail, Failed, NextPhase, NetworkFault, Fresh
<1>7. ASSUME NEW x \in Actors, StoreToken(x) PROVE (TypeOK /\ PhaseOK)'
  <2>1. tok[x] \in Token \cup {None} /\ tok[x] # None
    BY <1>7 DEF StoreToken, StoringOK, Storing
  <2>2. tok[x].acct \in Name
    BY <2>1
  <2> QED
    BY <2>1, <2>2, <1>7 DEF StoreToken
<1>8. ASSUME NEW x \in Actors, PutToken(x) PROVE (TypeOK /\ PhaseOK)'
  BY <1>8 DEF PutToken, Put
<1>9. ASSUME NEW x \in Actors, PutUserId(x) PROVE (TypeOK /\ PhaseOK)'
  <2>1. tok[x] \in Token \cup {None} /\ tok[x] # None
    BY <1>9 DEF PutUserId, Put, StoringOK, Storing
  <2>2. tok[x].acct \in Name
    BY <2>1
  <2> QED
    BY <2>1, <2>2, <1>9 DEF PutUserId, Put
<1>10. ASSUME NEW x \in Actors, PutLoginId(x) PROVE (TypeOK /\ PhaseOK)'
  BY <1>10 DEF PutLoginId, Put
<1>11. ASSUME NEW x \in Actors, PutUserName(x) PROVE (TypeOK /\ PhaseOK)'
  <2>1. nvs' \in [jwt : Token \cup {None}, uid : Name, login : Name, name : BOOLEAN, pass : Name]
    BY <1>11 DEF PutUserName
  <2> QED
    BY <2>1, <1>11 DEF PutUserName, Stored, NextPhase
<1>12. ASSUME NEW t \in Tasks, Request(t) PROVE (TypeOK /\ PhaseOK)'
  BY <1>12 DEF Request, End, NetworkFault
<1>13. ASSUME NEW t \in Tasks, Refused(t) PROVE (TypeOK /\ PhaseOK)'
  BY <1>13 DEF Refused, End
<1>14. ASSUME NEW a \in Accounts, NEW p \in {"login", "register"}, StartAuth(a, p)
       PROVE (TypeOK /\ PhaseOK)'
  BY <1>14, ZenonT(30) DEF StartAuth
<1>15. CASE WaitEnds
  <2>1. notified' \in BOOLEAN /\ dlg' \in {"ask", "wait", "save_login", "save_pass"}
    BY <1>15 DEF WaitEnds
  <2> QED
    BY <2>1, <1>15 DEF WaitEnds
<1>16. CASE AuthResult
  BY <1>16 DEF AuthResult
<1>17. CASE AuthNotify
  BY <1>17 DEF AuthNotify
<1>18. CASE AuthEnd
  <2>1. handle' \in BOOLEAN
    BY <1>18 DEF AuthEnd
  <2> QED
    BY <2>1, <1>18 DEF AuthEnd
<1>19. CASE SaveLogin
  <2>1. nvs' \in [jwt : Token \cup {None}, uid : Name, login : Name, name : BOOLEAN, pass : Name]
    BY <1>19 DEF SaveLogin
  <2> QED
    BY <2>1, <1>19 DEF SaveLogin
<1>20. CASE SavePassword
  BY <1>20 DEF SavePassword
<1>21. CASE Revoke
  BY <1>21 DEF Revoke
<1>22. CASE Crash
  <2>1. mutex' \in BOOLEAN /\ handle' \in BOOLEAN /\ result' \in BOOLEAN /\ notified' \in BOOLEAN
    BY <1>22 DEF Crash, PowerOn
  <2>2. crashes' \in 0..MaxCrashes /\ stage' \in {"setup", "menu"}
    BY <1>22 DEF Crash, PowerOn
  <2>3. PhaseOK'
    BY <1>22 DEF Crash, PowerOn
  <2> QED
    BY <2>1, <2>2, <2>3, <1>22 DEF Crash, PowerOn
<1>23. CASE UNCHANGED vars
  BY <1>23 DEF vars
<1>24. CASE OpenDialog
  BY <1>24 DEF OpenDialog
<1> QED
  BY <1>1, <1>2, <1>3, <1>4, <1>5, <1>6, <1>7, <1>8, <1>9, <1>10, <1>11, <1>12, <1>13,
     <1>14, <1>15, <1>16, <1>17, <1>18, <1>19, <1>20, <1>21, <1>22, <1>23, <1>24
  DEF Next, TaskStep, AuthStep, ClientStep, Persist, DialogStep, Actors

\* Every step keeps what is known of the tokens that are being stored.
LEMMA StoringStep == TypeOK /\ PhaseOK /\ StoringOK /\ [Next]_vars => StoringOK'
<1> SUFFICES ASSUME TypeOK /\ PhaseOK /\ StoringOK, [Next]_vars PROVE StoringOK'
  OBVIOUS
<1> USE TaskAssumption, NoneAssumption
<1> USE DEF TypeOK, PhaseOK, StoringOK, Storing, Actors, Goto, client, tasks, dialog, server
<1>1. ASSUME NEW t \in Tasks, Call(t) PROVE StoringOK'
  BY <1>1 DEF Call
<1>2. ASSUME NEW x \in Actors, ReloadToken(x) PROVE StoringOK'
  BY <1>2 DEF ReloadToken
<1>3. ASSUME NEW x \in Actors, ReloadUserId(x) PROVE StoringOK'
  BY <1>3 DEF ReloadUserId
<1>4. ASSUME NEW t \in Tasks, LoadCredentials(t) PROVE StoringOK'
  BY <1>4 DEF LoadCredentials
<1>5. ASSUME NEW x \in Actors, LoginRequest(x) PROVE StoringOK'
  <2>1. \/ /\ creds[x].login \in registered /\ tok' = [tok EXCEPT ![x] = Fresh(creds[x].login)]
           /\ Goto(x, "store")
        \/ Goto(x, Failed(x)) /\ tok' = tok
    BY <1>5 DEF LoginRequest, Fail
  <2>2. Failed(x) \notin Storing
    BY <1>5 DEF Failed, LoginRequest
  <2>3. registered' = registered /\ creds' = creds
    BY <1>5 DEF LoginRequest
  <2>4. creds[x].login \in registered => Fresh(creds[x].login) \in Token
    BY DEF Fresh, Token
  <2>5. Fresh(creds[x].login).acct = creds[x].login
    BY DEF Fresh
  <2> QED
    BY <2>1, <2>2, <2>3, <2>4, <2>5
<1>6. ASSUME NEW x \in Actors, RegisterRequest(x) PROVE StoringOK'
  <2>1. \/ /\ creds[x].login # None /\ creds[x].login \in registered'
           /\ tok' = [tok EXCEPT ![x] = Fresh(creds[x].login)] /\ Goto(x, "store")
        \/ Goto(x, Failed(x)) /\ tok' = tok
    BY <1>6 DEF RegisterRequest, Fail
  <2>2. Failed(x) \notin Storing
    BY <1>6 DEF Failed, RegisterRequest
  <2>3. registered \subseteq registered' /\ creds' = creds
    BY <1>6 DEF RegisterRequest, NetworkFault
  <2>4. creds[x].login # None => Fresh(creds[x].login) \in Token
    BY DEF Fresh, Token, Name
  <2>5. Fresh(creds[x].login).acct = creds[x].login
    BY DEF Fresh
  <2> QED
    BY <2>1, <2>2, <2>3, <2>4, <2>5
<1>7. ASSUME NEW x \in Actors, StoreToken(x) PROVE StoringOK'
  BY <1>7 DEF StoreToken
<1>8. ASSUME NEW x \in Actors, PutToken(x) PROVE StoringOK'
  BY <1>8 DEF PutToken, Put
<1>9. ASSUME NEW x \in Actors, PutUserId(x) PROVE StoringOK'
  BY <1>9 DEF PutUserId, Put
<1>10. ASSUME NEW x \in Actors, PutLoginId(x) PROVE StoringOK'
  BY <1>10 DEF PutLoginId, Put
<1>11. ASSUME NEW x \in Actors, PutUserName(x) PROVE StoringOK'
  BY <1>11 DEF PutUserName, Stored, NextPhase
<1>12. ASSUME NEW t \in Tasks, Request(t) PROVE StoringOK'
  BY <1>12 DEF Request, End, NetworkFault
<1>13. ASSUME NEW t \in Tasks, Refused(t) PROVE StoringOK'
  BY <1>13 DEF Refused, End
<1>14. ASSUME NEW a \in Accounts, NEW p \in {"login", "register"}, StartAuth(a, p)
       PROVE StoringOK'
  BY <1>14 DEF StartAuth
<1>15. CASE WaitEnds
  BY <1>15 DEF WaitEnds
<1>16. CASE AuthResult
  BY <1>16 DEF AuthResult
<1>17. CASE AuthNotify
  BY <1>17 DEF AuthNotify
<1>18. CASE AuthEnd
  BY <1>18 DEF AuthEnd
<1>19. CASE SaveLogin
  BY <1>19 DEF SaveLogin
<1>20. CASE SavePassword
  BY <1>20 DEF SavePassword
<1>21. CASE Revoke
  BY <1>21 DEF Revoke
<1>22. CASE Crash
  BY <1>22 DEF Crash, PowerOn
<1>23. CASE UNCHANGED vars
  BY <1>23 DEF vars
<1>24. CASE OpenDialog
  BY <1>24 DEF OpenDialog
<1> QED
  BY <1>1, <1>2, <1>3, <1>4, <1>5, <1>6, <1>7, <1>8, <1>9, <1>10, <1>11, <1>12, <1>13,
     <1>14, <1>15, <1>16, <1>17, <1>18, <1>19, <1>20, <1>21, <1>22, <1>23, <1>24
  DEF Next, TaskStep, AuthStep, ClientStep, Persist, DialogStep, Actors

\* Every step keeps what the dialog and its task know of NVS.
LEMMA DialogStepKeeps == IInv /\ [Next]_vars => DialogOK'
<1> SUFFICES ASSUME IInv, [Next]_vars PROVE DialogOK'
  OBVIOUS
<1> USE TaskAssumption, NoneAssumption
<1> USE DEF IInv, TypeOK, PhaseOK, StoringOK, DialogOK, Storing, Over, Stores, Actors, Blank,
            Goto, client, tasks, dialog, server
<1>1. ASSUME NEW t \in Tasks, Call(t) PROVE DialogOK'
  BY <1>1 DEF Call
<1>2. ASSUME NEW x \in Actors, ReloadToken(x) PROVE DialogOK'
  BY <1>2 DEF ReloadToken
<1>3. ASSUME NEW x \in Actors, ReloadUserId(x) PROVE DialogOK'
  BY <1>3 DEF ReloadUserId
<1>4. ASSUME NEW t \in Tasks, LoadCredentials(t) PROVE DialogOK'
  BY <1>4 DEF LoadCredentials
<1>5. ASSUME NEW x \in Actors, LoginRequest(x) PROVE DialogOK'
  BY <1>5 DEF LoginRequest, Fail, Failed, NextPhase, NetworkFault, Fresh
<1>6. ASSUME NEW x \in Actors, RegisterRequest(x) PROVE DialogOK'
  BY <1>6 DEF RegisterRequest, Fail, Failed, NextPhase, NetworkFault, Fresh
<1>7. ASSUME NEW x \in Actors, StoreToken(x) PROVE DialogOK'
  BY <1>7 DEF StoreToken
<1>8. ASSUME NEW x \in Actors, PutToken(x) PROVE DialogOK'
  BY <1>8 DEF PutToken, Put
<1>9. ASSUME NEW x \in Actors, PutUserId(x) PROVE DialogOK'
  BY <1>9 DEF PutUserId, Put
<1>10. ASSUME NEW x \in Actors, PutLoginId(x) PROVE DialogOK'
  BY <1>10 DEF PutLoginId, Put
<1>11. ASSUME NEW x \in Actors, PutUserName(x) PROVE DialogOK'
  BY <1>11 DEF PutUserName, Stored, NextPhase
<1>12. ASSUME NEW t \in Tasks, Request(t) PROVE DialogOK'
  BY <1>12 DEF Request, End, NetworkFault
<1>13. ASSUME NEW t \in Tasks, Refused(t) PROVE DialogOK'
  BY <1>13 DEF Refused, End
<1>14. ASSUME NEW a \in Accounts, NEW p \in {"login", "register"}, StartAuth(a, p)
       PROVE DialogOK'
  BY <1>14 DEF StartAuth
<1>15. CASE WaitEnds
  BY <1>15 DEF WaitEnds
<1>16. CASE AuthResult
  BY <1>16 DEF AuthResult
<1>17. CASE AuthNotify
  BY <1>17 DEF AuthNotify
<1>18. CASE AuthEnd
  BY <1>18 DEF AuthEnd
<1>19. CASE SaveLogin
  BY <1>19 DEF SaveLogin
<1>20. CASE SavePassword
  BY <1>20 DEF SavePassword
<1>21. CASE Revoke
  BY <1>21 DEF Revoke
<1>22. CASE Crash
  BY <1>22 DEF Crash, PowerOn
<1>23. CASE UNCHANGED vars
  BY <1>23 DEF vars
<1>24. CASE OpenDialog
  BY <1>24 DEF OpenDialog
<1> QED
  BY <1>1, <1>2, <1>3, <1>4, <1>5, <1>6, <1>7, <1>8, <1>9, <1>10, <1>11, <1>12, <1>13,
     <1>14, <1>15, <1>16, <1>17, <1>18, <1>19, <1>20, <1>21, <1>22, <1>23, <1>24, SMTT(30)
  DEF Next, TaskStep, AuthStep, ClientStep, Persist, DialogStep, Actors

\* Every step keeps what user_name promises.
LEMMA NameStep == IInv /\ [Next]_vars => NameIsLast'
<1> SUFFICES ASSUME IInv, [Next]_vars PROVE NameIsLast'
  OBVIOUS
<1> USE TaskAssumption, NoneAssumption
<1> USE DEF IInv, TypeOK, StoringOK, DialogOK, NameIsLast, Storing, Over, Stores, Actors,
            Goto, client, tasks, dialog, server
<1>1. ASSUME NEW t \in Tasks, Call(t) PROVE NameIsLast'
  BY <1>1 DEF Call
<1>2. ASSUME NEW x \in Actors, ReloadToken(x) PROVE NameIsLast'
  BY <1>2 DEF ReloadToken
<1>3. ASSUME NEW x \in Actors, ReloadUserId(x) PROVE NameIsLast'
  BY <1>3 DEF ReloadUserId
<1>4. ASSUME NEW t \in Tasks, LoadCredentials(t) PROVE NameIsLast'
  BY <1>4 DEF LoadCredentials
<1>5. ASSUME NEW x \in Actors, LoginRequest(x) PROVE NameIsLast'
  <2>1. Goto(x, "store") \/ Goto(x, Failed(x))
    BY <1>5 DEF LoginRequest, Fail
  <2>2. Failed(x) \in {"report_fail", "register", "login", "request", "refused"}
    BY <1>5 DEF LoginRequest, Failed, PhaseOK
  <2>3. nvs' = nvs /\ registered' = registered
    BY <1>5 DEF LoginRequest, NetworkFault
  <2> QED
    BY <2>1, <2>2, <2>3
<1>6. ASSUME NEW x \in Actors, RegisterRequest(x) PROVE NameIsLast'
  <2>1. Goto(x, "store") \/ Goto(x, Failed(x))
    BY <1>6 DEF RegisterRequest, Fail
  <2>2. Failed(x) \in {"report_fail", "register", "login", "request", "refused"}
    BY <1>6 DEF RegisterRequest, Failed, PhaseOK
  <2>3. nvs' = nvs /\ registered \subseteq registered'
    BY <1>6 DEF RegisterRequest, NetworkFault
  <2> QED
    BY <2>1, <2>2, <2>3
<1>7. ASSUME NEW x \in Actors, StoreToken(x) PROVE NameIsLast'
  BY <1>7 DEF StoreToken
<1>8. ASSUME NEW x \in Actors, PutToken(x) PROVE NameIsLast'
  BY <1>8 DEF PutToken, Put
<1>9. ASSUME NEW x \in Actors, PutUserId(x) PROVE NameIsLast'
  <2>1. tok[x] \in Token /\ tok[x].acct # None
    BY <1>9 DEF PutUserId, Put, Token
  <2>2. /\ nvs'.uid = tok[x].acct /\ nvs'.jwt = nvs.jwt /\ nvs'.login = nvs.login
        /\ nvs'.name = nvs.name /\ registered' = registered
        /\ pc' = [pc EXCEPT ![x] = "put_login"]
    BY <1>9 DEF PutUserId, Put
  <2> QED
    BY <2>1, <2>2, <1>9 DEF PutUserId, Put
<1>10. ASSUME NEW x \in Actors, PutLoginId(x) PROVE NameIsLast'
  <2>1. tok[x] # None /\ tok[x].acct = creds[x].login /\ tok[x].acct \in registered
    BY <1>10 DEF PutLoginId, Put
  <2>2. /\ nvs'.login = creds[x].login /\ nvs'.jwt = nvs.jwt /\ nvs'.uid = nvs.uid
        /\ nvs'.name = nvs.name /\ registered' = registered
        /\ pc' = [pc EXCEPT ![x] = "put_name"]
    BY <1>10 DEF PutLoginId, Put
  <2> QED
    BY <2>1, <2>2, <1>10 DEF PutLoginId, Put
<1>11. ASSUME NEW x \in Actors, PutUserName(x) PROVE NameIsLast'
  BY <1>11 DEF PutUserName, Stored, NextPhase
<1>12. ASSUME NEW t \in Tasks, Request(t) PROVE NameIsLast'
  BY <1>12 DEF Request, End, NetworkFault
<1>13. ASSUME NEW t \in Tasks, Refused(t) PROVE NameIsLast'
  BY <1>13 DEF Refused, End
<1>14. ASSUME NEW a \in Accounts, NEW p \in {"login", "register"}, StartAuth(a, p)
       PROVE NameIsLast'
  BY <1>14 DEF StartAuth
<1>15. CASE WaitEnds
  BY <1>15 DEF WaitEnds
<1>16. CASE AuthResult
  BY <1>16 DEF AuthResult
<1>17. CASE AuthNotify
  BY <1>17 DEF AuthNotify
<1>18. CASE AuthEnd
  BY <1>18 DEF AuthEnd
<1>19. CASE SaveLogin
  BY <1>19 DEF SaveLogin
<1>20. CASE SavePassword
  BY <1>20 DEF SavePassword
<1>21. CASE Revoke
  BY <1>21 DEF Revoke
<1>22. CASE Crash
  BY <1>22 DEF Crash, PowerOn
<1>23. CASE UNCHANGED vars
  BY <1>23 DEF vars
<1>24. CASE OpenDialog
  BY <1>24 DEF OpenDialog
<1> QED
  BY <1>1, <1>2, <1>3, <1>4, <1>5, <1>6, <1>7, <1>8, <1>9, <1>10, <1>11, <1>12, <1>13,
     <1>14, <1>15, <1>16, <1>17, <1>18, <1>19, <1>20, <1>21, <1>22, <1>23, <1>24
  DEF Next, TaskStep, AuthStep, ClientStep, Persist, DialogStep, Actors

\* Power-on of a device that was never used satisfies the invariant.
LEMMA InitIInv == Init => IInv
<1> SUFFICES ASSUME Init PROVE IInv
  OBVIOUS
<1> USE TaskAssumption, BoundAssumption, NoneAssumption DEF Init, Actors, Blank
<1>1. TypeOK
  <2>1. mutex \in BOOLEAN /\ handle \in BOOLEAN /\ result \in BOOLEAN /\ notified \in BOOLEAN
    OBVIOUS
  <2>2. nvs \in [jwt : Token \cup {None}, uid : Name, login : Name, name : BOOLEAN, pass : Name]
    BY DEF Name
  <2> QED
    BY <2>1, <2>2 DEF TypeOK, TaskPc, Name
<1>2. PhaseOK /\ StoringOK
  BY DEF PhaseOK, StoringOK, Storing
<1>3. DialogOK
  BY DEF DialogOK, Over
<1>4. NameIsLast
  BY DEF NameIsLast
<1> QED
  BY <1>1, <1>2, <1>3, <1>4 DEF IInv

\* The strengthening is an invariant of the specification.
THEOREM Invariance == Spec => []IInv
<1>1. IInv /\ [Next]_vars => IInv'
  BY TypeStep, StoringStep, DialogStepKeeps, NameStep DEF IInv
<1> QED
  BY InitIInv, <1>1, PTL DEF Spec

\* Every variable holds a value of its kind in every reachable state.
THEOREM TypeCorrect == Spec => []TypeOK
<1>1. IInv => TypeOK
  BY DEF IInv
<1> QED
  BY <1>1, Invariance, PTL

\* The profile dialog takes an attempt as successful only when NVS holds the
\* login to the very account that was typed, however late an auth task ends and
\* whatever notification is still pending.
THEOREM OkIsLogin == Spec => []OkMeansLoggedIn
<1>1. IInv => OkMeansLoggedIn
  <2> SUFFICES ASSUME IInv, dlg \in {"save_login", "save_pass"}
               PROVE  /\ nvs.jwt # None /\ nvs.jwt.acct = want
                      /\ nvs.uid = want /\ nvs.login = want
    BY DEF OkMeansLoggedIn
  <2>1. stage = "setup"
    BY DEF IInv, TypeOK, DialogOK
  <2> QED
    BY <2>1 DEF IInv, DialogOK, Stores
<1> QED
  BY <1>1, Invariance, PTL

\* A user_name in NVS, and the menu and every task that calls the server unless
\* the dialog could not be opened in this boot, come only with a token, a user id
\* and the login id of an account the server knows, wherever a reset fell.
THEOREM MenuIsSomebody == Spec => []MenuHasIdentity
<1>1. IInv => MenuHasIdentity
  BY DEF IInv, DialogOK, NameIsLast, MenuHasIdentity
<1> QED
  BY <1>1, Invariance, PTL
=============================================================================
