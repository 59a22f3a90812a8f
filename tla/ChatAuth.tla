------------------------------ MODULE ChatAuth ------------------------------
(***************************************************************************)
(* Who the device is to the chat server: the one ChatApiClient that every  *)
(* task shares (components/services/network/include/chat_api.hpp), its     *)
(* token and user id in RAM and in NVS, the requests of http_client.hpp    *)
(* that log in again after a 401, and the profile dialog of the first boot *)
(* with its auth task (components/display/src/screens/profile_setting.hpp).*)
(*                                                                         *)
(* A login writes RAM, then four NVS entries one after the other; deep     *)
(* sleep, a reset or an empty battery may come between any two steps.      *)
(*                                                                         *)
(* The server is external: it knows accounts by their password, and every  *)
(* token it gave out before the present epoch is refused with 401.  An     *)
(* account stands for its login id, its user id and its password.          *)
(***************************************************************************)
EXTENDS Naturals, FiniteSets

CONSTANTS
    Tasks,       \* tasks that make API calls once the menu runs
    Retriers,    \* those whose call logs in again after a 401
    Auth,        \* the profile dialog's auth_task
    Accounts,
    None,        \* an empty string: no token, user id, login id or password
    MaxEpoch,    \* bound: times the server revokes the tokens it gave out
    MaxFaults,   \* bound: requests that fail on the network
    MaxCrashes   \* bound: resets

ASSUME TaskAssumption == Retriers \subseteq Tasks /\ Auth \notin Tasks
ASSUME BoundAssumption == MaxEpoch \in Nat /\ MaxFaults \in Nat /\ MaxCrashes \in Nat

Token == [acct : Accounts, epoch : 0..MaxEpoch]
ASSUME NoneAssumption == None \notin Accounts /\ None \notin Token

VARIABLES
    nvs,         \* jwt_token, user_id, login_id, whether user_name is, password
    token, uid,  \* ChatApiClient::token_, user_id_
    mutex,       \* ChatApiClient::mutex_, while reload_from_nvs holds it
    pc,          \* where each task is in its call
    creds,       \* the login id and password it read or was given
    tok,         \* a token it has read or been given and not yet stored
    phase,       \* which step of ensure_authenticated, or what the auth task is to do
    last,        \* how each task's last call ended
    stage,       \* app_main: the profile dialog, or the menu
    dlg, want,   \* where the dialog is ("none": it could not be opened), for which account
    handle,      \* auth_task_handle_ is set
    result,      \* auth_task_result_ is ESP_OK
    notified,    \* the dialog task's notification is pending
    registered,  \* server: the accounts there are
    epoch,       \* server: the present epoch
    faults, crashes

client == <<token, uid, mutex>>
tasks  == <<pc, creds, tok, phase, last>>
dialog == <<stage, dlg, want, handle, result, notified>>
server == <<registered, epoch, faults>>
vars   == <<nvs, client, tasks, dialog, server, crashes>>

Actors == Tasks \cup {Auth}
Valid(t) == t # None /\ t.epoch = epoch
Fresh(a) == [acct |-> a, epoch |-> epoch]
Blank == [login |-> None, pass |-> None]
Goto(x, l) == pc' = [pc EXCEPT ![x] = l]

\* A reset: what is in RAM afterwards.  The client reads its token and user id
\* from NVS when it is built; app_main opens the dialog if there is no user_name.
PowerOn ==
    /\ token' = nvs.jwt /\ uid' = nvs.uid /\ mutex' = FALSE
    /\ pc' = [x \in Actors |-> "idle"]
    /\ creds' = [x \in Actors |-> Blank]
    /\ tok' = [x \in Actors |-> None]
    /\ phase' = [x \in Actors |-> "first"]
    /\ last' = [t \in Tasks |-> "none"]
    /\ stage' = IF nvs.name THEN "menu" ELSE "setup"
    /\ dlg' = "start" /\ want' = None
    /\ handle' = FALSE /\ result' = FALSE /\ notified' = FALSE

Init ==
    /\ nvs = [jwt |-> None, uid |-> None, login |-> None, name |-> FALSE, pass |-> None]
    /\ token = None /\ uid = None /\ mutex = FALSE
    /\ pc = [x \in Actors |-> "idle"]
    /\ creds = [x \in Actors |-> Blank]
    /\ tok = [x \in Actors |-> None]
    /\ phase = [x \in Actors |-> "first"]
    /\ last = [t \in Tasks |-> "none"]
    /\ stage = "setup"
    /\ dlg = "start" /\ want = None
    /\ handle = FALSE /\ result = FALSE /\ notified = FALSE
    /\ registered \in SUBSET Accounts
    /\ epoch = 0 /\ faults = 0 /\ crashes = 0

-----------------------------------------------------------------------------
(* shared_client(true): the client is loaded from NVS again.               *)

\* A task of the menu makes an API call: a message fetch, a poll of the unread
\* count, a message sent...
Call(t) ==
    /\ stage = "menu" /\ pc[t] = "idle"
    /\ Goto(t, "reload")
    /\ phase' = [phase EXCEPT ![t] = "first"]
    /\ UNCHANGED <<nvs, client, creds, tok, last, dialog, server, crashes>>

\* reload_from_nvs reads the token, then the user id, under mutex_; the NVS
\* entries themselves are not protected by it.
ReloadToken(x) ==
    /\ pc[x] = "reload" /\ ~mutex
    /\ mutex' = TRUE
    /\ tok' = [tok EXCEPT ![x] = nvs.jwt]
    /\ Goto(x, "reload_uid")
    /\ UNCHANGED <<nvs, token, uid, creds, phase, last, dialog, server, crashes>>

ReloadUserId(x) ==
    /\ pc[x] = "reload_uid"
    /\ token' = tok[x] /\ uid' = nvs.uid /\ mutex' = FALSE
    /\ tok' = [tok EXCEPT ![x] = None]
    /\ Goto(x, IF x = Auth THEN phase[x] ELSE "creds")
    /\ UNCHANGED <<nvs, creds, phase, last, dialog, server, crashes>>

\* load_credentials_from_nvs, and ensure_authenticated's has_token().
LoadCredentials(t) ==
    /\ pc[t] = "creds" /\ ~mutex
    /\ creds' = [creds EXCEPT ![t] = [login |-> nvs.login, pass |-> nvs.pass]]
    /\ Goto(t, IF token # None THEN "request" ELSE "login")
    /\ UNCHANGED <<nvs, client, tok, phase, last, dialog, server, crashes>>

-----------------------------------------------------------------------------
(* login, register_user, and what ensure_authenticated does with them.     *)

\* Where a task goes on after a login or a registration that failed.
Failed(x) ==
    CASE x = Auth -> "report_fail"
      [] phase[x] = "first" -> "register"
      [] phase[x] = "register" -> "login"
      [] phase[x] = "second" -> "request"
      [] phase[x] = "refresh" -> "refused"

\* ... and after one whose token is stored: a registration is followed by a
\* login, the dialog's task reports, a call goes on to its request.
Stored(x) ==
    CASE x = Auth -> "report_ok"
      [] phase[x] = "register" -> "login"
      [] OTHER -> "request"

\* ensure_authenticated counts its attempts: login, register, login.
NextPhase(x, l) ==
    phase' = CASE l = "register" -> [phase EXCEPT ![x] = "register"]
               [] l = "login" -> [phase EXCEPT ![x] = "second"]
               [] OTHER -> phase

Fail(x) ==
    /\ Goto(x, Failed(x)) /\ NextPhase(x, Failed(x))
    /\ UNCHANGED tok

NetworkFault == faults < MaxFaults /\ faults' = faults + 1

LoginRequest(x) ==
    /\ pc[x] = "login"
    /\ LET a == creds[x].login
           ok == a \in registered /\ creds[x].pass = a
       IN \/ /\ ok
             /\ tok' = [tok EXCEPT ![x] = Fresh(a)]
             /\ Goto(x, "store")
             /\ UNCHANGED <<phase, faults>>
          \/ ~ok /\ Fail(x) /\ UNCHANGED faults
          \/ NetworkFault /\ Fail(x)
    /\ UNCHANGED <<nvs, client, creds, last, dialog, registered, epoch, crashes>>

\* POST /api/auth/register; the answer may be lost after the account was made.
RegisterRequest(x) ==
    /\ pc[x] = "register"
    /\ LET a == creds[x].login
           ok == a # None /\ a \notin registered
       IN \/ /\ ok
             /\ registered' = registered \cup {a}
             /\ tok' = [tok EXCEPT ![x] = Fresh(a)]
             /\ Goto(x, "store")
             /\ UNCHANGED <<phase, faults>>
          \/ ~ok /\ Fail(x) /\ UNCHANGED <<registered, faults>>
          \/ /\ NetworkFault /\ Fail(x)
             /\ registered' \in {registered, IF ok THEN registered \cup {a} ELSE registered}
    /\ UNCHANGED <<nvs, client, creds, last, dialog, epoch, crashes>>

\* token_ and user_id_, under mutex_.
StoreToken(x) ==
    /\ pc[x] = "store" /\ ~mutex
    /\ token' = tok[x] /\ uid' = tok[x].acct
    /\ Goto(x, "put_jwt")
    /\ UNCHANGED <<nvs, mutex, creds, tok, phase, last, dialog, server, crashes>>

Put(x, here, field, value, there) ==
    /\ pc[x] = here
    /\ nvs' = [nvs EXCEPT ![field] = value]
    /\ Goto(x, there)
    /\ UNCHANGED <<client, creds, phase, last, dialog, server, crashes>>

PutToken(x) == Put(x, "put_jwt", "jwt", tok[x], "put_uid") /\ UNCHANGED tok

PutUserId(x) == Put(x, "put_uid", "uid", tok[x].acct, "put_login") /\ UNCHANGED tok

PutLoginId(x) == Put(x, "put_login", "login", creds[x].login, "put_name") /\ UNCHANGED tok

\* user_name, if it is empty or this is a registration.
PutUserName(x) ==
    /\ pc[x] = "put_name"
    /\ nvs' = [nvs EXCEPT !.name = TRUE]
    /\ tok' = [tok EXCEPT ![x] = None]
    /\ Goto(x, Stored(x)) /\ NextPhase(x, Stored(x))
    /\ UNCHANGED <<client, creds, last, dialog, server, crashes>>

-----------------------------------------------------------------------------
(* The request itself, and the login after a 401.                          *)

End(t, r) ==
    /\ Goto(t, "idle")
    /\ last' = [last EXCEPT ![t] = r]
    /\ creds' = [creds EXCEPT ![t] = Blank]

\* Mutant: the login after a 401 is not forced, so the token that is there is
\* taken for good.
RequestUnforced(t) ==
    /\ pc[t] = "request" /\ ~mutex
    /\ \/ /\ Valid(token) /\ End(t, "ok")
          /\ UNCHANGED <<phase, faults>>
       \/ /\ token = None /\ End(t, "error")
          /\ UNCHANGED <<phase, faults>>
       \/ /\ token # None /\ ~Valid(token)
          /\ End(t, "refused")
          /\ UNCHANGED <<phase, faults>>
       \/ NetworkFault /\ End(t, "error") /\ UNCHANGED phase
    /\ UNCHANGED <<nvs, client, tok, dialog, registered, epoch, crashes>>

\* A call with token_: refused before it is sent if there is none, answered, or
\* 401; then the tasks in Retriers log in once more, without registering.
Request(t) ==
    /\ pc[t] = "request" /\ ~mutex
    /\ \/ /\ Valid(token) /\ End(t, "ok")
          /\ UNCHANGED <<phase, faults>>
       \/ /\ token = None /\ End(t, "error")
          /\ UNCHANGED <<phase, faults>>
       \/ /\ token # None /\ ~Valid(token)
          /\ IF t \in Retriers /\ phase[t] # "refresh"
             THEN Goto(t, "login") /\ UNCHANGED <<creds, last>>
                  /\ phase' = [phase EXCEPT ![t] = "refresh"]
             ELSE End(t, "refused") /\ UNCHANGED phase
          /\ UNCHANGED faults
       \/ NetworkFault /\ End(t, "error") /\ UNCHANGED phase
    /\ UNCHANGED <<nvs, client, tok, dialog, registered, epoch, crashes>>

\* The forced login failed: the call ends with the 401 it had.
Refused(t) ==
    /\ pc[t] = "refused" /\ End(t, "refused")
    /\ UNCHANGED <<nvs, client, tok, phase, dialog, server, crashes>>

-----------------------------------------------------------------------------
(* The profile dialog, which app_main opens before the menu and its tasks, *)
(* and its auth task.                                                      *)

\* profile_setting_task makes the dialog's task and waits for its end.  If the
\* stack or the task cannot be had it returns at once, and app_main starts the
\* menu all the same.
OpenDialog ==
    /\ stage = "setup" /\ dlg = "start"
    /\ \/ dlg' = "ask" /\ UNCHANGED stage
       \/ dlg' = "none" /\ stage' = "menu"
    /\ UNCHANGED <<nvs, client, tasks, want, handle, result, notified, server, crashes>>

\* Mutant: auth_task_result_ keeps what the previous auth task left.
StartAuthStale(a, p) ==
    /\ stage = "setup" /\ dlg = "ask" /\ ~handle
    /\ p = "register" => a \notin registered
    /\ handle' = TRUE
    /\ want' = a /\ dlg' = "wait"
    /\ creds' = [creds EXCEPT ![Auth] = [login |-> a, pass |-> a]]
    /\ phase' = [phase EXCEPT ![Auth] = p]
    /\ Goto(Auth, "reload")
    /\ UNCHANGED <<nvs, client, tok, last, stage, result, notified, server, crashes>>

\* Mutant: the login id is saved when it is typed.
StartAuthSaves(a, p) ==
    /\ stage = "setup" /\ dlg = "ask" /\ ~handle
    /\ p = "register" => a \notin registered
    /\ result' = FALSE /\ handle' = TRUE
    /\ want' = a /\ dlg' = "wait"
    /\ nvs' = [nvs EXCEPT !.login = a]
    /\ creds' = [creds EXCEPT ![Auth] = [login |-> a, pass |-> a]]
    /\ phase' = [phase EXCEPT ![Auth] = p]
    /\ Goto(Auth, "reload")
    /\ UNCHANGED <<client, tok, last, stage, notified, server, crashes>>

\* The user chose login or sign-up (p) and an account, whose id must be
\* available for a sign-up.  run_auth_request refuses while an auth task is
\* there, sets auth_task_result_ to ESP_FAIL and makes the task.
StartAuth(a, p) ==
    /\ stage = "setup" /\ dlg = "ask" /\ ~handle
    /\ p = "register" => a \notin registered
    /\ result' = FALSE /\ handle' = TRUE
    /\ want' = a /\ dlg' = "wait"
    /\ creds' = [creds EXCEPT ![Auth] = [login |-> a, pass |-> a]]
    /\ phase' = [phase EXCEPT ![Auth] = p]
    /\ Goto(Auth, "reload")
    /\ UNCHANGED <<nvs, client, tok, last, stage, notified, server, crashes>>

\* ulTaskNotifyTake(pdTRUE, 20 s): a notification, perhaps an older task's, or
\* the time is over (each network operation may take 15 s).  The auth task goes
\* on in either case.
WaitEnds ==
    /\ dlg = "wait" /\ (notified \/ pc[Auth] \notin {"reload", "reload_uid"})
    /\ dlg' = IF notified /\ result THEN "save_login" ELSE "ask"
    /\ notified' = FALSE
    /\ UNCHANGED <<nvs, client, tasks, stage, want, handle, result, server, crashes>>

\* auth_task_entry after its request: the result, the notification, the handle.
AuthResult ==
    /\ pc[Auth] \in {"report_ok", "report_fail"}
    /\ result' = (pc[Auth] = "report_ok")
    /\ Goto(Auth, "notify")
    /\ UNCHANGED <<nvs, client, creds, tok, phase, last, stage, dlg, want, handle,
                   notified, server, crashes>>

AuthNotify ==
    /\ pc[Auth] = "notify"
    /\ notified' = TRUE
    /\ Goto(Auth, "end")
    /\ UNCHANGED <<nvs, client, creds, tok, phase, last, stage, dlg, want, handle,
                   result, server, crashes>>

AuthEnd ==
    /\ pc[Auth] = "end"
    /\ handle' = FALSE
    /\ Goto(Auth, "idle")
    /\ UNCHANGED <<nvs, client, creds, tok, phase, last, stage, dlg, want, result,
                   notified, server, crashes>>

\* After ESP_OK the dialog saves login_id and user_name, then the password, and
\* app_main goes on to the menu.
SaveLogin ==
    /\ dlg = "save_login" /\ dlg' = "save_pass"
    /\ nvs' = [nvs EXCEPT !.login = want, !.name = TRUE]
    /\ UNCHANGED <<client, tasks, stage, want, handle, result, notified, server, crashes>>

SavePassword ==
    /\ dlg = "save_pass" /\ dlg' = "ask"
    /\ nvs' = [nvs EXCEPT !.pass = want]
    /\ stage' = "menu"
    /\ UNCHANGED <<client, tasks, want, handle, result, notified, server, crashes>>

-----------------------------------------------------------------------------
\* The server revokes every token it gave out.
Revoke ==
    /\ epoch < MaxEpoch /\ epoch' = epoch + 1
    /\ UNCHANGED <<nvs, client, tasks, dialog, registered, faults, crashes>>

Crash ==
    /\ crashes < MaxCrashes /\ crashes' = crashes + 1
    /\ PowerOn
    /\ UNCHANGED <<nvs, server>>

\* What a task does by itself once its call, or its attempt, has begun.
Persist(x) == PutToken(x) \/ PutUserId(x) \/ PutLoginId(x) \/ PutUserName(x)
ClientStep(x) ==
    \/ ReloadToken(x) \/ ReloadUserId(x)
    \/ LoginRequest(x) \/ RegisterRequest(x) \/ StoreToken(x) \/ Persist(x)
TaskStep(t) == ClientStep(t) \/ LoadCredentials(t) \/ Request(t) \/ Refused(t)
AuthStep == ClientStep(Auth) \/ AuthResult \/ AuthNotify \/ AuthEnd
DialogStep == OpenDialog \/ WaitEnds \/ SaveLogin \/ SavePassword

Next ==
    \/ \E t \in Tasks : Call(t) \/ TaskStep(t)
    \/ AuthStep \/ DialogStep
    \/ \E a \in Accounts, p \in {"login", "register"} : StartAuth(a, p)
    \/ Revoke \/ Crash

Spec == Init /\ [][Next]_vars

\* The tasks call again and again (a poll every 5 s, messages while a box is
\* open), FreeRTOS schedules them, and a request ends within its timeout.  The
\* steps are strongly fair, for a task that waits for mutex_ is queued and the
\* others give it back again and again.  Of the user and the server nothing is
\* assumed.
Fairness ==
    /\ \A t \in Tasks : WF_vars(Call(t)) /\ SF_vars(TaskStep(t))
    /\ SF_vars(AuthStep) /\ WF_vars(DialogStep)
FairSpec == Spec /\ Fairness

-----------------------------------------------------------------------------
TaskPc == {"idle", "reload", "reload_uid", "creds", "login", "register", "store",
           "put_jwt", "put_uid", "put_login", "put_name", "request", "refused",
           "report_ok", "report_fail", "notify", "end"}
Name == Accounts \cup {None}

\* Every variable holds a value of its kind.
TypeOK ==
    /\ nvs \in [jwt : Token \cup {None}, uid : Name, login : Name,
                name : BOOLEAN, pass : Name]
    /\ token \in Token \cup {None} /\ uid \in Name /\ mutex \in BOOLEAN
    /\ pc \in [Actors -> TaskPc]
    /\ creds \in [Actors -> [login : Name, pass : Name]]
    /\ tok \in [Actors -> Token \cup {None}]
    /\ phase \in [Actors -> {"first", "register", "second", "refresh", "login"}]
    /\ last \in [Tasks -> {"none", "ok", "error", "refused"}]
    /\ stage \in {"setup", "menu"}
    /\ dlg \in {"start", "none", "ask", "wait", "save_login", "save_pass"} /\ want \in Name
    /\ handle \in BOOLEAN /\ result \in BOOLEAN /\ notified \in BOOLEAN
    /\ registered \subseteq Accounts
    /\ epoch \in 0..MaxEpoch /\ faults \in 0..MaxFaults /\ crashes \in 0..MaxCrashes

\* The dialog takes an attempt as successful, and saves the password the user
\* typed, only when the device is logged in to that very account: an answer to
\* an attempt that had timed out is never taken for the next one's.
OkMeansLoggedIn ==
    dlg \in {"save_login", "save_pass"} =>
        /\ nvs.jwt # None /\ nvs.jwt.acct = want
        /\ nvs.uid = want /\ nvs.login = want

\* user_name, which lets app_main skip the profile dialog, is stored last, so
\* with it there are a token and a user id in NVS, wherever a reset fell, and
\* the menu runs without them only if the dialog could not be opened in this
\* boot.  And the login id is the server's: ensure_authenticated registers
\* after any failed login, but never makes an account by itself.
MenuHasIdentity ==
    nvs.name \/ (stage = "menu" /\ dlg # "none") =>
        nvs.jwt # None /\ nvs.uid # None /\ nvs.login \in registered

\* A revoked token does not stop the device: with a login id and a password
\* that fit together, a task that refreshes after 401 has its calls answered
\* again and again.
RefreshRecovers ==
    <>[](stage = "menu" /\ nvs.login # None /\ nvs.pass = nvs.login)
        => \A t \in Retriers : []<>(last[t] = "ok")
=============================================================================
