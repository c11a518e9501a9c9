----------------------------- MODULE PlannerAuth -----------------------------
(***************************************************************************)
(* Planner accounts, their one-time access, sessions and administration:   *)
(* backend/app/services/planner_auth.py behind api/planner_auth.py, the    *)
(* middleware of main.py and the accounts page of the client.              *)
(*                                                                         *)
(* A handler that writes begins with BEGIN IMMEDIATE and is one step.      *)
(* Three requests span several transactions:                               *)
(*   - a login reads the account and verifies the password before it       *)
(*     claims the database (LoginRead, LoginClaim);                        *)
(*   - a protected request is authenticated by the middleware, handled,    *)
(*     and may then refresh the session (Authenticate, a handler, Touch);  *)
(*   - the middleware's deletion of an ended session and the refresh of a  *)
(*     session select the row first and write it by its row id afterwards, *)
(*     outside BEGIN IMMEDIATE.  SQLite gives a new session one more than  *)
(*     the largest id in the table, also when a deleted row had that id.   *)
(***************************************************************************)
EXTENDS Naturals, FiniteSets, FiniteSetsExt

CONSTANTS
  MaxAccounts,   (* bound: accounts ever created                            *)
  Clients,       (* browsers, one request in flight each                    *)
  Passwords,
  NoPassword,    (* password_hash is null                                   *)
  Secrets,       (* values an operator configures as startup credentials    *)
  None,          (* no row, no value, nothing listed                        *)
  Idle,          (* the browser waits for nothing                           *)
  FailureLimit,  (* failed logins that block an account: 10                 *)
  BlockTime,     (* 15 minutes                                              *)
  IdleTime,      (* 60 minutes                                              *)
  SessionTime,   (* 12 hours                                                *)
  AccessTime,    (* 24 hours                                                *)
  MaxLogins,     (* bound: successful logins                                *)
  MaxRevision,   (* bound: revisions of an account                          *)
  MaxTime        (* bound: the clock                                        *)

ASSUME LimitsAssumption ==
  /\ FailureLimit \in Nat \ {0} /\ BlockTime \in Nat \ {0}
  /\ IdleTime \in Nat \ {0} /\ SessionTime \in Nat \ {0} /\ AccessTime \in Nat \ {0}
ASSUME BoundsAssumption ==
  MaxAccounts \in Nat /\ MaxLogins \in Nat /\ MaxRevision \in Nat /\ MaxTime \in Nat

VARIABLES
  account,  (* planner_accounts: [Accounts -> Account \cup {None}]          *)
  access,   (* planner_account_access: [Accounts -> Access \cup {None}]     *)
  session,  (* planner_sessions: [Accounts -> Session \cup {None}]          *)
  startup,  (* planner_startup_credentials: [Secrets -> Startup \cup {None}]*)
  clock,
  logins,   (* session secrets drawn so far                                 *)
  request,  (* [Clients -> request in flight]                               *)
  list      (* [Clients -> accounts as the page of the client lists them]   *)

vars == <<account, access, session, startup, clock, logins, request, list>>

Accounts == 1..MaxAccounts
Purposes == {"setup", "reset", "reactivation"}
Account ==
  [active : BOOLEAN, admin : BOOLEAN, password : Passwords \cup {NoPassword},
   failures : Nat, blocked : Nat, revision : Nat, disabled : BOOLEAN]
Access == [purpose : Purposes, expires : Nat]
Session == [id : Nat, secret : Nat, created : Nat, activity : Nat, password : Passwords]
Startup == [purpose : {"bootstrap", "recovery"}, state : {"current", "consumed", "replaced"}]
Listed == [active : BOOLEAN, admin : BOOLEAN, revision : Nat, disabled : BOOLEAN]
Login ==
  [kind : {"login"}, account : Accounts, password : Passwords, now : Nat,
   read : Passwords \cup {NoPassword}, blocked : BOOLEAN]
Request ==
  Login \cup [kind : {"handle", "answered"}, account : Accounts, secret : Nat]
        \cup [kind : {"end"}, id : Nat] \cup [kind : {"touch"}, id : Nat, now : Nat]

ASSUME ValuesAssumption ==
  /\ NoPassword \notin Passwords /\ Idle \notin Request
  /\ None \notin Account \cup Access \cup Session \cup Startup \cup Listed

Exists(a) == account[a] # None
Administrators == {a \in Accounts : Exists(a) /\ account[a].admin}
Usable(a) == account[a].active /\ account[a].password # NoPassword
Unblocked == 0
BlockedAt(a, now) == now < account[a].blocked

(* account_projection, as far as the page's buttons depend on it. *)
Projection(a) ==
  IF Exists(a)
  THEN [active |-> account[a].active, admin |-> account[a].admin,
        revision |-> account[a].revision, disabled |-> account[a].disabled]
  ELSE None

Init ==
  /\ account = [a \in Accounts |-> None]
  /\ access = [a \in Accounts |-> None]
  /\ session = [a \in Accounts |-> None]
  /\ startup = [s \in Secrets |-> None]
  /\ clock = 0
  /\ logins = 0
  /\ request = [c \in Clients |-> Idle]
  /\ list = [c \in Clients |-> None]

Tick ==
  /\ clock < MaxTime
  /\ clock' = clock + 1
  /\ UNCHANGED <<account, access, session, startup, logins, request, list>>

-----------------------------------------------------------------------------
(* Startup credentials                                                     *)

(* Mutant of Registered: a configured value always becomes current. *)
RegisteredAgain(purpose, s) ==
  [t \in Secrets |->
     IF t = s THEN [purpose |-> purpose, state |-> "current"]
     ELSE IF startup[t] = [purpose |-> purpose, state |-> "current"]
     THEN [purpose |-> purpose, state |-> "replaced"] ELSE startup[t]]

(* A value never seen before replaces the current one of its purpose.      *)
Registered(purpose, s) ==
  [t \in Secrets |->
     IF startup[s] # None THEN startup[t]
     ELSE IF t = s THEN [purpose |-> purpose, state |-> "current"]
     ELSE IF startup[t] = [purpose |-> purpose, state |-> "current"]
     THEN [purpose |-> purpose, state |-> "replaced"] ELSE startup[t]]

(* The server starts again with one value configured: what was in flight   *)
(* is lost and reconcile_startup_credentials registers the value.  A start *)
(* with both values is two such steps.                                     *)
Restart(purpose, s) ==
  /\ startup' = Registered(purpose, s)
  /\ request' = [c \in Clients |-> Idle]
  /\ UNCHANGED <<account, access, session, clock, logins, list>>

Consumed(s) == [startup EXCEPT ![s].state = "consumed"]
Presentable(s, purpose) == startup[s] = [purpose |-> purpose, state |-> "current"]

NewAccount(administrator, password) ==
  [active |-> administrator, admin |-> administrator, password |-> password,
   failures |-> 0, blocked |-> Unblocked, revision |-> 1, disabled |-> FALSE]

(* The next row id; accounts are never deleted. *)
Fresh(a) == ~ Exists(a) /\ \A b \in Accounts : b < a => Exists(b)

(* bootstrap_administrator *)
Bootstrap(s, a, password) ==
  /\ Administrators = {}
  /\ Presentable(s, "bootstrap")
  /\ Fresh(a)
  /\ account' = [account EXCEPT ![a] = NewAccount(TRUE, password)]
  /\ startup' = Consumed(s)
  /\ UNCHANGED <<access, session, clock, logins, request, list>>

(* The account with a new password and no failures counted. *)
WithPassword(a, password) ==
  [account[a] EXCEPT !.password = password, !.failures = 0, !.blocked = Unblocked]

(* recover_administrator *)
Recover(s, a, password) ==
  /\ Presentable(s, "recovery")
  /\ a \in Administrators
  /\ account' = [account EXCEPT ![a] = WithPassword(a, password)]
  /\ session' = [session EXCEPT ![a] = None]
  /\ startup' = Consumed(s)
  /\ UNCHANGED <<access, clock, logins, request, list>>
-----------------------------------------------------------------------------
(* login_planner                                                           *)

(* The account is read and the password verified before the claim. *)
LoginRead(c, a, password) ==
  /\ request[c] = Idle
  /\ Exists(a)
  /\ request' = [request EXCEPT ![c] =
       [kind |-> "login", account |-> a, password |-> password, now |-> clock,
        read |-> account[a].password, blocked |-> BlockedAt(a, clock)]]
  /\ UNCHANGED <<account, access, session, startup, clock, logins, list>>

(* Mutant of Verified: what was verified before the claim is kept. *)
VerifiedBefore(q) == ~ q.blocked /\ q.read = q.password

(* The verification is repeated when the account changed meanwhile; a      *)
(* blocked attempt has verified nothing yet.                               *)
Verified(q) ==
  IF q.blocked \/ account[q.account].password # q.read
  THEN account[q.account].password = q.password
  ELSE q.read = q.password

(* Mutant of Rejected: the block is looked up before the claim only. *)
RejectedBefore(q) == q.blocked

(* The block is looked up again under the claim, at the time of the read.  *)
Rejected(q) == BlockedAt(q.account, q.now)

(* failed_login_count; a block that is over starts a new count. *)
CountedFailures(a) == IF account[a].blocked = Unblocked THEN account[a].failures ELSE 0

(* Mutant of Blocked: the attempt over the limit blocks, not the last one. *)
BlockedLate(failures, now) ==
  IF failures > FailureLimit THEN now + BlockTime ELSE Unblocked

Blocked(failures, now) == IF failures >= FailureLimit THEN now + BlockTime ELSE Unblocked

AfterFailure(q) ==
  LET failures == CountedFailures(q.account) + 1
  IN [account[q.account] EXCEPT !.failures = failures,
                                !.blocked = Blocked(failures, q.now)]

LiveSessions == {a \in Accounts : session[a] # None}

(* The row id of a session inserted after the account's own was deleted. *)
NextId(a) ==
  LET ids == {session[b].id : b \in LiveSessions \ {a}}
  IN IF ids = {} THEN 1 ELSE Max(ids) + 1

LoginClaim(c) ==
  LET q == request[c]
      a == q.account
  IN /\ request[c] # Idle /\ q.kind = "login"
     /\ request' = [request EXCEPT ![c] = Idle]
     /\ \/ /\ Rejected(q)
           /\ UNCHANGED <<account, session, logins>>
        \/ /\ ~ Rejected(q)
           /\ ~ (Usable(a) /\ Verified(q))
           /\ account' = [account EXCEPT ![a] = AfterFailure(q)]
           /\ UNCHANGED <<session, logins>>
        \/ /\ ~ Rejected(q)
           /\ Usable(a) /\ Verified(q)
           /\ logins < MaxLogins
           /\ logins' = logins + 1
           /\ account' = [account EXCEPT ![a].failures = 0, ![a].blocked = Unblocked]
           /\ session' = [session EXCEPT ![a] =
                [id |-> NextId(a), secret |-> logins', created |-> q.now,
                 activity |-> q.now, password |-> q.password]]
     /\ UNCHANGED <<access, startup, clock, list>>
-----------------------------------------------------------------------------
(* Sessions                                                                *)

Valid(a) ==
  /\ Usable(a)
  /\ clock < session[a].activity + IdleTime
  /\ clock < session[a].created + SessionTime

(* The middleware and authenticate_session: a valid session lets the       *)
(* request through, the row of an ended one is going to be deleted.        *)
Authenticate(c, a) ==
  /\ request[c] = Idle
  /\ session[a] # None
  /\ request' = [request EXCEPT ![c] =
       IF Valid(a) THEN [kind |-> "handle", account |-> a, secret |-> session[a].secret]
                   ELSE [kind |-> "end", id |-> session[a].id]]
  /\ UNCHANGED <<account, access, session, startup, clock, logins, list>>

HasId(a, id) == session[a] # None /\ session[a].id = id

(* authenticate_session, DELETE by the row id it selected. *)
EndSession(c) ==
  /\ request[c] # Idle /\ request[c].kind = "end"
  /\ session' = [a \in Accounts |-> IF HasId(a, request[c].id) THEN None ELSE session[a]]
  /\ request' = [request EXCEPT ![c] = Idle]
  /\ UNCHANGED <<account, access, startup, clock, logins, list>>

Current(q) == session[q.account] # None /\ session[q.account].secret = q.secret

(* touch_session_if_current after a successful response: the SELECT.       *)
Touch(c) ==
  LET q == request[c]
  IN /\ request[c] # Idle /\ q.kind = "answered"
     /\ request' = [request EXCEPT ![c] =
          IF /\ Current(q)
             /\ clock < session[q.account].activity + IdleTime
             /\ clock < session[q.account].created + SessionTime
          THEN [kind |-> "touch", id |-> session[q.account].id, now |-> clock]
          ELSE Idle]
     /\ UNCHANGED <<account, access, session, startup, clock, logins, list>>

(* The UPDATE by row id.  Without such a row, or when the row was created  *)
(* after now (ck_planner_sessions_activity_sequence), it fails.            *)
Touched(a, id, now) ==
  IF HasId(a, id) /\ now >= session[a].created
  THEN [session[a] EXCEPT !.activity = now] ELSE session[a]

TouchWrite(c) ==
  /\ request[c] # Idle /\ request[c].kind = "touch"
  /\ session' = [a \in Accounts |-> Touched(a, request[c].id, request[c].now)]
  /\ request' = [request EXCEPT ![c] = Idle]
  /\ UNCHANGED <<account, access, startup, clock, logins, list>>
-----------------------------------------------------------------------------
(* Protected handlers                                                      *)

Handling(c) == request[c] # Idle /\ request[c].kind = "handle"
Answered(c) == request' = [request EXCEPT ![c].kind = "answered"]

(* A planning handler that answers, a refusal, a request without the       *)
(* header x-planner-activity.                                              *)
Answer(c) ==
  /\ Handling(c)
  /\ request' \in {[request EXCEPT ![c].kind = "answered"], [request EXCEPT ![c] = Idle]}
  /\ UNCHANGED <<account, access, session, startup, clock, logins, list>>

(* end_authenticated_session; the client discards its list. *)
Logout(c) ==
  /\ Handling(c)
  /\ session' = [session EXCEPT ![request[c].account] =
       IF Current(request[c]) THEN None ELSE @]
  /\ list' = [list EXCEPT ![c] = None]
  /\ Answered(c)
  /\ UNCHANGED <<account, access, startup, clock, logins>>

(* change_password *)
ChangePassword(c, current, password) ==
  LET a == request[c].account
  IN /\ Handling(c)
     /\ account[a].password = current
     /\ account' = [account EXCEPT ![a] = WithPassword(a, password)]
     /\ session' = [session EXCEPT ![a] = None]
     /\ Answered(c)
     /\ UNCHANGED <<access, startup, clock, logins, list>>

(* redeem_account_access; a presented access that is due or does not fit   *)
(* the account is refused, and the refusal rolled back.                    *)
Fits(a) ==
  \/ access[a].purpose = "setup" /\ ~ account[a].active /\ ~ account[a].disabled
  \/ access[a].purpose = "reset" /\ account[a].active /\ account[a].password = NoPassword
  \/ access[a].purpose = "reactivation" /\ ~ account[a].active /\ account[a].disabled

Redeem(a, password) ==
  LET reactivated == IF access[a].purpose = "reactivation" THEN 1 ELSE 0
  IN /\ access[a] # None
     /\ clock < access[a].expires
     /\ Fits(a)
     /\ account[a].revision + reactivated <= MaxRevision
     /\ account' = [account EXCEPT ![a] =
          [WithPassword(a, password) EXCEPT !.active = TRUE, !.revision = @ + reactivated]]
     /\ access' = [access EXCEPT ![a] = None]
     /\ UNCHANGED <<session, startup, clock, logins, request, list>>
-----------------------------------------------------------------------------
(* Account administration                                                  *)

(* require_administrator under the claim of the handler *)
ByAdministrator(c) == Handling(c) /\ request[c].account \in Administrators

(* list_planner_accounts, and the page that shows the answer *)
ListAccounts(c) ==
  /\ ByAdministrator(c)
  /\ list' = [list EXCEPT ![c] = [a \in Accounts |-> Projection(a)]]
  /\ Answered(c)
  /\ UNCHANGED <<account, access, session, startup, clock, logins>>

(* The page offers a button for an account it lists in a fitting state. *)
OfferedSetup(c, a) == ~ list[c][a].active /\ ~ list[c][a].disabled
OfferedReactivation(c, a) == ~ list[c][a].active /\ list[c][a].disabled
OfferedToPlanner(c, a) == list[c][a].active /\ ~ list[c][a].admin

(* Mutant of Expected: the revision the client expects is not compared. *)
ExpectedAnything(c, a) == list[c] # None /\ list[c][a] # None

(* _action_account: the revision the client expects is the one it lists.   *)
Expected(c, a) ==
  /\ list[c] # None /\ list[c][a] # None
  /\ account[a].revision = list[c][a].revision

NextRevision(a) == account[a].revision < MaxRevision

(* _issue_access replaces the account's earlier access. *)
Issued(a, purpose) ==
  [access EXCEPT ![a] = [purpose |-> purpose, expires |-> clock + AccessTime]]

(* create_planner_account *)
CreateAccount(c, a) ==
  /\ ByAdministrator(c)
  /\ Fresh(a)
  /\ account' = [account EXCEPT ![a] = NewAccount(FALSE, NoPassword)]
  /\ access' = Issued(a, "setup")
  /\ Answered(c)
  /\ UNCHANGED <<session, startup, clock, logins, list>>

(* reissue_setup_access *)
ReissueSetup(c, a) ==
  /\ ByAdministrator(c) /\ Expected(c, a) /\ OfferedSetup(c, a) /\ NextRevision(a)
  /\ ~ account[a].active /\ ~ account[a].disabled /\ account[a].password = NoPassword
  /\ account' = [account EXCEPT ![a].revision = @ + 1]
  /\ access' = Issued(a, "setup")
  /\ Answered(c)
  /\ UNCHANGED <<session, startup, clock, logins, list>>

(* issue_reset_access *)
IssueReset(c, a) ==
  /\ ByAdministrator(c) /\ Expected(c, a) /\ OfferedToPlanner(c, a) /\ NextRevision(a)
  /\ ~ account[a].admin /\ account[a].active
  /\ account' = [account EXCEPT ![a] =
       [WithPassword(a, NoPassword) EXCEPT !.revision = @ + 1]]
  /\ session' = [session EXCEPT ![a] = None]
  /\ access' = Issued(a, "reset")
  /\ Answered(c)
  /\ UNCHANGED <<startup, clock, logins, list>>

(* Mutant of Disable: the account's access can still be redeemed. *)
DisableOnly(c, a) ==
  /\ ByAdministrator(c) /\ Expected(c, a) /\ OfferedToPlanner(c, a) /\ NextRevision(a)
  /\ ~ account[a].admin /\ account[a].active
  /\ account' = [account EXCEPT ![a].active = FALSE, ![a].password = NoPassword,
                                ![a].disabled = TRUE, ![a].revision = @ + 1]
  /\ session' = [session EXCEPT ![a] = None]
  /\ Answered(c)
  /\ UNCHANGED <<access, startup, clock, logins, list>>

(* disable_account *)
Disable(c, a) ==
  /\ ByAdministrator(c) /\ Expected(c, a) /\ OfferedToPlanner(c, a) /\ NextRevision(a)
  /\ ~ account[a].admin /\ account[a].active
  /\ account' = [account EXCEPT ![a].active = FALSE, ![a].password = NoPassword,
                                ![a].disabled = TRUE, ![a].revision = @ + 1]
  /\ session' = [session EXCEPT ![a] = None]
  /\ access' = [access EXCEPT ![a] = None]
  /\ Answered(c)
  /\ UNCHANGED <<startup, clock, logins, list>>

(* issue_reactivation_access *)
IssueReactivation(c, a) ==
  /\ ByAdministrator(c) /\ Expected(c, a) /\ OfferedReactivation(c, a) /\ NextRevision(a)
  /\ ~ account[a].active /\ account[a].disabled
  /\ account' = [account EXCEPT ![a].revision = @ + 1]
  /\ access' = Issued(a, "reactivation")
  /\ Answered(c)
  /\ UNCHANGED <<session, startup, clock, logins, list>>

(* Mutant of Eligible: a planner whose reset is not redeemed is eligible. *)
EligibleActive(a) == account[a].active /\ ~ account[a].admin

Eligible(a) == Usable(a) /\ ~ account[a].admin

(* transfer_administration *)
Transfer(c, a) ==
  LET current == request[c].account
  IN /\ ByAdministrator(c) /\ Expected(c, a) /\ OfferedToPlanner(c, a) /\ NextRevision(a)
     /\ Expected(c, current) /\ NextRevision(current)
     /\ Eligible(a)
     /\ account' = [account EXCEPT
          ![current].admin = FALSE, ![current].revision = @ + 1,
          ![a].admin = TRUE, ![a].revision = @ + 1]
     /\ Answered(c)
     /\ UNCHANGED <<access, session, startup, clock, logins, list>>
-----------------------------------------------------------------------------
StartupStep ==
  \E s \in Secrets :
    \/ \E purpose \in {"bootstrap", "recovery"} : Restart(purpose, s)
    \/ \E a \in Accounts, password \in Passwords :
         Bootstrap(s, a, password) \/ Recover(s, a, password)

LoginStep(c) ==
  LoginClaim(c) \/ \E a \in Accounts, password \in Passwords : LoginRead(c, a, password)

SessionStep(c) ==
  \/ \E a \in Accounts : Authenticate(c, a)
  \/ EndSession(c) \/ Touch(c) \/ TouchWrite(c) \/ Answer(c) \/ Logout(c)
  \/ \E current, password \in Passwords : ChangePassword(c, current, password)

AdministrationStep(c) ==
  \/ ListAccounts(c)
  \/ \E a \in Accounts :
       \/ CreateAccount(c, a) \/ ReissueSetup(c, a) \/ IssueReset(c, a) \/ Disable(c, a)
       \/ IssueReactivation(c, a) \/ Transfer(c, a)

Next ==
  \/ Tick \/ StartupStep
  \/ \E a \in Accounts, password \in Passwords : Redeem(a, password)
  \/ \E c \in Clients : LoginStep(c) \/ SessionStep(c) \/ AdministrationStep(c)

Spec == Init /\ [][Next]_vars
-----------------------------------------------------------------------------
(* The rows are of their types. *)
TypeOK ==
  /\ account \in [Accounts -> Account \cup {None}]
  /\ access \in [Accounts -> Access \cup {None}]
  /\ session \in [Accounts -> Session \cup {None}]
  /\ startup \in [Secrets -> Startup \cup {None}]
  /\ clock \in 0..MaxTime /\ logins \in 0..MaxLogins
  /\ request \in [Clients -> Request \cup {Idle}]
  /\ list \in [Clients -> [Accounts -> Listed \cup {None}] \cup {None}]

Bootstrapped == \E s \in Secrets : startup[s] = [purpose |-> "bootstrap", state |-> "consumed"]

(* From the bootstrap on exactly one account is administrator, and it can  *)
(* log in: no interleaving of transfers, resets, disablements and          *)
(* recoveries leaves the system without an administrator or with two.  The *)
(* database refuses two administrators and an inactive one, but nothing    *)
(* except the guards of the handlers refuses one without a password.       *)
OneUsableAdministrator ==
  IF Bootstrapped THEN \E a \in Accounts : Administrators = {a} /\ Usable(a)
                  ELSE Administrators = {}

(* An account with a session can log in with the password the session was  *)
(* opened with: a login that verified the old password before a change, a  *)
(* reset or a recovery opens no session behind it.                         *)
SessionsMatchPasswords ==
  \A a \in LiveSessions : Usable(a) /\ account[a].password = session[a].password

(* One-time access that has been handed out can be redeemed until it is    *)
(* due: no action on the account leaves it with access of a purpose that   *)
(* its state does not fit.                                                 *)
AccessFitsItsAccount == \A a \in Accounts : access[a] # None => Fits(a)

(* A startup credential that was consumed or replaced never works again,   *)
(* whatever later starts are configured with.                              *)
RetiredStaysRetired ==
  [][\A s \in Secrets :
       startup[s] # None /\ startup[s].state # "current" => startup'[s] = startup[s]]_vars

(* The failed logins since the last success never exceed the limit, and    *)
(* the last of them blocks the account, with attempts in flight as well.   *)
FailuresBlock ==
  \A a \in Accounts : Exists(a) =>
    /\ account[a].failures <= FailureLimit
    /\ account[a].failures = FailureLimit <=> account[a].blocked # Unblocked

(* While an account is blocked no login changes it: an attempt that read   *)
(* the account before the block neither succeeds, nor lifts the block, nor *)
(* moves its end.                                                          *)
BlocksHold ==
  [][\A c \in Clients :
       LET a == request[c].account
       IN request[c] # Idle /\ request[c].kind = "login" /\ request'[c] = Idle =>
            (BlockedAt(a, clock) => account'[a] = account[a] /\ session'[a] = session[a])]_vars

(* An administrator's action changes an account that is, at that moment,   *)
(* exactly as the page the administrator acted on shows it, although a     *)
(* first setup does not change the revision that the page sends along.     *)
ActsOnWhatIsListed ==
  [][\A a \in Accounts :
       Exists(a) /\ account'[a].revision # account[a].revision =>
         \/ access[a] # None /\ access'[a] = None /\ account'[a].active
         \/ \E c \in Clients :
              Handling(c) /\ request'[c] # request[c] /\ list[c] # None
              /\ list[c][a] = Projection(a)]_vars
=============================================================================
