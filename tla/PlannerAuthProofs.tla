-------------------------- MODULE PlannerAuthProofs --------------------------
(***************************************************************************)
(* Theorems about PlannerAuth, for any number of accounts, browsers and    *)
(* credentials, any limits and any time.                                   *)
(*                                                                         *)
(* Almost everything is a matter of one account with its access and its    *)
(* session (AccountInv); a request in flight names an account that exists  *)
(* and was sent in the past (RequestInv); and what a page lists differs    *)
(* from an account of the same revision only in a first setup (ListInv).   *)
(***************************************************************************)
EXTENDS PlannerAuth, FiniteSetTheorems, WellFoundedInduction, TLAPS

(* An account with its one-time access and its session.                    *)
AccountInv(a) ==
  /\ ~ Exists(a) => access[a] = None /\ session[a] = None
  /\ Exists(a) =>
       /\ account[a].password # NoPassword => account[a].active
       /\ account[a].admin => Usable(a)
       /\ account[a].failures <= FailureLimit
       /\ (account[a].failures = FailureLimit) = (account[a].blocked # Unblocked)
       /\ access[a] # None => Fits(a)
       /\ session[a] # None => Usable(a) /\ account[a].password = session[a].password

(* A request in flight is for an account that exists, from the past.       *)
RequestInv(c) ==
  request[c] # Idle =>
    /\ request[c].kind \in {"login", "handle", "answered"} => Exists(request[c].account)
    /\ request[c].kind = "login" => request[c].now <= clock

(* An account that a page lists is the one of now, or an earlier revision, *)
(* or was set up for the first time since.                                 *)
ListInv(c) ==
  list[c] # None =>
    \A a \in Accounts :
      list[c][a] # None =>
        /\ Exists(a)
        /\ list[c][a].revision <= account[a].revision
        /\ list[c][a].admin => list[c][a].active
        /\ list[c][a].revision = account[a].revision =>
             /\ list[c][a].admin = account[a].admin
             /\ list[c][a].disabled = account[a].disabled
             /\ list[c][a].active => account[a].active

(* The inductive invariant.                                                *)
Inv ==
  /\ \A a \in Accounts : AccountInv(a)
  /\ \A c \in Clients : RequestInv(c) /\ ListInv(c)
  /\ OneUsableAdministrator
-----------------------------------------------------------------------------
(* Numbers given for 1..n have a bound; a nonempty set of numbers below a  *)
(* bound has a largest one.                                                *)
LEMMA BoundExists ==
  ASSUME NEW n \in Nat, NEW f \in [1..n -> Nat]
  PROVE  \E m \in Nat : \A i \in 1..n : f[i] <= m
<1> DEFINE BoundedTo(k) == \E m \in Nat : \A i \in 1..k : f[i] <= m
           Unbounded == {k \in 0..n : ~ BoundedTo(k)}
<1>1. SUFFICES ASSUME n \in Unbounded PROVE FALSE
  OBVIOUS
<1>2. PICK k \in Unbounded : \A j \in Unbounded : ~ (<<j, k>> \in OpToRel(<, Nat))
  <2> HIDE DEF BoundedTo
  <2>1. Unbounded \subseteq Nat /\ Unbounded # {} BY <1>1
  <2> HIDE DEF Unbounded
  <2> QED BY <2>1, NatLessThanWellFounded, WFMin
<1>3. k \in 0..n /\ ~ BoundedTo(k) /\ \A j \in 0..n : j < k => BoundedTo(j)
  <2> HIDE DEF BoundedTo
  <2>1. \A j \in Unbounded : ~ (j < k)
    <3>1. Unbounded \subseteq Nat OBVIOUS
    <3> HIDE DEF Unbounded
    <3> QED BY <1>2, <3>1 DEF OpToRel
  <2> QED BY <2>1
<1>4. k # 0
  <2>1. BoundedTo(0)
    <3>1. 0 \in Nat /\ \A i \in 1..0 : f[i] <= 0 OBVIOUS
    <3> QED BY <3>1
  <2> QED BY <1>3, <2>1
<1>5. k - 1 \in 0..n /\ k - 1 < k /\ k \in 1..n
  BY <1>3, <1>4
<1>6. PICK m \in Nat : \A i \in 1..(k - 1) : f[i] <= m
  BY <1>3, <1>5
<1> DEFINE larger == IF f[k] > m THEN f[k] ELSE m
<1>7. larger \in Nat /\ f[k] <= larger /\ m <= larger
  BY <1>5
<1>8. \A i \in 1..k : f[i] <= larger
  <2> HIDE DEF larger
  <2> TAKE i \in 1..k
  <2>1. f[i] \in Nat BY <1>3
  <2>2. CASE i = k BY <1>7, <2>2
  <2>3. CASE i # k
    <3>1. i \in 1..(k - 1) BY <1>3, <2>3
    <3> QED BY <1>6, <1>7, <2>1, <3>1
  <2> QED BY <2>2, <2>3
<1> QED BY <1>3, <1>7, <1>8

LEMMA LargestExists ==
  ASSUME NEW n \in Nat, NEW S \in SUBSET (0..n), S # {}
  PROVE  Max(S) \in S
<1> DEFINE Bounds == {b \in Nat : \A k \in S : k <= b}
<1>1. PICK b \in Bounds : \A c \in Bounds : ~ (<<c, b>> \in OpToRel(<, Nat))
  <2>1. n \in Bounds /\ Bounds \subseteq Nat OBVIOUS
  <2> HIDE DEF Bounds
  <2> QED BY <2>1, NatLessThanWellFounded, WFMin
<1>2. \A c \in Bounds : ~ (c < b)
  BY <1>1 DEF OpToRel
<1>3. ASSUME b \notin S PROVE FALSE
  <2>1. \A k \in S : k <= b - 1 BY <1>3
  <2>2. b - 1 \in Nat
    <3>1. PICK k \in S : TRUE OBVIOUS
    <3> QED BY <2>1, <3>1
  <2> QED BY <1>2, <2>1, <2>2
<1>4. \E x \in S : \A y \in S : x >= y
  BY <1>3
<1> QED BY <1>4 DEF Max

LEMMA NextIdType ==
  ASSUME TypeOK, NEW a \in Accounts
  PROVE  NextId(a) \in Nat
<1> DEFINE ids == {session[b].id : b \in LiveSessions \ {a}}
           f == [b \in Accounts |-> IF session[b] # None THEN session[b].id ELSE 0]
<1>1. \A b \in LiveSessions : b \in Accounts /\ session[b].id = f[b] /\ f[b] \in Nat
  BY DEF LiveSessions, TypeOK, Session
<1>2. MaxAccounts \in Nat /\ f \in [1..MaxAccounts -> Nat]
  BY <1>1, BoundsAssumption DEF Accounts, LiveSessions
<1>3. PICK m \in Nat : \A i \in 1..MaxAccounts : f[i] <= m
  <2> HIDE DEF f
  <2> QED BY <1>2, BoundExists
<1>4. ids \subseteq 0..m
  <2>1. \A b \in LiveSessions : session[b].id \in 0..m
    <3> HIDE DEF f
    <3> QED BY <1>1, <1>3 DEF Accounts
  <2> QED BY <2>1
<1>5. ASSUME ids # {} PROVE Max(ids) \in Nat
  <2> HIDE DEF ids
  <2>1. ids \in SUBSET (0..m) /\ \A i \in ids : i \in Nat BY <1>4
  <2>2. Max(ids) \in ids BY <1>5, <2>1, LargestExists, Zenon
  <2> QED BY <2>1, <2>2
<1> QED BY <1>5 DEF NextId
-----------------------------------------------------------------------------
(* The rows of a table that are there have its fields.                     *)
LEMMA RowTypes ==
  ASSUME TypeOK, NEW a \in Accounts
  PROVE  /\ Exists(a) => account[a] \in Account
         /\ access[a] # None => access[a] \in Access
         /\ session[a] # None => session[a] \in Session
BY DEF TypeOK, Exists

LEMMA RequestTypes ==
  ASSUME TypeOK, NEW c \in Clients, request[c] # Idle
  PROVE  /\ request[c] \in Request
         /\ request[c].kind = "login" => request[c] \in Login
         /\ request[c].kind \in {"handle", "answered"} =>
              request[c] \in [kind : {"handle", "answered"}, account : Accounts, secret : Nat]
         /\ request[c].kind = "end" => request[c] \in [kind : {"end"}, id : Nat]
         /\ request[c].kind = "touch" => request[c] \in [kind : {"touch"}, id : Nat, now : Nat]
BY DEF TypeOK, Request, Login

LEMMA ClaimedTypes ==
  ASSUME TypeOK, NEW c \in Clients, request[c] # Idle,
         request[c].kind \in {"login", "handle", "answered"}
  PROVE  request[c].account \in Accounts
BY RequestTypes DEF Login

(* A handler that answers.                                                 *)
LEMMA AnsweredStep ==
  ASSUME TypeOK, NEW c \in Clients, Handling(c), Answered(c)
  PROVE  /\ request' \in [Clients -> Request \cup {Idle}]
         /\ \A d \in Clients \ {c} : request'[d] = request[d]
         /\ request'[c] = [kind |-> "answered", account |-> request[c].account,
                           secret |-> request[c].secret]
<1>1. request[c] \in [kind : {"handle", "answered"}, account : Accounts, secret : Nat]
  BY RequestTypes DEF Handling
<1>2. [request[c] EXCEPT !.kind = "answered"]
        = [kind |-> "answered", account |-> request[c].account, secret |-> request[c].secret]
  BY <1>1
<1>3. request' = [request EXCEPT ![c] = [kind |-> "answered", account |-> request[c].account,
                                         secret |-> request[c].secret]]
  BY <1>2 DEF Answered
<1>4. [kind |-> "answered", account |-> request[c].account, secret |-> request[c].secret]
        \in Request
  BY <1>1 DEF Request
<1> QED BY <1>3, <1>4 DEF TypeOK

(* A request that is over, and one that begins or goes on.                 *)
LEMMA RequestMoves ==
  ASSUME TypeOK, NEW c \in Clients, NEW q \in Request \cup {Idle},
         request' = [request EXCEPT ![c] = q]
  PROVE  /\ request' \in [Clients -> Request \cup {Idle}]
         /\ request'[c] = q
         /\ \A d \in Clients \ {c} : request'[d] = request[d]
BY DEF TypeOK

LEMMA RowFields ==
  ASSUME TypeOK, NEW a \in Accounts, Exists(a)
  PROVE  /\ account[a] \in Account
         /\ account[a].active \in BOOLEAN /\ account[a].admin \in BOOLEAN
         /\ account[a].disabled \in BOOLEAN /\ account[a].password \in Passwords \cup {NoPassword}
         /\ account[a].failures \in Nat /\ account[a].blocked \in Nat
         /\ account[a].revision \in Nat
BY RowTypes DEF Account

(* Only the row of a changes: how its account stands afterwards.           *)
OnlyRow(a) ==
  /\ account' \in [Accounts -> Account \cup {None}]
  /\ account'[a] \in Account
  /\ \A b \in Accounts \ {a} : account'[b] = account[b]
KeepsRights(a) ==
  /\ account'[a].active = account[a].active /\ account'[a].admin = account[a].admin
  /\ account'[a].disabled = account[a].disabled
KeepsLogin(a) ==
  /\ account'[a].password = account[a].password
  /\ account'[a].failures = account[a].failures /\ account'[a].blocked = account[a].blocked
GetsPassword(a, password) ==
  account'[a].password = password /\ account'[a].failures = 0 /\ account'[a].blocked = Unblocked

(* What the handlers write to a row, as the actions put it.                *)
Redeemed(a, password, n) ==
  account' = [account EXCEPT ![a] =
    [WithPassword(a, password) EXCEPT !.active = TRUE, !.revision = @ + n]]
Failed(q) == account' = [account EXCEPT ![q.account] = AfterFailure(q)]
Succeeded(a) == account' = [account EXCEPT ![a].failures = 0, ![a].blocked = Unblocked]
Disabled(a) ==
  account' = [account EXCEPT ![a].active = FALSE, ![a].password = NoPassword,
                             ![a].disabled = TRUE, ![a].revision = @ + 1]

LEMMA NewAccountRow ==
  ASSUME TypeOK, NEW a \in Accounts, NEW administrator \in BOOLEAN,
         NEW password \in Passwords \cup {NoPassword},
         account' = [account EXCEPT ![a] = NewAccount(administrator, password)]
  PROVE  /\ OnlyRow(a) /\ GetsPassword(a, password) /\ account'[a].revision = 1
         /\ account'[a].active = administrator /\ account'[a].admin = administrator
         /\ account'[a].disabled = FALSE
<1>1. account'[a] = NewAccount(administrator, password)
  BY DEF TypeOK
<1>2. NewAccount(administrator, password) \in Account
  BY DEF NewAccount, Account, Unblocked
<1> QED BY <1>1, <1>2 DEF NewAccount, OnlyRow, GetsPassword, TypeOK

LEMMA WithPasswordFields ==
  ASSUME TypeOK, NEW a \in Accounts, Exists(a), NEW password \in Passwords \cup {NoPassword}
  PROVE  LET x == WithPassword(a, password)
         IN /\ x \in Account /\ x.password = password /\ x.failures = 0 /\ x.blocked = Unblocked
            /\ x.active = account[a].active /\ x.admin = account[a].admin
            /\ x.revision = account[a].revision /\ x.disabled = account[a].disabled
BY RowTypes DEF WithPassword, Account, Unblocked

LEMMA WithPasswordRow ==
  ASSUME TypeOK, NEW a \in Accounts, Exists(a), NEW password \in Passwords \cup {NoPassword},
         account' = [account EXCEPT ![a] = WithPassword(a, password)]
  PROVE  /\ OnlyRow(a) /\ KeepsRights(a) /\ GetsPassword(a, password)
         /\ account'[a].revision = account[a].revision
BY WithPasswordFields DEF OnlyRow, KeepsRights, GetsPassword, TypeOK

LEMMA RedeemRow ==
  ASSUME TypeOK, NEW a \in Accounts, Exists(a), NEW password \in Passwords, NEW n \in Nat,
         Redeemed(a, password, n)
  PROVE  /\ OnlyRow(a) /\ GetsPassword(a, password)
         /\ account'[a].active = TRUE /\ account'[a].admin = account[a].admin
         /\ account'[a].disabled = account[a].disabled
         /\ account'[a].revision = account[a].revision + n
<1>1. PICK x \in Account : x = WithPassword(a, password)
  BY WithPasswordFields
<1>2. PICK revision \in Nat : revision = account[a].revision + n
  BY RowFields
<1>3. account'[a] = [x EXCEPT !.active = TRUE, !.revision = revision]
  BY <1>1, <1>2, WithPasswordFields DEF Redeemed, TypeOK
<1>4. /\ account'[a] \in Account /\ account'[a].active = TRUE
      /\ account'[a].revision = revision
      /\ account'[a].admin = x.admin /\ account'[a].disabled = x.disabled
      /\ account'[a].password = x.password /\ account'[a].failures = x.failures
      /\ account'[a].blocked = x.blocked
  BY <1>3 DEF Account
<1> QED BY <1>1, <1>2, <1>4, WithPasswordFields DEF Redeemed, OnlyRow, GetsPassword, TypeOK

LEMMA RevisionRow ==
  ASSUME TypeOK, NEW a \in Accounts, Exists(a),
         account' = [account EXCEPT ![a].revision = @ + 1]
  PROVE  /\ OnlyRow(a) /\ KeepsRights(a) /\ KeepsLogin(a)
         /\ account'[a].revision = account[a].revision + 1
<1>1. account'[a] = [account[a] EXCEPT !.revision = account[a].revision + 1]
  BY DEF TypeOK
<1>2. account'[a] \in Account
  BY <1>1, RowFields DEF Account
<1> QED BY <1>1, <1>2, RowFields DEF Account, OnlyRow, KeepsRights, KeepsLogin, TypeOK

LEMMA FailureRow ==
  ASSUME TypeOK, NEW q, q.account \in Accounts, Exists(q.account), q.now \in Nat,
         Failed(q)
  PROVE  LET a == q.account
             failures == CountedFailures(a) + 1
         IN /\ OnlyRow(a) /\ KeepsRights(a) /\ account'[a].revision = account[a].revision
            /\ account'[a].password = account[a].password
            /\ account'[a].failures = failures /\ account'[a].blocked = Blocked(failures, q.now)
<1> DEFINE a == q.account
<1>1. PICK failures \in Nat : failures = CountedFailures(a) + 1
  BY RowFields DEF CountedFailures
<1>2. PICK blocked \in Nat : blocked = Blocked(failures, q.now)
  BY LimitsAssumption DEF Blocked, Unblocked
<1>3. account'[a] = [account[a] EXCEPT !.failures = failures, !.blocked = blocked]
  BY <1>1, <1>2 DEF Failed, TypeOK, AfterFailure
<1>4. account[a] \in Account
  BY RowFields
<1>5. /\ account'[a] \in Account /\ account'[a].failures = failures /\ account'[a].blocked = blocked
      /\ account'[a].active = account[a].active /\ account'[a].admin = account[a].admin
      /\ account'[a].disabled = account[a].disabled /\ account'[a].password = account[a].password
      /\ account'[a].revision = account[a].revision
  BY <1>3, <1>4 DEF Account
<1> QED BY <1>1, <1>2, <1>5 DEF Failed, OnlyRow, KeepsRights, TypeOK

LEMMA SuccessRow ==
  ASSUME TypeOK, NEW a \in Accounts, Exists(a), Succeeded(a)
  PROVE  /\ OnlyRow(a) /\ KeepsRights(a) /\ GetsPassword(a, account[a].password)
         /\ account'[a].revision = account[a].revision
<1>1. PICK failures \in Nat, blocked \in Nat : failures = 0 /\ blocked = Unblocked
  BY DEF Unblocked
<1>2. account'[a] = [account[a] EXCEPT !.failures = failures, !.blocked = blocked]
  BY <1>1 DEF Succeeded, TypeOK
<1>3. account[a] \in Account
  BY RowFields
<1>4. /\ account'[a] \in Account /\ account'[a].failures = failures /\ account'[a].blocked = blocked
      /\ account'[a].active = account[a].active /\ account'[a].admin = account[a].admin
      /\ account'[a].disabled = account[a].disabled /\ account'[a].password = account[a].password
      /\ account'[a].revision = account[a].revision
  BY <1>2, <1>3 DEF Account
<1> QED BY <1>1, <1>4 DEF Succeeded, OnlyRow, KeepsRights, GetsPassword, TypeOK

LEMMA ResetRow ==
  ASSUME TypeOK, NEW a \in Accounts, Exists(a),
         account' = [account EXCEPT ![a] =
           [WithPassword(a, NoPassword) EXCEPT !.revision = @ + 1]]
  PROVE  /\ OnlyRow(a) /\ KeepsRights(a) /\ GetsPassword(a, NoPassword)
         /\ account'[a].revision = account[a].revision + 1
<1> DEFINE x == WithPassword(a, NoPassword)
<1>1. /\ x \in Account /\ x.password = NoPassword /\ x.failures = 0 /\ x.blocked = Unblocked
      /\ x.active = account[a].active /\ x.admin = account[a].admin
      /\ x.revision = account[a].revision /\ x.disabled = account[a].disabled
  BY WithPasswordFields
<1>2. account'[a] = [x EXCEPT !.revision = x.revision + 1]
  BY DEF TypeOK
<1> HIDE DEF x
<1>3. /\ account'[a] \in Account /\ account'[a].revision = x.revision + 1
      /\ account'[a].active = x.active /\ account'[a].admin = x.admin
      /\ account'[a].disabled = x.disabled /\ account'[a].password = x.password
      /\ account'[a].failures = x.failures /\ account'[a].blocked = x.blocked
  BY <1>1, <1>2 DEF Account
<1> QED BY <1>1, <1>3 DEF OnlyRow, KeepsRights, GetsPassword, TypeOK

LEMMA DisabledRow ==
  ASSUME TypeOK, NEW a \in Accounts, Exists(a), Disabled(a)
  PROVE  /\ OnlyRow(a)
         /\ account'[a].active = FALSE /\ account'[a].admin = account[a].admin
         /\ account'[a].disabled = TRUE /\ account'[a].password = NoPassword
         /\ account'[a].failures = account[a].failures
         /\ account'[a].blocked = account[a].blocked
         /\ account'[a].revision = account[a].revision + 1
<1>1. PICK revision \in Nat : revision = account[a].revision + 1
  BY RowFields
<1>2. account'[a] = [account[a] EXCEPT !.active = FALSE, !.password = NoPassword,
                                       !.disabled = TRUE, !.revision = revision]
  BY <1>1 DEF Disabled, TypeOK
<1>3. account[a] \in Account
  BY RowFields
<1>4. /\ account'[a] \in Account /\ account'[a].active = FALSE
      /\ account'[a].admin = account[a].admin /\ account'[a].disabled = TRUE
      /\ account'[a].password = NoPassword /\ account'[a].failures = account[a].failures
      /\ account'[a].blocked = account[a].blocked /\ account'[a].revision = revision
  BY <1>2, <1>3 DEF Account
<1> QED BY <1>1, <1>4 DEF Disabled, OnlyRow, TypeOK

Transferred(b, a) ==
  account' = [account EXCEPT
    ![b].admin = FALSE, ![b].revision = @ + 1, ![a].admin = TRUE, ![a].revision = @ + 1]

LEMMA TransferredRows ==
  ASSUME TypeOK, NEW a \in Accounts, NEW b \in Accounts, a # b, Exists(a), Exists(b),
         Transferred(b, a)
  PROVE  /\ account' \in [Accounts -> Account \cup {None}]
         /\ \A d \in Accounts \ {a, b} : account'[d] = account[d]
         /\ \A d \in {a, b} :
              /\ account'[d] \in Account /\ KeepsLogin(d)
              /\ account'[d].active = account[d].active
              /\ account'[d].disabled = account[d].disabled
              /\ account'[d].revision = account[d].revision + 1
         /\ account'[b].admin = FALSE /\ account'[a].admin = TRUE
<1>1. PICK r \in Nat, n \in Nat : r = account[b].revision + 1 /\ n = account[a].revision + 1
  BY RowFields
<1>2. account'[b] = [account[b] EXCEPT !.admin = FALSE, !.revision = r]
  BY <1>1 DEF Transferred, TypeOK
<1>3. account'[a] = [account[a] EXCEPT !.admin = TRUE, !.revision = n]
  BY <1>1 DEF Transferred, TypeOK
<1>4. account[a] \in Account /\ account[b] \in Account
  BY RowFields
<1>5. account'[b] \in Account /\ account'[b].admin = FALSE /\ account'[b].revision = r
      /\ account'[b].active = account[b].active /\ account'[b].disabled = account[b].disabled
      /\ KeepsLogin(b)
  BY <1>2, <1>4 DEF Account, KeepsLogin
<1>6. account'[a] \in Account /\ account'[a].admin = TRUE /\ account'[a].revision = n
      /\ account'[a].active = account[a].active /\ account'[a].disabled = account[a].disabled
      /\ KeepsLogin(a)
  BY <1>3, <1>4 DEF Account, KeepsLogin
<1>7. \A d \in Accounts \ {a, b} : account'[d] = account[d]
  BY DEF Transferred, TypeOK
<1>8. account' \in [Accounts -> Account \cup {None}]
  <2>1. account' = [d \in Accounts |-> account'[d]] BY DEF Transferred, TypeOK
  <2>2. \A d \in Accounts : account'[d] \in Account \cup {None}
    BY <1>5, <1>6, <1>7 DEF TypeOK
  <2> QED BY <2>1, <2>2
<1> QED BY <1>1, <1>5, <1>6, <1>7, <1>8
-----------------------------------------------------------------------------
(* What a step may do to an account that a page lists.                     *)
Follows(b) ==
  Exists(b) =>
    /\ Exists(b)'
    /\ account[b].revision <= account'[b].revision
    /\ account[b].revision = account'[b].revision =>
         /\ account'[b].admin = account[b].admin
         /\ account'[b].disabled = account[b].disabled
         /\ account[b].active => account'[b].active

(* A step that changes the account a, its access and its session, and      *)
(* leaves it administrator if it was one.                                  *)
RowStep(a) ==
  /\ OnlyRow(a) /\ Follows(a) /\ AccountInv(a)'
  /\ access' \in [Accounts -> Access \cup {None}]
  /\ session' \in [Accounts -> Session \cup {None}]
  /\ \A b \in Accounts \ {a} : access'[b] = access[b] /\ session'[b] = session[b]
  /\ (Exists(a) /\ account[a].admin) = (Exists(a)' /\ account'[a].admin)

LEMMA NoneIsNoRow ==
  /\ \A x \in Account \cup Access \cup Session \cup Startup \cup Listed : x # None
  /\ \A q \in Request : q # Idle
  /\ \A p \in Passwords : p # NoPassword
BY ValuesAssumption

LEMMA AccountStays ==
  ASSUME NEW b \in Accounts, AccountInv(b), account'[b] = account[b],
         access'[b] = access[b], session'[b] = session[b]
  PROVE  AccountInv(b)' /\ (Exists(b)' = Exists(b))
BY DEF AccountInv, Exists, Usable, Fits

LEMMA UnchangedFollows ==
  ASSUME TypeOK, NEW b \in Accounts, account'[b] = account[b]
  PROVE  Follows(b)
BY RowFields DEF Follows, Exists

LEMMA RowStepKeeps ==
  ASSUME TypeOK, Inv, NEW a \in Accounts, RowStep(a)
  PROVE  /\ \A b \in Accounts : AccountInv(b)' /\ Follows(b)
         /\ Administrators' = Administrators
<1>1. \A b \in Accounts \ {a} : account'[b] = account[b] /\ access'[b] = access[b]
                              /\ session'[b] = session[b]
  BY DEF RowStep, OnlyRow
<1>2. \A b \in Accounts : AccountInv(b)' /\ Follows(b)
  <2> TAKE b \in Accounts
  <2>1. CASE b = a BY <2>1 DEF RowStep
  <2>2. CASE b # a BY <1>1, <2>2, AccountStays, UnchangedFollows DEF Inv
  <2> QED BY <2>1, <2>2
<1>3. \A b \in Accounts : (Exists(b) /\ account[b].admin) = (Exists(b)' /\ account'[b].admin)
  BY <1>1 DEF RowStep, Exists
<1> QED BY <1>2, <1>3 DEF Administrators

LEMMA ListStays ==
  ASSUME TypeOK, NEW c \in Clients, ListInv(c), \A b \in Accounts : Follows(b),
         account' \in [Accounts -> Account \cup {None}], list'[c] \in {list[c], None}
  PROVE  ListInv(c)'
<1> SUFFICES ASSUME list'[c] # None, NEW a \in Accounts, list'[c][a] # None
             PROVE  /\ Exists(a)'
                    /\ list'[c][a].revision <= account'[a].revision
                    /\ list'[c][a].admin => list'[c][a].active
                    /\ list'[c][a].revision = account'[a].revision =>
                         /\ list'[c][a].admin = account'[a].admin
                         /\ list'[c][a].disabled = account'[a].disabled
                         /\ list'[c][a].active => account'[a].active
  BY DEF ListInv
<1>1. list[c] # None /\ list'[c] = list[c] /\ list[c][a] \in Listed
  BY DEF TypeOK
<1>2. Exists(a) /\ Exists(a)' /\ account'[a].revision \in Nat
  BY <1>1 DEF ListInv, Follows, Exists, Account
<1>3. account[a].revision \in Nat /\ list[c][a].revision \in Nat
  BY <1>1, <1>2, RowFields DEF Listed
<1> QED BY <1>1, <1>2, <1>3 DEF ListInv, Follows

LEMMA RequestStays ==
  ASSUME TypeOK, NEW c \in Clients, RequestInv(c), \A b \in Accounts : Follows(b),
         request'[c] = request[c], clock' \in Nat, clock <= clock'
  PROVE  RequestInv(c)'
<1> SUFFICES ASSUME request[c] # Idle
             PROVE  /\ request[c].kind \in {"login", "handle", "answered"}
                           => Exists(request[c].account)'
                    /\ request[c].kind = "login" => request[c].now <= clock'
  BY DEF RequestInv
<1>1. request[c].kind \in {"login", "handle", "answered"} => Exists(request[c].account)'
  BY ClaimedTypes DEF RequestInv, Follows
<1>2. request[c].kind = "login" => request[c].now <= clock'
  BY RequestTypes, BoundsAssumption DEF RequestInv, Login, TypeOK
<1> QED BY <1>1, <1>2

LEMMA AdministratorStays ==
  ASSUME OneUsableAdministrator, Administrators' = Administrators, Bootstrapped' = Bootstrapped,
         \A a \in Accounts : AccountInv(a)'
  PROVE  OneUsableAdministrator'
<1>1. \A a \in Accounts : Administrators' = {a} => Usable(a)'
  BY DEF Administrators, AccountInv
<1> QED BY <1>1 DEF OneUsableAdministrator

(* A handler that answers after a change of one account.                   *)
LEMMA HandlerKeeps ==
  ASSUME TypeOK, Inv, NEW c \in Clients, Handling(c), Answered(c), NEW a \in Accounts, RowStep(a),
         startup' = startup, clock' = clock, logins' = logins,
         list' \in [Clients -> [Accounts -> Listed \cup {None}] \cup {None}],
         \A d \in Clients : list'[d] \in {list[d], None}
  PROVE  TypeOK' /\ Inv'
<1>1. /\ \A b \in Accounts : AccountInv(b)' /\ Follows(b)
      /\ Administrators' = Administrators
  BY RowStepKeeps
<1>2. /\ request' \in [Clients -> Request \cup {Idle}]
      /\ \A d \in Clients \ {c} : request'[d] = request[d]
      /\ request'[c] = [kind |-> "answered", account |-> request[c].account,
                        secret |-> request[c].secret]
  BY AnsweredStep
<1>3. TypeOK'
  BY <1>2 DEF TypeOK, RowStep, OnlyRow
<1>4. clock' \in Nat /\ clock <= clock'
  BY BoundsAssumption DEF TypeOK
<1>5. \A d \in Clients : RequestInv(d)'
  <2>1. RequestInv(c)'
    <3>1. request[c].account \in Accounts /\ Exists(request[c].account)
      BY ClaimedTypes DEF Handling, Inv, RequestInv
    <3>2. account'[request[c].account] # None BY <1>1, <3>1 DEF Follows, Exists
    <3> QED BY <1>2, <3>2 DEF RequestInv, Exists
  <2>2. \A d \in Clients \ {c} : RequestInv(d)' BY <1>1, <1>2, <1>4, RequestStays DEF Inv
  <2> QED BY <2>1, <2>2
<1>6. \A d \in Clients : ListInv(d)'
  BY <1>1, ListStays DEF Inv, RowStep, OnlyRow
<1>7. OneUsableAdministrator'
  BY <1>1, AdministratorStays DEF Inv, Bootstrapped
<1> QED BY <1>1, <1>3, <1>5, <1>6, <1>7 DEF Inv
-----------------------------------------------------------------------------
(* The handlers of the administrator.                                      *)
LEMMA IssuedAccess ==
  ASSUME TypeOK, NEW a \in Accounts, NEW purpose \in Purposes, access' = Issued(a, purpose)
  PROVE  /\ access' \in [Accounts -> Access \cup {None}]
         /\ access'[a] # None /\ access'[a].purpose = purpose
         /\ \A b \in Accounts \ {a} : access'[b] = access[b]
<1> DEFINE issued == [purpose |-> purpose, expires |-> clock + AccessTime]
<1>1. issued \in Access
  BY LimitsAssumption, BoundsAssumption DEF Access, TypeOK
<1>2. access' = [access EXCEPT ![a] = issued] /\ issued.purpose = purpose
  BY DEF Issued
<1> HIDE DEF issued
<1> QED BY <1>1, <1>2, NoneIsNoRow DEF TypeOK

LEMMA EndedSession ==
  ASSUME TypeOK, NEW a \in Accounts, session' = [session EXCEPT ![a] = None]
  PROVE  /\ session' \in [Accounts -> Session \cup {None}] /\ session'[a] = None
         /\ \A b \in Accounts \ {a} : session'[b] = session[b]
BY DEF TypeOK

LEMMA EndedAccess ==
  ASSUME TypeOK, NEW a \in Accounts, access' = [access EXCEPT ![a] = None]
  PROVE  /\ access' \in [Accounts -> Access \cup {None}] /\ access'[a] = None
         /\ \A b \in Accounts \ {a} : access'[b] = access[b]
BY DEF TypeOK

(* An account that is listed exists.                                       *)
LEMMA ExpectedExists ==
  ASSUME Inv, NEW c \in Clients, NEW a \in Accounts, Expected(c, a)
  PROVE  Exists(a)
BY DEF Inv, ListInv, Expected

LEMMA CreateAccountKeeps ==
  ASSUME TypeOK, Inv, NEW c \in Clients, NEW a \in Accounts, CreateAccount(c, a)
  PROVE  TypeOK' /\ Inv'
<1>1. /\ OnlyRow(a) /\ GetsPassword(a, NoPassword) /\ account'[a].revision = 1
      /\ account'[a].active = FALSE /\ account'[a].admin = FALSE /\ account'[a].disabled = FALSE
  BY NewAccountRow DEF CreateAccount
<1>2. /\ access' \in [Accounts -> Access \cup {None}]
      /\ access'[a] # None /\ access'[a].purpose = "setup"
      /\ \A b \in Accounts \ {a} : access'[b] = access[b]
  BY IssuedAccess DEF CreateAccount, Purposes
<1>3. ~ Exists(a) /\ session' = session /\ session[a] = None /\ Exists(a)'
  BY <1>1, NoneIsNoRow DEF CreateAccount, Fresh, Inv, AccountInv, OnlyRow, Exists
<1>4. AccountInv(a)'
  BY <1>1, <1>2, <1>3, LimitsAssumption DEF AccountInv, GetsPassword, Fits, Unblocked
<1>5. RowStep(a)
  BY <1>1, <1>2, <1>3, <1>4 DEF RowStep, Follows, TypeOK
<1> QED BY <1>5, HandlerKeeps DEF CreateAccount, ByAdministrator, TypeOK

LEMMA ReissueSetupKeeps ==
  ASSUME TypeOK, Inv, NEW c \in Clients, NEW a \in Accounts, ReissueSetup(c, a)
  PROVE  TypeOK' /\ Inv'
<1>1. Exists(a)
  BY ExpectedExists DEF ReissueSetup
<1>2. /\ OnlyRow(a) /\ KeepsRights(a) /\ KeepsLogin(a)
      /\ account'[a].revision = account[a].revision + 1
  BY <1>1, RevisionRow DEF ReissueSetup
<1>3. /\ access' \in [Accounts -> Access \cup {None}]
      /\ access'[a] # None /\ access'[a].purpose = "setup"
      /\ \A b \in Accounts \ {a} : access'[b] = access[b]
  BY IssuedAccess DEF ReissueSetup, Purposes
<1>4. Exists(a)' /\ session' = session /\ ~ account[a].active /\ ~ account[a].disabled
  BY <1>2, NoneIsNoRow DEF ReissueSetup, OnlyRow, Exists
<1>5. AccountInv(a)'
  BY <1>1, <1>2, <1>3, <1>4 DEF Inv, AccountInv, KeepsRights, KeepsLogin, Fits, Usable
<1>6. RowStep(a)
  BY <1>1, <1>2, <1>3, <1>4, <1>5, RowFields DEF RowStep, Follows, KeepsRights, TypeOK
<1> QED BY <1>6, HandlerKeeps DEF ReissueSetup, ByAdministrator, TypeOK

LEMMA IssueReactivationKeeps ==
  ASSUME TypeOK, Inv, NEW c \in Clients, NEW a \in Accounts, IssueReactivation(c, a)
  PROVE  TypeOK' /\ Inv'
<1>1. Exists(a)
  BY ExpectedExists DEF IssueReactivation
<1>2. /\ OnlyRow(a) /\ KeepsRights(a) /\ KeepsLogin(a)
      /\ account'[a].revision = account[a].revision + 1
  BY <1>1, RevisionRow DEF IssueReactivation
<1>3. /\ access' \in [Accounts -> Access \cup {None}]
      /\ access'[a] # None /\ access'[a].purpose = "reactivation"
      /\ \A b \in Accounts \ {a} : access'[b] = access[b]
  BY IssuedAccess DEF IssueReactivation, Purposes
<1>4. Exists(a)' /\ session' = session /\ ~ account[a].active /\ account[a].disabled
  BY <1>2, NoneIsNoRow DEF IssueReactivation, OnlyRow, Exists
<1>5. AccountInv(a)'
  BY <1>1, <1>2, <1>3, <1>4 DEF Inv, AccountInv, KeepsRights, KeepsLogin, Fits, Usable
<1>6. RowStep(a)
  BY <1>1, <1>2, <1>3, <1>4, <1>5, RowFields DEF RowStep, Follows, KeepsRights, TypeOK
<1> QED BY <1>6, HandlerKeeps DEF IssueReactivation, ByAdministrator, TypeOK

LEMMA IssueResetKeeps ==
  ASSUME TypeOK, Inv, NEW c \in Clients, NEW a \in Accounts, IssueReset(c, a)
  PROVE  TypeOK' /\ Inv'
<1>1. Exists(a)
  BY ExpectedExists DEF IssueReset
<1>2. /\ OnlyRow(a) /\ KeepsRights(a) /\ GetsPassword(a, NoPassword)
      /\ account'[a].revision = account[a].revision + 1
  BY <1>1, ResetRow DEF IssueReset
<1>3. /\ access' \in [Accounts -> Access \cup {None}]
      /\ access'[a] # None /\ access'[a].purpose = "reset"
      /\ \A b \in Accounts \ {a} : access'[b] = access[b]
  BY IssuedAccess DEF IssueReset, Purposes
<1>4. /\ session' \in [Accounts -> Session \cup {None}] /\ session'[a] = None
      /\ \A b \in Accounts \ {a} : session'[b] = session[b]
  BY EndedSession DEF IssueReset
<1>5. Exists(a)' /\ account[a].active /\ ~ account[a].admin
  BY <1>2, NoneIsNoRow DEF IssueReset, OnlyRow, Exists
<1>6. AccountInv(a)'
  BY <1>2, <1>3, <1>4, <1>5, LimitsAssumption
     DEF AccountInv, KeepsRights, GetsPassword, Fits, Unblocked
<1>7. RowStep(a)
  BY <1>1, <1>2, <1>3, <1>4, <1>5, <1>6, RowFields DEF RowStep, Follows, KeepsRights, TypeOK
<1> QED BY <1>7, HandlerKeeps DEF IssueReset, ByAdministrator, TypeOK

LEMMA DisableKeeps ==
  ASSUME TypeOK, Inv, NEW c \in Clients, NEW a \in Accounts, Disable(c, a)
  PROVE  TypeOK' /\ Inv'
<1>1. Exists(a)
  BY ExpectedExists DEF Disable
<1>2. /\ OnlyRow(a)
      /\ account'[a].active = FALSE /\ account'[a].admin = account[a].admin
      /\ account'[a].disabled = TRUE /\ account'[a].password = NoPassword
      /\ account'[a].failures = account[a].failures
      /\ account'[a].blocked = account[a].blocked
      /\ account'[a].revision = account[a].revision + 1
  BY <1>1, DisabledRow DEF Disable, Disabled
<1>3. /\ access' \in [Accounts -> Access \cup {None}] /\ access'[a] = None
      /\ \A b \in Accounts \ {a} : access'[b] = access[b]
  BY EndedAccess DEF Disable
<1>4. /\ session' \in [Accounts -> Session \cup {None}] /\ session'[a] = None
      /\ \A b \in Accounts \ {a} : session'[b] = session[b]
  BY EndedSession DEF Disable
<1>5. Exists(a)' /\ ~ account[a].admin
  BY <1>2, NoneIsNoRow DEF Disable, OnlyRow, Exists
<1>6. AccountInv(a)'
  BY <1>1, <1>2, <1>3, <1>4, <1>5 DEF Inv, AccountInv
<1>7. RowStep(a)
  BY <1>1, <1>2, <1>3, <1>4, <1>5, <1>6, RowFields DEF RowStep, Follows, TypeOK
<1> QED BY <1>7, HandlerKeeps DEF Disable, ByAdministrator, TypeOK

(* Of two rows one gives the administration to the other.                  *)
LEMMA TransferKeeps ==
  ASSUME TypeOK, Inv, NEW c \in Clients, NEW a \in Accounts, Transfer(c, a)
  PROVE  TypeOK' /\ Inv'
<1>1. PICK b \in Accounts : b = request[c].account
  BY ClaimedTypes DEF Transfer, ByAdministrator, Handling
<1>2. Exists(a) /\ Exists(b) /\ account[b].admin /\ ~ account[a].admin /\ a # b /\ Usable(a)
  BY <1>1, ExpectedExists DEF Transfer, ByAdministrator, Administrators, Eligible
<1>3. Transferred(b, a) /\ UNCHANGED <<access, session, startup, clock, logins, list>>
  BY <1>1 DEF Transfer, Transferred
<1>4. /\ account' \in [Accounts -> Account \cup {None}]
      /\ \A d \in Accounts \ {a, b} : account'[d] = account[d]
      /\ \A d \in {a, b} :
           /\ account'[d] \in Account /\ KeepsLogin(d)
           /\ account'[d].active = account[d].active
           /\ account'[d].disabled = account[d].disabled
           /\ account'[d].revision = account[d].revision + 1
      /\ account'[b].admin = FALSE /\ account'[a].admin = TRUE
  BY <1>2, <1>3, TransferredRows
<1>5. \A d \in {a, b} : Exists(d)' /\ AccountInv(d)' /\ Follows(d)
  <2>1. account[b].admin => Usable(b) BY <1>2 DEF Inv, AccountInv
  <2> TAKE d \in {a, b}
  <2>2. Exists(d) /\ Exists(d)' BY <1>2, <1>4, NoneIsNoRow DEF Exists
  <2>3. AccountInv(d)'
    BY <1>2, <1>3, <1>4, <2>1, <2>2 DEF Inv, AccountInv, KeepsLogin, Fits, Usable
  <2>4. Follows(d) BY <1>4, <2>2, RowFields DEF Follows
  <2> QED BY <2>2, <2>3, <2>4
<1>6. \A d \in Accounts : AccountInv(d)' /\ Follows(d)
  BY <1>3, <1>4, <1>5, AccountStays, UnchangedFollows DEF Inv
<1>7. Administrators = {b} /\ Administrators' = {a} /\ Bootstrapped
  <2>1. b \in Administrators BY <1>2 DEF Administrators
  <2>2. Administrators = {b} /\ Bootstrapped BY <2>1 DEF Inv, OneUsableAdministrator
  <2>3. \A d \in Accounts \ {a, b} : ~ (Exists(d)' /\ account'[d].admin)
    BY <1>4, <2>2 DEF Administrators, Exists
  <2> QED BY <1>4, <1>5, <2>2, <2>3 DEF Administrators
<1>8. OneUsableAdministrator'
  BY <1>2, <1>3, <1>4, <1>7 DEF OneUsableAdministrator, Bootstrapped, Usable, KeepsLogin
<1>9. /\ request' \in [Clients -> Request \cup {Idle}]
      /\ \A d \in Clients \ {c} : request'[d] = request[d]
      /\ request'[c] = [kind |-> "answered", account |-> request[c].account,
                        secret |-> request[c].secret]
  BY AnsweredStep DEF Transfer, ByAdministrator
<1>10. TypeOK'
  BY <1>3, <1>4, <1>9 DEF TypeOK
<1>11. \A d \in Clients : RequestInv(d)' /\ ListInv(d)'
  <2>1. RequestInv(c)' BY <1>1, <1>5, <1>9 DEF RequestInv, Exists
  <2>2. clock' \in Nat /\ clock <= clock' BY <1>3, BoundsAssumption DEF TypeOK
  <2>3. \A d \in Clients \ {c} : RequestInv(d)' BY <1>6, <1>9, <2>2, RequestStays DEF Inv
  <2>4. \A d \in Clients : ListInv(d)' BY <1>3, <1>4, <1>6, ListStays DEF Inv
  <2> QED BY <2>1, <2>3, <2>4
<1> QED BY <1>6, <1>8, <1>10, <1>11 DEF Inv

(* A step that leaves the accounts, and of the requests only that of c.    *)
LEMMA OthersKeep ==
  ASSUME TypeOK, Inv, TypeOK', \A b \in Accounts : AccountInv(b)' /\ Follows(b),
         Administrators' = Administrators, Bootstrapped' = Bootstrapped, clock <= clock',
         \A d \in Clients : request'[d] = request[d] \/ RequestInv(d)',
         \A d \in Clients : list'[d] \in {list[d], None} \/ ListInv(d)'
  PROVE  Inv'
<1>1. clock' \in Nat /\ account' \in [Accounts -> Account \cup {None}]
  BY BoundsAssumption DEF TypeOK
<1>2. \A d \in Clients : RequestInv(d)' /\ ListInv(d)'
  BY <1>1, RequestStays, ListStays DEF Inv
<1>3. OneUsableAdministrator'
  BY AdministratorStays DEF Inv
<1> QED BY <1>2, <1>3 DEF Inv

LEMMA AccountsUnchanged ==
  ASSUME TypeOK, Inv, account' = account, access' = access, session' = session
  PROVE  /\ \A b \in Accounts : AccountInv(b)' /\ Follows(b)
         /\ Administrators' = Administrators
BY AccountStays, UnchangedFollows DEF Inv, Administrators, Exists

LEMMA ListAccountsKeeps ==
  ASSUME TypeOK, Inv, NEW c \in Clients, ListAccounts(c)
  PROVE  TypeOK' /\ Inv'
<1>1. /\ \A b \in Accounts : AccountInv(b)' /\ Follows(b)
      /\ Administrators' = Administrators
  BY AccountsUnchanged DEF ListAccounts
<1>2. /\ request' \in [Clients -> Request \cup {Idle}]
      /\ \A d \in Clients \ {c} : request'[d] = request[d]
      /\ request'[c] = [kind |-> "answered", account |-> request[c].account,
                        secret |-> request[c].secret]
  BY AnsweredStep DEF ListAccounts, ByAdministrator
<1> DEFINE shown == [a \in Accounts |-> Projection(a)]
<1>3. shown \in [Accounts -> Listed \cup {None}]
  BY RowFields DEF Projection, Listed
<1>4. list' = [list EXCEPT ![c] = shown]
  BY DEF ListAccounts
<1>5. \A a \in Accounts : shown[a] # None =>
        /\ Exists(a) /\ shown[a].revision = account[a].revision
        /\ shown[a].admin = account[a].admin /\ shown[a].disabled = account[a].disabled
        /\ shown[a].active = account[a].active
  BY DEF Projection
<1> HIDE DEF shown
<1>6. /\ list' \in [Clients -> [Accounts -> Listed \cup {None}] \cup {None}]
      /\ list'[c] = shown /\ \A d \in Clients \ {c} : list'[d] = list[d]
  BY <1>3, <1>4 DEF TypeOK
<1>7. TypeOK'
  BY <1>2, <1>6 DEF ListAccounts, TypeOK
<1>8. ListInv(c)'
  <2>1. account' = account BY DEF ListAccounts
  <2>2. \A a \in Accounts : Exists(a) /\ account[a].admin => account[a].active
    BY DEF Inv, AccountInv, Usable
  <2> SUFFICES ASSUME NEW a \in Accounts, shown[a] # None
               PROVE  /\ Exists(a)' /\ shown[a].revision <= account[a].revision
                      /\ shown[a].admin => shown[a].active
                      /\ shown[a].admin = account[a].admin
                      /\ shown[a].disabled = account[a].disabled
                      /\ shown[a].active => account[a].active
    BY <1>6, <2>1 DEF ListInv
  <2> QED BY <1>5, <2>1, <2>2, RowFields DEF Exists
<1>9. RequestInv(c)'
  BY <1>2 DEF ListAccounts, ByAdministrator, Administrators, RequestInv, Exists
<1> QED
  <2>1. clock <= clock' /\ Bootstrapped' = Bootstrapped
    BY BoundsAssumption DEF ListAccounts, TypeOK, Bootstrapped
  <2> QED BY <1>1, <1>2, <1>6, <1>7, <1>8, <1>9, <2>1, OthersKeep
-----------------------------------------------------------------------------
(* Requests of a browser.                                                  *)

(* Only the request of c changes.                                          *)
LEMMA RequestOnlyKeeps ==
  ASSUME TypeOK, Inv, NEW c \in Clients, NEW q \in Request \cup {Idle},
         request' = [request EXCEPT ![c] = q],
         q # Idle => /\ q.kind \in {"login", "handle", "answered"} => Exists(q.account)
                     /\ q.kind = "login" => q.now <= clock,
         UNCHANGED <<account, access, session, startup, clock, logins, list>>
  PROVE  TypeOK' /\ Inv'
<1>1. /\ \A b \in Accounts : AccountInv(b)' /\ Follows(b)
      /\ Administrators' = Administrators
  BY AccountsUnchanged
<1>2. /\ request' \in [Clients -> Request \cup {Idle}] /\ request'[c] = q
      /\ \A d \in Clients \ {c} : request'[d] = request[d]
  BY RequestMoves
<1>3. TypeOK' BY <1>2 DEF TypeOK
<1>4. RequestInv(c)' BY <1>2 DEF RequestInv, Exists
<1>5. clock <= clock' /\ Bootstrapped' = Bootstrapped
  BY BoundsAssumption DEF TypeOK, Bootstrapped
<1> QED BY <1>1, <1>2, <1>3, <1>4, <1>5, OthersKeep

LEMMA LoginReadKeeps ==
  ASSUME TypeOK, Inv, NEW c \in Clients, NEW a \in Accounts, NEW password \in Passwords,
         LoginRead(c, a, password)
  PROVE  TypeOK' /\ Inv'
<1> DEFINE q == [kind |-> "login", account |-> a, password |-> password, now |-> clock,
                 read |-> account[a].password, blocked |-> BlockedAt(a, clock)]
<1>1. Exists(a) /\ clock \in Nat /\ request' = [request EXCEPT ![c] = q]
  BY BoundsAssumption DEF LoginRead, TypeOK
<1>2. q \in Request
  BY <1>1, RowFields DEF Request, Login, BlockedAt
<1>3. Exists(q.account) /\ q.now <= clock
  BY <1>1
<1>4. UNCHANGED <<account, access, session, startup, clock, logins, list>>
  BY DEF LoginRead
<1> HIDE DEF q
<1> QED BY <1>1, <1>2, <1>3, <1>4, RequestOnlyKeeps

LEMMA AuthenticateKeeps ==
  ASSUME TypeOK, Inv, NEW c \in Clients, NEW a \in Accounts, Authenticate(c, a)
  PROVE  TypeOK' /\ Inv'
<1>1. session[a] \in Session /\ Exists(a)
  BY RowTypes DEF Authenticate, Inv, AccountInv
<1> DEFINE through == [kind |-> "handle", account |-> a, secret |-> session[a].secret]
           ended == [kind |-> "end", id |-> session[a].id]
           q == IF Valid(a) THEN through ELSE ended
<1>2. request' = [request EXCEPT ![c] = q]
  BY DEF Authenticate
<1>3. through \in Request /\ ended \in Request
  BY <1>1 DEF Request, Session
<1>4. ended.kind = "end" /\ through.account = a /\ through.kind = "handle"
  OBVIOUS
<1>5. q \in Request /\ (q.kind \in {"login", "handle", "answered"} => q.account = a)
      /\ q.kind # "login"
  BY <1>3, <1>4
<1> HIDE DEF q
<1> QED BY <1>1, <1>2, <1>5, RequestOnlyKeeps DEF Authenticate

LEMMA TouchKeeps ==
  ASSUME TypeOK, Inv, NEW c \in Clients, Touch(c)
  PROVE  TypeOK' /\ Inv'
<1>1. request[c].account \in Accounts
  BY ClaimedTypes DEF Touch
<1> DEFINE current == Current(request[c])
                       /\ clock < session[request[c].account].activity + IdleTime
                       /\ clock < session[request[c].account].created + SessionTime
           touch == [kind |-> "touch", id |-> session[request[c].account].id, now |-> clock]
           q == IF current THEN touch ELSE Idle
<1>2. request' = [request EXCEPT ![c] = q]
  BY DEF Touch
<1>3. current => touch \in Request
  BY <1>1, RowTypes, BoundsAssumption DEF Current, Session, Request, TypeOK
<1>4. q \in Request \cup {Idle} /\ (q # Idle => q.kind = "touch")
  BY <1>3
<1> HIDE DEF q
<1> QED BY <1>2, <1>4, RequestOnlyKeeps DEF Touch

LEMMA AnswerKeeps ==
  ASSUME TypeOK, Inv, NEW c \in Clients, Answer(c)
  PROVE  TypeOK' /\ Inv'
<1>1. CASE Answered(c)
  <2> DEFINE q == [kind |-> "answered", account |-> request[c].account,
                   secret |-> request[c].secret]
  <2>1. request[c] \in [kind : {"handle", "answered"}, account : Accounts, secret : Nat]
        /\ Exists(request[c].account)
    BY RequestTypes DEF Answer, Handling, Inv, RequestInv
  <2>2. q \in Request /\ q.kind = "answered" /\ q.account = request[c].account
    BY <2>1 DEF Request
  <2>3. [request[c] EXCEPT !.kind = "answered"] = q
    BY <2>1
  <2>4. request' = [request EXCEPT ![c] = q]
    BY <1>1, <2>3 DEF Answered
  <2> HIDE DEF q
  <2> QED BY <2>1, <2>2, <2>4, RequestOnlyKeeps DEF Answer
<1>2. CASE request' = [request EXCEPT ![c] = Idle]
  BY <1>2, RequestOnlyKeeps DEF Answer
<1> QED BY <1>1, <1>2 DEF Answer, Answered

(* What a step may do to the sessions alone: end them, or refresh them.    *)
LEMMA SessionsOnlyKeep ==
  ASSUME TypeOK, Inv, NEW c \in Clients, request' = [request EXCEPT ![c] = Idle],
         session' \in [Accounts -> Session \cup {None}],
         \A a \in Accounts : session'[a] # None =>
           session[a] # None /\ session'[a].password = session[a].password,
         UNCHANGED <<account, access, startup, clock, logins, list>>
  PROVE  TypeOK' /\ Inv'
<1>1. /\ request' \in [Clients -> Request \cup {Idle}] /\ request'[c] = Idle
      /\ \A d \in Clients \ {c} : request'[d] = request[d]
  BY RequestMoves
<1>2. TypeOK' BY <1>1 DEF TypeOK
<1>3. \A b \in Accounts : AccountInv(b)' /\ Follows(b)
  <2> TAKE b \in Accounts
  <2>1. AccountInv(b)' BY DEF Inv, AccountInv, Exists, Usable, Fits
  <2> QED BY <2>1, UnchangedFollows
<1>4. Administrators' = Administrators BY DEF Administrators, Exists
<1>5. RequestInv(c)' BY <1>1 DEF RequestInv
<1>6. clock <= clock' /\ Bootstrapped' = Bootstrapped
  BY BoundsAssumption DEF TypeOK, Bootstrapped
<1> QED BY <1>1, <1>2, <1>3, <1>4, <1>5, <1>6, OthersKeep

LEMMA EndSessionKeeps ==
  ASSUME TypeOK, Inv, NEW c \in Clients, EndSession(c)
  PROVE  TypeOK' /\ Inv'
<1>1. session' \in [Accounts -> Session \cup {None}]
      /\ \A a \in Accounts : session'[a] # None => session'[a] = session[a]
  BY DEF EndSession, TypeOK
<1> QED BY <1>1, SessionsOnlyKeep DEF EndSession

LEMMA TouchWriteKeeps ==
  ASSUME TypeOK, Inv, NEW c \in Clients, TouchWrite(c)
  PROVE  TypeOK' /\ Inv'
<1>1. request[c].now \in Nat /\ request[c].id \in Nat
  BY RequestTypes DEF TouchWrite
<1>2. PICK id, now \in Nat : id = request[c].id /\ now = request[c].now
  BY <1>1
<1>3. session' = [a \in Accounts |-> Touched(a, id, now)]
  BY <1>2 DEF TouchWrite
<1>4. \A a \in Accounts :
        /\ Touched(a, id, now) \in Session \cup {None}
        /\ Touched(a, id, now) # None =>
             session[a] # None /\ Touched(a, id, now).password = session[a].password
  <2> TAKE a \in Accounts
  <2>1. CASE HasId(a, id) /\ now >= session[a].created
    <3>1. session[a] \in Session /\ session[a] # None BY <2>1, RowTypes DEF HasId
    <3>2. Touched(a, id, now) = [session[a] EXCEPT !.activity = now] BY <2>1 DEF Touched
    <3>3. [session[a] EXCEPT !.activity = now] \in Session
          /\ [session[a] EXCEPT !.activity = now].password = session[a].password
      BY <3>1 DEF Session
    <3> QED BY <3>1, <3>2, <3>3
  <2>2. CASE ~ (HasId(a, id) /\ now >= session[a].created)
    BY <2>2 DEF Touched, TypeOK
  <2> QED BY <2>1, <2>2
<1>5. /\ session' \in [Accounts -> Session \cup {None}]
      /\ \A a \in Accounts : session'[a] # None =>
           session[a] # None /\ session'[a].password = session[a].password
  BY <1>3, <1>4
<1> QED BY <1>5, SessionsOnlyKeep DEF TouchWrite

LEMMA LogoutKeeps ==
  ASSUME TypeOK, Inv, NEW c \in Clients, Logout(c)
  PROVE  TypeOK' /\ Inv'
<1>1. PICK a \in Accounts : a = request[c].account /\ Exists(a)
  BY ClaimedTypes DEF Logout, Handling, Inv, RequestInv
<1>2. session' = [session EXCEPT ![a] = IF Current(request[c]) THEN None ELSE session[a]]
  BY <1>1 DEF Logout
<1>3. /\ session' \in [Accounts -> Session \cup {None}] /\ session'[a] \in {session[a], None}
      /\ \A b \in Accounts \ {a} : session'[b] = session[b]
  BY <1>2 DEF TypeOK
<1>4. account' = account /\ access' = access
  BY DEF Logout
<1>5. AccountInv(a)'
  BY <1>3, <1>4 DEF Inv, AccountInv, Exists, Usable, Fits
<1>6. OnlyRow(a) /\ Follows(a)
  BY <1>1, <1>4, RowFields, UnchangedFollows DEF OnlyRow, TypeOK
<1>7. RowStep(a)
  BY <1>3, <1>4, <1>5, <1>6 DEF RowStep, Exists, TypeOK
<1>8. list' \in [Clients -> [Accounts -> Listed \cup {None}] \cup {None}]
      /\ \A d \in Clients : list'[d] \in {list[d], None}
  BY DEF Logout, TypeOK
<1> QED BY <1>7, <1>8, HandlerKeeps DEF Logout

(* Only an account with a password has one that is presented as current.   *)
LEMMA ChangePasswordKeeps ==
  ASSUME TypeOK, Inv, NEW c \in Clients, NEW current \in Passwords, NEW password \in Passwords,
         ChangePassword(c, current, password)
  PROVE  TypeOK' /\ Inv'
<1>1. PICK a \in Accounts : a = request[c].account /\ Exists(a)
  BY ClaimedTypes DEF ChangePassword, Handling, Inv, RequestInv
<1>2. /\ account[a].password = current
      /\ account' = [account EXCEPT ![a] = WithPassword(a, password)]
      /\ session' = [session EXCEPT ![a] = None]
  BY <1>1 DEF ChangePassword
<1>3. /\ OnlyRow(a) /\ KeepsRights(a) /\ GetsPassword(a, password)
      /\ account'[a].revision = account[a].revision
  BY <1>1, <1>2, WithPasswordRow
<1>4. /\ session' \in [Accounts -> Session \cup {None}] /\ session'[a] = None
      /\ \A b \in Accounts \ {a} : session'[b] = session[b]
  BY <1>2, EndedSession
<1>5. Exists(a)' /\ access' = access /\ current # NoPassword /\ password # NoPassword
  BY <1>3, NoneIsNoRow DEF ChangePassword, OnlyRow, Exists
<1>6. AccountInv(a)'
  BY <1>1, <1>2, <1>3, <1>4, <1>5, LimitsAssumption
     DEF Inv, AccountInv, KeepsRights, GetsPassword, Fits, Usable, Unblocked
<1>7. RowStep(a)
  BY <1>1, <1>3, <1>4, <1>5, <1>6, RowFields DEF RowStep, Follows, KeepsRights, TypeOK
<1> QED BY <1>7, HandlerKeeps DEF ChangePassword, TypeOK

(* The claim of a login changes its account and ends its request.          *)
LEMMA ClaimKeeps ==
  ASSUME TypeOK, Inv, NEW c \in Clients, NEW a \in Accounts, RowStep(a),
         request' = [request EXCEPT ![c] = Idle],
         startup' = startup, clock' = clock, logins' \in 0..MaxLogins, list' = list
  PROVE  TypeOK' /\ Inv'
<1>1. /\ \A b \in Accounts : AccountInv(b)' /\ Follows(b)
      /\ Administrators' = Administrators
  BY RowStepKeeps
<1>2. /\ request' \in [Clients -> Request \cup {Idle}] /\ request'[c] = Idle
      /\ \A d \in Clients \ {c} : request'[d] = request[d]
  BY RequestMoves
<1>3. TypeOK' BY <1>2 DEF TypeOK, RowStep, OnlyRow
<1>4. RequestInv(c)' BY <1>2 DEF RequestInv
<1>5. clock <= clock' /\ Bootstrapped' = Bootstrapped
  BY BoundsAssumption DEF TypeOK, Bootstrapped
<1> QED BY <1>1, <1>2, <1>3, <1>4, <1>5, OthersKeep

LEMMA LoginClaimKeeps ==
  ASSUME TypeOK, Inv, NEW c \in Clients, LoginClaim(c)
  PROVE  TypeOK' /\ Inv'
<1>1. request[c] \in Login /\ request[c] # Idle /\ request[c].kind = "login"
  BY RequestTypes DEF LoginClaim
<1>2. PICK a \in Accounts : a = request[c].account /\ Exists(a)
  BY <1>1 DEF Inv, RequestInv, Login
<1>3. /\ request' = [request EXCEPT ![c] = Idle]
      /\ UNCHANGED <<access, startup, clock, list>>
  BY DEF LoginClaim
<1>4. CASE UNCHANGED <<account, session, logins>>
  <2>1. AccountInv(a)' BY <1>3, <1>4 DEF Inv, AccountInv, Exists, Usable, Fits
  <2>2. OnlyRow(a) /\ Follows(a)
    BY <1>2, <1>4, RowFields, UnchangedFollows DEF OnlyRow, TypeOK
  <2>3. RowStep(a) BY <1>3, <1>4, <2>1, <2>2 DEF RowStep, Exists, TypeOK
  <2> QED BY <1>3, <1>4, <2>3, ClaimKeeps DEF TypeOK
<1>5. CASE Failed(request[c]) /\ ~ Rejected(request[c]) /\ UNCHANGED <<session, logins>>
  <2>1. PICK failures \in Nat, blocked \in Nat :
          failures = CountedFailures(a) + 1 /\ blocked = Blocked(failures, request[c].now)
    BY <1>1, <1>2, RowFields, LimitsAssumption DEF CountedFailures, Blocked, Unblocked, Login
  <2>2. /\ OnlyRow(a) /\ KeepsRights(a) /\ account'[a].revision = account[a].revision
        /\ account'[a].password = account[a].password
        /\ account'[a].failures = failures /\ account'[a].blocked = blocked
    BY <1>1, <1>2, <1>5, <2>1, FailureRow DEF Login
  <2>3. failures <= FailureLimit /\ (failures = FailureLimit) = (blocked # Unblocked)
    <3>1. CountedFailures(a) < FailureLimit /\ CountedFailures(a) \in Nat
      BY <1>2, RowFields, LimitsAssumption DEF CountedFailures, Inv, AccountInv, Unblocked
    <3>2. request[c].now \in Nat BY <1>1 DEF Login
    <3> QED BY <2>1, <3>1, <3>2, LimitsAssumption DEF Blocked, Unblocked
  <2>4. Exists(a)' BY <2>2, NoneIsNoRow DEF OnlyRow, Exists
  <2>5. AccountInv(a)'
    BY <1>2, <1>3, <1>5, <2>2, <2>3, <2>4 DEF Inv, AccountInv, KeepsRights, Fits, Usable
  <2>6. RowStep(a)
    BY <1>2, <1>3, <1>5, <2>2, <2>4, <2>5, RowFields DEF RowStep, Follows, KeepsRights, TypeOK
  <2> QED BY <1>3, <1>5, <2>6, ClaimKeeps DEF TypeOK
<1>6. CASE /\ Succeeded(a) /\ Usable(a) /\ Verified(request[c])
           /\ logins < MaxLogins /\ logins' = logins + 1
           /\ session' = [session EXCEPT ![a] =
                [id |-> NextId(a), secret |-> logins', created |-> request[c].now,
                 activity |-> request[c].now, password |-> request[c].password]]
  <2>1. /\ OnlyRow(a) /\ KeepsRights(a) /\ GetsPassword(a, account[a].password)
        /\ account'[a].revision = account[a].revision
    BY <1>2, <1>6, SuccessRow
  <2>2. account[a].password = request[c].password
    BY <1>2, <1>6 DEF Verified
  <2>3. logins' \in 0..MaxLogins /\ logins' \in Nat
    BY <1>6, BoundsAssumption DEF TypeOK
  <2> DEFINE opened == [id |-> NextId(a), secret |-> logins', created |-> request[c].now,
                        activity |-> request[c].now, password |-> request[c].password]
  <2>4. opened \in Session /\ opened.password = request[c].password
    BY <1>1, <2>3, NextIdType DEF Login, Session
  <2>5. /\ session' \in [Accounts -> Session \cup {None}]
        /\ session'[a].password = request[c].password
        /\ \A b \in Accounts \ {a} : session'[b] = session[b]
    <3> HIDE DEF opened
    <3>1. session' = [session EXCEPT ![a] = opened] BY <1>6 DEF opened
    <3> QED BY <2>4, <3>1 DEF TypeOK
  <2>6. Exists(a)' BY <2>1, NoneIsNoRow DEF OnlyRow, Exists
  <2>7. AccountInv(a)'
    BY <1>2, <1>3, <1>6, <2>1, <2>2, <2>5, <2>6, LimitsAssumption
       DEF Inv, AccountInv, KeepsRights, GetsPassword, Fits, Usable, Unblocked
  <2>8. RowStep(a)
    BY <1>2, <1>3, <2>1, <2>5, <2>6, <2>7, RowFields DEF RowStep, Follows, KeepsRights, TypeOK
  <2> QED BY <1>3, <2>3, <2>8, ClaimKeeps
<1> QED BY <1>2, <1>4, <1>5, <1>6 DEF LoginClaim, Failed, Succeeded
-----------------------------------------------------------------------------
(* Startup credentials, one-time access and time.                          *)

LEMMA RegisteredStartup ==
  ASSUME TypeOK, NEW s \in Secrets, NEW purpose \in {"bootstrap", "recovery"},
         startup' = Registered(purpose, s)
  PROVE  /\ startup' \in [Secrets -> Startup \cup {None}] /\ Bootstrapped' = Bootstrapped
         /\ \A t \in Secrets : startup[t] # None /\ startup[t].state # "current"
                             => startup'[t] = startup[t]
<1>1. startup' \in [Secrets -> Startup \cup {None}]
  BY DEF Registered, TypeOK, Startup
<1>2. \A t \in Secrets :
        \/ startup'[t] = startup[t]
        \/ /\ startup[t] = None \/ startup[t].state = "current"
           /\ startup'[t] \in Startup /\ startup'[t].state \in {"current", "replaced"}
  BY DEF Registered, Startup
<1>3. \A t \in Secrets :
        (startup'[t] = [purpose |-> "bootstrap", state |-> "consumed"])
          = (startup[t] = [purpose |-> "bootstrap", state |-> "consumed"])
  BY <1>2, NoneIsNoRow DEF Startup
<1> QED BY <1>1, <1>2, <1>3 DEF Bootstrapped

LEMMA ConsumedStartup ==
  ASSUME TypeOK, NEW s \in Secrets, NEW purpose \in {"bootstrap", "recovery"},
         Presentable(s, purpose), startup' = Consumed(s)
  PROVE  /\ startup' \in [Secrets -> Startup \cup {None}]
         /\ startup[s].state = "current"
         /\ startup'[s] = [purpose |-> purpose, state |-> "consumed"]
         /\ \A t \in Secrets \ {s} : startup'[t] = startup[t]
<1>1. [startup[s] EXCEPT !.state = "consumed"] = [purpose |-> purpose, state |-> "consumed"]
  BY DEF Presentable
<1>2. startup' = [startup EXCEPT ![s] = [purpose |-> purpose, state |-> "consumed"]]
  BY <1>1 DEF Consumed
<1>3. [purpose |-> purpose, state |-> "consumed"] \in Startup
  BY DEF Startup
<1> QED BY <1>2, <1>3 DEF Presentable, TypeOK

LEMMA RestartKeeps ==
  ASSUME TypeOK, Inv, NEW s \in Secrets, NEW purpose \in {"bootstrap", "recovery"},
         Restart(purpose, s)
  PROVE  TypeOK' /\ Inv'
<1>1. startup' \in [Secrets -> Startup \cup {None}] /\ Bootstrapped' = Bootstrapped
  BY RegisteredStartup DEF Restart
<1>2. /\ \A b \in Accounts : AccountInv(b)' /\ Follows(b)
      /\ Administrators' = Administrators
  BY AccountsUnchanged DEF Restart
<1>3. TypeOK' BY <1>1 DEF Restart, TypeOK
<1>4. \A d \in Clients : RequestInv(d)' BY DEF Restart, RequestInv
<1>5. clock <= clock' BY BoundsAssumption DEF Restart, TypeOK
<1> QED BY <1>1, <1>2, <1>3, <1>4, <1>5, OthersKeep DEF Restart

LEMMA TickKeeps ==
  ASSUME TypeOK, Inv, Tick
  PROVE  TypeOK' /\ Inv'
<1>1. /\ \A b \in Accounts : AccountInv(b)' /\ Follows(b)
      /\ Administrators' = Administrators
  BY AccountsUnchanged DEF Tick
<1>2. TypeOK' /\ clock <= clock' BY BoundsAssumption DEF Tick, TypeOK
<1> QED BY <1>1, <1>2, OthersKeep DEF Tick, Bootstrapped

(* The first administrator: nobody was, and no bootstrap was consumed.     *)
LEMMA BootstrapKeeps ==
  ASSUME TypeOK, Inv, NEW s \in Secrets, NEW a \in Accounts, NEW password \in Passwords,
         Bootstrap(s, a, password)
  PROVE  TypeOK' /\ Inv'
<1>1. /\ OnlyRow(a) /\ GetsPassword(a, password) /\ account'[a].revision = 1
      /\ account'[a].active = TRUE /\ account'[a].admin = TRUE /\ account'[a].disabled = FALSE
  BY NewAccountRow DEF Bootstrap
<1>2. /\ startup' \in [Secrets -> Startup \cup {None}]
      /\ startup'[s] = [purpose |-> "bootstrap", state |-> "consumed"]
  BY ConsumedStartup DEF Bootstrap
<1>3. /\ ~ Exists(a) /\ access[a] = None /\ session[a] = None /\ Exists(a)'
      /\ UNCHANGED <<access, session, clock, logins, request, list>>
  BY <1>1, NoneIsNoRow DEF Bootstrap, Fresh, Inv, AccountInv, OnlyRow, Exists
<1>4. AccountInv(a)'
  BY <1>1, <1>3, NoneIsNoRow, LimitsAssumption DEF AccountInv, GetsPassword, Usable, Unblocked
<1>5. \A b \in Accounts : AccountInv(b)' /\ Follows(b)
  <2> TAKE b \in Accounts
  <2>1. CASE b = a BY <1>3, <1>4, <2>1 DEF Follows
  <2>2. CASE b # a BY <1>1, <1>3, <2>2, AccountStays, UnchangedFollows DEF Inv, OnlyRow
  <2> QED BY <2>1, <2>2
<1>6. Administrators' = {a}
  <2>1. \A b \in Accounts \ {a} : ~ (Exists(b)' /\ account'[b].admin)
    BY <1>1 DEF Bootstrap, Administrators, OnlyRow, Exists
  <2> QED BY <1>1, <1>3, <2>1 DEF Administrators
<1>7. OneUsableAdministrator'
  <2>1. Usable(a)' BY <1>1, NoneIsNoRow DEF Usable, GetsPassword
  <2> QED BY <1>2, <1>6, <2>1 DEF OneUsableAdministrator, Bootstrapped
<1>8. TypeOK' BY <1>1, <1>2, <1>3 DEF TypeOK, OnlyRow
<1>9. \A d \in Clients : RequestInv(d)' /\ ListInv(d)'
  <2>1. clock' \in Nat /\ clock <= clock' BY <1>3, BoundsAssumption DEF TypeOK
  <2> QED BY <1>1, <1>3, <1>5, <2>1, RequestStays, ListStays DEF Inv, OnlyRow
<1> QED BY <1>5, <1>7, <1>8, <1>9 DEF Inv

LEMMA RecoverKeeps ==
  ASSUME TypeOK, Inv, NEW s \in Secrets, NEW a \in Accounts, NEW password \in Passwords,
         Recover(s, a, password)
  PROVE  TypeOK' /\ Inv'
<1>1. Exists(a) /\ account[a].admin /\ UNCHANGED <<access, clock, logins, request, list>>
  BY DEF Recover, Administrators
<1>2. /\ OnlyRow(a) /\ KeepsRights(a) /\ GetsPassword(a, password)
      /\ account'[a].revision = account[a].revision
  BY <1>1, WithPasswordRow DEF Recover
<1>3. /\ session' \in [Accounts -> Session \cup {None}] /\ session'[a] = None
      /\ \A b \in Accounts \ {a} : session'[b] = session[b]
  BY EndedSession DEF Recover
<1>4. startup' \in [Secrets -> Startup \cup {None}] /\ Bootstrapped' = Bootstrapped
  <2>1. /\ startup' \in [Secrets -> Startup \cup {None}]
        /\ startup[s].state = "current"
        /\ startup'[s] = [purpose |-> "recovery", state |-> "consumed"]
        /\ \A t \in Secrets \ {s} : startup'[t] = startup[t]
    BY ConsumedStartup DEF Recover
  <2>2. startup'[s] # [purpose |-> "bootstrap", state |-> "consumed"]
        /\ startup[s] # [purpose |-> "bootstrap", state |-> "consumed"]
    BY <2>1
  <2> QED BY <2>1, <2>2 DEF Bootstrapped
<1>5. Exists(a)' /\ password # NoPassword
  BY <1>2, NoneIsNoRow DEF OnlyRow, Exists
<1>6. AccountInv(a)'
  BY <1>1, <1>2, <1>3, <1>5, LimitsAssumption
     DEF Inv, AccountInv, KeepsRights, GetsPassword, Fits, Usable, Unblocked
<1>7. RowStep(a)
  BY <1>1, <1>2, <1>3, <1>5, <1>6, RowFields DEF RowStep, Follows, KeepsRights, TypeOK
<1>8. /\ \A b \in Accounts : AccountInv(b)' /\ Follows(b)
      /\ Administrators' = Administrators
  BY <1>7, RowStepKeeps
<1>9. TypeOK' BY <1>1, <1>2, <1>3, <1>4 DEF TypeOK, OnlyRow
<1>10. clock <= clock' BY <1>1, BoundsAssumption DEF TypeOK
<1> QED BY <1>1, <1>4, <1>8, <1>9, <1>10, OthersKeep

(* Access is redeemed for an account that could not log in, which is thus  *)
(* neither administrator nor has it a session.                             *)
LEMMA RedeemKeeps ==
  ASSUME TypeOK, Inv, NEW a \in Accounts, NEW password \in Passwords, Redeem(a, password)
  PROVE  TypeOK' /\ Inv'
<1>1. /\ Exists(a) /\ Fits(a) /\ access[a] # None
      /\ UNCHANGED <<session, startup, clock, logins, request, list>>
  BY DEF Redeem, Inv, AccountInv
<1>2. PICK n \in Nat :
        /\ Redeemed(a, password, n)
        /\ n = IF access[a].purpose = "reactivation" THEN 1 ELSE 0
  BY DEF Redeem, Redeemed
<1>3. /\ OnlyRow(a) /\ GetsPassword(a, password)
      /\ account'[a].active = TRUE /\ account'[a].admin = account[a].admin
      /\ account'[a].disabled = account[a].disabled
      /\ account'[a].revision = account[a].revision + n
  BY <1>1, <1>2, RedeemRow
<1>4. /\ access' \in [Accounts -> Access \cup {None}] /\ access'[a] = None
      /\ \A b \in Accounts \ {a} : access'[b] = access[b]
  BY EndedAccess DEF Redeem
<1>5. Exists(a)' /\ password # NoPassword /\ ~ account[a].admin /\ session[a] = None
  BY <1>1, <1>3, NoneIsNoRow DEF OnlyRow, Exists, Inv, AccountInv, Fits, Usable
<1>6. AccountInv(a)'
  BY <1>1, <1>3, <1>4, <1>5, LimitsAssumption DEF AccountInv, GetsPassword, Usable, Unblocked
<1>7. RowStep(a)
  BY <1>1, <1>3, <1>4, <1>5, <1>6, RowFields DEF RowStep, Follows, TypeOK
<1>8. /\ \A b \in Accounts : AccountInv(b)' /\ Follows(b)
      /\ Administrators' = Administrators
  BY <1>7, RowStepKeeps
<1>9. TypeOK' BY <1>1, <1>3, <1>4 DEF TypeOK, OnlyRow
<1>10. clock <= clock' /\ Bootstrapped' = Bootstrapped
  BY <1>1, BoundsAssumption DEF TypeOK, Bootstrapped
<1> QED BY <1>1, <1>8, <1>9, <1>10, OthersKeep
-----------------------------------------------------------------------------
LEMMA InitHolds ==
  ASSUME Init
  PROVE  TypeOK /\ Inv
<1>1. TypeOK
  BY BoundsAssumption DEF Init, TypeOK
<1>2. \A a \in Accounts : ~ Exists(a) /\ access[a] = None /\ session[a] = None
  BY DEF Init, Exists
<1>3. \A a \in Accounts : AccountInv(a)
  BY <1>2 DEF AccountInv
<1>4. \A c \in Clients : RequestInv(c) /\ ListInv(c)
  BY DEF Init, RequestInv, ListInv
<1>5. OneUsableAdministrator
  <2>1. Administrators = {} BY <1>2 DEF Administrators
  <2>2. \A s \in Secrets : startup[s] # [purpose |-> "bootstrap", state |-> "consumed"]
    BY NoneIsNoRow DEF Init, Startup
  <2> QED BY <2>1, <2>2 DEF OneUsableAdministrator, Bootstrapped
<1> QED BY <1>1, <1>3, <1>4, <1>5 DEF Inv

LEMMA StutteringHolds ==
  ASSUME TypeOK, Inv, UNCHANGED vars
  PROVE  TypeOK' /\ Inv'
<1>1. TypeOK'
  BY DEF vars, TypeOK
<1>2. /\ \A b \in Accounts : AccountInv(b)' /\ Follows(b)
      /\ Administrators' = Administrators
  BY AccountsUnchanged DEF vars
<1>3. clock <= clock' /\ Bootstrapped' = Bootstrapped
  BY BoundsAssumption DEF vars, TypeOK, Bootstrapped
<1> QED BY <1>1, <1>2, <1>3, OthersKeep DEF vars

LEMMA NextKeeps ==
  ASSUME TypeOK, Inv, [Next]_vars
  PROVE  TypeOK' /\ Inv'
<1>1. CASE Tick BY <1>1, TickKeeps
<1>2. CASE StartupStep
  BY <1>2, RestartKeeps, BootstrapKeeps, RecoverKeeps DEF StartupStep
<1>3. CASE \E a \in Accounts, password \in Passwords : Redeem(a, password)
  BY <1>3, RedeemKeeps
<1>4. ASSUME NEW c \in Clients, LoginStep(c) PROVE TypeOK' /\ Inv'
  BY <1>4, LoginReadKeeps, LoginClaimKeeps DEF LoginStep
<1>5. ASSUME NEW c \in Clients, SessionStep(c) PROVE TypeOK' /\ Inv'
  BY <1>5, AuthenticateKeeps, EndSessionKeeps, TouchKeeps, TouchWriteKeeps, AnswerKeeps,
     LogoutKeeps, ChangePasswordKeeps DEF SessionStep
<1>6. ASSUME NEW c \in Clients, AdministrationStep(c) PROVE TypeOK' /\ Inv'
  BY <1>6, ListAccountsKeeps, CreateAccountKeeps, ReissueSetupKeeps, IssueResetKeeps,
     DisableKeeps, IssueReactivationKeeps, TransferKeeps DEF AdministrationStep
<1>7. CASE UNCHANGED vars BY <1>7, StutteringHolds
<1> QED BY <1>1, <1>2, <1>3, <1>4, <1>5, <1>6, <1>7 DEF Next

(* The rows, the requests in flight and the pages keep their types, and    *)
(* every account its invariant, whatever the browsers send and in whatever *)
(* order the transactions of their requests come.                          *)
THEOREM InvHolds == Spec => [](TypeOK /\ Inv)
<1>1. Init => TypeOK /\ Inv BY InitHolds
<1>2. TypeOK /\ Inv /\ [Next]_vars => TypeOK' /\ Inv' BY NextKeeps
<1> QED BY <1>1, <1>2, PTL DEF Spec

THEOREM TypesHold == Spec => []TypeOK
BY InvHolds, PTL

(* From the bootstrap on exactly one account is administrator, and it can  *)
(* log in.                                                                 *)
THEOREM OneAdministrator == Spec => []OneUsableAdministrator
<1>1. TypeOK /\ Inv => OneUsableAdministrator BY DEF Inv
<1> QED BY <1>1, InvHolds, PTL

(* No login opens or keeps a session behind a change of the password.      *)
THEOREM SessionsAreCurrent == Spec => []SessionsMatchPasswords
<1>1. TypeOK /\ Inv => SessionsMatchPasswords
  BY DEF Inv, AccountInv, SessionsMatchPasswords, LiveSessions
<1> QED BY <1>1, InvHolds, PTL

(* Whoever holds one-time access that is not due can redeem it.            *)
THEOREM AccessIsRedeemable == Spec => []AccessFitsItsAccount
<1>1. TypeOK /\ Inv => AccessFitsItsAccount
  BY DEF Inv, AccountInv, AccessFitsItsAccount
<1> QED BY <1>1, InvHolds, PTL

(* The failed login that reaches the limit blocks the account.             *)
THEOREM LimitBlocks == Spec => []FailuresBlock
<1>1. TypeOK /\ Inv => FailuresBlock
  BY DEF Inv, AccountInv, FailuresBlock
<1> QED BY <1>1, InvHolds, PTL
-----------------------------------------------------------------------------
(* A startup credential that was consumed or replaced stays so.            *)
THEOREM RetiredStays == Spec => RetiredStaysRetired
<1> DEFINE Kept == \A s \in Secrets :
      startup[s] # None /\ startup[s].state # "current" => startup'[s] = startup[s]
<1>1. ASSUME TypeOK, NEW s \in Secrets, NEW purpose \in {"bootstrap", "recovery"},
             Restart(purpose, s)
      PROVE  Kept
  BY <1>1, RegisteredStartup DEF Restart
<1>2. ASSUME TypeOK, NEW s \in Secrets, NEW a \in Accounts, NEW password \in Passwords,
             Bootstrap(s, a, password) \/ Recover(s, a, password)
      PROVE  Kept
  BY <1>2, ConsumedStartup DEF Bootstrap, Recover
<1>3. ASSUME Next, ~ StartupStep PROVE startup' = startup
  <2>1. ASSUME NEW c \in Clients, LoginStep(c) PROVE startup' = startup
    BY <2>1 DEF LoginStep, LoginRead, LoginClaim
  <2>2. ASSUME NEW c \in Clients, SessionStep(c) PROVE startup' = startup
    BY <2>2 DEF SessionStep, Authenticate, EndSession, Touch, TouchWrite, Answer, Logout,
       ChangePassword
  <2>3. ASSUME NEW c \in Clients, AdministrationStep(c) PROVE startup' = startup
    BY <2>3 DEF AdministrationStep, ListAccounts, CreateAccount, ReissueSetup, IssueReset,
       Disable, IssueReactivation, Transfer
  <2>4. ASSUME Tick \/ \E a \in Accounts, password \in Passwords : Redeem(a, password)
        PROVE  startup' = startup
    BY <2>4 DEF Tick, Redeem
  <2> QED BY <1>3, <2>1, <2>2, <2>3, <2>4 DEF Next
<1>4. TypeOK /\ Inv /\ [Next]_vars => Kept
  <2>1. ASSUME TypeOK, StartupStep PROVE Kept
    <3> HIDE DEF Kept
    <3> QED BY <1>1, <1>2, <2>1 DEF StartupStep
  <2> QED BY <1>3, <2>1 DEF vars
<1>5. Spec => [][Kept]_vars
  <2> HIDE DEF Kept
  <2> QED BY <1>4, InvHolds, PTL DEF Spec
<1> QED BY <1>5 DEF RetiredStaysRetired

(* While an account is blocked no login in flight changes it: what read    *)
(* the account before the block is looked up again under the claim.        *)
OverAt(c) == request[c] # Idle /\ request[c].kind = "login" /\ request'[c] = Idle
BlockHolds(c) ==
  OverAt(c) /\ BlockedAt(request[c].account, clock) =>
    /\ account'[request[c].account] = account[request[c].account]
    /\ session'[request[c].account] = session[request[c].account]

LEMMA OtherRequestsGoOn ==
  ASSUME TypeOK, NEW c \in Clients, NEW d \in Clients, NEW q,
         request' = [request EXCEPT ![d] = q], c # d \/ request[d] = Idle
                                               \/ request[d].kind # "login"
  PROVE  ~ OverAt(c)
BY DEF OverAt, TypeOK

LEMMA ClaimRespectsBlock ==
  ASSUME TypeOK, Inv, NEW c \in Clients, LoginClaim(c)
  PROVE  BlockHolds(c)
<1> SUFFICES ASSUME BlockedAt(request[c].account, clock)
             PROVE  account' = account /\ session' = session
  BY DEF BlockHolds
<1>1. request[c] \in Login /\ request[c] # Idle /\ request[c].kind = "login"
  BY RequestTypes DEF LoginClaim
<1>2. request[c].now <= clock /\ Exists(request[c].account)
  BY <1>1 DEF Inv, RequestInv
<1>3. Rejected(request[c])
  <2>1. account[request[c].account].blocked \in Nat /\ request[c].now \in Nat /\ clock \in Nat
    BY <1>1, <1>2, RowFields, BoundsAssumption DEF Login, TypeOK
  <2> QED BY <1>2, <2>1 DEF Rejected, BlockedAt
<1> QED BY <1>3 DEF LoginClaim

THEOREM BlocksAreKept == Spec => BlocksHold
<1> DEFINE Held == \A c \in Clients : BlockHolds(c)
<1>1. ASSUME TypeOK, Inv, NEW d \in Clients, LoginClaim(d) PROVE Held
  <2>1. BlockHolds(d) BY <1>1, ClaimRespectsBlock
  <2>2. \A c \in Clients \ {d} : ~ OverAt(c)
    BY <1>1, OtherRequestsGoOn DEF LoginClaim
  <2> QED BY <2>1, <2>2 DEF BlockHolds
<1>2. ASSUME TypeOK, NEW d \in Clients, NEW q, request' = [request EXCEPT ![d] = q],
             request[d] = Idle \/ request[d].kind # "login"
      PROVE  Held
  BY <1>2, OtherRequestsGoOn DEF BlockHolds
<1>3. ASSUME TypeOK, NEW d \in Clients,
             SessionStep(d) \/ \E a \in Accounts, password \in Passwords : LoginRead(d, a, password)
      PROVE  Held
  <2>1. /\ request[d] = Idle \/ request[d].kind # "login"
        /\ \E q : request' = [request EXCEPT ![d] = q]
    BY <1>3 DEF SessionStep, LoginRead, Authenticate, EndSession, Touch, TouchWrite, Answer,
       Logout, ChangePassword, Handling, Answered
  <2> HIDE DEF Held
  <2> QED BY <1>2, <1>3, <2>1
<1>4. ASSUME TypeOK, NEW d \in Clients, AdministrationStep(d) PROVE Held
  <2>1. Handling(d) /\ Answered(d)
    BY <1>4 DEF AdministrationStep, ListAccounts, CreateAccount, ReissueSetup, IssueReset,
       Disable, IssueReactivation, Transfer, ByAdministrator
  <2> HIDE DEF Held
  <2> QED BY <1>2, <1>4, <2>1 DEF Handling, Answered
<1>5. ASSUME UNCHANGED request PROVE Held
  BY <1>5 DEF BlockHolds, OverAt
<1>6. ASSUME UNCHANGED <<account, session>> PROVE Held
  BY <1>6 DEF BlockHolds
<1>7. TypeOK /\ Inv /\ [Next]_vars => Held
  <2> SUFFICES ASSUME TypeOK, Inv, [Next]_vars PROVE Held
    OBVIOUS
  <2>1. CASE StartupStep
    <3>1. \/ UNCHANGED request
          \/ UNCHANGED <<account, session>>
      BY <2>1 DEF StartupStep, Restart, Bootstrap, Recover
    <3> QED BY <1>5, <1>6, <3>1
  <2>2. CASE Tick \/ UNCHANGED vars
            \/ \E a \in Accounts, password \in Passwords : Redeem(a, password)
    <3>1. UNCHANGED request BY <2>2 DEF Tick, Redeem, vars
    <3> QED BY <1>5, <3>1
  <2>3. ASSUME NEW d \in Clients, LoginStep(d) \/ SessionStep(d) \/ AdministrationStep(d)
        PROVE  Held
    <3> HIDE DEF Held
    <3> QED BY <1>1, <1>3, <1>4, <2>3 DEF LoginStep
  <2> HIDE DEF Held
  <2> QED BY <2>1, <2>2, <2>3 DEF Next
<1>8. Spec => [][Held]_vars
  <2> HIDE DEF Held
  <2> QED BY <1>7, InvHolds, PTL DEF Spec
<1>9. Held => \A c \in Clients :
        LET a == request[c].account
        IN request[c] # Idle /\ request[c].kind = "login" /\ request'[c] = Idle =>
             (BlockedAt(a, clock) => account'[a] = account[a] /\ session'[a] = session[a])
  BY DEF BlockHolds, OverAt
<1> QED
  <2> HIDE DEF Held
  <2> QED BY <1>8, <1>9, PTL DEF BlocksHold
-----------------------------------------------------------------------------
(* An administrator's action finds its account as the page shows it.       *)
Shown(c, a) ==
  /\ Handling(c) /\ request'[c] # request[c] /\ list[c] # None
  /\ list[c][a] = Projection(a)
ChangedAsShown(a) ==
  Exists(a) /\ account'[a].revision # account[a].revision =>
    \/ access[a] # None /\ access'[a] = None /\ account'[a].active
    \/ \E c \in Clients : Shown(c, a)

(* An expected revision leaves only the first setup open, and whether an   *)
(* account is active is part of what the page offers.                      *)
LEMMA ExpectedIsShown ==
  ASSUME TypeOK, Inv, NEW c \in Clients, NEW a \in Accounts,
         Handling(c), Answered(c), Expected(c, a), list[c][a].active = account[a].active
  PROVE  Shown(c, a)
<1>1. Exists(a) /\ list[c] # None /\ list[c][a] # None
  BY ExpectedExists DEF Expected
<1>2. PICK shown \in Listed : shown = list[c][a]
  BY <1>1 DEF TypeOK
<1>3. /\ shown.active = account[a].active /\ shown.admin = account[a].admin
      /\ shown.disabled = account[a].disabled /\ shown.revision = account[a].revision
  BY <1>1, <1>2 DEF Inv, ListInv, Expected
<1>4. shown = [active |-> account[a].active, admin |-> account[a].admin,
               revision |-> account[a].revision, disabled |-> account[a].disabled]
  BY <1>3 DEF Listed
<1>5. list[c][a] = Projection(a)
  BY <1>1, <1>2, <1>4 DEF Projection
<1>6. request'[c] = [kind |-> "answered", account |-> request[c].account,
                     secret |-> request[c].secret]
  BY AnsweredStep
<1>7. request'[c] # request[c]
  <2>1. request[c].kind = "handle" BY DEF Handling
  <2>2. request'[c].kind = "answered" BY <1>6
  <2> QED BY <2>1, <2>2
<1> QED BY <1>1, <1>5, <1>7 DEF Shown

LEMMA AdministrationActsOnShown ==
  ASSUME TypeOK, Inv, NEW c \in Clients, AdministrationStep(c), NEW x \in Accounts
  PROVE  ChangedAsShown(x)
<1>1. CASE ListAccounts(c)
  BY <1>1 DEF ListAccounts, ChangedAsShown
<1>2. ASSUME NEW a \in Accounts, CreateAccount(c, a) PROVE ChangedAsShown(x)
  <2>1. Exists(x) => x # a BY <1>2 DEF CreateAccount, Fresh
  <2>2. x # a => account'[x] = account[x]
    <3> HIDE DEF NewAccount
    <3> QED BY <1>2 DEF CreateAccount, TypeOK
  <2> QED BY <2>1, <2>2 DEF ChangedAsShown
<1>3. ASSUME NEW a \in Accounts, ReissueSetup(c, a) \/ IssueReset(c, a) \/ Disable(c, a)
                                 \/ IssueReactivation(c, a)
      PROVE  ChangedAsShown(x)
  <2>1. /\ Handling(c) /\ Answered(c) /\ Expected(c, a)
        /\ \/ (OfferedSetup(c, a) \/ OfferedReactivation(c, a)) /\ ~ account[a].active
           \/ OfferedToPlanner(c, a) /\ account[a].active
    BY <1>3 DEF ReissueSetup, IssueReset, Disable, IssueReactivation, ByAdministrator
  <2>2. list[c][a].active \in BOOLEAN /\ account[a].active \in BOOLEAN
    BY <2>1, ExpectedExists, RowFields DEF Expected, TypeOK, Listed
  <2>3. Shown(c, a)
    BY <2>1, <2>2, ExpectedIsShown DEF OfferedSetup, OfferedReactivation, OfferedToPlanner
  <2>4. ASSUME x # a PROVE account'[x] = account[x]
    <3>1. CASE ReissueSetup(c, a) BY <2>4, <3>1 DEF ReissueSetup, TypeOK
    <3>2. CASE IssueReset(c, a) BY <2>4, <3>2 DEF IssueReset, TypeOK
    <3>3. CASE Disable(c, a) BY <2>4, <3>3 DEF Disable, TypeOK
    <3>4. CASE IssueReactivation(c, a) BY <2>4, <3>4 DEF IssueReactivation, TypeOK
    <3> QED BY <1>3, <3>1, <3>2, <3>3, <3>4
  <2> QED BY <2>3, <2>4 DEF ChangedAsShown
<1>4. ASSUME NEW a \in Accounts, Transfer(c, a) PROVE ChangedAsShown(x)
  <2>1. PICK b \in Accounts : b = request[c].account
    BY <1>4, ClaimedTypes DEF Transfer, ByAdministrator, Handling
  <2>2. /\ Handling(c) /\ Answered(c) /\ Expected(c, a) /\ Expected(c, b)
        /\ OfferedToPlanner(c, a) /\ Usable(a) /\ account[b].admin /\ Transferred(b, a)
    BY <1>4, <2>1 DEF Transfer, ByAdministrator, Administrators, Eligible, Transferred
  <2>3. /\ list[c][a].active \in BOOLEAN /\ account[a].active \in BOOLEAN
        /\ list[c][b].active \in BOOLEAN /\ account[b].active \in BOOLEAN
    BY <2>2, ExpectedExists, RowFields DEF Expected, TypeOK, Listed
  <2>4. Shown(c, a)
    BY <2>2, <2>3, ExpectedIsShown DEF OfferedToPlanner, Usable
  <2>5. list[c][b].active /\ account[b].active
    BY <2>2, ExpectedExists DEF Inv, ListInv, AccountInv, Expected, Usable
  <2>6. Shown(c, b)
    BY <2>2, <2>3, <2>5, ExpectedIsShown
  <2>7. x # a /\ x # b => account'[x] = account[x]
    BY <2>2 DEF Transferred, TypeOK
  <2> QED BY <2>4, <2>6, <2>7 DEF ChangedAsShown
<1> QED BY <1>1, <1>2, <1>3, <1>4 DEF AdministrationStep

(* No other step changes a revision, except the redemption that            *)
(* reactivates an account.                                                 *)
LEMMA OthersKeepRevisions ==
  ASSUME TypeOK, Inv, [Next]_vars, ~ \E c \in Clients : AdministrationStep(c), NEW x \in Accounts
  PROVE  ChangedAsShown(x)
<1> SUFFICES ASSUME Exists(x)
             PROVE  \/ account'[x].revision = account[x].revision
                    \/ access[x] # None /\ access'[x] = None /\ account'[x].active
  BY DEF ChangedAsShown
<1>1. ASSUME NEW s \in Secrets, NEW a \in Accounts, NEW password \in Passwords,
             Bootstrap(s, a, password) \/ Recover(s, a, password)
      PROVE  account'[x].revision = account[x].revision
  <2>1. CASE Bootstrap(s, a, password) BY <2>1 DEF Bootstrap, Fresh, TypeOK
  <2>2. CASE Recover(s, a, password)
    <3>1. Exists(a) BY <2>2 DEF Recover, Administrators
    <3>2. OnlyRow(a) /\ account'[a].revision = account[a].revision
      BY <2>2, <3>1, WithPasswordRow DEF Recover
    <3> QED BY <3>2 DEF OnlyRow
  <2> QED BY <1>1, <2>1, <2>2
<1>2. ASSUME NEW a \in Accounts, NEW password \in Passwords, Redeem(a, password)
      PROVE  \/ account'[x].revision = account[x].revision
             \/ access[x] # None /\ access'[x] = None /\ account'[x].active
  <2>1. Exists(a) /\ access[a] # None BY <1>2 DEF Redeem, Inv, AccountInv
  <2>2. access'[a] = None BY <1>2, EndedAccess DEF Redeem
  <2>3. PICK n \in Nat : Redeemed(a, password, n) BY <1>2 DEF Redeem, Redeemed
  <2>4. OnlyRow(a) /\ account'[a].active BY <2>1, <2>3, RedeemRow
  <2> QED BY <2>1, <2>2, <2>4 DEF OnlyRow
<1>3. ASSUME NEW c \in Clients, LoginClaim(c)
      PROVE  account'[x].revision = account[x].revision
  <2>1. request[c] \in Login /\ request[c] # Idle
    BY <1>3, RequestTypes DEF LoginClaim
  <2>2. PICK a \in Accounts : a = request[c].account /\ Exists(a)
    BY <2>1 DEF Inv, RequestInv, Login
  <2>3. CASE account' = account BY <2>3
  <2>4. CASE Failed(request[c])
    <3>1. OnlyRow(a) /\ account'[a].revision = account[a].revision
      BY <2>1, <2>2, <2>4, FailureRow DEF Login
    <3> QED BY <3>1 DEF OnlyRow
  <2>5. CASE Succeeded(a)
    <3>1. OnlyRow(a) /\ account'[a].revision = account[a].revision
      BY <2>2, <2>5, SuccessRow
    <3> QED BY <3>1 DEF OnlyRow
  <2> QED BY <1>3, <2>2, <2>3, <2>4, <2>5 DEF LoginClaim, Failed, Succeeded
<1>4. ASSUME NEW c \in Clients, SessionStep(c)
      PROVE  account'[x].revision = account[x].revision
  <2>1. CASE UNCHANGED account BY <2>1
  <2>2. ASSUME NEW current \in Passwords, NEW password \in Passwords,
               ChangePassword(c, current, password)
        PROVE  account'[x].revision = account[x].revision
    <3>1. PICK a \in Accounts : a = request[c].account /\ Exists(a)
      BY <2>2, ClaimedTypes DEF ChangePassword, Handling, Inv, RequestInv
    <3>2. OnlyRow(a) /\ account'[a].revision = account[a].revision
      BY <2>2, <3>1, WithPasswordRow DEF ChangePassword
    <3> QED BY <3>2 DEF OnlyRow
  <2> QED BY <1>4, <2>1, <2>2
          DEF SessionStep, Authenticate, EndSession, Touch, TouchWrite, Answer, Logout
<1>5. ASSUME UNCHANGED account PROVE account'[x].revision = account[x].revision
  BY <1>5
<1> QED
  <2>1. CASE StartupStep BY <1>1, <1>5, <2>1 DEF StartupStep, Restart
  <2>2. ASSUME NEW c \in Clients, LoginStep(c) PROVE account'[x].revision = account[x].revision
    BY <1>3, <1>5, <2>2 DEF LoginStep, LoginRead
  <2> QED BY <1>2, <1>4, <1>5, <2>1, <2>2 DEF Next, Tick, vars

THEOREM ActionsAreOnWhatIsListed == Spec => ActsOnWhatIsListed
<1>1. TypeOK /\ Inv /\ [Next]_vars => \A a \in Accounts : ChangedAsShown(a)
  BY AdministrationActsOnShown, OthersKeepRevisions
<1>2. (\A a \in Accounts : ChangedAsShown(a)) => \A a \in Accounts :
        Exists(a) /\ account'[a].revision # account[a].revision =>
          \/ access[a] # None /\ access'[a] = None /\ account'[a].active
          \/ \E c \in Clients :
               Handling(c) /\ request'[c] # request[c] /\ list[c] # None
               /\ list[c][a] = Projection(a)
  BY DEF ChangedAsShown, Shown
<1> QED BY <1>1, <1>2, InvHolds, PTL DEF Spec, ActsOnWhatIsListed
=============================================================================
