---------------------------- MODULE AccessProofs ----------------------------
(***************************************************************************)
(* Theorems about Accounts, Settings and Mirror, for any concurrent        *)
(* requests, any names, keys and values, any archive and any bounds.       *)
(***************************************************************************)
EXTENDS Accounts, Settings, Mirror, SequenceTheorems, FiniteSetTheorems,
        FunctionTheorems, WellFoundedInduction, TLAPS

-----------------------------------------------------------------------------
(* Accounts: types *)

Stages == {"idle", "lookup", "count", "create", "session", "user", "touch", "logout"}

Requests == [at : Stages, name : Logins \cup {0}, mail : Logins \cup {0}, admin : BOOLEAN,
             first : BOOLEAN, raced : BOOLEAN, id : Nat, token : Nat,
             exit : BOOLEAN, spoilt : BOOLEAN]

\* The variables of Accounts: ids and tokens are handed out in order.
AccountTypes ==
  /\ lastAccount \in Nat /\ lastToken \in Nat
  /\ accounts \in [1..lastAccount ->
                     [name : Logins \cup {0}, mail : Logins \cup {0}, first : BOOLEAN]]
  /\ byName \in [DOMAIN byName -> 1..lastAccount]
  /\ byMail \in [DOMAIN byMail -> 1..lastAccount]
  /\ tokens \in [DOMAIN tokens -> 1..lastAccount]
  /\ DOMAIN tokens \subseteq 1..lastToken
  /\ req \in [Clients -> Requests]
  /\ ended \subseteq 1..lastToken

-----------------------------------------------------------------------------
(* Accounts: the inductive invariant *)

\* Every name and address leads back to its account.
IndexInv ==
  \A id \in DOMAIN accounts :
    /\ accounts[id].name \in DOMAIN byName /\ byName[accounts[id].name] = id
    /\ accounts[id].mail \in DOMAIN byMail /\ byMail[accounts[id].mail] = id

\* A request carries an account that exists, and a token that was handed out.
CarryInv ==
  \A c \in Clients :
    /\ req[c].at \in {"session", "touch", "logout"} => req[c].id \in 1..lastAccount
    /\ req[c].at \in {"user", "touch", "logout"} => req[c].token \in 1..lastToken

\* Who counted no users still would, until it is marked as raced.
CountInv ==
  /\ \A c \in Clients : req[c].first /\ ~req[c].raced => lastAccount = 0
  /\ FirstIsFirst

\* A token is never forgotten without a logout; a check that nobody spoilt still
\* has its session; two checks of one token at once have been noted.
TokenInv ==
  /\ LogoutHolds /\ RefusedRightly
  /\ 1..lastToken \subseteq DOMAIN tokens \cup ended
  /\ \A c \in Clients :
       /\ req[c].at = "touch" /\ ~req[c].spoilt => req[c].token \in DOMAIN tokens
       /\ req[c].spoilt => req[c].at = "touch" /\ req[c].token \in ended \cup contended
       /\ \A d \in Clients \ {c} :
            req[c].at = "touch" /\ req[d].at = "touch" /\ req[c].token = req[d].token
              => req[c].token \in contended

AccountInv == AccountTypes /\ IndexInv /\ CarryInv /\ CountInv /\ TokenInv

\* No request, account or token is well typed.
LEMMA AccountsInitTypes == AccountsInit => AccountTypes
BY DEF AccountsInit, AccountTypes, NoAccounts, NoReq, Requests, Stages

\* One more account, with the requests that counted before it marked.
LEMMA StoreTypes ==
    ASSUME AccountTypes, NEW c \in Clients, Store(c), UNCHANGED <<tokens, lastToken, ended>>
    PROVE  AccountTypes'
<1>1. lastAccount' = lastAccount + 1 /\ lastAccount \in Nat /\ req[c] \in Requests
  BY DEF Store, AccountTypes
<1>2. accounts' \in [1..lastAccount' ->
                     [name : Logins \cup {0}, mail : Logins \cup {0}, first : BOOLEAN]]
  <2>1. 1..lastAccount' = 1..lastAccount \cup {lastAccount + 1}
    BY <1>1
  <2>2. [name |-> req[c].name, mail |-> req[c].mail, first |-> req[c].first]
            \in [name : Logins \cup {0}, mail : Logins \cup {0}, first : BOOLEAN]
    BY <1>1 DEF Requests
  <2> QED BY <2>1, <2>2 DEF Store, Put, AccountTypes
<1>3. /\ byName' \in [DOMAIN byName' -> 1..lastAccount']
      /\ byMail' \in [DOMAIN byMail' -> 1..lastAccount']
      /\ tokens' \in [DOMAIN tokens' -> 1..lastAccount']
  BY <1>1 DEF Store, Put, AccountTypes
<1>4. req' \in [Clients -> Requests]
  <2>1. ASSUME NEW d \in Clients PROVE req'[d] \in Requests
    <3>1. req'[d] = IF d # c THEN [req[d] EXCEPT !.raced = @ \/ req[d].first]
                    ELSE IF req[c].admin THEN NoReq
                    ELSE [NoReq EXCEPT !.at = "session", !.id = lastAccount + 1]
      BY DEF Store
    <3>2. req[d] \in Requests
      BY DEF AccountTypes
    <3>3. [req[d] EXCEPT !.raced = @ \/ req[d].first] \in Requests
      BY <3>2 DEF Requests
    <3>4. NoReq \in Requests
      BY DEF NoReq, Requests, Stages
    <3>5. [NoReq EXCEPT !.at = "session", !.id = lastAccount + 1] \in Requests
      <4>1. lastAccount + 1 \in Nat
        BY <1>1
      <4> QED BY <4>1 DEF NoReq, Requests, Stages
    <3> QED BY <3>1, <3>3, <3>4, <3>5
  <2> QED BY <2>1 DEF Store
<1> QED BY <1>1, <1>2, <1>3, <1>4 DEF AccountTypes

\* Only a session under way is marked as spoilt.
LEMMA SpoilTypes ==
    ASSUME req \in [Clients -> Requests], NEW c \in Clients, NEW r \in Requests, Spoil(c, r)
    PROVE  req' \in [Clients -> Requests]
<1>1. ASSUME NEW d \in Clients PROVE req'[d] \in Requests
  BY DEF Spoil, Requests
<1> QED BY <1>1 DEF Spoil

\* Every step of a request keeps the types.
LEMMA NextAccountTypes == AccountTypes /\ CarryInv /\ AccountsNext => AccountTypes'
<1> SUFFICES ASSUME AccountTypes, CarryInv, AccountsNext PROVE AccountTypes'
  OBVIOUS
<1> USE DEF stored
<1>a. NoReq \in Requests
  BY DEF NoReq, Requests, Stages
<1>b. ASSUME NEW c \in Clients, NEW r \in Requests, Go(c, r),
             UNCHANGED <<stored, tokens, lastToken, ended>>
      PROVE  AccountTypes'
  BY <1>b DEF Go, AccountTypes
<1>1. ASSUME NEW c \in Clients, NEW n \in Logins, NEW m \in Logins, NEW admin \in BOOLEAN,
             Register(c, n, m, admin)
      PROVE  AccountTypes'
  <2>1. [NoReq EXCEPT !.at = "lookup", !.name = n, !.mail = m, !.admin = admin] \in Requests
    BY DEF NoReq, Requests, Stages
  <2> QED BY <1>1, <1>b, <2>1 DEF Register
<1>2. ASSUME NEW c \in Clients, LookUp(c) \/ UserCount(c) PROVE AccountTypes'
  <2>1. req[c] \in Requests
    BY DEF AccountTypes
  <2>2. /\ [req[c] EXCEPT !.at = IF req[c].admin THEN "count" ELSE "create"] \in Requests
        /\ [req[c] EXCEPT !.at = "create", !.first = DOMAIN accounts = {}] \in Requests
    BY <2>1 DEF Requests, Stages
  <2> QED BY <1>2, <1>a, <1>b, <2>2 DEF LookUp, UserCount
<1>3. ASSUME NEW c \in Clients, CreateUser(c) PROVE AccountTypes'
  BY <1>3, <1>a, <1>b, StoreTypes DEF CreateUser
<1>4. ASSUME NEW c \in Clients, NEW n \in Logins, Login(c, n) PROVE AccountTypes'
  <2>1. PICK index \in {byName, byMail} :
           n \in DOMAIN index /\ Go(c, [NoReq EXCEPT !.at = "session", !.id = index[n]])
    BY <1>4 DEF Login
  <2>2. index[n] \in Nat
    BY <2>1 DEF AccountTypes
  <2>3. [NoReq EXCEPT !.at = "session", !.id = index[n]] \in Requests
    BY <2>2 DEF NoReq, Requests, Stages
  <2> QED BY <1>4, <1>b, <2>1, <2>3 DEF Login
<1>5. ASSUME NEW c \in Clients, newSession(c) PROVE AccountTypes'
  <2>1. req[c].id \in 1..lastAccount
    BY <1>5 DEF newSession, CarryInv
  <2> QED BY <1>5, <1>a, <2>1 DEF newSession, Go, Put, AccountTypes
<1>6. ASSUME NEW c \in Clients, NEW t \in 1..lastToken, NEW exit \in BOOLEAN,
             Validate(c, t, exit)
      PROVE  AccountTypes'
  <2>1. t \in Nat
    BY DEF AccountTypes
  <2>2. [NoReq EXCEPT !.at = "user", !.token = t, !.exit = exit] \in Requests
    BY <2>1 DEF NoReq, Requests, Stages
  <2> QED BY <1>6, <1>b, <2>2 DEF Validate, AccountTypes
<1>7. ASSUME NEW c \in Clients, TouchRead(c) PROVE AccountTypes'
  <2>1. CASE req[c].token \in DOMAIN tokens
    <3>1. req[c] \in Requests /\ tokens[req[c].token] \in Nat
      BY <2>1 DEF AccountTypes
    <3>2. [req[c] EXCEPT !.at = "touch", !.id = tokens[req[c].token]] \in Requests
      BY <3>1 DEF Requests, Stages
    <3> QED BY <1>7, <1>b, <2>1, <3>2 DEF TouchRead
  <2>2. CASE req[c].token \notin DOMAIN tokens
    BY <1>7, <1>a, <1>b, <2>2 DEF TouchRead, Refuse
  <2> QED BY <2>1, <2>2
<1>8. ASSUME NEW c \in Clients, TouchSession(c) PROVE AccountTypes'
  <2>1. CASE req[c].spoilt
    BY <1>8, <1>a, <1>b, <2>1 DEF TouchSession, Refuse
  <2>2. CASE ~req[c].spoilt
    <3>1. req[c].id \in 1..lastAccount /\ req[c].token \in 1..lastToken /\ req[c] \in Requests
      BY <1>8 DEF TouchSession, CarryInv, AccountTypes
    <3>2. [req[c] EXCEPT !.at = "logout"] \in Requests
      BY <3>1 DEF Requests, Stages
    <3>3. req' \in [Clients -> Requests]
      BY <1>8, <1>a, <2>2, <3>2, SpoilTypes DEF TouchSession, Touched, AccountTypes
    <3> QED BY <1>8, <2>2, <3>1, <3>3 DEF TouchSession, Touched, Put, AccountTypes
  <2> QED BY <2>1, <2>2
<1>9. ASSUME NEW c \in Clients, Logout(c) PROVE AccountTypes'
  <2>1. req' \in [Clients -> Requests]
    BY <1>9, <1>a, SpoilTypes DEF Logout, AccountTypes
  <2>2. req[c].token \in 1..lastToken
    BY <1>9 DEF Logout, CarryInv
  <2> QED BY <1>9, <2>1, <2>2 DEF Logout, AccountTypes
<1>10. CASE Reboot
  BY <1>10, <1>a DEF Reboot, AccountTypes
<1> QED BY <1>1, <1>2, <1>3, <1>4, <1>5, <1>6, <1>7, <1>8, <1>9, <1>10
        DEF AccountsNext

-----------------------------------------------------------------------------
(* Accounts: the invariant is kept *)

\* What Store does to the requests: its own ends or goes on to a session, the
\* others are at most marked as raced.
LEMMA StoreRequests ==
    ASSUME AccountTypes, NEW c \in Clients, Store(c), NEW d \in Clients
    PROVE  /\ d # c => /\ UNCHANGED <<req[d].at, req[d].id, req[d].token, req[d].spoilt, req[d].first>>
                       /\ req'[d].raced = (req[d].raced \/ req[d].first)
           /\ d = c => /\ req'[d].at \in {"idle", "session"} /\ req'[d].id \in {0, lastAccount + 1}
                       /\ req'[d].at = "session" => req'[d].id = lastAccount + 1
                       /\ ~req'[d].first /\ ~req'[d].spoilt
<1>1. req'[d] = IF d # c THEN [req[d] EXCEPT !.raced = @ \/ req[d].first]
                ELSE IF req[c].admin THEN NoReq
                ELSE [NoReq EXCEPT !.at = "session", !.id = lastAccount + 1]
  BY DEF Store
<1>2. req[d] \in Requests
  BY DEF AccountTypes
<1>3. CASE d # c
  BY <1>1, <1>2, <1>3 DEF Requests
<1>4. CASE d = c /\ req[c].admin
  BY <1>1, <1>4 DEF NoReq
<1>5. CASE d = c /\ ~req[c].admin
  BY <1>1, <1>5 DEF NoReq
<1> QED BY <1>3, <1>4, <1>5

\* What a commit does to the requests besides the one it belongs to.
LEMMA SpoilRequests ==
    ASSUME AccountTypes, NEW c \in Clients, NEW r, Spoil(c, r), NEW d \in Clients
    PROVE  /\ d = c => req'[d] = r
           /\ d # c => /\ UNCHANGED <<req[d].at, req[d].id, req[d].token, req[d].first, req[d].raced>>
                       /\ req'[d].spoilt =
                            (req[d].spoilt \/ (req[d].at = "touch" /\ req[d].token = req[c].token))
<1>1. req'[d] = IF d = c THEN r
                ELSE IF req[d].at = "touch" /\ req[d].token = req[c].token
                THEN [req[d] EXCEPT !.spoilt = TRUE] ELSE req[d]
  BY DEF Spoil
<1>2. req[d] \in Requests
  BY DEF AccountTypes
<1> QED BY <1>1, <1>2 DEF Requests

\* A name or an address is taken by the transaction that looks for it.
LEMMA NextIndex == AccountTypes /\ IndexInv /\ AccountsNext => IndexInv'
<1> SUFFICES ASSUME AccountTypes, IndexInv, AccountsNext PROVE IndexInv'
  OBVIOUS
<1> USE DEF stored
<1>1. ASSUME UNCHANGED <<accounts, byName, byMail>> PROVE IndexInv'
  BY <1>1 DEF IndexInv
<1>2. ASSUME NEW c \in Clients, CreateUser(c) PROVE IndexInv'
  <2>1. CASE Store(c) /\ req[c].name \notin DOMAIN byName /\ req[c].mail \notin DOMAIN byMail
    <3>1. /\ DOMAIN accounts' = DOMAIN accounts \cup {lastAccount + 1}
          /\ \A id \in DOMAIN accounts : id # lastAccount + 1 /\ accounts'[id] = accounts[id]
          /\ accounts'[lastAccount + 1].name = req[c].name
          /\ accounts'[lastAccount + 1].mail = req[c].mail
      BY <2>1 DEF Store, Put, AccountTypes
    <3>2. /\ DOMAIN byName' = DOMAIN byName \cup {req[c].name}
          /\ \A n \in DOMAIN byName : byName'[n] = byName[n]
          /\ byName'[req[c].name] = lastAccount + 1
          /\ DOMAIN byMail' = DOMAIN byMail \cup {req[c].mail}
          /\ \A n \in DOMAIN byMail : byMail'[n] = byMail[n]
          /\ byMail'[req[c].mail] = lastAccount + 1
      BY <2>1 DEF Store, Put
    <3> QED BY <3>1, <3>2 DEF IndexInv
  <2>2. CASE UNCHANGED stored
    BY <1>1, <2>2
  <2> QED BY <1>2, <2>1, <2>2 DEF CreateUser
<1> QED BY <1>1, <1>2 DEF AccountsNext, Register, LookUp, UserCount, Login, newSession,
                          Validate, TouchRead, TouchSession, Logout, Reboot

\* A request gets its account from an index or a session, its token from the client.
LEMMA NextCarry == AccountTypes /\ CarryInv /\ AccountsNext => CarryInv'
<1> SUFFICES ASSUME AccountTypes, CarryInv, AccountsNext, NEW d \in Clients
             PROVE  /\ req'[d].at \in {"session", "touch", "logout"} =>
                          req'[d].id \in 1..lastAccount'
                    /\ req'[d].at \in {"user", "touch", "logout"} =>
                          req'[d].token \in 1..lastToken'
  BY DEF CarryInv
<1> DEFINE Good == /\ req'[d].at \in {"session", "touch", "logout"} =>
                        req'[d].id \in 1..lastAccount'
                   /\ req'[d].at \in {"user", "touch", "logout"} =>
                        req'[d].token \in 1..lastToken'
<1> USE DEF stored
<1>0. /\ req[d] \in Requests /\ lastAccount \in Nat /\ lastToken \in Nat
      /\ req[d].at \in {"session", "touch", "logout"} => req[d].id \in 1..lastAccount
      /\ req[d].at \in {"user", "touch", "logout"} => req[d].token \in 1..lastToken
  BY DEF AccountTypes, CarryInv
<1>1. ASSUME req'[d] = req[d] \/ req'[d].at \notin {"session", "touch", "logout", "user"},
             lastAccount' >= lastAccount, lastToken' >= lastToken,
             lastAccount' \in Nat, lastToken' \in Nat
      PROVE  Good
  BY <1>0, <1>1
<1>2. NoReq.at = "idle"
  BY DEF NoReq
<1>3. ASSUME NEW c \in Clients, LookUp(c) \/ UserCount(c) PROVE Good
  <2>1. CASE d = c
    <3>1. \/ req'[c] = NoReq
          \/ req'[c] = [req[c] EXCEPT !.at = IF req[c].admin THEN "count" ELSE "create"]
          \/ req'[c] = [req[c] EXCEPT !.at = "create", !.first = DOMAIN accounts = {}]
      BY <1>3 DEF LookUp, UserCount, Go, AccountTypes
    <3>2. req'[c].at \in {"idle", "count", "create"}
      BY <1>0, <1>2, <2>1, <3>1 DEF Requests
    <3> QED BY <1>0, <1>1, <1>3, <2>1, <3>2 DEF LookUp, UserCount
  <2>2. CASE d # c
    BY <1>0, <1>1, <1>3, <2>2 DEF LookUp, UserCount, Go, AccountTypes
  <2> QED BY <2>1, <2>2
<1>11. ASSUME NEW c \in Clients, newSession(c) PROVE Good
  <2>1. req'[d].at = "idle" \/ req'[d] = req[d]
    BY <1>0, <1>2, <1>11 DEF newSession, Go, AccountTypes
  <2> QED BY <1>0, <1>1, <1>11, <2>1 DEF newSession
<1>12. ASSUME NEW c \in Clients, NEW n \in Logins, NEW m \in Logins, NEW admin \in BOOLEAN,
              Register(c, n, m, admin)
       PROVE  Good
  <2>1. req'[d].at = "lookup" \/ req'[d] = req[d]
    BY <1>0, <1>12 DEF Register, Go, NoReq, AccountTypes
  <2> QED BY <1>0, <1>1, <1>12, <2>1 DEF Register
<1>4. ASSUME NEW c \in Clients, CreateUser(c) PROVE Good
  <2>1. CASE Store(c) /\ UNCHANGED lastToken
    BY <1>0, <2>1, StoreRequests DEF Store
  <2>2. CASE Go(c, NoReq) /\ UNCHANGED <<lastAccount, lastToken>>
    BY <1>0, <1>1, <1>2, <2>2 DEF Go, AccountTypes
  <2> QED BY <1>4, <2>1, <2>2 DEF CreateUser
<1>5. ASSUME NEW c \in Clients, NEW n \in Logins, Login(c, n) PROVE Good
  <2>1. PICK index \in {byName, byMail} :
           n \in DOMAIN index /\ Go(c, [NoReq EXCEPT !.at = "session", !.id = index[n]])
    BY <1>5 DEF Login
  <2>2. index[n] \in 1..lastAccount
    BY <2>1 DEF AccountTypes
  <2>3. CASE d = c
    BY <1>0, <1>5, <2>1, <2>2, <2>3 DEF Login, Go, NoReq, AccountTypes
  <2>4. CASE d # c
    BY <1>0, <1>5, <2>1, <2>4 DEF Login, Go, AccountTypes
  <2> QED BY <2>3, <2>4
<1>6. ASSUME NEW c \in Clients, NEW t \in 1..lastToken, NEW exit \in BOOLEAN,
             Validate(c, t, exit)
      PROVE  Good
  <2>1. CASE req' = req
    BY <1>0, <1>6, <2>1 DEF Validate
  <2>2. CASE Go(c, [NoReq EXCEPT !.at = "user", !.token = t, !.exit = exit])
    <3>1. CASE d = c
      BY <1>0, <1>6, <2>2, <3>1 DEF Validate, Go, NoReq
    <3>2. CASE d # c
      BY <1>0, <1>6, <2>2, <3>2 DEF Validate, Go, AccountTypes
    <3> QED BY <3>1, <3>2
  <2> QED BY <1>6, <2>1, <2>2 DEF Validate
<1>7. ASSUME NEW c \in Clients, TouchRead(c) PROVE Good
  <2>1. CASE d # c
    BY <1>0, <1>7, <2>1 DEF TouchRead, Refuse, Go, AccountTypes
  <2>2. CASE d = c /\ req[c].token \notin DOMAIN tokens
    BY <1>2, <1>7, <2>2 DEF TouchRead, Refuse, Go, AccountTypes
  <2>3. CASE d = c /\ req[c].token \in DOMAIN tokens
    <3>1. tokens[req[c].token] \in 1..lastAccount
      BY <2>3 DEF AccountTypes
    <3>2. req'[d] = [req[d] EXCEPT !.at = "touch", !.id = tokens[req[c].token]]
      BY <1>7, <2>3 DEF TouchRead, Go, AccountTypes
    <3> QED BY <1>0, <1>7, <2>3, <3>1, <3>2 DEF TouchRead, Requests
  <2> QED BY <2>1, <2>2, <2>3
<1>8. ASSUME NEW c \in Clients, TouchSession(c) PROVE Good
  <2>1. CASE req[c].spoilt
    BY <1>0, <1>1, <1>2, <1>8, <2>1 DEF TouchSession, Refuse, Go, AccountTypes
  <2>2. CASE ~req[c].spoilt
    <3>1. Spoil(c, IF req[c].exit THEN [req[c] EXCEPT !.at = "logout"] ELSE NoReq)
          /\ UNCHANGED <<lastAccount, lastToken>> /\ req[c].at = "touch"
      BY <1>8, <2>2 DEF TouchSession, Touched
    <3>2. CASE d = c
      BY <1>0, <1>2, <3>1, <3>2 DEF Spoil, Requests
    <3>3. CASE d # c
      BY <1>0, <3>1, <3>3, SpoilRequests
    <3> QED BY <3>2, <3>3
  <2> QED BY <2>1, <2>2
<1>9. ASSUME NEW c \in Clients, Logout(c) PROVE Good
  BY <1>0, <1>2, <1>9, SpoilRequests DEF Logout
<1>10. CASE Reboot
  BY <1>0, <1>2, <1>10 DEF Reboot
<1> QED BY <1>3, <1>4, <1>5, <1>6, <1>7, <1>8, <1>9, <1>10, <1>11, <1>12 DEF AccountsNext

\* A step without an account leaves the counts as they are, or counts none.
LEMMA QuietCount ==
    ASSUME CountInv, UNCHANGED <<accounts, late, lastAccount>>,
           \A d \in Clients : req'[d].first /\ ~req'[d].raced =>
               (req[d].first /\ ~req[d].raced) \/ lastAccount = 0
    PROVE  CountInv'
BY DEF CountInv, FirstIsFirst

\* Whoever counted before the first account was made is marked when it is.
LEMMA NextCount == AccountTypes /\ CountInv /\ AccountsNext => CountInv'
<1> SUFFICES ASSUME AccountTypes, CountInv, AccountsNext PROVE CountInv'
  OBVIOUS
<1> USE DEF stored
<1>0. /\ \A d \in Clients : req[d] \in Requests
      /\ ~NoReq.first
  BY DEF AccountTypes, NoReq
<1>1. ASSUME NEW c \in Clients, UNCHANGED <<accounts, late, lastAccount>>, ~req'[c].first,
             \A d \in Clients \ {c} : req'[d] = req[d]
      PROVE  CountInv'
  <2>1. \A d \in Clients : req'[d].first /\ ~req'[d].raced => req[d].first /\ ~req[d].raced
    BY <1>1
  <2> QED BY <1>1, <2>1, QuietCount
<1>2. ASSUME NEW c \in Clients, NEW n \in Logins, NEW m \in Logins, NEW admin \in BOOLEAN,
             Register(c, n, m, admin)
      PROVE  CountInv'
  <2>1. ~req'[c].first /\ \A d \in Clients \ {c} : req'[d] = req[d]
    BY <1>2 DEF Register, Go, NoReq, AccountTypes
  <2> QED BY <1>1, <1>2, <2>1 DEF Register
<1>3. ASSUME NEW c \in Clients, LookUp(c) \/ UserCount(c) \/ TouchRead(c) PROVE CountInv'
  <2>1. \A d \in Clients \ {c} : req'[d] = req[d]
    BY <1>3 DEF LookUp, UserCount, TouchRead, Refuse, Go, AccountTypes
  <2>2. \/ req'[c] = NoReq
        \/ req'[c] = [req[c] EXCEPT !.at = IF req[c].admin THEN "count" ELSE "create"]
        \/ req'[c] = [req[c] EXCEPT !.at = "touch", !.id = tokens[req[c].token]]
        \/ req'[c] = [req[c] EXCEPT !.at = "create", !.first = DOMAIN accounts = {}]
    BY <1>3 DEF LookUp, UserCount, TouchRead, Refuse, Go, AccountTypes
  <2>3. DOMAIN accounts = {} => lastAccount = 0
    BY DEF AccountTypes
  <2>4. req'[c].first /\ ~req'[c].raced => (req[c].first /\ ~req[c].raced) \/ lastAccount = 0
    BY <1>0, <2>2, <2>3 DEF Requests
  <2> QED BY <1>3, <2>1, <2>4, QuietCount DEF LookUp, UserCount, TouchRead
<1>4. ASSUME NEW c \in Clients, CreateUser(c) PROVE CountInv'
  <2>1. CASE Store(c)
    <3>1. \A d \in Clients : req'[d].first => req'[d].raced
      BY <2>1, StoreRequests
    <3>2. /\ DOMAIN accounts' = DOMAIN accounts \cup {lastAccount + 1}
          /\ \A id \in DOMAIN accounts : id # lastAccount + 1 /\ accounts'[id] = accounts[id]
          /\ accounts'[lastAccount + 1].first = req[c].first
          /\ late' = IF req[c].raced THEN late \cup {lastAccount + 1} ELSE late
      BY <2>1 DEF Store, Put, AccountTypes
    <3>3. req[c].first /\ ~req[c].raced => lastAccount + 1 = 1
      BY DEF CountInv
    <3> QED BY <3>1, <3>2, <3>3 DEF CountInv, FirstIsFirst
  <2>2. CASE Go(c, NoReq) /\ UNCHANGED stored
    BY <1>0, <1>1, <2>2 DEF Go, AccountTypes
  <2> QED BY <1>4, <2>1, <2>2 DEF CreateUser
<1>5. ASSUME NEW c \in Clients, NEW n \in Logins, Login(c, n) PROVE CountInv'
  <2>1. ~req'[c].first /\ \A d \in Clients \ {c} : req'[d] = req[d]
    BY <1>5 DEF Login, Go, NoReq, AccountTypes
  <2> QED BY <1>1, <1>5, <2>1 DEF Login
<1>11. ASSUME NEW c \in Clients, newSession(c) PROVE CountInv'
  <2>1. ~req'[c].first /\ \A d \in Clients \ {c} : req'[d] = req[d]
    BY <1>0, <1>11 DEF newSession, Go, AccountTypes
  <2> QED BY <1>1, <1>11, <2>1 DEF newSession
<1>6. ASSUME NEW c \in Clients, NEW t \in 1..lastToken, NEW exit \in BOOLEAN,
             Validate(c, t, exit)
      PROVE  CountInv'
  <2>1. CASE req' = req
    BY <1>6, <2>1, QuietCount DEF Validate
  <2>2. CASE Go(c, [NoReq EXCEPT !.at = "user", !.token = t, !.exit = exit])
    <3>1. ~req'[c].first /\ \A d \in Clients \ {c} : req'[d] = req[d]
      BY <2>2 DEF Go, NoReq, AccountTypes
    <3> QED BY <1>1, <1>6, <3>1 DEF Validate
  <2> QED BY <1>6, <2>1, <2>2 DEF Validate
<1>7. ASSUME NEW c \in Clients, NEW r, Spoil(c, r), UNCHANGED stored,
             r = NoReq \/ r = [req[c] EXCEPT !.at = "logout"]
      PROVE  CountInv'
  <2>1. r.first /\ ~r.raced => req[c].first /\ ~req[c].raced
    BY <1>0, <1>7 DEF Requests
  <2>2. \A d \in Clients : req'[d].first /\ ~req'[d].raced => req[d].first /\ ~req[d].raced
    BY <1>7, <2>1, SpoilRequests
  <2> QED BY <1>7, <2>2, QuietCount
<1>8. ASSUME NEW c \in Clients, TouchSession(c) PROVE CountInv'
  <2>1. CASE Go(c, NoReq)
    <3>1. ~req'[c].first /\ \A d \in Clients \ {c} : req'[d] = req[d]
      BY <1>0, <2>1 DEF Go, AccountTypes
    <3> QED BY <1>1, <1>8, <3>1 DEF TouchSession
  <2>2. CASE Touched(c)
    BY <1>7, <1>8, <2>2 DEF Touched, TouchSession
  <2> QED BY <1>8, <2>1, <2>2 DEF TouchSession, Refuse
<1>9. ASSUME NEW c \in Clients, Logout(c) PROVE CountInv'
  BY <1>7, <1>9 DEF Logout
<1>10. CASE Reboot
  BY <1>0, <1>10, QuietCount DEF Reboot
<1> QED BY <1>2, <1>3, <1>4, <1>5, <1>6, <1>8, <1>9, <1>10, <1>11 DEF AccountsNext

\* A step that checks no token.
LEMMA QuietToken ==
    ASSUME TokenInv, UNCHANGED <<tokens, lastToken, ended, denied, contended>>,
           \A d \in Clients :
              \/ req'[d].at = req[d].at /\ req'[d].token = req[d].token /\ req'[d].spoilt = req[d].spoilt
              \/ req'[d].at # "touch" /\ ~req'[d].spoilt
    PROVE  TokenInv'
BY DEF TokenInv, LogoutHolds, RefusedRightly

\* The session a check has read is still there when it commits, or the check is
\* refused; who is refused had logged out or met another check.
LEMMA NextToken == AccountTypes /\ CarryInv /\ TokenInv /\ AccountsNext => TokenInv'
<1> SUFFICES ASSUME AccountTypes, CarryInv, TokenInv, AccountsNext PROVE TokenInv'
  OBVIOUS
<1> USE DEF stored
<1>0. /\ \A d \in Clients : req[d] \in Requests
      /\ ~NoReq.spoilt /\ NoReq.at = "idle"
  BY DEF AccountTypes, NoReq
<1>1. ASSUME NEW c \in Clients, UNCHANGED <<tokens, lastToken, ended, denied, contended>>,
             req'[c].at # "touch" /\ ~req'[c].spoilt, \A d \in Clients \ {c} : req'[d] = req[d]
      PROVE  TokenInv'
  BY <1>1, QuietToken
<1>2. ASSUME NEW c \in Clients, NEW n \in Logins, NEW m \in Logins, NEW admin \in BOOLEAN,
             Register(c, n, m, admin)
      PROVE  TokenInv'
  <2>1. /\ req'[c].at # "touch" /\ ~req'[c].spoilt
        /\ \A d \in Clients \ {c} : req'[d] = req[d]
    BY <1>2 DEF Register, Go, NoReq, AccountTypes
  <2> QED BY <1>1, <1>2, <2>1 DEF Register
<1>3. ASSUME NEW c \in Clients, LookUp(c) \/ UserCount(c) PROVE TokenInv'
  <2>1. ~req[c].spoilt
    BY <1>3 DEF LookUp, UserCount, TokenInv
  <2>2. \/ req'[c] = NoReq
        \/ req'[c] = [req[c] EXCEPT !.at = IF req[c].admin THEN "count" ELSE "create"]
        \/ req'[c] = [req[c] EXCEPT !.at = "create", !.first = DOMAIN accounts = {}]
    BY <1>3 DEF LookUp, UserCount, Go, AccountTypes
  <2>3. req'[c].at # "touch" /\ ~req'[c].spoilt
    BY <1>0, <2>1, <2>2 DEF Requests
  <2>4. \A d \in Clients \ {c} : req'[d] = req[d]
    BY <1>3 DEF LookUp, UserCount, Go, AccountTypes
  <2> QED BY <1>1, <1>3, <2>3, <2>4 DEF LookUp, UserCount
<1>4. ASSUME NEW c \in Clients, CreateUser(c) PROVE TokenInv'
  <2>1. CASE Store(c)
    <3>1. \A d \in Clients :
             \/ req'[d].at = req[d].at /\ req'[d].token = req[d].token /\ req'[d].spoilt = req[d].spoilt
             \/ req'[d].at # "touch" /\ ~req'[d].spoilt
      <4> SUFFICES ASSUME NEW d \in Clients
                   PROVE  \/ /\ req'[d].at = req[d].at /\ req'[d].token = req[d].token
                             /\ req'[d].spoilt = req[d].spoilt
                          \/ req'[d].at # "touch" /\ ~req'[d].spoilt
        OBVIOUS
      <4> QED BY <2>1, StoreRequests
    <3> QED BY <1>4, <3>1, QuietToken DEF CreateUser
  <2>2. CASE Go(c, NoReq)
    <3>1. /\ req'[c].at # "touch" /\ ~req'[c].spoilt
          /\ \A d \in Clients \ {c} : req'[d] = req[d]
      BY <1>0, <2>2 DEF Go, AccountTypes
    <3> QED BY <1>1, <1>4, <3>1 DEF CreateUser
  <2> QED BY <1>4, <2>1, <2>2 DEF CreateUser
<1>5. ASSUME NEW c \in Clients, NEW n \in Logins, Login(c, n) PROVE TokenInv'
  <2>1. /\ req'[c].at # "touch" /\ ~req'[c].spoilt
        /\ \A d \in Clients \ {c} : req'[d] = req[d]
    BY <1>5 DEF Login, Go, NoReq, AccountTypes
  <2> QED BY <1>1, <1>5, <2>1 DEF Login
<1>6. ASSUME NEW c \in Clients, newSession(c) PROVE TokenInv'
  <2>1. /\ lastToken' = lastToken + 1 /\ DOMAIN tokens' = DOMAIN tokens \cup {lastToken + 1}
        /\ lastToken + 1 \notin ended /\ UNCHANGED <<ended, denied, contended>>
    BY <1>6 DEF newSession, Put, AccountTypes
  <2>2. /\ req'[c] = NoReq /\ \A d \in Clients \ {c} : req'[d] = req[d]
    BY <1>6 DEF newSession, Go, AccountTypes
  <2>3. 1..lastToken' \subseteq DOMAIN tokens' \cup ended'
    BY <2>1 DEF TokenInv, AccountTypes
  <2>4. LogoutHolds' /\ RefusedRightly'
    BY <2>1 DEF TokenInv, LogoutHolds, RefusedRightly
  <2> QED BY <1>0, <2>1, <2>2, <2>3, <2>4 DEF TokenInv
<1>7. ASSUME NEW c \in Clients, NEW t \in 1..lastToken, NEW exit \in BOOLEAN,
             Validate(c, t, exit)
      PROVE  TokenInv'
  <2>1. CASE t \in DOMAIN tokens
    <3>1. /\ req'[c].at # "touch" /\ ~req'[c].spoilt
          /\ \A d \in Clients \ {c} : req'[d] = req[d]
      BY <1>7, <2>1 DEF Validate, Go, NoReq, AccountTypes
    <3> QED BY <1>1, <1>7, <2>1, <3>1 DEF Validate
  <2>2. CASE t \notin DOMAIN tokens
    <3>1. t \in ended
      BY <2>2 DEF TokenInv
    <3> QED BY <1>7, <2>2, <3>1 DEF Validate, TokenInv, LogoutHolds, RefusedRightly
  <2> QED BY <2>1, <2>2
<1>8. ASSUME NEW c \in Clients, TouchRead(c) PROVE TokenInv'
  <2>1. /\ contended' = contended \cup {req[d].token : d \in
             {d \in Clients \ {c} : req[d].at = "touch" /\ req[d].token = req[c].token}}
        /\ UNCHANGED <<tokens, lastToken, ended>>
        /\ \A d \in Clients \ {c} : req'[d] = req[d]
        /\ req[c].at = "user" /\ ~req[c].spoilt
    BY <1>8 DEF TouchRead, Refuse, Go, AccountTypes, TokenInv
  <2>2. CASE req[c].token \in DOMAIN tokens
    <3>1. /\ req'[c] = [req[c] EXCEPT !.at = "touch", !.id = tokens[req[c].token]] /\ denied' = denied
      BY <1>8, <2>2 DEF TouchRead, Go, AccountTypes
    <3>2. req'[c].at = "touch" /\ req'[c].token = req[c].token /\ ~req'[c].spoilt
      BY <1>0, <2>1, <3>1 DEF Requests
    <3>3. \A d \in Clients \ {c} : req[d].at = "touch" /\ req[d].token = req[c].token =>
             req[c].token \in contended'
      BY <2>1
    <3> QED BY <2>1, <2>2, <3>1, <3>2, <3>3 DEF TokenInv, LogoutHolds, RefusedRightly
  <2>3. CASE req[c].token \notin DOMAIN tokens
    <3>1. req'[c] = NoReq /\ denied' = denied \cup {req[c].token}
      BY <1>8, <2>3 DEF TouchRead, Refuse, Go, AccountTypes
    <3>2. req[c].token \in ended
      BY <2>1, <2>3 DEF CarryInv, TokenInv
    <3> QED BY <1>0, <2>1, <3>1, <3>2 DEF TokenInv, LogoutHolds, RefusedRightly
  <2> QED BY <2>2, <2>3
<1>9. ASSUME NEW c \in Clients, TouchSession(c) PROVE TokenInv'
  <2>1. CASE req[c].spoilt
    <3>1. /\ req' = [req EXCEPT ![c] = NoReq] /\ denied' = denied \cup {req[c].token}
          /\ UNCHANGED <<tokens, lastToken, ended, contended>>
      BY <1>9, <2>1 DEF TouchSession, Refuse, Go
    <3>2. req'[c] = NoReq /\ \A d \in Clients \ {c} : req'[d] = req[d]
      BY <3>1 DEF AccountTypes
    <3>3. req[c].token \in ended \cup contended
      BY <2>1 DEF TokenInv
    <3> QED BY <1>0, <3>1, <3>2, <3>3 DEF TokenInv, LogoutHolds, RefusedRightly
  <2>2. CASE ~req[c].spoilt
    <3> DEFINE r == IF req[c].exit THEN [req[c] EXCEPT !.at = "logout"] ELSE NoReq
    <3>1. /\ Spoil(c, r) /\ UNCHANGED <<lastToken, ended, denied, contended>>
          /\ DOMAIN tokens' = DOMAIN tokens \cup {req[c].token}
          /\ req[c].at = "touch"
      BY <1>9, <2>2 DEF TouchSession, Touched, Put
    <3>2. req[c].token \in DOMAIN tokens
      BY <2>2, <3>1 DEF TokenInv
    <3>3. r.at # "touch" /\ ~r.spoilt
      BY <1>0, <2>2 DEF Requests
    <3> HIDE DEF r
    <3>4. req'[c] = r
      BY <3>1 DEF Spoil
    <3>5. \A d \in Clients \ {c} :
             /\ req'[d].at = req[d].at /\ req'[d].token = req[d].token
             /\ req'[d].spoilt = (req[d].spoilt \/ (req[d].at = "touch" /\ req[d].token = req[c].token))
      BY <3>1, SpoilRequests
    <3>6. DOMAIN tokens' = DOMAIN tokens
      BY <3>1, <3>2
    <3>7. \A d \in Clients \ {c} : req[d].at = "touch" /\ req[d].token = req[c].token =>
             req[d].token \in contended
      BY <3>1 DEF TokenInv
    <3> QED BY <3>1, <3>3, <3>4, <3>5, <3>6, <3>7 DEF TokenInv, LogoutHolds, RefusedRightly
  <2> QED BY <2>1, <2>2
<1>10. ASSUME NEW c \in Clients, Logout(c) PROVE TokenInv'
  <2>1. /\ Spoil(c, NoReq) /\ UNCHANGED <<lastToken, denied, contended>>
        /\ DOMAIN tokens' = DOMAIN tokens \ {req[c].token}
        /\ ended' = ended \cup {req[c].token}
    BY <1>10 DEF Logout
  <2>2. req'[c] = NoReq
    BY <2>1 DEF Spoil
  <2>3. \A d \in Clients \ {c} :
           /\ req'[d].at = req[d].at /\ req'[d].token = req[d].token
           /\ req'[d].spoilt = (req[d].spoilt \/ (req[d].at = "touch" /\ req[d].token = req[c].token))
    BY <2>1, SpoilRequests
  <2> QED BY <1>0, <2>1, <2>2, <2>3 DEF TokenInv, LogoutHolds, RefusedRightly
<1>11. CASE Reboot
  BY <1>0, <1>11, QuietToken DEF Reboot
<1> QED BY <1>2, <1>3, <1>4, <1>5, <1>6, <1>7, <1>8, <1>9, <1>10, <1>11 DEF AccountsNext

\* The invariant holds initially and is kept.
LEMMA AccountInvariant == AccountsSpec => []AccountInv
<1>1. AccountsInit => AccountInv
  <2> SUFFICES ASSUME AccountsInit PROVE AccountInv
    OBVIOUS
  <2>1. IndexInv /\ CarryInv /\ CountInv /\ TokenInv
    BY DEF AccountsInit, NoAccounts, NoReq, IndexInv, CarryInv, CountInv, FirstIsFirst,
           TokenInv, LogoutHolds, RefusedRightly
  <2> QED BY <2>1, AccountsInitTypes DEF AccountInv
<1>2. AccountInv /\ [AccountsNext]_accountVars => AccountInv'
  <2> SUFFICES ASSUME AccountInv, [AccountsNext]_accountVars PROVE AccountInv'
    OBVIOUS
  <2>1. CASE AccountsNext
    BY <2>1, NextAccountTypes, NextIndex, NextCarry, NextCount, NextToken DEF AccountInv
  <2>2. CASE UNCHANGED accountVars
    BY <2>2 DEF accountVars, AccountInv, AccountTypes, IndexInv, CarryInv, CountInv,
                FirstIsFirst, TokenInv, LogoutHolds, RefusedRightly
  <2> QED BY <2>1, <2>2
<1> QED BY <1>1, <1>2, PTL DEF AccountsSpec

\* However many registrations race past each other's lookups, and wherever the
\* process stops, a name and an address lead to one account, the account of a
\* token exists, and only the first is made an admin for being the first unless
\* it was overtaken after counting (auth.go; storage/users.go, CreateUser).
THEOREM AccountsStaySound == AccountsSpec => []AccountsSound
<1>1. AccountInv => AccountsSound
  BY DEF AccountInv, AccountTypes, IndexInv, CountInv, AccountsSound, LoginUnambiguous
<1> QED BY <1>1, AccountInvariant, PTL

\* A logged-out token never comes back, whichever checks had read its session,
\* and only an overlap with another check refuses one that was not logged out
\* (storage/sessions.go, TouchSession and DeleteSession).
THEOREM TokensStayHonoured == AccountsSpec => []TokensHonoured
<1>1. AccountInv => TokensHonoured
  BY DEF AccountInv, TokenInv, TokensHonoured
<1> QED BY <1>1, AccountInvariant, PTL

-----------------------------------------------------------------------------
(* Settings *)

Objects == UNION {[fs -> Values] : fs \in SUBSET Fields}

PatchRequests == [at : {"none", "merge", "status", "tell"}, patch : Objects,
                  read : Objects, stale : BOOLEAN]

SettingTypes ==
  /\ settings \in [Fields -> Values]
  /\ patching \in [Patchers -> PatchRequests]
  /\ \A p \in Patchers : patching[p].at = "merge" => patching[p].read \in [Fields -> Values]

\* Request p sets key f.
Sets(p, f) == f \in DOMAIN patching[p].patch

\* SettingsAgree made inductive, per key: who is the only one to set it, what
\* its request has done so far, and that a merge that nobody outran read what
\* is stored.
KeyInv(f) ==
  /\ \A p, q \in Patchers : Sets(p, f) /\ Sets(q, f) => p = q
  /\ \A p \in Patchers : Sets(p, f) =>
       /\ patching[p].at \in {"status", "tell"} => settings[f] = patching[p].patch[f]
       /\ patching[p].at = "tell" /\ f = "status" => relayed = settings[f]
  /\ (\A p \in Patchers : ~Sets(p, f)) =>
       rendered[f] = settings[f] /\ (f = "status" => relayed = settings[f])

SettingInv ==
  /\ SettingTypes
  /\ \A p \in Patchers :
       /\ patching[p].at = "none" => DOMAIN patching[p].patch = {}
       /\ patching[p].at = "merge" /\ ~patching[p].stale =>
            \A f \in Fields : patching[p].read[f] = settings[f]
  /\ \A f \in Fields \ tangled : KeyInv(f)

\* What a request sends is merged into an object of the same keys.
LEMMA OverlayType ==
    ASSUME NEW new \in Objects, NEW old \in [Fields -> Values]
    PROVE  Overlay(new, old) \in [Fields -> Values]
<1>1. PICK fs \in SUBSET Fields : new \in [fs -> Values]
  BY DEF Objects
<1> QED BY <1>1 DEF Overlay

\* A request that only moves on.
LEMMA ProceedRequest ==
    ASSUME SettingTypes, NEW p \in Patchers, NEW at \in {"status", "tell"},
           Proceed(p, at), settings' = settings
    PROVE  /\ SettingTypes'
           /\ patching'[p].at = at
           /\ \A q \in Patchers : /\ q # p => patching'[q] = patching[q]
                                  /\ patching'[q].patch = patching[q].patch
<1>1. /\ patching' = [patching EXCEPT ![p].at = at] /\ patching \in [Patchers -> PatchRequests]
  BY DEF SettingTypes, Proceed
<1>2. /\ \A q \in Patchers \ {p} : patching'[q] = patching[q]
      /\ patching'[p] = [patching[p] EXCEPT !.at = at]
  BY <1>1
<1>3. /\ patching'[p] \in PatchRequests /\ patching'[p].at = at
      /\ patching'[p].patch = patching[p].patch
  BY <1>1, <1>2 DEF PatchRequests
<1> QED BY <1>1, <1>2, <1>3 DEF SettingTypes

\* What a committed merge does to the requests.
LEMMA MergedRequests ==
    ASSUME SettingTypes, NEW p \in Patchers, NEW object \in [Fields -> Values],
           Merged(p, object)
    PROVE  /\ SettingTypes'
           /\ patching'[p].at = "status"
           /\ \A q \in Patchers : /\ q # p => patching'[q].at = patching[q].at
                                  /\ q # p /\ patching[q].at = "merge" => patching'[q].stale
                                  /\ patching'[q].patch = patching[q].patch
<1>1. ASSUME NEW q \in Patchers, q # p
      PROVE  /\ patching'[q].at = patching[q].at /\ patching'[q].patch = patching[q].patch
             /\ patching'[q].read = patching[q].read
             /\ patching[q].at = "merge" => patching'[q].stale
             /\ patching'[q] \in PatchRequests
  <2>1. patching'[q] = [patching[q] EXCEPT !.stale = @ \/ patching[q].at = "merge"]
    BY <1>1 DEF Merged
  <2>2. patching[q] \in PatchRequests
    BY DEF SettingTypes
  <2>3. /\ patching'[q].at = patching[q].at /\ patching'[q].patch = patching[q].patch
        /\ patching'[q].read = patching[q].read
        /\ patching'[q].stale = (patching[q].stale \/ patching[q].at = "merge")
    BY <2>1, <2>2 DEF PatchRequests
  <2>4. patching'[q] \in PatchRequests
    BY <2>1, <2>2 DEF PatchRequests
  <2> QED BY <2>3, <2>4
<1>2. /\ patching'[p].at = "status" /\ patching'[p].patch = patching[p].patch
      /\ patching'[p] \in PatchRequests
  BY DEF Merged, SettingTypes, PatchRequests
<1>3. settings' \in [Fields -> Values] /\ patching' = [q \in Patchers |-> patching'[q]]
  BY DEF Merged
<1> QED BY <1>1, <1>2, <1>3 DEF SettingTypes

\* What remains to be shown of a step, key by key.
LEMMA KeyByKey ==
    ASSUME SettingTypes',
           \A p \in Patchers :
              /\ patching'[p].at = "none" => DOMAIN patching'[p].patch = {}
              /\ patching'[p].at = "merge" /\ ~patching'[p].stale =>
                   \A f \in Fields : patching'[p].read[f] = settings'[f],
           \A f \in Fields \ tangled' : KeyInv(f)'
    PROVE  SettingInv'
BY DEF SettingInv

\* Every step of a request keeps the invariant of every key that is not tangled.
LEMMA NextSetting == SettingInv /\ SettingsNext => SettingInv'
<1> SUFFICES ASSUME SettingInv, SettingsNext PROVE SettingInv'
  OBVIOUS
<1>0. /\ SettingTypes
      /\ \A p \in Patchers :
           /\ patching[p].at = "none" => DOMAIN patching[p].patch = {}
           /\ patching[p].at = "merge" /\ ~patching[p].stale =>
                \A f \in Fields : patching[p].read[f] = settings[f]
      /\ \A f \in Fields \ tangled : KeyInv(f)
  BY DEF SettingInv
<1>a. Unused \in PatchRequests /\ Unused.at = "none" /\ DOMAIN Unused.patch = {}
  <2>1. [f \in {} |-> 0] \in [{} -> Values] /\ {} \in SUBSET Fields
    OBVIOUS
  <2>2. [f \in {} |-> 0] \in Objects
    BY <2>1 DEF Objects
  <2> QED BY <2>2 DEF Unused, PatchRequests
<1>1. ASSUME NEW p \in Patchers, NEW patch \in Patches, handleSettingsPatch(p, patch)
      PROVE  SettingInv'
  <2>1. /\ UNCHANGED <<settings, rendered, relayed>> /\ patching[p] = Unused
        /\ patching' = [patching EXCEPT ![p] =
              [at |-> "merge", patch |-> patch, read |-> settings, stale |-> FALSE]]
        /\ tangled' = tangled \cup
              (DOMAIN patch \cap UNION {DOMAIN patching[q].patch : q \in Patchers})
    BY <1>1 DEF handleSettingsPatch
  <2>2. patch \in Objects /\ settings \in Objects /\ settings \in [Fields -> Values]
    BY <1>0 DEF Patches, Objects, SettingTypes
  <2>3. /\ patching'[p] = [at |-> "merge", patch |-> patch, read |-> settings, stale |-> FALSE]
        /\ \A q \in Patchers \ {p} : patching'[q] = patching[q]
    BY <1>0, <2>1 DEF SettingTypes
  <2>4. SettingTypes'
    BY <1>0, <2>1, <2>2, <2>3 DEF SettingTypes, PatchRequests
  <2>5. \A f : ~Sets(p, f)
    BY <1>a, <2>1 DEF Sets
  <2>6. \A q \in Patchers : \A f : f \in DOMAIN patch /\ Sets(q, f) => f \in tangled'
    BY <2>1 DEF Sets
  <2>7. /\ \A f : Sets(p, f)' <=> f \in DOMAIN patch
        /\ \A q \in Patchers \ {p} : \A f : Sets(q, f)' <=> Sets(q, f)
    BY <2>3 DEF Sets
  <2>8. ASSUME NEW f \in Fields \ tangled' PROVE KeyInv(f)'
    <3>1. KeyInv(f)
      BY <1>0, <2>1, <2>8
    <3> QED BY <2>1, <2>3, <2>5, <2>6, <2>7, <2>8, <3>1 DEF KeyInv
  <2> QED BY <1>0, <2>1, <2>3, <2>4, <2>8, KeyByKey
<1>2. ASSUME NEW p \in Patchers, MergeUserSettings(p), ~patching[p].stale PROVE SettingInv'
  <2> DEFINE object == Overlay(patching[p].patch, patching[p].read)
  <2>1. /\ patching[p].at = "merge" /\ Merged(p, object) /\ settings' = object
        /\ UNCHANGED <<rendered, relayed, tangled>>
    BY <1>2 DEF MergeUserSettings, Merged
  <2>2. patching[p].patch \in Objects /\ patching[p].read \in [Fields -> Values]
    BY <1>0, <2>1 DEF SettingTypes, PatchRequests
  <2>3. object \in [Fields -> Values]
    BY <2>2, OverlayType
  <2>4. \A f \in Fields : settings'[f] = IF Sets(p, f) THEN patching[p].patch[f] ELSE settings[f]
    BY <1>0, <1>2, <2>1 DEF Overlay, Sets
  <2> HIDE DEF object
  <2>5. /\ SettingTypes'
        /\ patching'[p].at = "status"
        /\ \A q \in Patchers : /\ q # p => patching'[q].at = patching[q].at
                               /\ q # p /\ patching[q].at = "merge" => patching'[q].stale
                               /\ patching'[q].patch = patching[q].patch
    BY <1>0, <2>1, <2>3, MergedRequests
  <2>6. ASSUME NEW f \in Fields \ tangled' PROVE KeyInv(f)'
    <3>1. KeyInv(f)
      BY <1>0, <2>1, <2>6
    <3>2. \A q \in Patchers : Sets(q, f)' <=> Sets(q, f)
      BY <2>5 DEF Sets
    <3> QED BY <2>1, <2>4, <2>5, <3>1, <3>2 DEF KeyInv
  <2> QED BY <1>0, <2>5, <2>6, KeyByKey
<1>3. ASSUME NEW p \in Patchers, MergeUserSettings(p), patching[p].stale PROVE SettingInv'
  <2>1. /\ Proceed(p, "status") /\ UNCHANGED <<settings, rendered, relayed>>
        /\ tangled' = tangled \cup DOMAIN patching[p].patch
    BY <1>3 DEF MergeUserSettings
  <2>2. /\ SettingTypes' /\ patching'[p].at = "status"
        /\ \A q \in Patchers : /\ q # p => patching'[q] = patching[q]
                               /\ patching'[q].patch = patching[q].patch
    BY <1>0, <2>1, ProceedRequest
  <2>3. ASSUME NEW f \in Fields \ tangled' PROVE KeyInv(f)'
    <3>1. KeyInv(f) /\ ~Sets(p, f)
      BY <1>0, <2>1, <2>3 DEF Sets
    <3>2. \A q \in Patchers : Sets(q, f)' <=> Sets(q, f)
      BY <2>2 DEF Sets
    <3> QED BY <2>1, <2>2, <3>1, <3>2 DEF KeyInv
  <2> QED BY <1>0, <2>1, <2>2, <2>3, KeyByKey
<1>4. ASSUME NEW p \in Patchers, RelayStatus(p) PROVE SettingInv'
  <2>1. /\ Proceed(p, "tell") /\ UNCHANGED <<settings, rendered, tangled>>
        /\ patching[p].at = "status"
        /\ relayed' = IF Sets(p, "status") THEN patching[p].patch["status"] ELSE relayed
    BY <1>4 DEF RelayStatus, Sets
  <2>2. /\ SettingTypes' /\ patching'[p].at = "tell"
        /\ \A q \in Patchers : /\ q # p => patching'[q] = patching[q]
                               /\ patching'[q].patch = patching[q].patch
    BY <1>0, <2>1, ProceedRequest
  <2>3. ASSUME NEW f \in Fields \ tangled' PROVE KeyInv(f)'
    <3>1. KeyInv(f)
      BY <1>0, <2>1, <2>3
    <3>2. \A q \in Patchers : Sets(q, f)' <=> Sets(q, f)
      BY <2>2 DEF Sets
    <3> QED BY <2>1, <2>2, <3>1, <3>2 DEF KeyInv
  <2> QED BY <1>0, <2>1, <2>2, <2>3, KeyByKey
<1>5. ASSUME NEW p \in Patchers, TellSettings(p) PROVE SettingInv'
  <2>1. /\ UNCHANGED <<settings, relayed, tangled>> /\ patching[p].at = "tell"
        /\ patching' = [patching EXCEPT ![p] = Unused]
        /\ \A f \in Fields : rendered'[f] =
              IF Sets(p, f) THEN patching[p].patch[f] ELSE rendered[f]
    BY <1>5 DEF TellSettings, Overlay, Sets
  <2>2. patching'[p] = Unused /\ \A q \in Patchers \ {p} : patching'[q] = patching[q]
    BY <1>0, <2>1 DEF SettingTypes
  <2>3. SettingTypes'
    BY <1>0, <1>a, <2>1, <2>2 DEF SettingTypes
  <2>4. ASSUME NEW f \in Fields \ tangled' PROVE KeyInv(f)'
    <3>1. KeyInv(f)
      BY <1>0, <2>1, <2>4
    <3>2. /\ ~Sets(p, f)' /\ \A q \in Patchers \ {p} : Sets(q, f)' <=> Sets(q, f)
      BY <1>a, <2>2 DEF Sets
    <3> QED BY <2>1, <2>2, <3>1, <3>2 DEF KeyInv
  <2> QED BY <1>0, <1>a, <2>1, <2>2, <2>3, <2>4, KeyByKey
<1>6. CASE Reload
  <2>1. /\ rendered' = settings /\ relayed' = settings["status"]
        /\ UNCHANGED <<settings, patching>> /\ \A p \in Patchers : patching[p] = Unused
    BY <1>6 DEF Reload
  <2>2. \A p \in Patchers : \A f : ~Sets(p, f)'
    BY <1>a, <2>1 DEF Sets
  <2>3. SettingTypes' /\ \A f \in Fields : KeyInv(f)'
    BY <1>0, <2>1, <2>2 DEF SettingTypes, KeyInv
  <2> QED BY <1>0, <2>1, <2>3, KeyByKey
<1> QED BY <1>1, <1>2, <1>3, <1>4, <1>5, <1>6 DEF SettingsNext

\* However requests overlap and merges are refused, what the sessions show and
\* IRC was told is what is stored, key by key, unless two requests on the key
\* overlapped or its merge was refused (rest/stubs.go, storage/settings.go).
THEOREM SettingsStayInAgreement == SettingsSpec => []SettingsAgree
<1>1. SettingsInit => SettingInv
  <2> SUFFICES ASSUME SettingsInit PROVE SettingInv
    OBVIOUS
  <2>1. \A p \in Patchers : patching[p] = Unused
    BY DEF SettingsInit
  <2>2. [f \in {} |-> 0] \in [{} -> Values] /\ {} \in SUBSET Fields
    OBVIOUS
  <2>3. [f \in {} |-> 0] \in Objects
    BY <2>2 DEF Objects
  <2>4. Unused \in PatchRequests /\ Unused.at = "none" /\ DOMAIN Unused.patch = {}
    BY <2>3 DEF Unused, PatchRequests
  <2>5. SettingTypes
    BY <2>1, <2>4, SettingsAssumption DEF SettingsInit, SettingTypes
  <2>6. \A p \in Patchers : \A f : ~Sets(p, f)
    BY <2>1, <2>4 DEF Sets
  <2>7. \A f \in Fields : KeyInv(f)
    BY <2>6 DEF SettingsInit, KeyInv
  <2> QED BY <2>1, <2>4, <2>5, <2>7 DEF SettingInv
<1>2. SettingInv /\ [SettingsNext]_settingVars => SettingInv'
  <2> SUFFICES ASSUME SettingInv, [SettingsNext]_settingVars PROVE SettingInv'
    OBVIOUS
  <2>1. CASE UNCHANGED settingVars
    BY <2>1 DEF settingVars, SettingInv, SettingTypes, KeyInv, Sets
  <2> QED BY <2>1, NextSetting
<1>3. SettingInv => SettingsAgree
  BY DEF SettingInv, KeyInv, Sets, SettingsAgree
<1> QED BY <1>1, <1>2, <1>3, PTL DEF SettingsSpec

-----------------------------------------------------------------------------
(* The web client's mirror *)

Reads == [at : {"idle", "heal", "read", "probe", "recall", "fetch", "last", "write"},
          name : Names, queue : Seq(1..Sibling), sibling : BOOLEAN]

\* The variables of Mirror; a request that writes knows where from.
MirrorTypes ==
  /\ holds \in [1..Sibling -> SUBSET Names] /\ hasPage \subseteq Scrapes
  /\ \A b \in Scrapes : holds[b] \subseteq {Chunk0, b}
  /\ page \in [of : Names, whole : BOOLEAN] /\ file \in [Names -> {"none", "torn", "whole"}]
  /\ donors \in [Names -> {Unknown, Nowhere, Later} \cup (1..Sibling)]
  /\ synced \subseteq Scrapes /\ pin \in Scrapes /\ build \in Names /\ todo \in Seq(Scrapes)
  /\ phase \in {"off", "check", "resolve", "try", "unmark", "extract", "sweep", "serve"}
  /\ phase \in {"unmark", "extract"} => todo # <<>>
  /\ phase = "extract" => rest \subseteq Entries(Head(todo))
  /\ phase = "sweep" => rest \subseteq Names
  /\ reading \in [Readers -> Reads]
  /\ \A r \in Readers : reading[r].at = "write" => reading[r].queue # <<>>

\* Requests come when the build is served; who works on a missing file holds
\* the lock, and the file is not complete.
Healing == {"probe", "recall", "fetch", "last", "write"}
HealInv ==
  /\ phase # "serve" => \A r \in Readers : reading[r].at = "idle"
  /\ \A r \in Readers : reading[r].at \in Healing => healLock = {r} /\ file[reading[r].name] # "whole"

\* A marker is backed, and whoever may write its files knows better: an
\* extraction starts from nothing, with no markers, and writes what its scrape
\* holds; a sweep asks only for what is not complete.
MarkerInv ==
  /\ MarkerBacked
  /\ phase = "unmark" => \A n \in Names : file[n] = "none"
  /\ phase = "extract" => /\ synced = {}
                          /\ \A n \in Names : /\ file[n] # "torn"
                                              /\ n \notin {Chunk0, Head(todo)} => file[n] = "none"
  /\ phase = "sweep" => \A n \in rest : file[n] # "whole"

\* No scrape of the branch has the file.
Unheld(n) == \A b \in Scrapes : n \notin holds[b]
Waits(q, b) == \E i \in 1..Len(q) : q[i] = b

\* What a request knows when it goes on: once the branch's donors were asked
\* for, every scrape at which the name ends is still in its queue.
Knows(x) ==
  \/ x.name \in unlucky
  \/ /\ x.at = "probe" /\ x.sibling => Unheld(x.name)
     /\ x.at = "fetch" => x.sibling /\ \A b \in Turns(x.name) : x.name \in holds[b] => Waits(x.queue, b)
     /\ x.at = "last" => x.queue # <<>> /\ Unheld(x.name) /\ x.name \in holds[Head(x.queue)]
     /\ x.at \in {"heal", "recall"} => ~x.sibling
DonorInv == VerdictEarned /\ \A r \in Readers : Knows(reading[r])

MirrorInv == MirrorTypes /\ HealInv /\ MarkerInv /\ DonorInv

-----------------------------------------------------------------------------
\* The three words of donors.json differ.
LEMMA WordsDiffer == Unknown # Nowhere /\ Unknown # Later /\ Nowhere # Later
<1> DEFINE S == {Unknown, Nowhere, Later}
<1>1. Cardinality(S) = 3 BY MirrorAssumption
<1>2. ASSUME NEW x, NEW y PROVE Cardinality({x, y}) # 3
  <2>1. IsFiniteSet({x}) /\ Cardinality({x}) = 1 BY FS_Singleton
  <2>2. Cardinality({x} \cup {y}) = IF y \in {x} THEN Cardinality({x}) ELSE Cardinality({x}) + 1
    BY <2>1, FS_AddElement
  <2>3. Cardinality({x} \cup {y}) # 3 BY <2>1, <2>2
  <2>4. {x} \cup {y} = {x, y} OBVIOUS
  <2> QED BY <2>3, <2>4
<1>3. ASSUME Unknown = Nowhere PROVE FALSE
  <2>1. S = {Unknown, Later} BY <1>3
  <2> QED BY <2>1, <1>1, <1>2, Zenon
<1>4. ASSUME Unknown = Later PROVE FALSE
  <2>1. S = {Unknown, Nowhere} BY <1>4
  <2> QED BY <2>1, <1>1, <1>2, Zenon
<1>5. ASSUME Nowhere = Later PROVE FALSE
  <2>1. S = {Unknown, Nowhere} BY <1>5
  <2> QED BY <2>1, <1>1, <1>2, Zenon
<1> QED BY <1>3, <1>4, <1>5

\* The bounds of the names and scrapes.
LEMMA Bounds ==
  /\ Builds \in Nat \ {0} /\ Sibling \in Nat /\ Scrapes \subseteq Names /\ Scrapes \subseteq 1..Sibling
  /\ Sibling \in 1..Sibling /\ Sibling \notin Scrapes /\ PageEntry \notin Names /\ 0 \in Names /\ Chunk0 = 0
  /\ \A b \in 1..Sibling : b \notin {Unknown, Nowhere, Later}
BY MirrorAssumption DEF Sibling, Scrapes, Names, PageEntry, Chunk0

\* The candidates are scrapes.
LEMMA CandidatesType == MirrorTypes => Candidates \in Seq(Scrapes)
<1> SUFFICES ASSUME MirrorTypes PROVE Candidates \in Seq(Scrapes) OBVIOUS
<1>1. pin \in 1..Builds /\ Builds \in Nat BY Bounds DEF MirrorTypes, Scrapes
<1>2. Builds - pin + 1 \in Nat BY <1>1
<1>3. \A i \in 1..(Builds - pin + 1) : pin + i - 1 \in Scrapes BY <1>1 DEF Scrapes
<1>4. Candidates \in [1..(Builds - pin + 1) -> Scrapes] BY <1>3 DEF Candidates
<1> QED BY <1>2, <1>4, SeqDef

\* What is missing is a name of the build, and not complete.
LEMMA MissingType == MirrorTypes => Missing \subseteq Names /\ \A n \in Missing : file[n] = "none"
<1> SUFFICES ASSUME MirrorTypes PROVE Missing \subseteq Names /\ \A n \in Missing : file[n] = "none" OBVIOUS
<1>1. page.of \in Names /\ Chunk0 \in Names BY Bounds DEF MirrorTypes
<1> QED BY <1>1 DEF Missing

\* Entries of a tarball are names of its scrape, or the page.
LEMMA EntriesType ==
  ASSUME MirrorTypes, NEW b \in Scrapes, NEW e \in Entries(b)
  PROVE  e = PageEntry \/ (e # PageEntry /\ e \in Names /\ e \in {Chunk0, b})
<1>1. b \in 1..Sibling /\ holds[b] \subseteq {Chunk0, b} /\ Chunk0 \in Names /\ b \in Names BY Bounds DEF MirrorTypes
<1> QED BY <1>1 DEF Entries

\* The queue of a findDonors answer covers the turns.
LEMMA DonorsCover ==
  ASSUME MirrorTypes, NEW n \in Names, NEW q \in findDonors(n)
  PROVE  q \in Seq(1..Sibling) /\ \A b \in Turns(n) : Waits(q, b)
<1> DEFINE T == Turns(n)  k == Cardinality(T)
<1>1. IsFiniteSet(T) /\ k \in Nat
  <2>1. Builds \in Int /\ 1 \in Int BY Bounds
  <2>2. IsFiniteSet(1..Builds) BY <2>1, FS_Interval
  <2>3. T \subseteq 1..Builds BY DEF Turns, Scrapes
  <2> QED BY <2>2, <2>3, FS_Subset, FS_CardinalityType
<1>2. q \in [1..k -> T] /\ \A i, j \in 1..k : i < j => q[i] < q[j] BY DEF findDonors
<1>3. \A x \in T : x \in 1..Sibling /\ x \in Int BY Bounds DEF Turns, Scrapes
<1>4. Len(q) = k /\ q \in Seq(1..Sibling)
  <2>1. q \in [1..k -> 1..Sibling] BY <1>2, <1>3
  <2>2. q \in Seq(1..Sibling)
    <3> HIDE DEF k
    <3>1. k \in Nat /\ q \in [1..k -> 1..Sibling] BY <2>1, <1>1
    <3>2. \E l \in Nat : q \in [1..l -> 1..Sibling] BY <3>1, Zenon
    <3> QED BY <3>2, SeqDef
  <2> QED BY <2>1, <2>2, <1>1, LenProperties, SMT
<1>5. q \in Injection(1..k, T)
  <2>1. ASSUME NEW i \in 1..k, NEW j \in 1..k, q[i] = q[j] PROVE i = j
    <3>1. q[i] \in Int /\ q[j] \in Int BY <1>2, <1>3
    <3>2. ~(i < j) BY <3>1, <2>1, <1>2
    <3>3. ~(j < i) BY <3>1, <2>1, <1>2
    <3> QED BY <3>2, <3>3, <1>1
  <2> QED BY <1>2, <2>1 DEF Injection, IsInjective
<1>6. IsFiniteSet(1..k) /\ Cardinality(1..k) = k
  <2>1. IsFiniteSet(1..k) /\ Cardinality(1..k) = IF 1 > k THEN 0 ELSE k - 1 + 1 BY <1>1, FS_Interval
  <2> QED BY <2>1, <1>1
<1>7. q \in Surjection(1..k, T)
  <2> HIDE DEF T, k
  <2>1. Cardinality(T) = k BY DEF k
  <2> QED BY <1>1, <1>5, <1>6, <2>1, FS_Injection
<1>8. \A b \in T : \E i \in 1..k : q[i] = b BY <1>7 DEF Surjection
<1> QED BY <1>4, <1>8 DEF Waits

\* A name some scrape of the branch has ends at one of its turns.
LEMMA LastTurn ==
  ASSUME MirrorTypes, NEW n \in Names, NEW b0 \in Scrapes, n \in holds[b0]
  PROVE  \E c \in Turns(n) : n \in holds[c]
<1> DEFINE D == {d \in Nat : d < Builds /\ n \in holds[Builds - d]}
<1>1. Builds \in Nat /\ b0 \in 1..Builds BY Bounds DEF Scrapes
<1>2. D \subseteq Nat /\ Builds - b0 \in D
  <2>1. Builds - b0 \in Nat /\ Builds - b0 < Builds /\ Builds - (Builds - b0) = b0 BY <1>1
  <2> QED BY <2>1
<1>3. PICK d \in D : \A y \in D : ~(y < d)
  <2> DEFINE R == OpToRel(<, Nat)
  <2>1. IsWellFoundedOn(R, Nat) BY NatLessThanWellFounded
  <2>2. \A x, y \in Nat : x < y => <<x, y>> \in R BY DEF OpToRel
  <2> HIDE DEF R, D
  <2>3. \E d \in D : \A y \in D : ~(<<y, d>> \in R) BY <1>2, <2>1, WFMin
  <2> QED BY <2>2, <2>3, <1>2
<1> DEFINE c == Builds - d
<1>4. d \in Nat /\ d < Builds /\ n \in holds[c] BY <1>3
<1>5. c \in Scrapes BY <1>1, <1>4 DEF Scrapes
<1>6. ASSUME c < Builds, n \in holds[c + 1] PROVE FALSE
  <2>1. d - 1 \in Nat /\ d - 1 < Builds /\ Builds - (d - 1) = c + 1 BY <1>1, <1>4, <1>6
  <2>2. d - 1 \in D BY <2>1, <1>6
  <2> QED BY <2>2, <1>3, <1>4
<1>7. c \in Turns(n) BY <1>4, <1>5, <1>6 DEF Turns
<1> QED BY <1>7, <1>4

-----------------------------------------------------------------------------
\* The first states are typed.
LEMMA MirrorTypesStart == MirrorInit => MirrorTypes
<1> SUFFICES ASSUME MirrorInit PROVE MirrorTypes OBVIOUS
<1> USE DEF MirrorInit
<1>1. holds \in [1..Sibling -> SUBSET Names] /\ hasPage \subseteq Scrapes
      /\ \A b \in Scrapes : holds[b] \subseteq {Chunk0, b}
  OBVIOUS
<1>2. page \in [of : Names, whole : BOOLEAN] /\ file \in [Names -> {"none", "torn", "whole"}]
  BY Bounds
<1>3. donors \in [Names -> {Unknown, Nowhere, Later} \cup (1..Sibling)] /\ synced \subseteq Scrapes
  OBVIOUS
<1>4. pin \in Scrapes /\ build \in Names /\ todo \in Seq(Scrapes) BY Bounds DEF Scrapes
<1>5. NoRead \in Reads BY Bounds DEF NoRead, Reads
<1>6. reading \in [Readers -> Reads] /\ \A r \in Readers : reading[r].at = "idle"
  BY <1>5 DEF NoRead
<1> QED BY <1>1, <1>2, <1>3, <1>4, <1>6 DEF MirrorTypes

\* What the requests do not touch.
StillTypes ==
  /\ UNCHANGED <<holds, hasPage, page, synced, phase, pin, build, todo, rest>>
  /\ file' \in [Names -> {"none", "torn", "whole"}]
  /\ donors' \in [Names -> {Unknown, Nowhere, Later} \cup (1..Sibling)]
  /\ reading' \in [Readers -> Reads]
  /\ \A r \in Readers : reading'[r].at = "write" => reading'[r].queue # <<>>

\* A request's step keeps the types when its own variables stay typed.
LEMMA StillTypesKept == MirrorTypes /\ StillTypes => MirrorTypes'
BY DEF MirrorTypes, StillTypes, Entries, Scrapes, Names

\* A request's new record, all others as they were.
LEMMA ReadingMoves ==
  ASSUME MirrorTypes, NEW r \in Readers, NEW x \in Reads,
         x.at = "write" => x.queue # <<>>, reading' = [reading EXCEPT ![r] = x]
  PROVE  /\ reading' \in [Readers -> Reads] /\ reading'[r] = x
         /\ \A s \in Readers : s # r => reading'[s] = reading[s]
         /\ \A s \in Readers : reading'[s].at = "write" => reading'[s].queue # <<>>
BY DEF MirrorTypes

\* A request that goes elsewhere.
LEMMA ToMoves ==
  ASSUME MirrorTypes, NEW r \in Readers, NEW at \in {"read", "probe", "write"}, To(r, at),
         at = "write" => reading[r].queue # <<>>
  PROVE  \E x \in Reads : /\ x.at = at /\ x.name = reading[r].name /\ x.queue = reading[r].queue
                          /\ x.sibling = reading[r].sibling
                          /\ reading' = [reading EXCEPT ![r] = x]
<1> DEFINE x == [reading[r] EXCEPT !.at = at]
<1>1. reading[r] \in Reads BY DEF MirrorTypes
<1>2. x \in Reads BY <1>1 DEF Reads
<1>3. x.at = at /\ x.name = reading[r].name /\ x.queue = reading[r].queue /\ x.sibling = reading[r].sibling
  BY <1>1 DEF Reads
<1>4. reading' = [reading EXCEPT ![r] = x] BY DEF To
<1> HIDE DEF x
<1> QED BY <1>2, <1>3, <1>4

\* What a step of a request does, seen from outside: its record x, the lock,
\* and the file and the verdict of its name.
LEMMA RequestKeeps ==
  ASSUME MirrorInv, NEW r \in Readers, NEW x \in Reads,
         Steady, phase = "serve", reading' = [reading EXCEPT ![r] = x],
         x.at = "write" => x.queue # <<>>,
         file' \in [Names -> {"none", "torn", "whole"}],
         \A n \in Names : file'[n] = file[n]
                          \/ (n = reading[r].name /\ reading[r].at \in Healing),
         donors' \in [Names -> {Unknown, Nowhere, Later} \cup (1..Sibling)],
         \/ healLock' = healLock /\ (x.at \in Healing => reading[r].at \in Healing)
         \/ healLock = {} /\ healLock' = {r}
         \/ healLock' = {} /\ x.at \notin Healing /\ reading[r].at \in Healing,
         x.at \in Healing => file'[x.name] # "whole",
         VerdictEarned', unlucky \subseteq unlucky', Knows(x)'
  PROVE  MirrorInv'
<1> USE DEF MirrorInv
<1>1. StillTypes /\ reading'[r] = x /\ \A s \in Readers : s # r => reading'[s] = reading[s]
  <2>1. MirrorTypes OBVIOUS
  <2>2. /\ reading' \in [Readers -> Reads] /\ reading'[r] = x
        /\ \A s \in Readers : s # r => reading'[s] = reading[s]
        /\ \A s \in Readers : reading'[s].at = "write" => reading'[s].queue # <<>>
    BY <2>1, ReadingMoves
  <2> QED BY <2>2 DEF StillTypes, Steady, archive
<1>2. MirrorTypes' BY <1>1, StillTypesKept
<1>3. HealInv'
  <2>1. phase' = "serve" BY DEF Steady
  <2>2. ASSUME NEW s \in Readers, reading'[s].at \in Healing
        PROVE  healLock' = {s} /\ file'[reading'[s].name] # "whole"
    <3>1. CASE s = r
      <4>1. x.at \in Healing /\ file'[reading'[s].name] # "whole" BY <1>1, <2>2, <3>1
      <4>2. healLock' = {r} BY <4>1 DEF HealInv
      <4> QED BY <4>1, <4>2, <3>1
    <3>2. CASE s # r
      <4>1. reading'[s] = reading[s] /\ healLock = {s} /\ file[reading[s].name] # "whole"
        BY <3>2, <2>2, <1>1 DEF HealInv
      <4>2. reading[r].at \notin Healing /\ healLock' = {s} BY <4>1, <3>2 DEF HealInv
      <4>3. reading[s].name \in Names BY DEF MirrorTypes, Reads
      <4> QED BY <4>1, <4>2, <4>3
    <3> QED BY <3>1, <3>2
  <2> QED BY <2>1, <2>2 DEF HealInv
<1>4. MarkerInv'
  <2>1. UNCHANGED <<synced, page, phase, wiped>> /\ phase' = "serve" BY DEF Steady
  <2>2. MarkerBacked'
    <3>1. ASSUME NEW k \in synced, page.of = k, file[k] = "whole" PROVE file'[k] = "whole"
      <4>1. k \in Names /\ reading[r].name \in Names BY Bounds DEF MirrorTypes, Reads
      <4> QED BY <3>1, <4>1 DEF HealInv
    <3> QED BY <2>1, <3>1 DEF MarkerInv, MarkerBacked
  <2> QED BY <2>1, <2>2 DEF MarkerInv
<1>5. DonorInv'
  <2>1. ASSUME NEW s \in Readers PROVE Knows(reading[s])'
    <3>1. CASE s = r BY <1>1, <3>1 DEF Knows, Unheld, Turns, Waits
    <3>2. CASE s # r
      <4>1. reading'[s] = reading[s] /\ holds' = holds BY <1>1, <3>2 DEF Steady, archive
      <4> QED BY <4>1 DEF DonorInv, Knows, Unheld, Turns, Waits
    <3> QED BY <3>1, <3>2
  <2> QED BY <2>1 DEF DonorInv
<1> QED BY <1>2, <1>3, <1>4, <1>5

\* A request that ends.
LEMMA StubFacts ==
  ASSUME MirrorTypes, NEW r \in Readers, Stub(r)
  PROVE  /\ NoRead \in Reads /\ reading' = [reading EXCEPT ![r] = NoRead] /\ healLock' = {}
         /\ NoRead.at = "idle" /\ Knows(NoRead)'
<1>1. NoRead \in Reads BY Bounds DEF NoRead, Reads
<1>2. NoRead.at = "idle" BY DEF NoRead
<1> QED BY <1>1, <1>2 DEF Stub, Knows

\* A verdict other than "nowhere" leaves the earned ones earned.
LEMMA VerdictKept ==
  ASSUME MirrorInv, UNCHANGED holds, unlucky \subseteq unlucky',
         \A n \in Names : donors'[n] = Nowhere => donors[n] = Nowhere
                            \/ n \in unlucky' \/ \A b \in 1..Sibling : n \notin holds[b]
  PROVE  VerdictEarned'
BY DEF MirrorInv, DonorInv, VerdictEarned, Sibling

\* ServeHTTP and ServeFile.
LEMMA ServeKeeps ==
  ASSUME MirrorInv, NEW r \in Readers, NEW n \in {Chunk0, build}, ServeHTTP(r, n) \/ ServeFile(r)
  PROVE  MirrorInv'
<1>1. MirrorTypes /\ n \in Names /\ reading[r] \in Reads BY Bounds DEF MirrorInv, MirrorTypes
<1>2. UNCHANGED <<holds, file, donors, healLock, unlucky>> /\ Steady
  BY DEF ServeHTTP, ServeFile, Steady, archive
<1>3. VerdictEarned' BY <1>2, VerdictKept
<1>4. file' \in [Names -> {"none", "torn", "whole"}]
      /\ donors' \in [Names -> {Unknown, Nowhere, Later} \cup (1..Sibling)]
  BY <1>1, <1>2 DEF MirrorTypes
<1>5. CASE ServeHTTP(r, n)
  <2>1. PICK at \in {"heal", "read"} :
          reading' = [reading EXCEPT ![r] = [NoRead EXCEPT !.at = at, !.name = n]]
    BY <1>5 DEF ServeHTTP
  <2>2. NoRead \in Reads /\ NoRead.sibling = FALSE BY Bounds DEF NoRead, Reads
  <2>3. /\ [NoRead EXCEPT !.at = at, !.name = n] \in Reads
        /\ [NoRead EXCEPT !.at = at, !.name = n].at = at
        /\ [NoRead EXCEPT !.at = at, !.name = n].sibling = FALSE
    BY <1>1, <2>2 DEF Reads
  <2>4. PICK x \in Reads : /\ x.at = at /\ x.sibling = FALSE
                           /\ reading' = [reading EXCEPT ![r] = x]
    BY <2>1, <2>3, Zenon
  <2>5. x.at \notin Healing \cup Fetching /\ ~x.sibling BY <2>4 DEF Healing, Fetching
  <2>6. Knows(x)' BY <2>5 DEF Knows, Healing, Fetching
  <2>7. x.at # "write" /\ phase = "serve" BY <1>5, <2>5 DEF Healing, ServeHTTP
  <2>8. x \in Reads BY <2>4
  <2> QED BY <1>2, <1>3, <1>4, <2>4, <2>5, <2>6, <2>7, <2>8, RequestKeeps
<1>6. CASE ServeFile(r)
  <2>1. NoRead \in Reads BY Bounds DEF NoRead, Reads
  <2>2. NoRead.at = "idle" BY DEF NoRead
  <2>3. Knows(NoRead)' BY <2>2 DEF Knows
  <2>4. reading[r].at = "read" /\ reading' = [reading EXCEPT ![r] = NoRead] BY <1>6 DEF ServeFile
  <2>5. phase = "serve" BY <2>4 DEF MirrorInv, HealInv
  <2>6. NoRead.at # "write" /\ NoRead.at \notin Healing BY <2>2 DEF Healing
  <2> QED BY <1>2, <1>3, <1>4, <2>1, <2>3, <2>4, <2>5, <2>6, RequestKeeps
<1> QED BY <1>5, <1>6

\* A verdict is put on record and the request ends.
LEMMA VerdictKeeps ==
  ASSUME MirrorInv, NEW r \in Readers, NEW v \in {Nowhere, Later}, Verdict(r, v),
         reading[r].at \in Healing, Steady, UNCHANGED <<file, unlucky>>,
         v = Nowhere => LET n == reading[r].name IN n \in unlucky \/ \A b \in 1..Sibling : n \notin holds[b]
  PROVE  MirrorInv'
<1> DEFINE m == reading[r].name
<1>1. MirrorTypes /\ reading[r] \in Reads /\ m \in Names BY DEF MirrorInv, MirrorTypes, Reads
<1>2. Stub(r) /\ donors' = [donors EXCEPT ![m] = v] BY DEF Verdict
<1>3. donors' \in [Names -> {Unknown, Nowhere, Later} \cup (1..Sibling)]
      /\ \A k \in Names : donors'[k] = Nowhere => donors[k] = Nowhere \/ (k = m /\ v = Nowhere)
  BY <1>1, <1>2 DEF MirrorTypes
<1>4. VerdictEarned'
  <2>1. UNCHANGED holds BY DEF Steady, archive
  <2> QED BY <2>1, <1>3, VerdictKept
<1>5. /\ NoRead \in Reads /\ reading' = [reading EXCEPT ![r] = NoRead] /\ healLock' = {}
      /\ NoRead.at = "idle" /\ Knows(NoRead)'
  BY <1>1, <1>2, StubFacts
<1>6. NoRead.at # "write" /\ NoRead.at \notin Healing BY <1>5 DEF Healing
<1>7. phase = "serve" BY DEF MirrorInv, HealInv, Healing
<1>8. file' \in [Names -> {"none", "torn", "whole"}] BY <1>1 DEF MirrorTypes
<1> QED BY <1>3, <1>4, <1>5, <1>6, <1>7, <1>8, RequestKeeps

\* heal: the lock is taken and the verdict on record consulted.
LEMMA HealKeeps ==
  ASSUME MirrorInv, NEW r \in Readers, Heal(r) PROVE MirrorInv'
<1> DEFINE m == reading[r].name
<1>1. MirrorTypes /\ reading[r] \in Reads /\ m \in Names /\ reading[r].at = "heal" /\ healLock = {}
  BY DEF MirrorInv, MirrorTypes, Reads, Heal
<1>2. UNCHANGED <<holds, file, unlucky>> /\ Steady BY DEF Heal, Steady, archive
<1>3. phase = "serve" BY <1>1 DEF MirrorInv, HealInv
<1>4. file' \in [Names -> {"none", "torn", "whole"}] BY <1>1, <1>2 DEF MirrorTypes
<1>5. Knows(reading[r]) BY DEF MirrorInv, DonorInv
<1>6. ASSUME UNCHANGED donors
      PROVE  VerdictEarned' /\ donors' \in [Names -> {Unknown, Nowhere, Later} \cup (1..Sibling)]
  <2>1. VerdictEarned' BY <1>2, <1>6, VerdictKept
  <2> QED BY <1>1, <2>1, <1>6 DEF MirrorTypes
<1>7. CASE file[m] # "none"
  <2>1. To(r, "read") /\ UNCHANGED <<donors, healLock>> BY <1>7 DEF Heal
  <2>2. PICK x \in Reads : x.at = "read" /\ reading' = [reading EXCEPT ![r] = x]
    BY <1>1, <2>1, ToMoves
  <2>3. x.at # "write" /\ x.at \notin Healing /\ Knows(x)' BY <2>2 DEF Healing, Knows
  <2>4. x \in Reads BY <2>2
  <2> QED BY <1>2, <1>3, <1>4, <1>6, <2>1, <2>2, <2>3, <2>4, RequestKeeps
<1>8. CASE file[m] = "none"
  <2>1. Consult(r, m) BY <1>8 DEF Heal
  <2>2. CASE donors[m] \in {Nowhere, Later} /\ Stub(r) /\ UNCHANGED donors
    <3>1. /\ NoRead \in Reads /\ reading' = [reading EXCEPT ![r] = NoRead] /\ healLock' = {}
          /\ NoRead.at = "idle" /\ Knows(NoRead)'
      BY <1>1, <2>2, StubFacts
    <3>2. NoRead.at # "write" /\ NoRead.at \notin Healing /\ healLock' = healLock
      BY <1>1, <3>1 DEF Healing
    <3> QED BY <1>2, <1>3, <1>4, <1>6, <2>2, <3>1, <3>2, RequestKeeps
  <2>3. ASSUME To(r, "probe"), healLock' = {r},
               donors' = donors \/ donors' = [donors EXCEPT ![m] = Unknown]
        PROVE  MirrorInv'
    <3>1. PICK x \in Reads : /\ x.at = "probe" /\ x.name = m /\ x.sibling = reading[r].sibling
                             /\ reading' = [reading EXCEPT ![r] = x]
      BY <1>1, <2>3, ToMoves
    <3>2. donors' \in [Names -> {Unknown, Nowhere, Later} \cup (1..Sibling)]
          /\ \A k \in Names : donors'[k] = Nowhere => donors[k] = Nowhere
      BY <1>1, <2>3, WordsDiffer DEF MirrorTypes
    <3>3. VerdictEarned' BY <1>2, <3>2, VerdictKept
    <3>4. Knows(x)' BY <1>1, <1>2, <1>5, <3>1 DEF Knows, Unheld
    <3>5. x.at # "write" /\ x \in Reads /\ file'[x.name] # "whole" BY <1>2, <1>8, <3>1
    <3> QED BY <1>1, <1>2, <1>3, <1>4, <2>3, <3>1, <3>2, <3>3, <3>4, <3>5, RequestKeeps
  <2>4. CASE /\ donors[m] \notin {Unknown, Nowhere, Later}
             /\ reading' = [reading EXCEPT ![r].at = "recall", ![r].queue = <<donors[m]>>]
             /\ healLock' = {r} /\ UNCHANGED donors
    <3>1. donors[m] \in 1..Sibling /\ <<donors[m]>> \in Seq(1..Sibling) BY <1>1, <2>4 DEF MirrorTypes
    <3>2. PICK q \in Seq(1..Sibling) : reading' = [reading EXCEPT ![r].at = "recall", ![r].queue = q]
      BY <2>4, <3>1
    <3>3. PICK x \in Reads : /\ x.at = "recall" /\ x.name = m /\ x.sibling = reading[r].sibling
                             /\ reading' = [reading EXCEPT ![r] = x]
      <4> DEFINE y == [reading[r] EXCEPT !.at = "recall", !.queue = q]
      <4>1. y \in Reads /\ y.at = "recall" /\ y.name = m /\ y.sibling = reading[r].sibling
        BY <1>1, <3>2 DEF Reads
      <4>2. reading' = [reading EXCEPT ![r] = y] BY <3>2
      <4> QED BY <4>1, <4>2
    <3>4. Knows(x)' BY <1>1, <1>2, <1>5, <3>3 DEF Knows, Unheld
    <3>5. x.at # "write" /\ x \in Reads /\ file'[x.name] # "whole" BY <1>2, <1>8, <3>3
    <3> QED BY <1>1, <1>2, <1>3, <1>4, <1>6, <2>4, <3>3, <3>4, <3>5, RequestKeeps
  <2> QED BY <2>1, <2>2, <2>3, <2>4 DEF Consult
<1> QED BY <1>7, <1>8

\* The next branch is asked for its donors.
LEMMA ProbeKeeps ==
  ASSUME MirrorInv, NEW r \in Readers, Probe(r) PROVE MirrorInv'
<1> DEFINE m == reading[r].name
<1>1. /\ MirrorTypes /\ reading[r] \in Reads /\ m \in Names /\ reading[r].at = "probe"
      /\ reading[r].at \in Healing /\ file[m] # "whole"
  BY DEF MirrorInv, MirrorTypes, Reads, Probe, Healing, HealInv
<1>2. UNCHANGED <<holds, file, unlucky>> /\ Steady BY DEF Probe, Steady, archive
<1>3. phase = "serve" BY <1>1 DEF MirrorInv, HealInv
<1>4. file' \in [Names -> {"none", "torn", "whole"}] BY <1>1, <1>2 DEF MirrorTypes
<1>5. Knows(reading[r]) BY DEF MirrorInv, DonorInv
<1>6. ASSUME UNCHANGED donors
      PROVE  VerdictEarned' /\ donors' \in [Names -> {Unknown, Nowhere, Later} \cup (1..Sibling)]
  <2>1. VerdictEarned' BY <1>2, <1>6, VerdictKept
  <2> QED BY <1>1, <2>1, <1>6 DEF MirrorTypes
<1>7. CASE Verdict(r, Later) BY <1>1, <1>2, <1>7, VerdictKeeps, WordsDiffer
<1>8. ASSUME NEW q \in findDonors(m), UNCHANGED <<donors, healLock>>,
             reading' = [reading EXCEPT ![r].at = "fetch", ![r].queue = q, ![r].sibling = TRUE]
      PROVE  MirrorInv'
  <2>1. q \in Seq(1..Sibling) /\ \A b \in Turns(m) : Waits(q, b) BY <1>1, DonorsCover
  <2>2. PICK x \in Reads : /\ x.at = "fetch" /\ x.name = m /\ x.queue = q /\ x.sibling
                           /\ reading' = [reading EXCEPT ![r] = x]
    <3> DEFINE y == [reading[r] EXCEPT !.at = "fetch", !.queue = q, !.sibling = TRUE]
    <3>1. y \in Reads /\ y.at = "fetch" /\ y.name = m /\ y.queue = q /\ y.sibling
      BY <1>1, <2>1 DEF Reads
    <3>2. reading' = [reading EXCEPT ![r] = y] BY <1>8
    <3> QED BY <3>1, <3>2
  <2>3. Knows(x)' BY <1>2, <2>1, <2>2 DEF Knows, Unheld, Turns, Waits
  <2>4. x.at # "write" /\ x \in Reads /\ file'[x.name] # "whole" BY <1>1, <1>2, <2>2
  <2> QED BY <1>1, <1>2, <1>3, <1>4, <1>6, <1>8, <2>2, <2>3, <2>4, RequestKeeps
<1>9. CASE reading[r].sibling /\ m \in holds[Sibling]
           /\ reading' = [reading EXCEPT ![r].at = "last", ![r].queue = <<Sibling>>]
           /\ UNCHANGED <<donors, healLock>>
  <2>1. PICK x \in Reads : /\ x.at = "last" /\ x.name = m /\ x.queue = <<Sibling>>
                           /\ reading' = [reading EXCEPT ![r] = x]
    <3> DEFINE y == [reading[r] EXCEPT !.at = "last", !.queue = <<Sibling>>]
    <3>1. y \in Reads /\ y.at = "last" /\ y.name = m /\ y.queue = <<Sibling>>
      <4>1. <<Sibling>> \in Seq(1..Sibling) BY Bounds
      <4> QED BY <1>1, <4>1 DEF Reads
    <3>2. reading' = [reading EXCEPT ![r] = y] BY <1>9
    <3> QED BY <3>1, <3>2
  <2>2. m \in unlucky \/ Unheld(m) BY <1>1, <1>5, <1>9 DEF Knows
  <2>3. x.queue # <<>> /\ Head(x.queue) = Sibling BY <2>1
  <2>4. Knows(x)' BY <1>2, <1>9, <2>1, <2>2, <2>3 DEF Knows, Unheld, Turns, Waits
  <2>5. x.at # "write" /\ x \in Reads /\ file'[x.name] # "whole" BY <1>1, <1>2, <2>1
  <2> QED BY <1>1, <1>2, <1>3, <1>4, <1>6, <1>9, <2>1, <2>4, <2>5, RequestKeeps
<1>10. CASE reading[r].sibling /\ m \notin holds[Sibling] /\ Verdict(r, Nowhere)
  <2>1. m \in unlucky \/ Unheld(m) BY <1>1, <1>5, <1>10 DEF Knows
  <2>2. m \in unlucky \/ \A b \in 1..Sibling : m \notin holds[b]
    BY <1>10, <2>1, Bounds DEF Unheld, Sibling, Scrapes
  <2> QED BY <1>1, <1>2, <1>10, <2>2, VerdictKeeps
<1> QED BY <1>7, <1>8, <1>9, <1>10 DEF Probe

\* The bytes come in and are written.
LEMMA FetchKeeps ==
  ASSUME MirrorInv, NEW r \in Readers, FetchRaw(r) \/ Written(r) PROVE MirrorInv'
<1> DEFINE m == reading[r].name
<1>1. /\ MirrorTypes /\ reading[r] \in Reads /\ m \in Names
      /\ reading[r].at \in Healing /\ file[m] # "whole"
  BY DEF MirrorInv, MirrorTypes, Reads, FetchRaw, Written, Healing, Fetching, HealInv
<1>2. UNCHANGED <<holds, unlucky>> /\ Steady BY DEF FetchRaw, Written, Steady, archive
<1>3. phase = "serve" BY <1>1 DEF MirrorInv, HealInv, Healing
<1>4. CASE FetchRaw(r)
  <2>1. /\ To(r, "write") /\ reading[r].queue # <<>> /\ UNCHANGED <<donors, healLock>>
        /\ file' = [file EXCEPT ![m] = "torn"]
    BY <1>4 DEF FetchRaw
  <2>2. PICK x \in Reads : /\ x.at = "write" /\ x.name = m /\ x.queue = reading[r].queue
                           /\ reading' = [reading EXCEPT ![r] = x]
    BY <1>1, <2>1, ToMoves
  <2>3. Knows(x)' BY <2>2 DEF Knows
  <2>4. x \in Reads /\ x.queue # <<>> BY <2>1, <2>2
  <2>5. file' \in [Names -> {"none", "torn", "whole"}] /\ file'[x.name] # "whole"
        /\ \A n \in Names : file'[n] = file[n] \/ n = m
    BY <1>1, <2>1, <2>2 DEF MirrorTypes
  <2>6. VerdictEarned' BY <1>2, <2>1, VerdictKept
  <2>7. donors' \in [Names -> {Unknown, Nowhere, Later} \cup (1..Sibling)]
    BY <1>1, <2>1 DEF MirrorTypes
  <2> QED BY <1>1, <1>2, <1>3, <2>1, <2>2, <2>3, <2>4, <2>5, <2>6, <2>7, RequestKeeps
<1>5. CASE Written(r)
  <2> DEFINE d == Head(reading[r].queue)
  <2>1. /\ To(r, "read") /\ healLock' = {} /\ file' = [file EXCEPT ![m] = "whole"]
        /\ donors' = [donors EXCEPT ![m] = d]
    BY <1>5 DEF Written
  <2>2. PICK x \in Reads : x.at = "read" /\ reading' = [reading EXCEPT ![r] = x]
    BY <1>1, <2>1, ToMoves
  <2>3. x.at # "write" /\ x.at \notin Healing /\ x \in Reads /\ Knows(x)' BY <2>2 DEF Knows, Healing
  <2>4. d \in 1..Sibling
    <3>1. reading[r].queue # <<>> /\ reading[r].queue \in Seq(1..Sibling)
      BY <1>1, <1>5 DEF MirrorTypes, Reads, Written
    <3> QED BY <3>1, HeadTailProperties
  <2>5. file' \in [Names -> {"none", "torn", "whole"}]
        /\ \A n \in Names : file'[n] = file[n] \/ n = m
    BY <1>1, <2>1 DEF MirrorTypes
  <2>6. donors' \in [Names -> {Unknown, Nowhere, Later} \cup (1..Sibling)]
        /\ \A n \in Names : donors'[n] = Nowhere => donors[n] = Nowhere
    <3> HIDE DEF d
    <3> QED BY <1>1, <2>1, <2>4, Bounds DEF MirrorTypes
  <2>7. VerdictEarned' BY <1>2, <2>6, VerdictKept
  <2> QED BY <1>1, <1>2, <1>3, <2>1, <2>2, <2>3, <2>5, <2>6, <2>7, RequestKeeps
<1> QED BY <1>4, <1>5

\* A donor fails: one that has the file makes the name unlucky, the rest of the
\* queue stays.
LEMMA FailKeeps ==
  ASSUME MirrorInv, NEW r \in Readers, FetchFails(r) PROVE MirrorInv'
<1> DEFINE m == reading[r].name
           q == reading[r].queue
           had == {m} \cap holds[Head(q)]
<1>1. /\ MirrorTypes /\ reading[r] \in Reads /\ m \in Names /\ reading[r].at \in Fetching
      /\ reading[r].at \in Healing /\ file[m] # "whole" /\ q \in Seq(1..Sibling) /\ q # <<>>
  BY DEF MirrorInv, MirrorTypes, Reads, FetchFails, Healing, Fetching, HealInv
<1>2. UNCHANGED <<holds, donors, healLock>> /\ Steady /\ unlucky' = unlucky \cup had
  BY DEF FetchFails, Steady, archive
<1>3. phase = "serve" BY <1>1 DEF MirrorInv, HealInv, Healing
<1>4. Knows(reading[r]) BY DEF MirrorInv, DonorInv
<1>5. /\ \A n \in Names : file'[n] = file[n] \/ (n = m /\ file'[n] = "torn")
      /\ file' \in [Names -> {"none", "torn", "whole"}]
  <2>1. file \in [Names -> {"none", "torn", "whole"}] BY <1>1 DEF MirrorTypes
  <2>2. file' = file \/ \E n \in had : file' = [file EXCEPT ![n] = "torn"] BY DEF FetchFails
  <2>3. file' = file \/ file' = [file EXCEPT ![m] = "torn"] BY <2>2
  <2> QED BY <1>1, <2>1, <2>3
<1>6. file'[m] # "whole" BY <1>1, <1>5
<1>7. PICK x \in Reads : /\ x.at = reading[r].at /\ x.name = m /\ x.queue = Tail(q)
                         /\ x.sibling = reading[r].sibling
                         /\ reading' = [reading EXCEPT ![r] = x]
  <2> DEFINE y == [reading[r] EXCEPT !.queue = Tail(q)]
  <2>1. Tail(q) \in Seq(1..Sibling) BY <1>1, HeadTailProperties
  <2>2. y \in Reads /\ y.at = reading[r].at /\ y.name = m /\ y.queue = Tail(q)
        /\ y.sibling = reading[r].sibling
    BY <1>1, <2>1 DEF Reads
  <2>3. reading' = [reading EXCEPT ![r] = y] BY DEF FetchFails
  <2> QED BY <2>2, <2>3
<1>8. Knows(x)'
  <2>1. CASE m \in holds[Head(q)] BY <1>2, <1>7, <2>1 DEF Knows
  <2>2. CASE m \notin holds[Head(q)] /\ m \notin unlucky
    <3>1. x.at # "last" /\ (x.at = "recall" => ~x.sibling) BY <1>4, <1>7, <2>2 DEF Knows
    <3>2. ASSUME x.at = "fetch", NEW b \in Turns(m), m \in holds[b]
          PROVE  x.sibling /\ Waits(Tail(q), b)
      <4>1. x.sibling /\ Waits(q, b) BY <1>4, <1>7, <2>2, <3>2 DEF Knows
      <4>2. PICK i \in 1..Len(q) : q[i] = b BY <4>1 DEF Waits
      <4>3. Head(q) = q[1] /\ Len(q) \in Nat BY <1>1
      <4>4. i # 1 BY <2>2, <3>2, <4>2, <4>3
      <4>5. Len(Tail(q)) = Len(q) - 1 /\ \A j \in 1..Len(Tail(q)) : Tail(q)[j] = q[j + 1]
        BY <1>1, HeadTailProperties
      <4>6. i - 1 \in 1..Len(Tail(q)) /\ i - 1 + 1 = i BY <4>2, <4>3, <4>4, <4>5
      <4>7. Tail(q)[i - 1] = b BY <4>2, <4>5, <4>6
      <4> QED BY <4>1, <4>6, <4>7 DEF Waits
    <3>3. x.at \in {"recall", "fetch"} BY <1>1, <1>7, <3>1 DEF Fetching
    <3> HIDE DEF m, q, had
    <3>4. CASE x.at = "fetch"
      <4>1. x.at = "fetch" => x.sibling /\ \A b \in Turns(m) : m \in holds[b] => Waits(Tail(q), b)
        <5>1. Turns(m) # {} \/ Turns(m) = {} OBVIOUS
        <5>2. x.sibling BY <1>4, <1>7, <2>2, <3>4 DEF Knows, m, q
        <5> QED BY <3>2, <5>2
      <4> QED BY <1>2, <1>7, <3>4, <4>1 DEF Knows, Unheld, Turns, Waits
    <3>5. CASE x.at = "recall" BY <1>2, <1>7, <3>1, <3>5 DEF Knows
    <3> QED BY <3>3, <3>4, <3>5
  <2>3. CASE m \in unlucky BY <1>2, <1>7, <2>3 DEF Knows
  <2> QED BY <2>1, <2>2, <2>3
<1>9. VerdictEarned' /\ donors' \in [Names -> {Unknown, Nowhere, Later} \cup (1..Sibling)]
  <2>1. unlucky \subseteq unlucky' BY <1>2
  <2>2. VerdictEarned' BY <1>2, <2>1, VerdictKept
  <2> QED BY <1>1, <1>2, <2>2 DEF MirrorTypes
<1>10. /\ x \in Reads /\ x.at # "write" /\ file'[x.name] # "whole" /\ unlucky \subseteq unlucky'
       /\ (healLock' = healLock /\ (x.at \in Healing => reading[r].at \in Healing))
       /\ \A n \in Names : file'[n] = file[n] \/ (n = reading[r].name /\ reading[r].at \in Healing)
  BY <1>1, <1>2, <1>5, <1>6, <1>7 DEF Fetching
<1>11. reading' = [reading EXCEPT ![r] = x] /\ file' \in [Names -> {"none", "torn", "whole"}]
  BY <1>5, <1>7
<1> HIDE DEF m, q, had
<1> QED BY <1>2, <1>3, <1>8, <1>9, <1>10, <1>11, RequestKeeps

\* The queue is empty: the sibling branch, or the verdict.
LEMMA ExhaustedKeeps ==
  ASSUME MirrorInv, NEW r \in Readers, Exhausted(r) PROVE MirrorInv'
<1> DEFINE m == reading[r].name
<1>1. /\ MirrorTypes /\ reading[r] \in Reads /\ m \in Names /\ reading[r].at \in Fetching
      /\ reading[r].at \in Healing /\ file[m] # "whole" /\ reading[r].queue = <<>>
  BY DEF MirrorInv, MirrorTypes, Reads, Exhausted, Healing, Fetching, HealInv
<1>2. UNCHANGED <<holds, file, unlucky>> /\ Steady BY DEF Exhausted, Steady, archive
<1>3. phase = "serve" BY <1>1 DEF MirrorInv, HealInv, Healing
<1>4. Knows(reading[r]) BY DEF MirrorInv, DonorInv
<1>5. CASE reading[r].at = "last"
  <2>1. m \in unlucky BY <1>1, <1>4, <1>5 DEF Knows
  <2>2. Verdict(r, Nowhere) BY <1>5 DEF Exhausted
  <2> QED BY <1>1, <1>2, <2>1, <2>2, VerdictKeeps
<1>6. CASE reading[r].at # "last"
  <2>1. To(r, "probe") /\ UNCHANGED <<donors, healLock>> BY <1>6 DEF Exhausted
  <2>2. PICK x \in Reads : /\ x.at = "probe" /\ x.name = m /\ x.sibling = reading[r].sibling
                           /\ reading' = [reading EXCEPT ![r] = x]
    BY <1>1, <2>1, ToMoves
  <2>3. ASSUME m \notin unlucky, reading[r].sibling PROVE Unheld(m)
    <3>1. reading[r].at = "fetch" BY <1>1, <1>4, <1>6, <2>3 DEF Knows, Fetching
    <3>2. \A b \in Turns(m) : m \notin holds[b]
      <4>1. \A b \in Turns(m) : m \in holds[b] => Waits(<<>>, b) BY <1>1, <1>4, <2>3, <3>1 DEF Knows
      <4>2. \A b \in Turns(m) : ~Waits(<<>>, b) BY DEF Waits
      <4> QED BY <4>1, <4>2
    <3> QED BY <1>1, <3>2, LastTurn DEF Unheld
  <2>4. Knows(x)' BY <1>2, <2>2, <2>3 DEF Knows, Unheld
  <2>5. VerdictEarned' BY <1>2, <2>1, VerdictKept
  <2>6. /\ file' \in [Names -> {"none", "torn", "whole"}]
        /\ donors' \in [Names -> {Unknown, Nowhere, Later} \cup (1..Sibling)]
    BY <1>1, <1>2, <2>1 DEF MirrorTypes
  <2>7. x.at # "write" /\ x \in Reads /\ file'[x.name] # "whole" BY <1>1, <1>2, <2>2
  <2> QED BY <1>1, <1>2, <1>3, <2>1, <2>2, <2>4, <2>5, <2>6, <2>7, RequestKeeps
<1> QED BY <1>5, <1>6

\* The process alone moves: no request is under way.
LEMMA ProcessKeeps ==
  ASSUME MirrorInv, phase # "serve", MirrorTypes', MarkerInv',
         UNCHANGED <<holds, donors, reading, healLock, unlucky>>
  PROVE  MirrorInv'
<1>1. \A r \in Readers : reading[r].at = "idle" BY DEF MirrorInv, HealInv
<1>2. HealInv' BY <1>1 DEF HealInv, Healing
<1>3. DonorInv' BY DEF MirrorInv, DonorInv, VerdictEarned, Knows, Unheld, Turns, Waits
<1> QED BY <1>2, <1>3 DEF MirrorInv

\* Start and Resolve: only the process's place changes.
LEMMA StartKeeps ==
  ASSUME MirrorInv, (\E p \in Scrapes : Start(p)) \/ Resolve
  PROVE  MirrorInv'
<1>1. /\ phase # "serve" /\ phase \notin {"unmark", "extract", "sweep"}
      /\ phase' \in {"off", "check", "try"} /\ pin' \in Scrapes
      /\ UNCHANGED <<archive, cache, build, rest, reading, healLock, wiped, unlucky>>
      /\ todo' = todo \/ todo' = Candidates
  BY DEF Start, Resolve, MirrorInv, MirrorTypes
<1>2. MirrorTypes /\ MarkerInv BY DEF MirrorInv
<1>3. todo' \in Seq(Scrapes) BY <1>1, <1>2, CandidatesType DEF MirrorTypes
<1>4. MirrorTypes'
  BY <1>1, <1>2, <1>3 DEF MirrorTypes, archive, cache, Scrapes, Names
<1>5. MarkerInv' BY <1>1, <1>2 DEF MarkerInv, MarkerBacked, cache
<1> QED BY <1>1, <1>4, <1>5, ProcessKeeps DEF archive, cache

\* CheckMarker: a marked build is served or swept.
LEMMA CheckKeeps ==
  ASSUME MirrorInv, CheckMarker PROVE MirrorInv'
<1>1. /\ phase = "check" /\ phase' \in {"serve", "resolve", "sweep"}
      /\ UNCHANGED <<archive, cache, pin, reading, healLock, starts, wiped, unlucky>>
      /\ build' = build \/ build' \in synced
      /\ \/ todo' = todo /\ rest' = rest /\ phase' # "sweep"
         \/ todo' = Candidates /\ rest' = Missing
  BY DEF CheckMarker
<1>2. MirrorTypes /\ MarkerInv BY DEF MirrorInv
<1>3. todo' \in Seq(Scrapes) /\ build' \in Names
  BY <1>1, <1>2, CandidatesType, Bounds DEF MirrorTypes
<1>4. phase' = "sweep" => /\ rest' \subseteq Names
                          /\ \A n \in rest' : file[n] # "whole"
  BY <1>1, <1>2, MissingType
<1>5. MirrorTypes'
  BY <1>1, <1>2, <1>3, <1>4 DEF MirrorTypes, archive, cache, Scrapes, Names
<1>6. MarkerInv' BY <1>1, <1>2, <1>4 DEF MarkerInv, MarkerBacked, cache
<1> QED BY <1>1, <1>5, <1>6, ProcessKeeps DEF archive, cache

\* TryNext: the assets are removed before a candidate is downloaded.
LEMMA TryKeeps ==
  ASSUME MirrorInv, TryNext PROVE MirrorInv'
<1>1. /\ phase = "try"
      /\ UNCHANGED <<archive, page, synced, swept, donors, pin, todo, rest, reading, healLock,
                     starts, wiped, unlucky>>
      /\ \/ phase' = "off" /\ build' = build /\ file' = file
         \/ phase' = "serve" /\ build' \in synced /\ file' = file
         \/ phase' = "unmark" /\ build' = build /\ todo # <<>> /\ file' = [n \in Names |-> "none"]
  BY DEF TryNext
<1>2. MirrorTypes /\ MarkerInv BY DEF MirrorInv
<1>3. build' \in Names /\ file' \in [Names -> {"none", "torn", "whole"}]
  <2>1. build' \in Names BY <1>1, <1>2, Bounds DEF MirrorTypes
  <2>2. file \in [Names -> {"none", "torn", "whole"}]
        /\ [n \in Names |-> "none"] \in [Names -> {"none", "torn", "whole"}]
    BY <1>2 DEF MirrorTypes
  <2> QED BY <1>1, <2>1, <2>2
<1>4. MirrorTypes' BY <1>1, <1>2, <1>3 DEF MirrorTypes, archive, Scrapes, Names
<1>5. MarkerInv'
  <2>1. CASE phase' = "unmark" BY <1>1, <2>1 DEF MarkerInv, MarkerBacked
  <2>2. CASE phase' # "unmark" BY <1>1, <1>2, <2>2 DEF MarkerInv, MarkerBacked
  <2> QED BY <2>1, <2>2
<1> QED BY <1>1, <1>4, <1>5, ProcessKeeps DEF archive

\* DropMarkers: then the markers.
LEMMA DropKeeps ==
  ASSUME MirrorInv, DropMarkers PROVE MirrorInv'
<1>1. /\ phase = "unmark" /\ phase' = "extract" /\ synced' = {} /\ rest' = Entries(Head(todo))
      /\ UNCHANGED <<archive, page, file, swept, donors, pin, build, todo, reading, healLock,
                     starts, unlucky>>
  BY DEF DropMarkers
<1>2. MirrorTypes /\ MarkerInv BY DEF MirrorInv
<1>3. MirrorTypes' BY <1>1, <1>2 DEF MirrorTypes, archive, Entries, Scrapes, Names
<1>4. MarkerInv' BY <1>1, <1>2 DEF MarkerInv, MarkerBacked
<1> QED BY <1>1, <1>3, <1>4, ProcessKeeps DEF archive

\* An entry is written to disk, in full or in part.
LEMMA PutFacts ==
  ASSUME MirrorInv, phase = "extract", NEW e \in rest, NEW w \in BOOLEAN, PutEntry(e, w)
  PROVE  /\ page' \in [of : Names, whole : BOOLEAN]
         /\ file' \in [Names -> {"none", "torn", "whole"}]
         /\ \A n \in Names : w => /\ file'[n] # "torn"
                                  /\ n \notin {Chunk0, Head(todo)} => file'[n] = "none"
<1>1. MirrorTypes /\ MarkerInv BY DEF MirrorInv
<1>2. Head(todo) \in Scrapes /\ e \in Entries(Head(todo))
  BY <1>1, HeadTailProperties DEF MirrorTypes
<1>3. e = PageEntry \/ (e # PageEntry /\ e \in Names /\ e \in {Chunk0, Head(todo)})
  BY <1>1, <1>2, EntriesType
<1>4. Head(todo) \in Names BY <1>2, Bounds
<1> QED BY <1>1, <1>3, <1>4 DEF PutEntry, MirrorTypes, MarkerInv

\* ExtractEntry and ExtractFails.
LEMMA ExtractKeeps ==
  ASSUME MirrorInv, ExtractEntry \/ ExtractFails PROVE MirrorInv'
<1>1. MirrorTypes /\ MarkerInv /\ phase = "extract" /\ synced = {} /\ todo # <<>>
  BY DEF MirrorInv, MarkerInv, MirrorTypes, ExtractEntry, ExtractFails
<1>2. CASE ExtractEntry
  <2>1. PICK e \in rest : PutEntry(e, TRUE) /\ rest' = rest \ {e} BY <1>2 DEF ExtractEntry
  <2>2. /\ page' \in [of : Names, whole : BOOLEAN]
        /\ file' \in [Names -> {"none", "torn", "whole"}]
        /\ \A n \in Names : /\ file'[n] # "torn"
                            /\ n \notin {Chunk0, Head(todo)} => file'[n] = "none"
    BY <1>1, <2>1, PutFacts
  <2>3. UNCHANGED <<archive, synced, swept, donors, phase, pin, build, todo, reading, healLock,
                    starts, wiped, unlucky>>
    BY <1>2 DEF ExtractEntry
  <2>4. MirrorTypes' BY <1>1, <2>1, <2>2, <2>3 DEF MirrorTypes, archive, Entries, Scrapes, Names
  <2>5. MarkerInv' BY <1>1, <2>2, <2>3 DEF MarkerInv, MarkerBacked
  <2> QED BY <1>1, <2>3, <2>4, <2>5, ProcessKeeps DEF archive
<1>3. CASE ExtractFails
  <2>1. /\ page' \in [of : Names, whole : BOOLEAN] /\ file' \in [Names -> {"none", "torn", "whole"}]
    <3>1. CASE UNCHANGED <<page, file>> BY <1>1, <3>1 DEF MirrorTypes
    <3>2. ASSUME NEW e \in rest, PutEntry(e, FALSE)
          PROVE  page' \in [of : Names, whole : BOOLEAN] /\ file' \in [Names -> {"none", "torn", "whole"}]
      BY <1>1, <3>2, PutFacts
    <3> QED BY <1>3, <3>1, <3>2 DEF ExtractFails
  <2>2. /\ phase' = "try" /\ todo' = Tail(todo) /\ rest' = {}
        /\ UNCHANGED <<archive, synced, swept, donors, pin, build, reading, healLock, starts,
                       wiped, unlucky>>
    BY <1>3 DEF ExtractFails
  <2>3. todo' \in Seq(Scrapes) BY <1>1, <2>2, HeadTailProperties DEF MirrorTypes
  <2>4. MirrorTypes' BY <1>1, <2>1, <2>2, <2>3 DEF MirrorTypes, archive, Scrapes, Names
  <2>5. MarkerInv' BY <1>1, <2>2 DEF MarkerInv, MarkerBacked
  <2> QED BY <1>1, <2>2, <2>4, <2>5, ProcessKeeps DEF archive
<1> QED BY <1>2, <1>3

\* Accept: a scrape whose page has its boot file is marked, another is left.
LEMMA AcceptKeeps ==
  ASSUME MirrorInv, Accept PROVE MirrorInv'
<1> DEFINE h == Head(todo)
<1>1. /\ MirrorTypes /\ MarkerInv /\ phase = "extract" /\ synced = {} /\ todo # <<>>
      /\ h \in Scrapes /\ h \in Names
      /\ UNCHANGED <<archive, page, file, swept, donors, pin, reading, healLock, starts, wiped, unlucky>>
  <2>1. MirrorTypes /\ MarkerInv /\ phase = "extract" /\ todo # <<>> /\ synced = {}
    BY DEF MirrorInv, MarkerInv, MirrorTypes, Accept
  <2>2. h \in Scrapes BY <2>1, HeadTailProperties DEF MirrorTypes
  <2> QED BY <2>1, <2>2, Bounds DEF Accept
<1>2. CASE /\ page.of # 0 /\ (file[page.of] # "none" \/ ~page.whole)
           /\ phase' = "sweep" /\ synced' = synced \cup {h}
           /\ build' = h /\ todo' = Candidates /\ rest' = Missing
  <2>1. todo' \in Seq(Scrapes) BY <1>1, <1>2, CandidatesType
  <2>2. rest' \subseteq Names /\ \A n \in rest' : file[n] # "whole" BY <1>1, <1>2, MissingType
  <2>3. synced' = {h} BY <1>1, <1>2
  <2> HIDE DEF h
  <2>4. MirrorTypes' BY <1>1, <1>2, <2>1, <2>2, <2>3 DEF MirrorTypes, archive, Scrapes, Names
  <2>5. page.whole => page.of = h /\ file[h] = "whole"
    <3>1. page.of \in Names BY <1>1 DEF MirrorTypes
    <3>2. file[page.of] # "torn" /\ (page.of \notin {Chunk0, h} => file[page.of] = "none")
      BY <1>1, <3>1 DEF MarkerInv, h
    <3>3. file[page.of] \in {"none", "torn", "whole"} BY <1>1, <3>1 DEF MirrorTypes
    <3> QED BY <1>2, <3>2, <3>3, Bounds
  <2>6. MarkerInv' BY <1>1, <1>2, <2>2, <2>3, <2>5 DEF MarkerInv, MarkerBacked
  <2> QED BY <1>1, <2>4, <2>6, ProcessKeeps DEF archive
<1>3. CASE phase' = "try" /\ todo' = Tail(todo) /\ UNCHANGED <<synced, build, rest>>
  <2>1. todo' \in Seq(Scrapes) BY <1>1, <1>3, HeadTailProperties DEF MirrorTypes
  <2> HIDE DEF h
  <2>2. MirrorTypes' BY <1>1, <1>3, <2>1 DEF MirrorTypes, archive, Scrapes, Names
  <2>3. MarkerInv' BY <1>1, <1>3 DEF MarkerInv, MarkerBacked
  <2> QED BY <1>1, <2>2, <2>3, ProcessKeeps DEF archive
<1> QED BY <1>2, <1>3 DEF Accept

\* SweepTarball and SweepEnds: only what is missing is written.
LEMMA SweepKeeps ==
  ASSUME MirrorInv, SweepTarball \/ SweepEnds PROVE MirrorInv'
<1>1. /\ MirrorTypes /\ MarkerInv /\ phase = "sweep" /\ rest \subseteq Names
      /\ \A n \in rest : file[n] # "whole"
  BY DEF MirrorInv, MarkerInv, MirrorTypes, SweepTarball, SweepEnds
<1>2. CASE SweepTarball
  <2>1. /\ UNCHANGED <<archive, page, synced, swept, donors, phase, pin, build, reading, healLock,
                       starts, wiped, unlucky>>
        /\ todo # <<>> /\ todo' = Tail(todo)
    BY <1>2 DEF SweepTarball
  <2>2. PICK got \in SUBSET (rest \cap holds[Head(todo)]) :
          /\ rest' = rest \ got
          /\ \E cut \in {{}} \cup {{n} : n \in (rest \cap holds[Head(todo)]) \ got} :
               file' = [n \in Names |-> IF n \in got THEN "whole"
                                        ELSE IF n \in cut THEN "torn" ELSE file[n]]
    BY <1>2 DEF SweepTarball
  <2>3. PICK cut \in SUBSET (rest \ got) :
          file' = [n \in Names |-> IF n \in got THEN "whole"
                                   ELSE IF n \in cut THEN "torn" ELSE file[n]]
    <3>1. {{}} \cup {{n} : n \in (rest \cap holds[Head(todo)]) \ got} \subseteq SUBSET (rest \ got)
      OBVIOUS
    <3> QED BY <2>2, <3>1
  <2>4. /\ file' \in [Names -> {"none", "torn", "whole"}]
        /\ \A n \in Names : file[n] = "whole" => file'[n] = "whole"
        /\ \A n \in rest \ got : file'[n] # "whole"
    <3>1. file \in [Names -> {"none", "torn", "whole"}] /\ got \subseteq rest
      BY <1>1, <2>2 DEF MirrorTypes
    <3>2. \A n \in Names : file'[n] = IF n \in got THEN "whole"
                                      ELSE IF n \in cut THEN "torn" ELSE file[n]
      BY <2>3
    <3>3. file' \in [Names -> {"none", "torn", "whole"}]
      <4> DEFINE f(n) == IF n \in got THEN "whole" ELSE IF n \in cut THEN "torn" ELSE file[n]
      <4>1. \A n \in Names : f(n) \in {"none", "torn", "whole"} BY <3>1
      <4>2. file' = [n \in Names |-> f(n)] BY <2>3
      <4> HIDE DEF f
      <4> QED BY <4>1, <4>2
    <3>4. \A n \in Names : file[n] = "whole" => n \notin cut BY <1>1, <2>3
    <3> QED BY <1>1, <3>1, <3>2, <3>3, <3>4
  <2>5. todo' \in Seq(Scrapes) /\ rest' \subseteq Names
    BY <1>1, <2>1, <2>2, HeadTailProperties DEF MirrorTypes
  <2>6. MirrorTypes' BY <1>1, <2>1, <2>4, <2>5 DEF MirrorTypes, archive, Scrapes, Names
  <2>7. MarkerBacked'
    <3>1. \A k \in synced : k \in Names BY <1>1, Bounds DEF MirrorTypes
    <3> QED BY <1>1, <2>1, <2>4, <3>1 DEF MarkerInv, MarkerBacked
  <2>8. MarkerInv' BY <1>1, <2>1, <2>2, <2>4, <2>7 DEF MarkerInv
  <2> QED BY <1>1, <2>1, <2>6, <2>8, ProcessKeeps DEF archive
<1>3. CASE SweepEnds
  <2>1. /\ phase' = "serve" /\ todo' = <<>> /\ rest' = {}
        /\ UNCHANGED <<archive, page, file, synced, donors, pin, build, reading, healLock, starts,
                       wiped, unlucky>>
    BY <1>3 DEF SweepEnds
  <2>2. MirrorTypes' BY <1>1, <2>1 DEF MirrorTypes, archive, Scrapes, Names
  <2>3. MarkerInv' BY <1>1, <2>1 DEF MarkerInv, MarkerBacked
  <2> QED BY <1>1, <2>1, <2>2, <2>3, ProcessKeeps DEF archive
<1> QED BY <1>2, <1>3

\* Crash: requests and lists are gone, the disk stays.
LEMMA CrashKeeps ==
  ASSUME MirrorInv, Crash PROVE MirrorInv'
<1>1. /\ phase # "off" /\ phase' = "off"
      /\ wiped' = (wiped \/ (phase = "unmark" /\ synced # {}))
      /\ reading' = [r \in Readers |-> NoRead] /\ healLock' = {} /\ todo' = <<>> /\ rest' = {}
      /\ UNCHANGED <<archive, cache, pin, build, starts, unlucky>>
  BY DEF Crash
<1>2. NoRead \in Reads BY Bounds DEF NoRead, Reads
<1>3. NoRead.at = "idle" BY DEF NoRead
<1>4. MirrorTypes /\ MarkerInv BY DEF MirrorInv
<1>5. MirrorTypes'
  <2>1. reading' \in [Readers -> Reads] /\ \A r \in Readers : reading'[r].at # "write"
    BY <1>1, <1>2, <1>3
  <2> QED BY <1>1, <1>4, <2>1 DEF MirrorTypes, archive, cache, Scrapes, Names
<1>6. HealInv' BY <1>1, <1>3 DEF HealInv, Healing
<1>7. MarkerInv' BY <1>1, <1>4 DEF MarkerInv, MarkerBacked, cache
<1>8. DonorInv'
  <2>1. VerdictEarned' BY <1>1 DEF MirrorInv, DonorInv, VerdictEarned, archive, cache
  <2>2. \A r \in Readers : Knows(reading[r])' BY <1>1, <1>3 DEF Knows
  <2> QED BY <2>1, <2>2 DEF DonorInv
<1> QED BY <1>5, <1>6, <1>7, <1>8 DEF MirrorInv

-----------------------------------------------------------------------------
\* The cache says of itself what is true: a marker has its build behind it, a
\* verdict "nowhere" is earned, and a file that is whole is not written again
\* while the build is served (syncAssets, heal), wherever the process crashes
\* and whichever download fails.
THEOREM CacheStaysHonest == MirrorSpec => CacheHonest
<1>1. MirrorInit => MirrorInv
  <2> SUFFICES ASSUME MirrorInit PROVE MirrorInv OBVIOUS
  <2>1. \A r \in Readers : reading[r].at = "idle" BY DEF MirrorInit, NoRead
  <2>2. MirrorTypes BY MirrorTypesStart
  <2>3. HealInv BY <2>1 DEF HealInv, Healing
  <2>4. MarkerInv BY DEF MirrorInit, MarkerInv, MarkerBacked
  <2>5. DonorInv
    <3>1. \A n \in Names : donors[n] = Unknown BY DEF MirrorInit
    <3>2. VerdictEarned BY <3>1, WordsDiffer DEF VerdictEarned
    <3> QED BY <2>1, <3>2, WordsDiffer DEF MirrorInit, DonorInv, Knows, NoRead
  <2> QED BY <2>2, <2>3, <2>4, <2>5 DEF MirrorInv
<1>2. MirrorInv /\ [MirrorNext]_mirrorVars => MirrorInv'
  <2> SUFFICES ASSUME MirrorInv, [MirrorNext]_mirrorVars PROVE MirrorInv' OBVIOUS
  <2>1. CASE (\E p \in Scrapes : Start(p)) \/ Resolve BY <2>1, StartKeeps
  <2>2. CASE CheckMarker BY <2>2, CheckKeeps
  <2>3. CASE TryNext BY <2>3, TryKeeps
  <2>4. CASE DropMarkers BY <2>4, DropKeeps
  <2>5. CASE ExtractEntry \/ ExtractFails BY <2>5, ExtractKeeps
  <2>6. CASE Accept BY <2>6, AcceptKeeps
  <2>7. CASE SweepTarball \/ SweepEnds BY <2>7, SweepKeeps
  <2>8. ASSUME NEW r \in Readers,
               \/ \E n \in {Chunk0, build} : ServeHTTP(r, n)
               \/ ServeFile(r) \/ Heal(r) \/ Probe(r) \/ FetchRaw(r) \/ Written(r)
               \/ FetchFails(r) \/ Exhausted(r)
        PROVE  MirrorInv'
    BY <2>8, ServeKeeps, HealKeeps, ProbeKeeps, FetchKeeps, FailKeeps, ExhaustedKeeps
  <2>9. CASE Crash BY <2>9, CrashKeeps
  <2>10. CASE UNCHANGED mirrorVars
    BY <2>10 DEF mirrorVars, MirrorInv, MirrorTypes, HealInv, MarkerInv, DonorInv, MarkerBacked,
       VerdictEarned, Knows, Unheld, Turns, Waits, Entries
  <2> QED BY <2>1, <2>2, <2>3, <2>4, <2>5, <2>6, <2>7, <2>8, <2>9, <2>10 DEF MirrorNext
<1>3. MirrorInv => MarkerBacked /\ VerdictEarned BY DEF MirrorInv, MarkerInv, DonorInv
<1>4. MirrorInv /\ [MirrorNext]_mirrorVars
        => [\A n \in Names : phase = "serve" /\ phase' = "serve" /\ file[n] = "whole"
              => file'[n] = "whole"]_mirrorVars
  <2> SUFFICES ASSUME MirrorInv, [MirrorNext]_mirrorVars, phase = "serve", phase' = "serve",
                      NEW n \in Names, file[n] = "whole"
               PROVE  file'[n] = "whole"
    OBVIOUS
  <2>1. ASSUME NEW r \in Readers, FetchRaw(r) \/ Written(r) \/ FetchFails(r) PROVE file'[n] = "whole"
    <3>1. reading[r].at \in Healing BY <2>1 DEF FetchRaw, Written, FetchFails, Fetching, Healing
    <3>2. reading[r].name # n BY <3>1 DEF MirrorInv, HealInv
    <3>3. reading[r].name \in Names /\ file \in [Names -> {"none", "torn", "whole"}]
      BY DEF MirrorInv, MirrorTypes, Reads
    <3> QED BY <2>1, <3>2, <3>3 DEF FetchRaw, Written, FetchFails
  <2>2. ASSUME NEW r \in Readers,
               \/ \E k \in {Chunk0, build} : ServeHTTP(r, k)
               \/ ServeFile(r) \/ Heal(r) \/ Probe(r) \/ Exhausted(r)
        PROVE  file' = file
    BY <2>2 DEF ServeHTTP, ServeFile, Heal, Probe, Exhausted
  <2>3. CASE UNCHANGED mirrorVars BY <2>3 DEF mirrorVars
  <2> QED BY <2>1, <2>2, <2>3
      DEF MirrorNext, Start, CheckMarker, Resolve, TryNext, DropMarkers, ExtractEntry, ExtractFails,
          Accept, SweepTarball, SweepEnds, Crash
<1>5. MirrorSpec => []MirrorInv BY <1>1, <1>2, PTL DEF MirrorSpec
<1>6. MirrorSpec => [](MarkerBacked /\ VerdictEarned) BY <1>3, <1>5, PTL
<1>7. MirrorSpec => WholeStays BY <1>4, <1>5, PTL DEF MirrorSpec, WholeStays
<1> QED BY <1>6, <1>7 DEF CacheHonest

=============================================================================
