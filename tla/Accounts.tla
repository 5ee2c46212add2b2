------------------------------ MODULE Accounts ------------------------------
(***************************************************************************)
(* Accounts and their tokens (discord/auth, storage/users.go and           *)
(* sessions.go): registration, the admin API, login, logout and the check  *)
(* of the token that comes with every request.  Requests run concurrently, *)
(* and the process may stop between their transactions.  Badger commits an *)
(* update only when nobody has committed a key it read in the meantime     *)
(* ("spoilt"), and the code does not try again.  Passwords and the form of *)
(* names are left out; names and addresses never equal each other.         *)
(***************************************************************************)
EXTENDS Naturals, FiniteSets

CONSTANTS
  Clients,         \* concurrent requests
  Logins,          \* user names; the same set serves as mail addresses
  MaxAccounts, MaxTokens   \* bounds: ids and tokens ever made

VARIABLES
  accounts,        \* User records by id
  byName, byMail,  \* the indexes user/name and user/email
  tokens,          \* Session records: token -> account
  req,             \* each request between two transactions
  lastAccount, lastToken,
  ended,           \* history: tokens logged out
  denied,          \* history: tokens that a request was refused with
  contended,       \* history: tokens two checks of which overlapped
  late             \* history: accounts that another overtook after the count

accountVars == <<accounts, byName, byMail, tokens, req, lastAccount, lastToken,
                 ended, denied, contended, late>>

stored == <<accounts, byName, byMail, lastAccount, late>>

NoReq == [at |-> "idle", name |-> 0, mail |-> 0, admin |-> FALSE, first |-> FALSE,
          raced |-> FALSE,
          id |-> 0, token |-> 0, exit |-> FALSE, spoilt |-> FALSE]

NoAccounts == [x \in {} |-> x]

AccountsInit ==
  /\ accounts = NoAccounts /\ byName = NoAccounts /\ byMail = NoAccounts
  /\ tokens = NoAccounts /\ req = [c \in Clients |-> NoReq]
  /\ lastAccount = 0 /\ lastToken = 0
  /\ ended = {} /\ denied = {} /\ contended = {} /\ late = {}

Put(f, k, v) == [x \in DOMAIN f \cup {k} |-> IF x = k THEN v ELSE f[x]]

Go(c, r) == req' = [req EXCEPT ![c] = r]

----------------------------------------------------------------------------
\* Register, or the admin API, which asks how many users there are.
Register(c, name, mail, admin) ==
  /\ req[c] = NoReq
  /\ Go(c, [NoReq EXCEPT !.at = "lookup", !.name = name, !.mail = mail, !.admin = admin])
  /\ UNCHANGED <<stored, tokens, lastToken, ended, denied, contended>>

\* GetUserByUsername and GetUserByEmail; accounts never go away.
LookUp(c) ==
  /\ req[c].at = "lookup"
  /\ Go(c, IF req[c].name \in DOMAIN byName \/ req[c].mail \in DOMAIN byMail THEN NoReq
           ELSE [req[c] EXCEPT !.at = IF req[c].admin THEN "count" ELSE "create"])
  /\ UNCHANGED <<stored, tokens, lastToken, ended, denied, contended>>

UserCount(c) ==
  /\ req[c].at = "count"
  /\ Go(c, [req[c] EXCEPT !.at = "create", !.first = DOMAIN accounts = {}])
  /\ UNCHANGED <<stored, tokens, lastToken, ended, denied, contended>>

Store(c) ==
  LET id == lastAccount + 1
  IN  /\ accounts' = Put(accounts, id, [name |-> req[c].name, mail |-> req[c].mail,
                                        first |-> req[c].first])
      /\ byName' = Put(byName, req[c].name, id) /\ byMail' = Put(byMail, req[c].mail, id)
      /\ lastAccount' = id
      /\ late' = IF req[c].raced THEN late \cup {id} ELSE late
      /\ req' = [d \in Clients |->
           IF d # c THEN [req[d] EXCEPT !.raced = @ \/ req[d].first]
           ELSE IF req[c].admin THEN NoReq ELSE [NoReq EXCEPT !.at = "session", !.id = id]]

\* Mutant: the transaction relies on the lookups before it.
CreateUserUnchecked(c) ==
  /\ req[c].at = "create" /\ lastAccount < MaxAccounts
  /\ Store(c)
  /\ UNCHANGED <<tokens, lastToken, ended, denied, contended>>

\* CreateUser looks again in its own transaction.
CreateUser(c) ==
  /\ req[c].at = "create" /\ lastAccount < MaxAccounts
  /\ IF req[c].name \in DOMAIN byName \/ req[c].mail \in DOMAIN byMail
     THEN Go(c, NoReq) /\ UNCHANGED stored
     ELSE Store(c)
  /\ UNCHANGED <<tokens, lastToken, ended, denied, contended>>

----------------------------------------------------------------------------
\* Login with an address or, where that leads nowhere, a name.
Login(c, login) ==
  /\ req[c] = NoReq
  /\ \E index \in {byName, byMail} :
       /\ login \in DOMAIN index
       /\ Go(c, [NoReq EXCEPT !.at = "session", !.id = index[login]])
  /\ UNCHANGED <<stored, tokens, lastToken, ended, denied, contended>>

newSession(c) ==
  /\ req[c].at = "session" /\ lastToken < MaxTokens
  /\ lastToken' = lastToken + 1 /\ tokens' = Put(tokens, lastToken + 1, req[c].id)
  /\ Go(c, NoReq)
  /\ UNCHANGED <<stored, ended, denied, contended>>

----------------------------------------------------------------------------
Refuse(c) == Go(c, NoReq) /\ denied' = denied \cup {req[c].token}

\* A request, a logout among them, comes with a token (ValidateToken).
Validate(c, t, exit) ==
  /\ req[c] = NoReq
  /\ IF t \in DOMAIN tokens
     THEN /\ Go(c, [NoReq EXCEPT !.at = "user", !.token = t, !.exit = exit])
          /\ UNCHANGED denied
     ELSE denied' = denied \cup {t} /\ UNCHANGED req
  /\ UNCHANGED <<stored, tokens, lastToken, ended, contended>>

\* GetUserByID, then TouchSession reads the session again.
TouchRead(c) ==
  /\ req[c].at = "user"
  /\ IF req[c].token \in DOMAIN tokens
     THEN /\ Go(c, [req[c] EXCEPT !.at = "touch", !.id = tokens[req[c].token]])
          /\ UNCHANGED denied
     ELSE Refuse(c)
  /\ contended' = contended \cup {req[d].token : d \in
       {d \in Clients \ {c} : req[d].at = "touch" /\ req[d].token = req[c].token}}
  /\ UNCHANGED <<stored, tokens, lastToken, ended>>

\* The session of c is committed: who has read it since cannot commit.
Spoil(c, r) ==
  req' = [d \in Clients |->
    IF d = c THEN r
    ELSE IF req[d].at = "touch" /\ req[d].token = req[c].token
    THEN [req[d] EXCEPT !.spoilt = TRUE] ELSE req[d]]

Touched(c) ==
  /\ tokens' = Put(tokens, req[c].token, req[c].id)
  /\ Spoil(c, IF req[c].exit THEN [req[c] EXCEPT !.at = "logout"] ELSE NoReq)
  /\ UNCHANGED denied

\* Mutant: the session is written back whatever became of it.
TouchSessionBlind(c) ==
  /\ req[c].at = "touch" /\ Touched(c)
  /\ UNCHANGED <<stored, lastToken, ended, contended>>

\* A conflict is an error like any other: the request is refused.
TouchSession(c) ==
  /\ req[c].at = "touch"
  /\ IF req[c].spoilt THEN Refuse(c) /\ UNCHANGED tokens ELSE Touched(c)
  /\ UNCHANGED <<stored, lastToken, ended, contended>>

\* DeleteSession reads nothing, so it always commits.
Logout(c) ==
  /\ req[c].at = "logout"
  /\ tokens' = [t \in DOMAIN tokens \ {req[c].token} |-> tokens[t]]
  /\ ended' = ended \cup {req[c].token}
  /\ Spoil(c, NoReq)
  /\ UNCHANGED <<stored, lastToken, denied, contended>>

\* The process stops and starts again: what was committed stays.
Reboot ==
  /\ \E c \in Clients : req[c] # NoReq
  /\ req' = [c \in Clients |-> NoReq]
  /\ UNCHANGED <<stored, tokens, lastToken, ended, denied, contended>>

AccountsNext ==
  \/ \E c \in Clients :
       \/ \E n, m \in Logins, admin \in BOOLEAN : Register(c, n, m, admin)
       \/ LookUp(c) \/ UserCount(c) \/ CreateUser(c)
       \/ \E n \in Logins : Login(c, n)
       \/ newSession(c)
       \/ \E t \in 1..lastToken, exit \in BOOLEAN : Validate(c, t, exit)
       \/ TouchRead(c) \/ TouchSession(c) \/ Logout(c)
  \/ Reboot

AccountsSpec == AccountsInit /\ [][AccountsNext]_accountVars

----------------------------------------------------------------------------
(* Properties.                                                             *)

\* However requests for the same name or address race past the lookups, every
\* account is the one its name and its address lead to, so nobody logs in to
\* an account of another with them (CreateUser, Login).
LoginUnambiguous ==
  /\ \A id \in DOMAIN accounts :
       /\ accounts[id].name \in DOMAIN byName /\ byName[accounts[id].name] = id
       /\ accounts[id].mail \in DOMAIN byMail /\ byMail[accounts[id].mail] = id
  /\ \A t \in DOMAIN tokens : tokens[t] \in DOMAIN accounts

\* A token that was logged out stays so: a check that had read the session
\* before never writes it back (TouchSession).
LogoutHolds == ended \cap DOMAIN tokens = {}

\* Nobody who has not logged out is refused, wherever else they log in and
\* whatever stops; unless two requests with one token overlapped: then one of
\* them meets the other's commit and gets a 401 (requireAuth).
RefusedRightly == denied \subseteq ended \cup contended

\* Only the first user of an instance becomes an admin for being the first,
\* unless another account was made after its users were counted
\* (CreateUserAdmin).
FirstIsFirst ==
  \A id \in DOMAIN accounts \ late : accounts[id].first => id = 1

\* Accounts are sound whatever registrations race: a login leads to one account
\* and only the first is made an admin for being the first (auth.go).
AccountsSound ==
  LoginUnambiguous /\ FirstIsFirst

\* Every check of a token answers rightly: no logged-out token comes back and
\* no other is refused outside the named race (ValidateToken, TouchSession).
TokensHonoured ==
  LogoutHolds /\ RefusedRightly

=============================================================================
