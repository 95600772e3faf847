------------------------------ MODULE Accounts ------------------------------
(***************************************************************************)
(* Who a request comes from: accounts with a password and logins through   *)
(* GitHub and Google (auth_service.go, github_oauth_service.go,            *)
(* google_oauth_service.go, controller/auth_controller.go), and the tokens *)
(* requests are authenticated with (middleware/auth.go).                   *)
(*                                                                         *)
(* A provider's callback is a request of several steps: what a step read   *)
(* may be old when the next one uses it, and after any step it may fail,   *)
(* leaving what was written.                                               *)
(***************************************************************************)
EXTENDS Naturals, Sequences, FiniteSets, SequencesExt

CONSTANTS Persons,      \* accounts at the providers: <<provider, number>>
          Emails,
          LoginCalls,   \* callbacks under way
          TokenCalls,   \* authenticated requests under way
          MaxAccounts, MaxCredentials, MaxStarts, MaxEmailChanges

VARIABLES
    address,     \* person -> the email the provider has for them
    emailChanges,
    users,       \* the accounts: [email, password, active]
    identities,  \* person -> the account linked to them
    started,     \* provider -> how many logins were started
    cookie,      \* provider -> the nonce in the browser, or 0
    login,       \* callback -> [pc, who, email, user]
    sessions,    \* history: <<person, account>> of completed logins
    credentials, \* the tokens: [kind, user, revoked, expired]
    request,     \* request -> [pc, token, row, late]
    refused,     \* tokens whose revocation was answered
    lateUse      \* a request sent after that was let in

loginVars == <<address, emailChanges, users, identities, started, cookie, login, sessions>>
tokenVars == <<credentials, request, refused, lateUse>>
accountVars == <<loginVars, tokenVars>>

Providers == {p[1] : p \in Persons}
NoLogin == [pc |-> "idle", who |-> <<"", 0>>, email |-> "", user |-> 0]
NoRow == [kind |-> "none", user |-> 0, revoked |-> FALSE, expired |-> FALSE]
NoRequest == [pc |-> "idle", token |-> 0, row |-> NoRow, late |-> FALSE]

GetByEmail(e) == {u \in DOMAIN users : users[u].email = e}
create(e, password) == Append(users, [email |-> e, password |-> password, active |-> TRUE])

-----------------------------------------------------------------------------
(* Accounts with a password. *)

Register == \E e \in Emails :
    /\ Len(users) < MaxAccounts /\ GetByEmail(e) = {}
    /\ users' = create(e, TRUE)
    /\ UNCHANGED <<address, emailChanges, identities, started, cookie, login, sessions, tokenVars>>

authenticatePasswordUser(u) == users[u].active /\ users[u].password

(* The personal token of a command line, and the cookie of a browser.      *)
issue(kind, u) ==
    /\ Len(credentials) < MaxCredentials
    /\ credentials' = Append(credentials, [kind |-> kind, user |-> u, revoked |-> FALSE, expired |-> FALSE])

CLILogin == \E u \in DOMAIN users : authenticatePasswordUser(u) /\ issue("cli_pat", u)
    /\ UNCHANGED <<loginVars, request, refused, lateUse>>
Login == \E u \in DOMAIN users : authenticatePasswordUser(u) /\ issue("web_session", u)
    /\ UNCHANGED <<loginVars, request, refused, lateUse>>

-----------------------------------------------------------------------------
(* Logins through a provider. *)

(* The nonce goes into the signed state and into a cookie.                 *)
Start == \E p \in Providers :
    /\ started[p] < MaxStarts
    /\ started' = [started EXCEPT ![p] = @ + 1]
    /\ cookie' = [cookie EXCEPT ![p] = started[p] + 1]
    /\ UNCHANGED <<address, emailChanges, users, identities, login, sessions, tokenVars>>

validateState(p, nonce) == nonce \in 1..started[p] /\ nonce = cookie[p]

(* The browser comes back with a state; the code is exchanged and the      *)
(* provider says who it is.  Google has to vouch for the address.          *)
Callback == \E c \in LoginCalls, who \in Persons, nonce \in 1..MaxStarts :
    /\ login[c] = NoLogin /\ validateState(who[1], nonce)
    /\ login' = [login EXCEPT ![c] = [pc |-> "identity", who |-> who, email |-> address[who], user |-> 0]]
    /\ UNCHANGED <<address, emailChanges, users, identities, started, cookie, sessions, tokenVars>>

finished(c, u) ==
    /\ login' = [login EXCEPT ![c] = NoLogin]
    /\ sessions' = sessions \cup {<<login[c].who, u>>}

(* Slip: the address decides, and the link is looked at for new ones only. *)
byAddressFirst(c) ==
    /\ login[c].pc = "identity"
    /\ LET known == GetByEmail(login[c].email) IN
        IF known # {} /\ login[c].who \in DOMAIN identities
        THEN LET u == CHOOSE u \in known : TRUE IN users[u].active /\ finished(c, u)
        ELSE login' = [login EXCEPT ![c].pc = "user"] /\ UNCHANGED sessions
    /\ UNCHANGED <<address, emailChanges, users, identities, started, cookie, tokenVars>>

(* A known person has an account, whatever the address is now.             *)
GetByProviderSubject(c) ==
    /\ login[c].pc = "identity"
    /\ IF login[c].who \in DOMAIN identities
       THEN LET u == identities[login[c].who] IN users[u].active /\ finished(c, u)
       ELSE login' = [login EXCEPT ![c].pc = "user"] /\ UNCHANGED sessions
    /\ UNCHANGED <<address, emailChanges, users, identities, started, cookie, tokenVars>>

(* Otherwise the account with that address, or a new one; of two that are  *)
(* made for one address the unique index refuses the second.               *)
FindUser(c) ==
    /\ login[c].pc = "user"
    /\ LET known == GetByEmail(login[c].email) IN
        IF known # {} THEN LET u == CHOOSE u \in known : TRUE IN
            /\ users[u].active
            /\ login' = [login EXCEPT ![c].pc = IF login[c].who[1] = "github" THEN "owner" ELSE "link", ![c].user = u]
        ELSE login' = [login EXCEPT ![c].pc = "create"]
    /\ UNCHANGED <<address, emailChanges, users, identities, started, cookie, sessions, tokenVars>>

CreateUser(c) ==
    /\ login[c].pc = "create" /\ Len(users) < MaxAccounts /\ GetByEmail(login[c].email) = {}
    /\ users' = create(login[c].email, FALSE)
    /\ login' = [login EXCEPT ![c].pc = "link", ![c].user = Len(users) + 1]
    /\ UNCHANGED <<address, emailChanges, identities, started, cookie, sessions, tokenVars>>

(* A GitHub login refuses an account that is linked to another person.     *)
GetByUserProvider(c) ==
    /\ login[c].pc = "owner"
    /\ \A who \in DOMAIN identities :
        identities[who] = login[c].user /\ who[1] = "github" => who = login[c].who
    /\ login' = [login EXCEPT ![c].pc = "link"]
    /\ UNCHANGED <<address, emailChanges, users, identities, started, cookie, sessions, tokenVars>>

(* One row per person: the unique index refuses another.                   *)
CreateIdentity(c) ==
    /\ login[c].pc = "link" /\ login[c].who \notin DOMAIN identities
    /\ identities' = [p \in DOMAIN identities \cup {login[c].who} |->
                        IF p = login[c].who THEN login[c].user ELSE identities[p]]
    /\ finished(c, login[c].user)
    /\ UNCHANGED <<address, emailChanges, users, started, cookie, tokenVars>>

(* A refusal, an error of the provider or of the database, or a crash; the *)
(* answer clears the cookie, as any answer to a callback does.             *)
CallbackFails(c) ==
    /\ login[c] # NoLogin /\ login' = [login EXCEPT ![c] = NoLogin]
    /\ UNCHANGED <<address, emailChanges, users, identities, started, cookie, sessions, tokenVars>>
clearStateCookie == \E p \in Providers :
    /\ cookie[p] # 0 /\ cookie' = [cookie EXCEPT ![p] = 0]
    /\ UNCHANGED <<address, emailChanges, users, identities, started, login, sessions, tokenVars>>

(* A person changes their address at the provider.                         *)
ChangeEmail == \E who \in Persons, e \in Emails :
    /\ emailChanges < MaxEmailChanges /\ address[who] # e
    /\ address' = [address EXCEPT ![who] = e] /\ emailChanges' = emailChanges + 1
    /\ UNCHANGED <<users, identities, started, cookie, login, sessions, tokenVars>>

-----------------------------------------------------------------------------
(* Tokens. *)

(* An enrolled agent's token is one too (see Enrollment).                  *)
IssueAgentToken == \E u \in DOMAIN users : issue("agent_token", u)
    /\ UNCHANGED <<loginVars, request, refused, lateUse>>

RevokePAT == \E t \in DOMAIN credentials :
    /\ credentials[t].kind = "cli_pat"
    /\ credentials' = [credentials EXCEPT ![t].revoked = TRUE]
    /\ refused' = refused \cup {t}
    /\ UNCHANGED <<loginVars, request, lateUse>>

Expire == \E t \in DOMAIN credentials :
    /\ ~credentials[t].expired
    /\ credentials' = [credentials EXCEPT ![t].expired = TRUE]
    /\ UNCHANGED <<loginVars, request, refused, lateUse>>

(* A request with a token.  A session is in the token itself; the others   *)
(* are looked up by their hash.                                            *)
ParseToken == \E r \in TokenCalls, t \in DOMAIN credentials :
    /\ request[r] = NoRequest /\ ~credentials[t].revoked /\ ~credentials[t].expired
    /\ request' = [request EXCEPT ![r] = [pc |-> "user", token |-> t, row |-> credentials[t], late |-> t \in refused]]
    /\ UNCHANGED <<loginVars, credentials, refused, lateUse>>

(* Slip: the use is noted by saving the row as it was read.                *)
saveRow(r) == credentials' = [credentials EXCEPT ![request[r].token] = request[r].row]
TouchLastUsed(r) == UNCHANGED credentials

validateActiveUser(r) ==
    /\ request[r].pc = "user" /\ users[request[r].row.user].active
    /\ IF request[r].row.kind = "web_session" THEN UNCHANGED credentials ELSE TouchLastUsed(r)
    /\ lateUse' = (lateUse \/ request[r].late)
    /\ request' = [request EXCEPT ![r] = NoRequest]
    /\ UNCHANGED <<loginVars, refused>>

RequestRefused(r) ==
    /\ request[r].pc = "user" /\ ~users[request[r].row.user].active
    /\ request' = [request EXCEPT ![r] = NoRequest]
    /\ UNCHANGED <<loginVars, credentials, refused, lateUse>>

(* The status of an account is changed in the database.                    *)
DisableAccount == \E u \in DOMAIN users :
    /\ users[u].active /\ users' = [users EXCEPT ![u].active = FALSE]
    /\ UNCHANGED <<address, emailChanges, identities, started, cookie, login, sessions, tokenVars>>

AccountInit ==
    /\ address \in [Persons -> Emails] /\ emailChanges = 0
    /\ users = <<>> /\ identities = <<>>
    /\ started = [p \in Providers |-> 0] /\ cookie = [p \in Providers |-> 0]
    /\ login = [c \in LoginCalls |-> NoLogin] /\ sessions = {}
    /\ credentials = <<>> /\ request = [r \in TokenCalls |-> NoRequest]
    /\ refused = {} /\ lateUse = FALSE

LoginStep(c) == GetByProviderSubject(c) \/ FindUser(c) \/ CreateUser(c) \/ GetByUserProvider(c)
    \/ CreateIdentity(c) \/ CallbackFails(c)
LoginNext == Register \/ Start \/ Callback \/ (\E c \in LoginCalls : LoginStep(c))
    \/ clearStateCookie \/ ChangeEmail
TokenNext == Register \/ CLILogin \/ Login \/ IssueAgentToken \/ RevokePAT \/ Expire \/ ParseToken \/ DisableAccount
    \/ (\E r \in TokenCalls : validateActiveUser(r) \/ RequestRefused(r))

AccountSpec == AccountInit /\ [][LoginNext \/ TokenNext]_accountVars

-----------------------------------------------------------------------------
(* A person always ends up in the same account, however often they log in, *)
(* with whatever address and however their logins overlap and fail; and    *)
(* two accounts never share an address.                                    *)
OneAccountPerPerson ==
    /\ \A s, t \in sessions : s[1] = t[1] => s[2] = t[2]
    /\ \A u, v \in DOMAIN users : users[u].email = users[v].email => u = v

(* Once a revocation was answered, no request sent later gets in with the  *)
(* token, even if an earlier one is still being served.                    *)
RevokedIsRefused == ~lateUse

=============================================================================
