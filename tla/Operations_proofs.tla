-------------------------- MODULE Operations_proofs ---------------------------
(***************************************************************************)
(* Operating a project, each part for every value of its constants: the    *)
(* logins and the tokens, the incidents raised from logs, the pages of     *)
(* public addresses, the workspaces of an agent's releases, the images a   *)
(* build gives to the services, and the environment they are started with. *)
(***************************************************************************)
EXTENDS Accounts, Observability, PublicAddress, Workspaces, BuildArtifacts, ServiceEnv,
        Induction, FiniteSetTheorems, FunctionTheorems, SequenceTheorems, TLAPS

-----------------------------------------------------------------------------
(* Accounts.  A completed login ends in the account its person is linked   *)
(* to, and a link is never replaced; a token that is refused is revoked,   *)
(* and no request under way was sent after the answer.                     *)

Account == [email : Emails, password : BOOLEAN, active : BOOLEAN]
TokenKinds == {"none", "cli_pat", "web_session", "agent_token"}
LoginSteps == {"idle", "identity", "user", "create", "owner", "link"}
Token == [kind : TokenKinds, user : Nat, revoked : BOOLEAN, expired : BOOLEAN]
LoginPersons == Persons \cup {<<"", 0>>}
LoginEmails == Emails \cup {""}
LoginState == [pc : LoginSteps, who : LoginPersons, email : LoginEmails, user : Nat]
RequestState == [pc : {"idle", "user"}, token : Nat, row : Token, late : BOOLEAN]

LoginInv ==
    /\ address \in [Persons -> Emails] /\ users \in Seq(Account)
    /\ login \in [LoginCalls -> LoginState]
    /\ \A c \in LoginCalls : login[c].pc # "idle" => login[c].email \in Emails
    /\ \A s \in sessions : s[1] \in DOMAIN identities /\ identities[s[1]] = s[2]
    /\ \A u, v \in DOMAIN users : users[u].email = users[v].email => u = v

TokenInv ==
    /\ credentials \in Seq(Token)
    /\ \A t \in refused : t \in DOMAIN credentials /\ credentials[t].revoked
    /\ request \in [TokenCalls -> RequestState]
    /\ \A r \in TokenCalls : ~request[r].late
    /\ ~lateUse

(* No login and no request under way, and whom a login is of. *)
LEMMA Nothing ==
    /\ NoLogin \in LoginState /\ NoLogin.pc = "idle" /\ NoRequest \in RequestState /\ ~NoRequest.late
    /\ Persons \subseteq LoginPersons
<1>1. PICK w : w = <<"", 0>> OBVIOUS
<1>2. w \in LoginPersons /\ Persons \subseteq LoginPersons BY <1>1, Zenon DEF LoginPersons
<1>3. NoLogin = [pc |-> "idle", who |-> w, email |-> "", user |-> 0] BY <1>1, Zenon DEF NoLogin
<1>4. NoLogin \in LoginState /\ NoLogin.pc = "idle" BY <1>2, <1>3 DEF LoginState, LoginEmails, LoginSteps
<1>5. NoRow \in Token BY DEF NoRow, Token, TokenKinds
<1>6. NoRequest \in RequestState /\ ~NoRequest.late BY <1>5 DEF NoRequest, RequestState
<1> QED BY <1>2, <1>4, <1>6

LEMMA Steps == "user" \in LoginSteps /\ "create" \in LoginSteps /\ "link" \in LoginSteps
BY DEF LoginSteps

(* A login under way that goes on keeps its address. *)
LoginTyped ==
    /\ login \in [LoginCalls -> LoginState]
    /\ \A c \in LoginCalls : login[c].pc # "idle" => login[c].email \in Emails

LEMMA LoginMoves ==
    ASSUME LoginInv, NEW c \in LoginCalls, login[c].pc # "idle", NEW l \in LoginSteps,
           login' = [login EXCEPT ![c].pc = l]
    PROVE  LoginTyped'
<1>1. PICK new : new = [login[c] EXCEPT !.pc = l] OBVIOUS
<1>2. login[c] \in LoginState /\ login[c].email \in Emails BY DEF LoginInv
<1>3. new \in LoginState /\ new.email = login[c].email BY <1>1, <1>2 DEF LoginState
<1>4. login' = [login EXCEPT ![c] = new] BY <1>1, Zenon
<1> QED BY ONLY LoginInv, <1>2, <1>3, <1>4 DEF LoginInv, LoginTyped

LEMMA LoginFinds ==
    ASSUME LoginInv, NEW c \in LoginCalls, login[c].pc # "idle", NEW l \in LoginSteps, NEW u \in Nat,
           login' = [login EXCEPT ![c].pc = l, ![c].user = u]
    PROVE  LoginTyped'
<1>1. PICK new : new = [login[c] EXCEPT !.pc = l] OBVIOUS
<1>2. PICK moved : moved = [login EXCEPT ![c].pc = l] OBVIOUS
<1>3. login' = [moved EXCEPT ![c].user = u] BY <1>2, Zenon
<1>4. login[c] \in LoginState /\ login[c].email \in Emails BY DEF LoginInv
<1>5. new \in LoginState /\ new.email = login[c].email BY <1>1, <1>4 DEF LoginState
<1>6. moved = [login EXCEPT ![c] = new] BY <1>1, <1>2, Zenon
<1>7. PICK found : found = [moved[c] EXCEPT !.user = u] OBVIOUS
<1>8. moved[c] = new /\ moved \in [LoginCalls -> LoginState]
      /\ \A d \in LoginCalls : moved[d].pc # "idle" => moved[d].email \in Emails
  BY ONLY LoginInv, <1>4, <1>5, <1>6 DEF LoginInv
<1>9. found = [new EXCEPT !.user = u] BY <1>7, <1>8, Zenon
<1>10. found \in LoginState /\ found.email = new.email BY <1>5, <1>9 DEF LoginState
<1>11. login' = [moved EXCEPT ![c] = found] BY <1>3, <1>7, Zenon
<1> QED BY ONLY LoginInv, <1>4, <1>5, <1>8, <1>10, <1>11 DEF LoginTyped

LEMMA AccountInit_Inv == AccountInit => LoginInv /\ TokenInv
<1> SUFFICES ASSUME AccountInit PROVE LoginInv /\ TokenInv
  OBVIOUS
<1>1. LoginInv BY Nothing DEF AccountInit, LoginInv
<1>2. TokenInv BY Nothing DEF AccountInit, TokenInv
<1> QED BY <1>1, <1>2

LEMMA LoginKept == LoginInv /\ UNCHANGED loginVars => LoginInv'
BY DEF LoginInv, loginVars

LEMMA TokenKept == TokenInv /\ UNCHANGED tokenVars => TokenInv'
BY DEF TokenInv, tokenVars

(* A new account has an address no other has. *)
LEMMA CreateKeeps ==
    ASSUME LoginInv, NEW e \in Emails, NEW password \in BOOLEAN, GetByEmail(e) = {}, users' = create(e, password)
    PROVE  /\ users' \in Seq(Account)
           /\ \A u, v \in DOMAIN users' : users'[u].email = users'[v].email => u = v
<1> DEFINE new == [email |-> e, password |-> password, active |-> TRUE]
<1>1. new \in Account /\ users \in Seq(Account) /\ users' = Append(users, new) BY DEF Account, create, LoginInv
<1>2. /\ users' \in Seq(Account) /\ Len(users) \in Nat /\ Len(users') = Len(users) + 1
      /\ DOMAIN users' = 1 .. Len(users) + 1 /\ DOMAIN users = 1 .. Len(users)
      /\ \A u \in DOMAIN users : users'[u] = users[u]
      /\ users'[Len(users) + 1] = new
  BY <1>1
<1>3. \A u \in DOMAIN users' : u = Len(users) + 1 \/ u \in DOMAIN users BY <1>2
<1>4. \A u \in DOMAIN users : users[u].email # e BY DEF GetByEmail
<1>5. new.email = e OBVIOUS
<1> HIDE DEF new
<1>6. \A u, v \in DOMAIN users' : users'[u].email = users'[v].email => u = v
  BY <1>2, <1>3, <1>4, <1>5 DEF LoginInv
<1> QED BY <1>2, <1>6

(* A login that ends in the account of its person. *)
LEMMA FinishedKeeps ==
    ASSUME LoginInv, NEW c \in LoginCalls, NEW u, finished(c, u),
           \A p \in DOMAIN identities : p \in DOMAIN identities' /\ identities'[p] = identities[p],
           login[c].who \in DOMAIN identities', identities'[login[c].who] = u,
           UNCHANGED <<address, users>>
    PROVE  LoginInv'
BY Nothing DEF LoginInv, finished

LEMMA LoginStep_Inv ==
    ASSUME LoginInv, NEW c \in LoginCalls, LoginStep(c)
    PROVE  LoginInv'
<1>1. CASE GetByProviderSubject(c)
  <2>1. CASE login[c].who \in DOMAIN identities
    BY <1>1, <2>1, FinishedKeeps DEF GetByProviderSubject
  <2>2. CASE login[c].who \notin DOMAIN identities
    <3>1. /\ login[c].pc # "idle" /\ login' = [login EXCEPT ![c].pc = "user"]
          /\ UNCHANGED <<address, users, identities, sessions>>
      BY <1>1, <2>2, Zenon DEF GetByProviderSubject
    <3>2. LoginTyped' BY <3>1, Steps, LoginMoves, Zenon
    <3>3. UNCHANGED <<address, users, identities, sessions>> BY <3>1, Zenon
    <3> QED BY ONLY LoginInv, <3>2, <3>3 DEF LoginInv, LoginTyped
  <2> QED BY <2>1, <2>2
<1>2. CASE FindUser(c)
  <2>1. UNCHANGED <<address, users, identities, sessions>> BY <1>2, Zenon DEF FindUser
  <2>2. login[c].pc # "idle" BY <1>2, Zenon DEF FindUser
  <2>3. CASE GetByEmail(login[c].email) = {}
    <3>1. login' = [login EXCEPT ![c].pc = "create"] BY <1>2, <2>3, Zenon DEF FindUser
    <3>2. LoginTyped' BY <2>2, <3>1, Steps, LoginMoves, Zenon
    <3> QED BY ONLY LoginInv, <2>1, <3>2 DEF LoginInv, LoginTyped
  <2>4. CASE GetByEmail(login[c].email) # {}
    <3>1. PICK u : u = CHOOSE v \in GetByEmail(login[c].email) : TRUE OBVIOUS
    <3>2. u \in Nat BY <2>4, <3>1 DEF GetByEmail, LoginInv
    <3>3. PICK l : l = IF login[c].who[1] = "github" THEN "owner" ELSE "link" OBVIOUS
    <3>4. l \in LoginSteps BY <3>3 DEF LoginSteps
    <3>5. login' = [login EXCEPT ![c].pc = l, ![c].user = u] BY <1>2, <2>4, <3>1, <3>3, Zenon DEF FindUser
    <3>6. LoginTyped' BY <2>2, <3>2, <3>4, <3>5, LoginFinds, Zenon
    <3> QED BY ONLY LoginInv, <2>1, <3>6 DEF LoginInv, LoginTyped
  <2> QED BY <2>3, <2>4
<1>3. CASE CreateUser(c)
  <2>1. /\ login[c].pc # "idle" /\ GetByEmail(login[c].email) = {} /\ users' = create(login[c].email, FALSE)
        /\ UNCHANGED <<address, identities, sessions>>
    BY <1>3, Zenon DEF CreateUser
  <2>2. login[c].email \in Emails BY <2>1 DEF LoginInv
  <2>3. users' \in Seq(Account) /\ \A u, v \in DOMAIN users' : users'[u].email = users'[v].email => u = v
    BY <2>1, <2>2, CreateKeeps
  <2>4. PICK n : n = Len(users) + 1 OBVIOUS
  <2>5. n \in Nat BY <2>4 DEF LoginInv
  <2>6. login' = [login EXCEPT ![c].pc = "link", ![c].user = n] BY <1>3, <2>4, Zenon DEF CreateUser
  <2>7. LoginTyped' BY <2>1, <2>5, <2>6, Steps, LoginFinds, Zenon
  <2> QED BY ONLY LoginInv, <2>1, <2>3, <2>7 DEF LoginInv, LoginTyped
<1>4. CASE GetByUserProvider(c)
  <2>1. /\ login[c].pc # "idle" /\ login' = [login EXCEPT ![c].pc = "link"]
        /\ UNCHANGED <<address, users, identities, sessions>>
    BY <1>4, Zenon DEF GetByUserProvider
  <2>2. UNCHANGED <<address, users, identities, sessions>> BY <2>1, Zenon
  <2>3. LoginTyped' BY <2>1, Steps, LoginMoves, Zenon
  <2> QED BY ONLY LoginInv, <2>2, <2>3 DEF LoginInv, LoginTyped
<1>5. CASE CreateIdentity(c)
  <2>1. /\ finished(c, login[c].user) /\ UNCHANGED <<address, users>>
        /\ login[c].who \notin DOMAIN identities
        /\ identities' = [p \in DOMAIN identities \cup {login[c].who} |->
                            IF p = login[c].who THEN login[c].user ELSE identities[p]]
    BY <1>5 DEF CreateIdentity
  <2> QED BY <2>1, FinishedKeeps
<1>6. CASE CallbackFails(c) BY <1>6, Nothing DEF CallbackFails, LoginInv
<1> QED BY <1>1, <1>2, <1>3, <1>4, <1>5, <1>6 DEF LoginStep

LEMMA LoginNext_Inv == LoginInv /\ LoginNext => LoginInv' /\ UNCHANGED tokenVars
<1> SUFFICES ASSUME LoginInv, LoginNext PROVE LoginInv' /\ UNCHANGED tokenVars
  OBVIOUS
<1>1. CASE Register
  <2>1. PICK e \in Emails : GetByEmail(e) = {} /\ users' = create(e, TRUE) BY <1>1 DEF Register
  <2>2. users' \in Seq(Account) /\ \A u, v \in DOMAIN users' : users'[u].email = users'[v].email => u = v
    BY <2>1, CreateKeeps
  <2> QED BY <1>1, <2>2 DEF Register, LoginInv
<1>2. CASE Start BY <1>2 DEF Start, LoginInv
<1>3. CASE Callback
  <2>1. PICK c \in LoginCalls, who \in Persons :
            /\ login' = [login EXCEPT ![c] = [pc |-> "identity", who |-> who, email |-> address[who], user |-> 0]]
            /\ UNCHANGED <<address, users, identities, sessions, tokenVars>>
    BY <1>3 DEF Callback
  <2>2. [pc |-> "identity", who |-> who, email |-> address[who], user |-> 0] \in LoginState /\ address[who] \in Emails
    BY Nothing DEF LoginState, LoginEmails, LoginSteps, LoginInv
  <2> QED BY <2>1, <2>2 DEF LoginInv
<1>4. ASSUME NEW c \in LoginCalls, LoginStep(c) PROVE LoginInv' /\ UNCHANGED tokenVars
  <2>1. UNCHANGED tokenVars
    BY <1>4 DEF LoginStep, GetByProviderSubject, FindUser, CreateUser, GetByUserProvider, CreateIdentity, CallbackFails
  <2> QED BY <1>4, <2>1, LoginStep_Inv
<1>5. CASE clearStateCookie BY <1>5 DEF clearStateCookie, LoginInv
<1>6. CASE ChangeEmail BY <1>6 DEF ChangeEmail, LoginInv
<1> QED BY <1>1, <1>2, <1>3, <1>4, <1>5, <1>6 DEF LoginNext

(* A token is added at the end, and is not refused. *)
LEMMA IssueKeeps ==
    ASSUME LoginInv, TokenInv, NEW u \in DOMAIN users, NEW kind \in TokenKinds, issue(kind, u),
           UNCHANGED <<request, refused, lateUse>>
    PROVE  TokenInv'
<1> DEFINE new == [kind |-> kind, user |-> u, revoked |-> FALSE, expired |-> FALSE]
<1>1. u \in Nat BY DEF LoginInv
<1>2. new \in Token /\ credentials \in Seq(Token) /\ credentials' = Append(credentials, new)
  BY <1>1 DEF issue, Token, TokenInv
<1> HIDE DEF new
<1>3. /\ credentials' \in Seq(Token)
      /\ \A t \in DOMAIN credentials : t \in DOMAIN credentials' /\ credentials'[t] = credentials[t]
  BY <1>2
<1> QED BY <1>3 DEF TokenInv

(* A token is a record of the sequence. *)
LEMMA TokenAt ==
    ASSUME TokenInv, NEW t \in DOMAIN credentials
    PROVE  t \in Nat /\ credentials[t] \in Token
BY DEF TokenInv

LEMMA TokenNext_Inv == LoginInv /\ TokenInv /\ TokenNext => LoginInv' /\ TokenInv'
<1> SUFFICES ASSUME LoginInv, TokenInv, TokenNext PROVE LoginInv' /\ TokenInv'
  OBVIOUS
<1>1. CASE Register BY <1>1, LoginNext_Inv, TokenKept DEF LoginNext
<1>2. CASE CLILogin \/ Login \/ IssueAgentToken
  <2>1. \E u \in DOMAIN users : issue("cli_pat", u) \/ issue("web_session", u) \/ issue("agent_token", u)
    BY <1>2 DEF CLILogin, Login, IssueAgentToken
  <2>2. UNCHANGED <<request, refused, lateUse>> /\ UNCHANGED loginVars
    BY <1>2 DEF CLILogin, Login, IssueAgentToken
  <2>3. PICK u \in DOMAIN users, kind \in TokenKinds : issue(kind, u) BY <2>1 DEF TokenKinds
  <2>4. TokenInv' BY <2>2, <2>3, IssueKeeps
  <2> QED BY <2>2, <2>4, LoginKept
<1>3. CASE RevokePAT
  <2>1. PICK t \in DOMAIN credentials :
            /\ credentials' = [credentials EXCEPT ![t].revoked = TRUE]
            /\ refused' = refused \cup {t} /\ UNCHANGED <<request, lateUse>>
    BY <1>3 DEF RevokePAT
  <2>2. PICK new : new = [credentials[t] EXCEPT !.revoked = TRUE] OBVIOUS
  <2>3. new \in Token /\ new.revoked BY <2>2, TokenAt DEF Token
  <2>4. credentials' = [credentials EXCEPT ![t] = new] BY <2>1, <2>2, Zenon
  <2>5. refused' = refused \cup {t} /\ request' = request /\ lateUse' = lateUse BY <2>1, Zenon
  <2>6. TokenInv' BY ONLY TokenInv, <2>3, <2>4, <2>5 DEF TokenInv
  <2>7. UNCHANGED loginVars BY <1>3, Zenon DEF RevokePAT
  <2> QED BY <2>6, <2>7, LoginKept
<1>4. CASE Expire
  <2>1. PICK t \in DOMAIN credentials :
            credentials' = [credentials EXCEPT ![t].expired = TRUE] /\ UNCHANGED <<request, refused, lateUse>>
    BY <1>4 DEF Expire
  <2>2. PICK new : new = [credentials[t] EXCEPT !.expired = TRUE] OBVIOUS
  <2>3. new \in Token /\ new.revoked = credentials[t].revoked BY <2>2, TokenAt DEF Token
  <2>4. credentials' = [credentials EXCEPT ![t] = new] BY <2>1, <2>2, Zenon
  <2>5. refused' = refused /\ request' = request /\ lateUse' = lateUse BY <2>1, Zenon
  <2>6. TokenInv' BY ONLY TokenInv, <2>3, <2>4, <2>5 DEF TokenInv
  <2>7. UNCHANGED loginVars BY <1>4, Zenon DEF Expire
  <2> QED BY <2>6, <2>7, LoginKept
<1>5. CASE ParseToken
  <2>1. PICK r \in TokenCalls, t \in DOMAIN credentials :
            /\ ~credentials[t].revoked /\ UNCHANGED <<credentials, refused, lateUse>>
            /\ request' = [request EXCEPT ![r] =
                              [pc |-> "user", token |-> t, row |-> credentials[t], late |-> t \in refused]]
    BY <1>5 DEF ParseToken
  <2>2. t \in Nat /\ credentials[t] \in Token /\ ~(t \in refused) BY <2>1, TokenAt DEF TokenInv
  <2>3. (t \in refused) = FALSE BY <2>2
  <2>4. PICK new : new = [pc |-> "user", token |-> t, row |-> credentials[t], late |-> FALSE] OBVIOUS
  <2>5. new \in RequestState /\ ~new.late BY <2>2, <2>4 DEF RequestState
  <2>6. request' = [request EXCEPT ![r] = new] BY <2>1, <2>3, <2>4, Zenon
  <2>7. UNCHANGED <<credentials, refused, lateUse>> BY <2>1, Zenon
  <2>8. TokenInv' BY ONLY TokenInv, <2>5, <2>6, <2>7 DEF TokenInv
  <2> QED BY <1>5, <2>8, LoginKept DEF ParseToken
<1>6. CASE DisableAccount
  <2>1. PICK u \in DOMAIN users : users' = [users EXCEPT ![u].active = FALSE] BY <1>6 DEF DisableAccount
  <2>2. /\ users' \in Seq(Account) /\ DOMAIN users' = DOMAIN users
        /\ \A v \in DOMAIN users : users'[v].email = users[v].email
    <3>1. PICK new : new = [users[u] EXCEPT !.active = FALSE] OBVIOUS
    <3>2. users[u] \in Account BY DEF LoginInv
    <3>3. new \in Account /\ new.email = users[u].email BY <3>1, <3>2 DEF Account
    <3>4. users' = [users EXCEPT ![u] = new] BY <2>1, <3>1, Zenon
    <3> QED BY <3>3, <3>4 DEF LoginInv
  <2> QED BY <1>6, <2>2, TokenKept DEF DisableAccount, LoginInv
<1>7. ASSUME NEW r \in TokenCalls, validateActiveUser(r) \/ RequestRefused(r) PROVE LoginInv' /\ TokenInv'
  <2>1. ~request[r].late /\ ~lateUse BY DEF TokenInv
  <2>2. ~lateUse' BY <1>7, <2>1, Zenon DEF validateActiveUser, RequestRefused
  <2>3. request' = [request EXCEPT ![r] = NoRequest] /\ UNCHANGED <<credentials, refused>>
    BY <1>7, Zenon DEF validateActiveUser, RequestRefused, TouchLastUsed
  <2>4. TokenInv' BY ONLY TokenInv, <2>2, <2>3, Nothing DEF TokenInv
  <2> QED BY <1>7, <2>4, LoginKept DEF validateActiveUser, RequestRefused
<1> QED BY <1>1, <1>2, <1>3, <1>4, <1>5, <1>6, <1>7 DEF TokenNext

LEMMA AccountInv_Holds == AccountSpec => [](LoginInv /\ TokenInv)
<1>1. LoginInv /\ TokenInv /\ [LoginNext \/ TokenNext]_accountVars => LoginInv' /\ TokenInv'
  BY LoginNext_Inv, TokenNext_Inv, LoginKept, TokenKept DEF accountVars
<1> QED BY <1>1, AccountInit_Inv, PTL DEF AccountSpec

(* A person ends up in one account and an address belongs to one, for any  *)
(* number of persons, callbacks and addresses (the logins of               *)
(* github_oauth_service.go and google_oauth_service.go).                   *)
THEOREM OneAccount == AccountSpec => []OneAccountPerPerson
<1>1. LoginInv => OneAccountPerPerson BY DEF LoginInv, OneAccountPerPerson
<1> QED BY <1>1, AccountInv_Holds, PTL

(* No request that was sent after a revocation was answered gets in, for   *)
(* any number of requests and tokens (middleware/auth.go, RevokePAT).      *)
THEOREM RevokedRefused == AccountSpec => []RevokedIsRefused
<1>1. TokenInv => RevokedIsRefused BY DEF TokenInv, RevokedIsRefused
<1> QED BY <1>1, AccountInv_Holds, PTL

-----------------------------------------------------------------------------
(* Observability. While a text is not torn, the row that is read for it    *)
(* ends a suppression window after the text was last heard of, and a batch *)
(* alone at the text holds that row. Parameters stand for variables.       *)

Indexed  == {l \in Lines : shouldIndexErrorKnowledge(l)}
Incident == [text : Texts, sev : 1..3, torn : BOOLEAN, early : BOOLEAN]
AlertRow == [id : Nat, text : Texts, sev : 0..3, until : Nat, incident : BOOLEAN]

\* The row says that its text was last heard of at that time.
Tells(entry, at) ==
    /\ entry.until = at + Quiet
    /\ OneSeverity(entry.text) => \A l \in Indexed : l.text = entry.text => entry.sev = proactiveAlertSeverity(l)

RowsSound(table, times, exempt) ==
    /\ table \subseteq AlertRow /\ times \in [Texts -> Nat]
    /\ \A r, s \in table : r.text = s.text /\ r.id = s.id => r = s
    /\ \A t \in Texts \ exempt : times[t] # 0 =>
          \E r \in table : r.text = t /\ Tells(r, times[t]) /\ \A s \in table : s.text = t => r.id <= s.id

\* The row would be read again.
Current(table, entry) == \A r \in table : r.text = entry.text => entry \in table /\ entry.id <= r.id

Busy(call) == call.pc \in {"raise", "save"}

BatchSound(call) ==
    /\ call.pc = "index"  => call.lines \subseteq Lines
    /\ call.pc \in {"alerts", "raise", "save"} => call.lines \subseteq Indexed
    /\ Busy(call) => /\ call.line \in Indexed /\ call.row \in AlertRow /\ call.now \in Nat
                     /\ call.row.text = call.line.text

BatchesSound(calls, table, exempt, shared) ==
    /\ DOMAIN calls = IngestCalls
    /\ shared \subseteq IngestCalls /\ \A c \in shared : Busy(calls[c])
    /\ \A c \in IngestCalls : BatchSound(calls[c])
    /\ \A c \in IngestCalls : Busy(calls[c]) =>
          IF c \in shared THEN calls[c].line.text \in exempt ELSE Current(table, calls[c].row)
    /\ \A c, d \in IngestCalls : Busy(calls[c]) /\ Busy(calls[d]) /\ calls[c].line.text = calls[d].line.text
          => c = d \/ c \in shared

IncidentsSound(list) ==
    /\ list \in Seq(Incident)
    /\ \A i \in DOMAIN list : OneSeverity(list[i].text) /\ ~list[i].torn => ~list[i].early

AlertInv ==
    /\ RowsSound(alerts, heard, torn) /\ BatchesSound(ingests, alerts, torn, crossed)
    /\ IncidentsSound(incidents) /\ clock \in Nat

LEMMA Severities == \A l \in Lines : proactiveAlertSeverity(l) \in 1..3
  BY DEF proactiveAlertSeverity

\* A batch is at no text any more, or not yet.
LEMMA NotBusy ==
  ASSUME AlertInv, NEW c \in IngestCalls, NEW v, BatchSound(v), ~Busy(v),
         ingests' = [ingests EXCEPT ![c] = v], crossed' = crossed \ {c},
         UNCHANGED <<alerts, heard, torn, incidents, clock>>
  PROVE  AlertInv'
  <1>1. /\ DOMAIN ingests' = IngestCalls /\ ingests'[c] = v
        /\ \A d \in IngestCalls : d # c => ingests'[d] = ingests[d]
    BY DEF AlertInv, BatchesSound
  <1>2. BatchesSound(ingests', alerts, torn, crossed')
    BY <1>1 DEF AlertInv, BatchesSound
  <1> QED BY <1>2 DEF AlertInv

LEMMA StillNotBusy ==
  ASSUME AlertInv, NEW c \in IngestCalls, ~Busy(ingests[c]), NEW v, BatchSound(v), ~Busy(v),
         ingests' = [ingests EXCEPT ![c] = v],
         UNCHANGED <<alerts, heard, torn, crossed, incidents, clock>>
  PROVE  AlertInv'
  <1>1. crossed' = crossed \ {c}  BY DEF AlertInv, BatchesSound
  <1> QED BY <1>1, NotBusy

LEMMA Idle == BatchSound(IdleIngest) /\ ~Busy(IdleIngest)
  BY DEF BatchSound, Busy, IdleIngest

LEMMA BatchKeeps ==
  ASSUME AlertInv, NEW c \in IngestCalls, NEW ids, NEW at, CreateBatch(c, ids, at)
  PROVE  AlertInv'
  <1>1. PICK batch \in SUBSET Lines :
          /\ ingests[c].pc = "idle"
          /\ ingests' = [ingests EXCEPT ![c] = [pc |-> "index", lines |-> batch]]
          /\ UNCHANGED <<unique, alertVars, reader, rollups, clock>>
    BY Zenon DEF CreateBatch
  <1>2. PICK v : v = [pc |-> "index", lines |-> batch]  OBVIOUS
  <1>3. ingests' = [ingests EXCEPT ![c] = v]  BY <1>1, <1>2
  <1>4. BatchSound(v) /\ ~Busy(v)  BY <1>2 DEF BatchSound, Busy
  <1> QED BY <1>1, <1>3, <1>4, StillNotBusy DEF alertVars, Busy

LEMMA IndexKeeps ==
  ASSUME AlertInv, NEW c \in IngestCalls, IndexLogEntries(c)
  PROVE  AlertInv'
  <1> DEFINE found == {l \in ingests[c].lines : shouldIndexErrorKnowledge(l)}
  <1>1. /\ ingests[c].pc = "index" /\ UNCHANGED <<alerts, heard, torn, crossed, incidents, clock>>
        /\ \/ ingests' = [ingests EXCEPT ![c] = [pc |-> "alerts", lines |-> found]]
           \/ ingests' = [ingests EXCEPT ![c] = IdleIngest]
    BY Zenon DEF IndexLogEntries
  <1>2. found \subseteq Indexed  BY <1>1 DEF AlertInv, BatchesSound, BatchSound, Indexed
  <1> HIDE DEF found
  <1>3. CASE ingests' = [ingests EXCEPT ![c] = [pc |-> "alerts", lines |-> found]]
    <2>1. PICK v : v = [pc |-> "alerts", lines |-> found]  OBVIOUS
    <2>2. ingests' = [ingests EXCEPT ![c] = v]  BY <1>3, <2>1
    <2>3. BatchSound(v) /\ ~Busy(v)  BY <1>2, <2>1 DEF BatchSound, Busy
    <2> QED BY <1>1, <2>2, <2>3, StillNotBusy DEF Busy
  <1>4. CASE ingests' = [ingests EXCEPT ![c] = IdleIngest]
    BY <1>1, <1>4, Idle, StillNotBusy DEF Busy
  <1> QED BY <1>1, <1>3, <1>4

LEMMA TakenUpKeeps ==
  ASSUME AlertInv, NEW c \in IngestCalls, GetByFingerprint(c)
  PROVE  AlertInv'
  <1>1. PICK line \in ingests[c].lines : \E entry \in alerts \cup {NewRow(c, line.text)} :
          /\ ingests[c].pc = "alerts" /\ IsFirst(entry, line.text)
          /\ ingests' = [ingests EXCEPT ![c] = [pc |-> "raise", line |-> line, row |-> entry, now |-> clock,
                             lines |-> {l \in @.lines : l.text # line.text}]]
          /\ crossed' = IF AtText(line.text) = {} THEN crossed ELSE crossed \cup AtText(line.text) \cup {c}
          /\ torn' = IF AtText(line.text) = {} THEN torn ELSE torn \cup {line.text}
          /\ UNCHANGED <<alerts, incidents, heard, clock>>
    BY Zenon DEF GetByFingerprint
  <1>2. PICK new : new = NewRow(c, line.text)  OBVIOUS
  <1>3. PICK entry \in alerts \cup {new} :
          /\ ingests[c].pc = "alerts" /\ IsFirst(entry, line.text)
          /\ ingests' = [ingests EXCEPT ![c] = [pc |-> "raise", line |-> line, row |-> entry, now |-> clock,
                             lines |-> {l \in @.lines : l.text # line.text}]]
          /\ crossed' = IF AtText(line.text) = {} THEN crossed ELSE crossed \cup AtText(line.text) \cup {c}
          /\ torn' = IF AtText(line.text) = {} THEN torn ELSE torn \cup {line.text}
          /\ UNCHANGED <<alerts, incidents, heard, clock>>
    BY <1>1, <1>2
  <1>4. ingests[c].lines \subseteq Indexed  BY <1>3 DEF AlertInv, BatchesSound, BatchSound
  <1>5. line \in Indexed /\ line.text \in Texts  BY <1>4 DEF Indexed, Lines
  <1>6. entry \in AlertRow /\ entry.text = line.text /\ Current(alerts, entry)
    <2>1. new \in AlertRow  BY <1>2, <1>5, ObservabilityAssumption DEF NewRow, AlertRow
    <2>2. alerts \subseteq AlertRow  BY DEF AlertInv, RowsSound
    <2>3. entry.text = line.text /\ Current(alerts, entry)  BY <1>3 DEF IsFirst, Current
    <2> QED BY <2>1, <2>2, <2>3
  <1>7. PICK rest : rest = {l \in ingests[c].lines : l.text # line.text}  OBVIOUS
  <1>8. PICK v : v = [pc |-> "raise", line |-> line, row |-> entry, now |-> clock, lines |-> rest]  OBVIOUS
  <1>9. ingests' = [ingests EXCEPT ![c] = v]
    <2>1. ingests' = [ingests EXCEPT ![c] = [pc |-> "raise", line |-> line, row |-> entry, now |-> clock,
                             lines |-> {l \in ingests[c].lines : l.text # line.text}]]
      BY <1>3 DEF AlertInv, BatchesSound
    <2> QED BY <1>7, <1>8, <2>1
  <1>10. v.pc = "raise" /\ v.line = line /\ v.row = entry /\ v.now = clock /\ v.lines = rest  BY <1>8
  <1>11. rest \subseteq Indexed  BY <1>4, <1>7
  <1>12. BatchSound(v) /\ Busy(v)
    <2>1. clock \in Nat  BY DEF AlertInv
    <2> QED BY <1>5, <1>6, <1>10, <1>11, <2>1 DEF BatchSound, Busy
  <1>13. /\ DOMAIN ingests' = IngestCalls /\ ingests'[c] = v
         /\ \A d \in IngestCalls : d # c => ingests'[d] = ingests[d]
         /\ ~Busy(ingests[c]) /\ c \notin crossed
    BY <1>3, <1>9 DEF AlertInv, BatchesSound, Busy
  <1>14. \A d \in IngestCalls : d \in AtText(line.text) <=> Busy(ingests[d]) /\ ingests[d].line.text = line.text
    BY DEF AtText, Busy
  <1>15. AtText(line.text) \subseteq IngestCalls  BY DEF AtText
  <1>16. BatchesSound(ingests, alerts, torn, crossed)  BY DEF AlertInv
  <1>17. BatchesSound(ingests', alerts, torn', crossed')
    <2>1. CASE AtText(line.text) = {}
      <3>1. crossed' = crossed /\ torn' = torn  BY <1>3, <2>1
      <3> QED BY ONLY <1>6, <1>10, <1>12, <1>13, <1>14, <1>16, <2>1, <3>1, c \in IngestCalls DEF BatchesSound
    <2>2. CASE AtText(line.text) # {}
      <3>1. crossed' = crossed \cup AtText(line.text) \cup {c} /\ torn' = torn \cup {line.text}
        BY <1>3, <2>2
      <3> QED BY ONLY <1>10, <1>12, <1>13, <1>14, <1>15, <1>16, <3>1, c \in IngestCalls DEF BatchesSound
    <2> QED BY <2>1, <2>2
  <1>18. RowsSound(alerts, heard, torn')  BY <1>3 DEF AlertInv, RowsSound
  <1> QED BY <1>3, <1>17, <1>18 DEF AlertInv

\* A batch alone at a text knows when it was last heard of.
LEMMA KnowsWhen ==
  ASSUME NEW table, NEW times, NEW exempt, RowsSound(table, times, exempt),
         NEW entry, NEW line \in Indexed, entry.text = line.text, Current(table, entry),
         line.text \notin exempt, times[line.text] # 0, OneSeverity(line.text)
  PROVE  entry.until = times[line.text] + Quiet /\ entry.sev = proactiveAlertSeverity(line)
  <1>1. line.text \in Texts  BY DEF Indexed, Lines
  <1>2. PICK r \in table : /\ r.text = line.text /\ Tells(r, times[line.text])
                          /\ \A s \in table : s.text = line.text => r.id <= s.id
    BY <1>1 DEF RowsSound
  <1>3. entry \in table /\ entry.id <= r.id /\ r.id <= entry.id  BY <1>2 DEF Current
  <1>4. entry.id \in Nat /\ r.id \in Nat  BY <1>3 DEF RowsSound, AlertRow
  <1>5. entry.id = r.id  BY <1>3, <1>4
  <1>6. entry = r  BY <1>2, <1>3, <1>5 DEF RowsSound
  <1> QED BY <1>2, <1>6 DEF Tells

LEMMA CreatedKeeps ==
  ASSUME AlertInv, NEW c \in IngestCalls, createIncident(c)
  PROVE  AlertInv'
  <1>1. PICK call : call = ingests[c]  OBVIOUS
  <1>2. /\ call.pc = "raise" /\ ~Suppressed(call)
        /\ \/ /\ incidents' = Append(incidents, IncidentFor(call))
              /\ ingests' = [ingests EXCEPT ![c] = [pc |-> "save", line |-> @.line, row |-> @.row, now |-> @.now,
                                lines |-> @.lines]]
              /\ UNCHANGED crossed
           \/ /\ ingests' = [ingests EXCEPT ![c] = IdleIngest] /\ crossed' = crossed \ {c}
              /\ UNCHANGED incidents
        /\ UNCHANGED <<alerts, heard, torn, clock>>
    BY <1>1, Zenon DEF createIncident
  <1>3. CASE ingests' = [ingests EXCEPT ![c] = IdleIngest] /\ crossed' = crossed \ {c} /\ UNCHANGED incidents
    BY <1>2, <1>3, Idle, NotBusy
  <1>4. ASSUME incidents' = Append(incidents, IncidentFor(call)), UNCHANGED crossed,
               ingests' = [ingests EXCEPT ![c] = [pc |-> "save", line |-> @.line, row |-> @.row, now |-> @.now,
                                lines |-> @.lines]]
        PROVE  AlertInv'
    <2>1. PICK v : v = [pc |-> "save", line |-> call.line, row |-> call.row, now |-> call.now,
                        lines |-> call.lines]
      OBVIOUS
    <2>2. ingests' = [ingests EXCEPT ![c] = v]  BY <1>1, <1>4, <2>1 DEF AlertInv, BatchesSound
    <2>3. v.pc = "save" /\ v.line = call.line /\ v.row = call.row /\ v.now = call.now /\ v.lines = call.lines
      BY <2>1
    <2>4. BatchSound(call) /\ Busy(call)  BY <1>1, <1>2 DEF AlertInv, BatchesSound, Busy
    <2>5. BatchSound(v) /\ Busy(v)  BY <1>2, <2>3, <2>4 DEF BatchSound, Busy
    <2>6. /\ DOMAIN ingests' = IngestCalls /\ ingests'[c] = v
          /\ \A d \in IngestCalls : d # c => ingests'[d] = ingests[d]
      BY <2>2 DEF AlertInv, BatchesSound
    <2>7. BatchesSound(ingests', alerts, torn, crossed)
      BY <1>1, <2>3, <2>4, <2>5, <2>6 DEF AlertInv, BatchesSound
    <2>8. PICK new : new = IncidentFor(call)  OBVIOUS
    <2>9. /\ call.line \in Indexed /\ call.row \in AlertRow /\ call.row.text = call.line.text
          /\ call.now \in Nat /\ call.line.text \in Texts /\ call.line \in Lines
      BY <2>4 DEF BatchSound, Indexed, Lines
    <2>10. /\ new \in Incident /\ new.text = call.line.text /\ new.torn = (call.line.text \in torn)
           /\ new.early = (heard[call.line.text] # 0 /\ call.now < heard[call.line.text] + Quiet)
      BY <2>8, <2>9, Severities DEF IncidentFor, Incident
    <2>11. ASSUME OneSeverity(new.text), ~new.torn PROVE ~new.early
      <3>1. call.line.text \notin torn /\ OneSeverity(call.line.text)  BY <2>10, <2>11
      <3>2. Current(alerts, call.row)  BY <1>1, <2>4, <3>1 DEF AlertInv, BatchesSound
      <3>3. CASE heard[call.line.text] = 0  BY <2>10, <3>3
      <3>4. CASE heard[call.line.text] # 0
        <4>1. PICK h \in Nat : h = heard[call.line.text]  BY <2>9 DEF AlertInv, RowsSound
        <4>2. call.row.until = h + Quiet /\ call.row.sev = proactiveAlertSeverity(call.line)
          BY <2>9, <3>1, <3>2, <3>4, <4>1, KnowsWhen DEF AlertInv
        <4>3. PICK s \in 1..3 : s = proactiveAlertSeverity(call.line)  BY <2>9, Severities
        <4>4. ~(call.now < h + Quiet /\ s <= s)  BY <1>2, <4>2, <4>3 DEF Suppressed
        <4>5. ~(call.now < h + Quiet)  BY ONLY <4>4, s \in 1..3
        <4> QED BY <2>10, <4>1, <4>5
      <3> QED BY <3>3, <3>4
    <2>12. incidents' = Append(incidents, new) /\ incidents \in Seq(Incident)
      BY <1>4, <2>8 DEF AlertInv, IncidentsSound
    <2>13. PICK n \in Nat : n = Len(incidents)  BY <2>12, LenProperties
    <2>14. /\ incidents' \in Seq(Incident) /\ DOMAIN incidents' = 1..(n + 1)
           /\ incidents'[n + 1] = new /\ \A i \in 1..n : incidents'[i] = incidents[i]
           /\ DOMAIN incidents = 1..n
      BY <2>10, <2>12, <2>13, AppendProperties, LenProperties
    <2>15. ASSUME NEW i \in 1..(n + 1), OneSeverity(incidents'[i].text), ~incidents'[i].torn
           PROVE  ~incidents'[i].early
      <3>1. CASE i = n + 1  BY <2>11, <2>14, <2>15, <3>1
      <3>2. CASE i \in 1..n  BY <2>14, <2>15, <3>2 DEF AlertInv, IncidentsSound
      <3>3. i = n + 1 \/ i \in 1..n  BY ONLY i \in 1..(n + 1), n \in Nat
      <3> QED BY <3>1, <3>2, <3>3
    <2>16. IncidentsSound(incidents')  BY <2>14, <2>15 DEF IncidentsSound
    <2> QED BY <1>2, <1>4, <2>7, <2>16 DEF AlertInv
  <1> QED BY <1>2, <1>3, <1>4

\* The row goes back: it is the one that is read next if the batch was alone at its text.
LEMMA RowWritten ==
  ASSUME RowsSound(alerts, heard, torn),
         NEW entry \in AlertRow, NEW line \in Indexed, entry.text = line.text, NEW now \in Nat,
         NEW new \in AlertRow, new.id = entry.id, new.text = entry.text,
         new.sev = proactiveAlertSeverity(line), new.until = now + Quiet,
         NEW alone \in BOOLEAN, IF alone THEN Current(alerts, entry) ELSE line.text \in torn,
         alerts' = {r \in alerts : r.text # line.text \/ r.id # entry.id} \cup {new},
         heard' = [heard EXCEPT ![line.text] = now],
         torn' = IF alone THEN torn \ {line.text} ELSE torn
  PROVE  RowsSound(alerts', heard', torn')
  <1>1. PICK kept : kept = {r \in alerts : r.text # line.text \/ r.id # entry.id}  OBVIOUS
  <1>2. line.text \in Texts /\ heard \in [Texts -> Nat]  BY DEF Indexed, Lines, RowsSound
  <1>3. /\ heard' \in [Texts -> Nat] /\ heard'[line.text] = now
        /\ \A t \in Texts : t # line.text => heard'[t] = heard[t]
    BY <1>2
  <1>4. alerts' = kept \cup {new}  BY <1>1
  <1>5. alerts' \subseteq AlertRow  BY <1>1, <1>4 DEF RowsSound
  <1>6. \A r, s \in alerts' : r.text = s.text /\ r.id = s.id => r = s
    BY <1>1, <1>4 DEF RowsSound
  <1>7. ASSUME NEW t \in Texts, t \notin torn', heard'[t] # 0
        PROVE  \E r \in alerts' : r.text = t /\ Tells(r, heard'[t]) /\ \A s \in alerts' : s.text = t => r.id <= s.id
    <2>1. CASE t = line.text
      <3>1. alone /\ Current(alerts, entry)  BY <1>7, <2>1
      <3>2. ASSUME OneSeverity(new.text), NEW l \in Indexed, l.text = new.text
            PROVE  proactiveAlertSeverity(line) = proactiveAlertSeverity(l)
        BY <3>2 DEF OneSeverity, Indexed
      <3>3. Tells(new, heard'[t])  BY <1>3, <2>1, <3>2 DEF Tells
      <3>4. ASSUME NEW s \in alerts', s.text = t PROVE new.id <= s.id
        <4>1. CASE s = new
          <5>1. new.id \in Nat  BY DEF AlertRow
          <5> QED BY <4>1, <5>1
        <4>2. CASE s \in alerts  BY <2>1, <3>1, <3>4, <4>2 DEF Current
        <4> QED BY <1>1, <1>4, <4>1, <4>2
      <3> QED BY <1>4, <2>1, <3>3, <3>4
    <2>2. CASE t # line.text
      <3>1. t \notin torn /\ heard'[t] = heard[t]  BY <1>3, <1>7, <2>2
      <3>2. PICK r \in alerts : r.text = t /\ Tells(r, heard[t]) /\ \A s \in alerts : s.text = t => r.id <= s.id
        BY <1>7, <3>1 DEF RowsSound
      <3> QED BY <1>1, <1>4, <2>2, <3>1, <3>2
    <2> QED BY <2>1, <2>2
  <1> QED BY <1>3, <1>5, <1>6, <1>7 DEF RowsSound

LEMMA SavedKeeps ==
  ASSUME AlertInv, NEW c \in IngestCalls, SaveState(c)
  PROVE  AlertInv'
  <1>1. PICK call : call = ingests[c]  OBVIOUS
  <1>2. PICK new : new = [call.row EXCEPT !.sev = proactiveAlertSeverity(call.line), !.until = call.now + Quiet,
                                          !.incident = call.pc = "save"]
    OBVIOUS
  <1>3. PICK saved \in BOOLEAN :
          /\ call.pc = "save" \/ (call.pc = "raise" /\ Suppressed(call))
          /\ alerts' = IF saved /\ Saved(new)
                       THEN {r \in alerts : r.text # call.line.text \/ r.id # new.id} \cup {new}
                       ELSE alerts
          /\ heard' = [heard EXCEPT ![call.line.text] = call.now]
          /\ torn' = IF ~saved THEN torn \cup {call.line.text}
                     ELSE IF c \in crossed THEN torn ELSE torn \ {call.line.text}
          /\ ingests' = [ingests EXCEPT ![c] = IF saved THEN [pc |-> "alerts", lines |-> call.lines] ELSE IdleIngest]
          /\ crossed' = crossed \ {c}
          /\ UNCHANGED <<incidents, clock>>
    BY <1>1, <1>2, Zenon DEF SaveState
  <1>4. PICK sev : sev = proactiveAlertSeverity(call.line)  OBVIOUS
  <1>5. BatchSound(call) /\ Busy(call)  BY <1>1, <1>3 DEF AlertInv, BatchesSound, Busy
  <1>6. /\ call.line \in Indexed /\ call.row \in AlertRow /\ call.row.text = call.line.text /\ call.now \in Nat
        /\ call.line.text \in Texts /\ call.lines \subseteq Indexed
    BY <1>4, <1>5 DEF BatchSound, Busy, Indexed, Lines
  <1>7. /\ new \in AlertRow /\ new.id = call.row.id /\ new.text = call.row.text
        /\ new.sev = sev /\ new.until = call.now + Quiet
    <2>1. sev \in 0..3
      <3>1. sev \in 1..3  BY <1>4, <1>6, Severities DEF Indexed
      <3> QED BY <3>1
    <2>2. PICK k \in Nat : k = call.now + Quiet  BY <1>6, ObservabilityAssumption
    <2>3. PICK entry \in AlertRow : entry = call.row  BY <1>6
    <2>4. PICK isNew \in BOOLEAN : isNew = (call.pc = "save")  OBVIOUS
    <2>5. new = [entry EXCEPT !.sev = sev, !.until = k, !.incident = isNew]  BY <1>4, <1>2, <2>2, <2>3, <2>4
    <2>6. /\ new \in AlertRow /\ new.id = entry.id /\ new.text = entry.text /\ new.sev = sev /\ new.until = k
      BY ONLY <2>1, <2>5, entry \in AlertRow, k \in Nat, isNew \in BOOLEAN DEF AlertRow
    <2> QED BY <2>2, <2>3, <2>6
  <1>8. PICK v : v = IF saved THEN [pc |-> "alerts", lines |-> call.lines] ELSE IdleIngest  OBVIOUS
  <1>9. BatchSound(v) /\ ~Busy(v)
    <2>1. CASE saved
      <3>1. v.pc = "alerts" /\ v.lines = call.lines  BY <1>8, <2>1
      <3> QED BY <1>6, <3>1 DEF BatchSound, Busy
    <2>2. CASE ~saved  BY <1>8, <2>2, Idle
    <2> QED BY <2>1, <2>2
  <1>10. ingests' = [ingests EXCEPT ![c] = v]  BY <1>3, <1>8
  <1>11. /\ DOMAIN ingests' = IngestCalls /\ ingests'[c] = v
         /\ \A d \in IngestCalls : d # c => ingests'[d] = ingests[d]
    BY <1>10 DEF AlertInv, BatchesSound
  <1>12. IF c \in crossed THEN call.line.text \in torn ELSE Current(alerts, call.row)
    BY <1>1, <1>4, <1>5 DEF AlertInv, BatchesSound
  <1>13. CASE saved
    <2>1. PICK alone \in BOOLEAN : alone = (c \notin crossed)  OBVIOUS
    <2>2. /\ call.row \in AlertRow /\ call.line \in Indexed /\ call.row.text = call.line.text /\ call.now \in Nat
           /\ new \in AlertRow /\ new.id = call.row.id /\ new.text = call.row.text
           /\ new.sev = proactiveAlertSeverity(call.line) /\ new.until = call.now + Quiet
      BY <1>4, <1>6, <1>7
    <2>3. alerts' = {r \in alerts : r.text # call.line.text \/ r.id # call.row.id} \cup {new}
      BY <1>4, <1>3, <1>7, <1>13 DEF Saved
    <2>4. torn' = IF alone THEN torn \ {call.line.text} ELSE torn  BY <1>4, <1>3, <1>13, <2>1
    <2>5. heard' = [heard EXCEPT ![call.line.text] = call.now]  BY <1>4, <1>3
    <2>6. RowsSound(alerts, heard, torn)  BY DEF AlertInv
    <2>7. IF alone THEN Current(alerts, call.row) ELSE call.line.text \in torn  BY <1>4, <1>12, <2>1
    <2>8. RowsSound(alerts', heard', torn')
      BY ONLY <2>3, <2>4, <2>5, <2>6, <2>7, <2>2, alone \in BOOLEAN, RowWritten
    <2>9. ASSUME NEW d \in IngestCalls, Busy(ingests'[d])
           PROVE  IF d \in crossed' THEN ingests'[d].line.text \in torn' ELSE Current(alerts', ingests'[d].row)
      <3>1. d # c /\ ingests'[d] = ingests[d] /\ Busy(ingests[d])  BY <1>9, <1>11, <2>9
      <3>2. CASE d \in crossed
        <4>1. ingests[d].line.text \in torn  BY <3>1, <3>2 DEF AlertInv, BatchesSound
        <4>2. c \notin crossed => ingests[d].line.text # call.line.text
          BY <1>1, <1>4, <1>5, <3>1 DEF AlertInv, BatchesSound
        <4> QED BY <1>3, <1>13, <3>1, <3>2, <4>1, <4>2
      <3>3. CASE d \notin crossed
        <4>1. Current(alerts, ingests[d].row)  BY <3>1, <3>3 DEF AlertInv, BatchesSound
        <4>2. ingests[d].line.text # call.line.text
          BY <1>1, <1>4, <1>5, <3>1, <3>3 DEF AlertInv, BatchesSound
        <4>3. ingests[d].row.text # call.line.text
          BY <1>4, <3>1, <4>2 DEF AlertInv, BatchesSound, BatchSound
        <4>4. new.text = call.line.text  BY <2>2
        <4>5. Current(alerts', ingests[d].row)
          BY ONLY <2>3, <4>1, <4>3, <4>4 DEF Current
        <4> QED BY <1>3, <3>1, <3>3, <4>5
      <3> QED BY <3>2, <3>3
    <2>10. BatchesSound(ingests', alerts', torn', crossed')
      BY <1>3, <1>9, <1>11, <2>9 DEF AlertInv, BatchesSound
    <2> QED BY <1>3, <2>8, <2>10 DEF AlertInv
  <1>14. CASE ~saved
    <2>1. alerts' = alerts /\ torn' = torn \cup {call.line.text} /\ crossed' = crossed \ {c}  BY <1>3, <1>14
    <2>2. BatchesSound(ingests', alerts', torn', crossed')
      BY <1>9, <1>11, <2>1 DEF AlertInv, BatchesSound
    <2>3. /\ heard' \in [Texts -> Nat] /\ \A t \in Texts : t # call.line.text => heard'[t] = heard[t]
      BY <1>3, <1>6 DEF AlertInv, RowsSound
    <2>4. RowsSound(alerts', heard', torn')  BY <2>1, <2>3 DEF AlertInv, RowsSound
    <2> QED BY <1>3, <2>2, <2>4 DEF AlertInv
  <1> QED BY <1>13, <1>14

LEMMA AlertInvInit == ObsInit => AlertInv
  <1> SUFFICES ASSUME ObsInit PROVE AlertInv
    OBVIOUS
  <1>1. RowsSound(alerts, heard, torn)  BY DEF ObsInit, RowsSound
  <1>2. ingests = [c \in IngestCalls |-> IdleIngest] /\ crossed = {}  BY DEF ObsInit
  <1>3. BatchesSound(ingests, alerts, torn, crossed)  BY <1>2, Idle DEF BatchesSound
  <1>4. IncidentsSound(incidents)
    <2>1. incidents \in Seq(Incident) /\ DOMAIN incidents = {}  BY EmptySeq DEF ObsInit
    <2> QED BY <2>1 DEF IncidentsSound
  <1> QED BY <1>1, <1>3, <1>4, ObservabilityAssumption DEF AlertInv, ObsInit

LEMMA AlertInvNext == AlertInv /\ [AlertsNext \/ PagesNext \/ DashboardNext]_obsVars => AlertInv'
  <1> SUFFICES ASSUME AlertInv, [AlertsNext \/ PagesNext \/ DashboardNext]_obsVars PROVE AlertInv'
    OBVIOUS
  <1>1. ASSUME NEW c \in IngestCalls, LogBatchDone(c) PROVE AlertInv'
    <2>1. /\ ingests[c].pc = "alerts" /\ ingests' = [ingests EXCEPT ![c] = IdleIngest]
          /\ UNCHANGED <<alerts, heard, torn, crossed, incidents, clock>>
      BY <1>1 DEF LogBatchDone, alertVars
    <2> QED BY <2>1, Idle, StillNotBusy DEF Busy
  <1>2. CASE ClockMoves
    <2>1. UNCHANGED <<alerts, heard, torn, crossed, incidents, ingests>> /\ clock' \in Nat
      BY <1>2 DEF ClockMoves, alertVars, AlertInv
    <2> QED BY <2>1 DEF AlertInv
  <1>3. CASE PreviewLogs \/ IngestMetricRollup \/ UNCHANGED obsVars
    <2>1. UNCHANGED <<alerts, heard, torn, crossed, incidents, ingests, clock>>
      BY <1>3, Zenon DEF PreviewLogs, IngestMetricRollup, alertVars, obsVars
    <2> QED BY <2>1 DEF AlertInv
  <1> QED BY <1>1, <1>2, <1>3, BatchKeeps, IndexKeeps, TakenUpKeeps, CreatedKeeps, SavedKeeps
      DEF AlertsNext, LogsIngested, processLogRecord, PagesNext, DashboardNext

(* Outside the exception, a burst of one severity raises one incident, for *)
(* any window, texts and number of batches that overlap and fail; and the  *)
(* exception ends when a batch alone at its text saves the row             *)
(* (processLogRecord, proactive_alert_service.go).                         *)
THEOREM IncidentsQuiet == ObsSpec => []QuietBetweenIncidents
  <1>1. AlertInv => QuietBetweenIncidents  BY DEF AlertInv, IncidentsSound, QuietBetweenIncidents
  <1> QED BY AlertInvInit, AlertInvNext, <1>1, PTL DEF ObsSpec

-----------------------------------------------------------------------------
(* PublicAddress. A page asks each URL once and remembers the answer.      *)

SeenUrls     == {o.url : o \in page.seen}
SeenReady(u) == \E o \in page.seen : o.url = u /\ o.status = "ready"

PageShape(p) == p \in [at : {p.at}, last : {p.last}, urls : {p.urls}, todo : {p.todo},
                       seen : {p.seen}, shown : {p.shown}]

\* What was shown on this page is what was seen of its URLs, once and for all.
PageInv ==
    /\ PageShape(page)
    /\ page.todo # {"resolve"} => page.urls \subseteq SeenUrls \cup page.todo
    /\ page.at # 0 => \A a \in page.shown :
          a.urls \subseteq SeenUrls /\ a.ready = {u \in a.urls : SeenReady(u)}
    /\ \A a \in page.shown : a.status = "ready" <=> a.ready # {}
    /\ OneAnswerPerPage

LEMMA NoPageShape == PageShape(NoPage) /\ NoPage.at = 0 /\ NoPage.urls = {} /\ NoPage.seen = {}
                     /\ NoPage.shown = {} /\ NoPage.todo = {}
  BY DEF PageShape, NoPage

LEMMA PageInvInit == AddressInit => PageInv
  BY NoPageShape DEF AddressInit, PageInv, OneAnswerPerPage, SeenUrls

LEMMA PageUnchanged == PageInv /\ UNCHANGED page => PageInv'
  BY DEF PageInv, PageShape, SeenUrls, SeenReady, OneAnswerPerPage

LEMMA PageOpens == ASSUME PageInv, NEW from, NEW to, Open(from, to) PROVE PageInv'
  <1>1. PICK n : n = [NoPage EXCEPT !.at = from, !.last = to, !.todo = {"resolve"}]  OBVIOUS
  <1>2. page' = n  BY <1>1, Zenon DEF Open
  <1>3. PageShape(n) /\ n.todo = {"resolve"} /\ n.shown = {}
    BY <1>1, NoPageShape DEF PageShape, NoPage
  <1> QED BY <1>2, <1>3 DEF PageInv, OneAnswerPerPage, PageShape

LEMMA PageShows == ASSUME PageInv, ShowDeployment PROVE PageInv'
  <1>1. PICK urls : page' = [page EXCEPT !.todo = urls, !.urls = urls]
    BY Zenon DEF ShowDeployment
  <1>2. PageShape(page)  BY DEF PageInv
  <1>3. PICK p : p = page  OBVIOUS
  <1>4. PICK n : n = [p EXCEPT !.todo = urls, !.urls = urls]  OBVIOUS
  <1>5. page' = n  BY <1>1, <1>3, <1>4
  <1>6. /\ PageShape(n) /\ n.todo = urls /\ n.urls = urls /\ n.at = p.at
        /\ n.seen = p.seen /\ n.shown = p.shown
    <2>1. PageShape(p)  BY <1>2, <1>3
    <2> QED BY ONLY <1>4, <2>1 DEF PageShape
  <1>7. page'.urls \subseteq SeenUrls' \cup page'.todo  BY <1>5, <1>6
  <1>8. SeenUrls' = SeenUrls /\ \A u : SeenReady(u)' = SeenReady(u)
    BY <1>3, <1>5, <1>6 DEF SeenUrls, SeenReady
  <1>9. page'.at = page.at /\ page'.shown = page.shown  BY <1>3, <1>5, <1>6
  <1>10. PageShape(page')  BY <1>5, <1>6
  <1> QED BY <1>7, <1>8, <1>9, <1>10 DEF PageInv, OneAnswerPerPage, PageShape

LEMMA PageObserves == ASSUME PageInv, ObserveURL PROVE PageInv'
  <1>1. PICK u \in page.todo : ObservedOnce(u)  BY Zenon DEF ObserveURL
  <1>2. PICK p : p = page  OBVIOUS
  <1>3. PICK new : new.url = u /\ new = [url |-> u, status |-> Observe]  OBVIOUS
  <1>4. PICK seen : seen = IF Remembered(u) THEN p.seen ELSE p.seen \cup {new}  OBVIOUS
  <1>5. PICK n : n = [p EXCEPT !.todo = p.todo \ {u}, !.seen = seen]  OBVIOUS
  <1>6. PageShape(p)  BY <1>2 DEF PageInv
  <1>7. page' = n
    <2>1. page' = [page EXCEPT !.todo = @ \ {u}, !.seen =
            IF Remembered(u) THEN @ ELSE @ \cup {[url |-> u, status |-> Observe]}]
      BY <1>1, Zenon DEF ObservedOnce
    <2>2. page' = [p EXCEPT !.todo = p.todo \ {u}, !.seen =
            IF Remembered(u) THEN p.seen ELSE p.seen \cup {new}]
      BY <1>2, <1>3, <1>6, <2>1 DEF PageShape
    <2> QED BY <1>4, <1>5, <2>2
  <1>8. /\ PageShape(n) /\ n.todo = p.todo \ {u} /\ n.urls = p.urls /\ n.at = p.at
        /\ n.seen = seen /\ n.shown = p.shown
    BY ONLY <1>5, <1>6 DEF PageShape
  <1>9. SeenUrls' = SeenUrls \cup {u}
    <2>1. SeenUrls' = {o.url : o \in seen}  BY <1>7, <1>8 DEF SeenUrls
    <2> QED BY <1>2, <1>3, <1>4, <2>1 DEF SeenUrls, Remembered
  <1>10. ASSUME NEW v \in SeenUrls PROVE SeenReady(v)' = SeenReady(v)
    <2>1. SeenReady(v)' = \E o \in seen : o.url = v /\ o.status = "ready"
      BY <1>7, <1>8 DEF SeenReady
    <2>2. CASE Remembered(u)  BY <1>2, <1>4, <2>1, <2>2 DEF SeenReady
    <2>3. CASE ~Remembered(u)
      <3>1. v # u  BY <2>3 DEF Remembered, SeenUrls
      <3> QED BY <1>2, <1>3, <1>4, <2>1, <2>3, <3>1 DEF SeenReady
    <2> QED BY <2>2, <2>3
  <1>11. p.todo # {"resolve"}
    BY <1>1, <1>2 DEF ObservedOnce
  <1>12. page'.urls \subseteq SeenUrls' \cup page'.todo
    <2>1. p.urls \subseteq SeenUrls \cup p.todo  BY <1>2, <1>11 DEF PageInv
    <2> QED BY <1>7, <1>8, <1>9, <2>1
  <1>13. page'.at = page.at /\ page'.shown = page.shown  BY <1>2, <1>7, <1>8
  <1>14. PageShape(page')  BY <1>7, <1>8
  <1>15. ASSUME page.at # 0, NEW a \in page.shown
         PROVE  a.urls \subseteq SeenUrls' /\ a.ready = {v \in a.urls : SeenReady(v)'}
    <2>1. a.urls \subseteq SeenUrls /\ a.ready = {v \in a.urls : SeenReady(v)}
      BY <1>15 DEF PageInv
    <2> QED BY <1>9, <1>10, <2>1
  <1>16. OneAnswerPerPage'  BY <1>13 DEF PageInv, OneAnswerPerPage
  <1> QED BY <1>12, <1>13, <1>14, <1>15, <1>16 DEF PageInv, PageShape

LEMMA PageTurns == ASSUME PageInv, DeploymentShown PROVE PageInv'
  <1>1. PICK p : p = page  OBVIOUS
  <1>2. PICK s : s = ShownDeployment  OBVIOUS
  <1>3. PICK shown : shown = p.shown \cup {s}  OBVIOUS
  <1>4. /\ p.at # 0 /\ p.todo = {} /\ PageShape(p)
    BY <1>1 DEF DeploymentShown, PageInv
  <1>5. page' = IF p.at = p.last THEN [NoPage EXCEPT !.shown = shown]
                ELSE [p EXCEPT !.at = p.at - 1, !.todo = {"resolve"}, !.shown = shown]
    <2>1. page' = IF page.at = page.last THEN [NoPage EXCEPT !.shown = page.shown \cup {ShownDeployment}]
                ELSE [page EXCEPT !.at = @ - 1, !.todo = {"resolve"}, !.shown = page.shown \cup {ShownDeployment}]
      BY Zenon DEF DeploymentShown
    <2>2. page' = IF p.at = p.last THEN [NoPage EXCEPT !.shown = shown]
                ELSE [p EXCEPT !.at = @ - 1, !.todo = {"resolve"}, !.shown = shown]
      BY <1>1, <1>2, <1>3, <2>1, Zenon
    <2> QED BY <1>4, <2>2 DEF PageShape
  <1>6. /\ s.urls = p.urls
        /\ s.ready = {u \in p.urls : SeenReady(u)}
        /\ s.status = "ready" <=> s.ready # {}
    <2> DEFINE observed == {o \in p.seen : o.url \in p.urls}
    <2>1. /\ s.urls = p.urls
          /\ s.ready = {o.url : o \in {x \in observed : x.status = "ready"}}
          /\ s.status = summarizePublicURLObservations({o.status : o \in observed})
      BY <1>1, <1>2 DEF ShownDeployment
    <2>2. s.ready = {u \in p.urls : SeenReady(u)}  BY <1>1, <2>1 DEF SeenReady
    <2>3. s.status = "ready" <=> "ready" \in {o.status : o \in observed}
      <3> HIDE DEF observed
      <3> QED BY <2>1 DEF summarizePublicURLObservations
    <2>4. "ready" \in {o.status : o \in observed} <=> s.ready # {}  BY <2>1
    <2> QED BY <2>1, <2>2, <2>3, <2>4
  <1>7. \A a \in shown : /\ a.urls \subseteq SeenUrls /\ a.ready = {u \in a.urls : SeenReady(u)}
                         /\ a.status = "ready" <=> a.ready # {}
    <2>1. p.urls \subseteq SeenUrls  BY <1>1, <1>4 DEF PageInv
    <2> QED BY <1>1, <1>3, <1>4, <1>6, <2>1 DEF PageInv
  <1>8. \A a, b \in shown : a.ready \cap b.urls = b.ready \cap a.urls
    BY <1>7
  <1>9. CASE p.at = p.last
    <2>1. PICK n : n = [NoPage EXCEPT !.shown = shown]  OBVIOUS
    <2>2. page' = n  BY <1>5, <1>9, <2>1
    <2>3. PageShape(n) /\ n.at = 0 /\ n.urls = {} /\ n.shown = shown
      BY <2>1 DEF PageShape, NoPage
    <2>4. OneAnswerPerPage'  BY <1>7, <1>8, <2>2, <2>3 DEF OneAnswerPerPage
    <2> QED BY <1>7, <2>2, <2>3, <2>4 DEF PageInv, PageShape
  <1>10. CASE p.at # p.last
    <2>1. PICK n : n = [p EXCEPT !.at = p.at - 1, !.todo = {"resolve"}, !.shown = shown]  OBVIOUS
    <2>2. page' = n  BY <1>5, <1>10, <2>1
    <2>3. PageShape(n) /\ n.todo = {"resolve"} /\ n.shown = shown /\ n.seen = p.seen
      BY <1>4, <2>1 DEF PageShape
    <2>4. OneAnswerPerPage'  BY <1>7, <1>8, <2>2, <2>3 DEF OneAnswerPerPage
    <2>5. SeenUrls' = SeenUrls /\ \A u : SeenReady(u)' = SeenReady(u)
      BY <1>1, <2>2, <2>3 DEF SeenUrls, SeenReady
    <2> QED BY <1>7, <2>2, <2>3, <2>4, <2>5 DEF PageInv, PageShape
  <1> QED BY <1>9, <1>10

(* Two deployments on one page that share a URL show it both as ready or   *)
(* both as not, for any number of deployments and whatever happens to the  *)
(* host and the record while the page is built (the URL cache of           *)
(* ListPublicURLs).                                                        *)
THEOREM PagesAgree == AddressSpec => []OneAnswerPerPage
  <1>1. PageInv /\ [AddressNext]_addressVars => PageInv'
    <2> SUFFICES ASSUME PageInv, [AddressNext]_addressVars PROVE PageInv'
      OBVIOUS
    <2>1. CASE OpenPage  BY <2>1, PageOpens DEF OpenPage
    <2>2. CASE PlanRollout \/ Allocate \/ TargetChanges \/ HostChanges \/ UNCHANGED addressVars
      BY <2>2, PageUnchanged, Zenon
         DEF PlanRollout, Allocate, TargetChanges, HostChanges, addressVars
    <2> QED BY <2>1, <2>2, PageShows, PageObserves, PageTurns DEF AddressNext
  <1>2. PageInv => OneAnswerPerPage  BY DEF PageInv
  <1> QED BY PageInvInit, <1>1, <1>2, PTL DEF AddressSpec

-----------------------------------------------------------------------------
(* Workspaces.  The ports a preparation has assigned are its own, and the  *)
(* files a preparation writes alone carry them.                            *)

(* Ports of a list of services that are nobody else's. *)
Apart(s) == \A i, j \in DOMAIN s : i # j /\ s[i] # 0 => s[i] # s[j]

(* A port a service may be given. *)
Fitting(s, port) ==
    /\ s.internal \/ port # 0
    /\ ~s.internal /\ serviceLocalListenerPortConflicts(s, port) => port \in StandaloneRange

LEMMA AllocatedFree ==
    ASSUME NEW s \in Workload,
           NEW reserved
    PROVE  /\ RuntimePort(s, reserved) \in Nat
           /\ RuntimePort(s, reserved) # 0 => RuntimePort(s, reserved) \notin reserved
           /\ RuntimePort(s, reserved) # 0 => Fitting(s, RuntimePort(s, reserved))
<1> DEFINE At(n) == FirstPort + ((s.seed + n) % PortSpan)
           Free == {n \in 0..PortSpan - 1 : runtimePortAvailable(At(n), reserved)}
           least == CHOOSE n \in Free : \A m \in Free : n <= m
<1>1. \A n \in Nat : At(n) \in StandaloneRange BY WorkspacesAssumption DEF Workload, StandaloneRange
<1>0. StandaloneRange \subseteq Nat BY WorkspacesAssumption DEF StandaloneRange
<1>2. CASE Free = {}
  BY <1>2 DEF RuntimePort, Workload, allocateStandaloneRuntimePort, runtimePortAvailable, Fitting
<1>3. CASE Free # {}
  <2>1. Free \in SUBSET Nat BY WorkspacesAssumption
  <2>2. \E n \in Free : \A m \in Free : n <= m
    <3> HIDE DEF Free
    <3> QED BY <1>3, <2>1, LeastNat
  <2>3. least \in Free
    <3> HIDE DEF Free
    <3> QED BY <2>2
  <2>4. At(least) \in StandaloneRange /\ runtimePortAvailable(At(least), reserved)
    <3> HIDE DEF least, At
    <3> QED BY <1>1, <2>1, <2>3
  <2>5. allocateStandaloneRuntimePort(s, reserved) = At(least) BY <1>3 DEF allocateStandaloneRuntimePort
  <2> HIDE DEF least, At, Free
  <2> QED BY <1>0, <2>4, <2>5 DEF RuntimePort, Workload, runtimePortAvailable, Fitting
<1> QED BY <1>2, <1>3

(* A port more, taken from none of those before it. *)
LEMMA AppendApart ==
    ASSUME NEW earlier \in Seq(Nat), Apart(earlier), NEW new \in Nat,
           new # 0 => new \notin {earlier[i] : i \in DOMAIN earlier}
    PROVE  Append(earlier, new) \in Seq(Nat) /\ Apart(Append(earlier, new))
<1> DEFINE taken == {earlier[i] : i \in DOMAIN earlier}
<1>3. PICK s : s = Append(earlier, new) OBVIOUS
<1>4. s \in Seq(Nat) /\ Len(s) = Len(earlier) + 1 /\ s[Len(s)] = new
      /\ \A i \in DOMAIN earlier : s[i] = earlier[i] BY <1>3
<1>5. \A i \in DOMAIN s : i = Len(s) \/ i \in DOMAIN earlier BY <1>4
<1>6. \A i \in DOMAIN earlier : earlier[i] \in taken /\ i # Len(s) BY <1>4
<1>2. new # 0 => new \notin taken OBVIOUS
<1>7. Apart(s)
  <2> HIDE DEF taken
  <2> SUFFICES ASSUME NEW i \in DOMAIN s, NEW j \in DOMAIN s, i # j, s[i] # 0 PROVE s[i] # s[j]
    BY DEF Apart
  <2>1. CASE i \in DOMAIN earlier /\ j \in DOMAIN earlier
    BY ONLY <2>1, <1>4, Apart(earlier), i # j, s[i] # 0 DEF Apart
  <2>2. CASE i = Len(s) /\ j \in DOMAIN earlier BY <2>2, <1>2, <1>4, <1>6
  <2>3. CASE j = Len(s) /\ i \in DOMAIN earlier BY <2>3, <1>2, <1>4, <1>6
  <2> QED BY <1>5, <2>1, <2>2, <2>3
<1> QED BY <1>3, <1>4, <1>7

-----------------------------------------------------------------------------
PrepareState == [step : {"idle", "ports", "files"}, rev : Revisions \cup {None}, ports : Seq(Nat),
                 written : Nat, alone : BOOLEAN]

(* Ports of services from the first on, each fitting. *)
Assigned(ports) ==
    /\ Len(ports) <= Len(Workloads) /\ Apart(ports)
    /\ \A i \in DOMAIN ports : Fitting(Workloads[i], ports[i])

CallSound(p) ==
    /\ Assigned(p.ports)
    /\ p.step # "idle" => p.rev \in Revisions
    /\ p.step = "ports" => p.written = 0
    /\ p.step = "files" => Len(p.ports) = Len(Workloads) /\ p.written <= Len(Workloads)

(* A revision some call writes is not whole, a call that writes alone is   *)
(* the only one and has written its own ports, and the rest is whole.      *)
Writers(calls, done) == \A c \in PrepareCalls : calls[c].step = "files" => calls[c].rev \notin done

Lone(calls) ==
    \A c, d \in PrepareCalls :
        /\ calls[c].step = "files" /\ calls[c].alone
        /\ calls[d].step = "files" /\ calls[d].rev = calls[c].rev
        => d = c

Written(calls, files) ==
    \A c \in PrepareCalls : calls[c].step = "files" /\ calls[c].alone =>
        \A i \in 1..calls[c].written : files[calls[c].rev][i] = calls[c].ports[i]

Whole(manifest, files, done) ==
    \A r \in done :
        /\ Len(manifest[r]) = Len(Workloads) /\ Assigned(manifest[r])
        /\ \A i \in DOMAIN Workloads : files[r][i] = manifest[r][i]

Calls(calls) == calls \in [PrepareCalls -> PrepareState] /\ \A c \in PrepareCalls : CallSound(calls[c])

WsInv ==
    /\ Calls(preparing)
    /\ runtimeFiles \in [Revisions -> [DOMAIN Workloads -> Nat]]
    /\ wsManifest \in [Revisions -> Seq(Nat)]
    /\ prepared \in SUBSET Revisions
    /\ Writers(preparing, prepared) /\ Lone(preparing)
    /\ Written(preparing, runtimeFiles) /\ Whole(wsManifest, runtimeFiles, prepared)

LEMMA Services == Len(Workloads) \in Nat /\ DOMAIN Workloads = 1..Len(Workloads)
                  /\ \A i \in DOMAIN Workloads : Workloads[i] \in Workload
BY WorkspacesAssumption

LEMMA NoPrepareSound == NoPrepare \in PrepareState /\ CallSound(NoPrepare) /\ NoPrepare.step = "idle"
<1>1. DOMAIN <<>> = {} /\ Len(<<>>) = 0 OBVIOUS
<1> QED BY <1>1, Services DEF NoPrepare, PrepareState, CallSound, Assigned, Apart

LEMMA WsInvInit == WsInit => WsInv
<1> SUFFICES ASSUME WsInit PROVE WsInv OBVIOUS
<1>1. \A c \in PrepareCalls : preparing[c] = NoPrepare BY DEF WsInit
<1>2. Calls(preparing) BY <1>1, NoPrepareSound DEF WsInit, Calls
<1>3. runtimeFiles \in [Revisions -> [DOMAIN Workloads -> Nat]] BY Services DEF WsInit, NoPorts
<1> QED BY <1>1, <1>2, <1>3, NoPrepareSound DEF WsInit, WsInv, Writers, Lone, Written, Whole

(* A call that ends without more on disk, or has not begun to write. *)
LEMMA OtherCall ==
    ASSUME WsInv, NEW c \in PrepareCalls, NEW p \in PrepareState, CallSound(p), p.step # "files",
           preparing' = [preparing EXCEPT ![c] = p]
    PROVE  /\ Calls(preparing') /\ Writers(preparing', prepared) /\ Lone(preparing')
           /\ Written(preparing', runtimeFiles)
<1> USE DEF WsInv
<1>1. \A d \in PrepareCalls : preparing'[d] = IF d = c THEN p ELSE preparing[d] BY DEF Calls
<1>2. Calls(preparing') BY <1>1 DEF Calls
<1>3. \A d \in PrepareCalls : preparing'[d].step = "files" => preparing'[d] = preparing[d] BY <1>1
<1> QED BY <1>2, <1>3 DEF Writers, Lone, Written

LEMMA OtherCallKeeps ==
    ASSUME WsInv, NEW c \in PrepareCalls, NEW p \in PrepareState, CallSound(p), p.step # "files",
           preparing' = [preparing EXCEPT ![c] = p],
           UNCHANGED <<runtimeFiles, wsManifest, prepared>>
    PROVE  WsInv'
BY OtherCall DEF WsInv

LEMMA BeginKeeps ==
    ASSUME WsInv, NEW c \in PrepareCalls, NEW r \in Revisions, BeginPrepare(c, r) PROVE WsInv'
<1>1. PICK p : p = [NoPrepare EXCEPT !.step = "ports", !.rev = r] OBVIOUS
<1>2. p \in PrepareState /\ p.step = "ports" /\ p.rev = r /\ p.ports = <<>>
      /\ p.written = 0
  BY <1>1, NoPrepareSound DEF NoPrepare, PrepareState
<1>3. CallSound(p) BY <1>2, NoPrepareSound DEF CallSound, NoPrepare
<1>4. preparing' = [preparing EXCEPT ![c] = p] /\ UNCHANGED <<runtimeFiles, wsManifest, prepared>>
  BY <1>1 DEF BeginPrepare
<1> QED BY <1>2, <1>3, <1>4, OtherCallKeeps

LEMMA AssignKeeps == ASSUME WsInv, NEW c \in PrepareCalls, assignRuntimePorts(c) PROVE WsInv'
<1> USE DEF WsInv
<1>1. PICK p : p = preparing[c] OBVIOUS
<1>2. p \in PrepareState /\ CallSound(p) /\ p.step = "ports" /\ Len(p.ports) < Len(Workloads)
      /\ p.ports \in Seq(Nat) /\ p.rev \in Revisions /\ p.written = 0
  BY <1>1 DEF assignRuntimePorts, PrepareState, CallSound, Calls
<1>3. PICK s : s = Workloads[Len(p.ports) + 1] OBVIOUS
<1>4. s \in Workload BY <1>2, <1>3, Services
<1>5. PICK taken : taken = {p.ports[i] : i \in DOMAIN p.ports} OBVIOUS
<1>6. PICK port : port = IF shouldAssignStandaloneRuntimePort(s) THEN RuntimePort(s, taken) ELSE 0
  OBVIOUS
<1>7. port \in Nat /\ (port # 0 => port \notin taken) /\ (port # 0 \/ s.internal => Fitting(s, port))
  <2>1. RuntimePort(s, taken) \in Nat
        /\ (RuntimePort(s, taken) # 0 => RuntimePort(s, taken) \notin taken)
        /\ (RuntimePort(s, taken) # 0 => Fitting(s, RuntimePort(s, taken)))
    BY <1>4, AllocatedFree
  <2> QED BY <1>4, <1>6, <2>1 DEF shouldAssignStandaloneRuntimePort, Fitting, Workload
<1>8. /\ preparing' = [preparing EXCEPT ![c] =
           IF shouldAssignStandaloneRuntimePort(s) /\ port = 0
           THEN NoPrepare ELSE [@ EXCEPT !.ports = Append(p.ports, port)]]
      /\ UNCHANGED <<runtimeFiles, wsManifest, prepared>>
  BY <1>1, <1>3, <1>5, <1>6, Zenon DEF assignRuntimePorts
<1>9. CASE shouldAssignStandaloneRuntimePort(s) /\ port = 0
  BY <1>8, <1>9, NoPrepareSound, OtherCallKeeps
<1>10. CASE ~(shouldAssignStandaloneRuntimePort(s) /\ port = 0)
  <2>1. PICK q : q = [p EXCEPT !.ports = Append(p.ports, port)] OBVIOUS
  <2>2. PICK new : new = Append(p.ports, port) OBVIOUS
  <2>3. Apart(p.ports) /\ \A i \in DOMAIN p.ports : Fitting(Workloads[i], p.ports[i])
    BY <1>2 DEF CallSound, Assigned
  <2>4. new \in Seq(Nat) /\ Apart(new) BY <1>2, <1>5, <1>7, <2>2, <2>3, AppendApart
  <2>5. Len(new) = Len(p.ports) + 1 /\ new[Len(new)] = port
        /\ \A i \in DOMAIN new : i = Len(new) \/ (i \in DOMAIN p.ports /\ new[i] = p.ports[i])
    BY <1>2, <1>7, <2>2
  <2>6. Fitting(s, port) BY <1>4, <1>7, <1>10 DEF shouldAssignStandaloneRuntimePort, Workload
  <2>7. Assigned(new)
    <3>1. Len(p.ports) \in Nat /\ Len(new) <= Len(Workloads) BY <1>2, <2>5, Services
    <3>2. \A i \in DOMAIN new : Fitting(Workloads[i], new[i])
      <4>1. Fitting(Workloads[Len(new)], new[Len(new)]) BY <1>3, <2>5, <2>6
      <4> QED BY <2>3, <2>5, <4>1
    <3> QED BY <2>4, <3>1, <3>2 DEF Assigned
  <2>8. q \in PrepareState /\ q.step = "ports" /\ q.rev = p.rev /\ q.ports = new /\ q.written = 0
    BY <1>2, <2>1, <2>2, <2>4 DEF PrepareState
  <2>9. CallSound(q) BY <1>2, <2>7, <2>8 DEF CallSound
  <2>10. preparing' = [preparing EXCEPT ![c] = q] BY <1>1, <1>8, <1>10, <2>1
  <2> QED BY <1>8, <2>8, <2>9, <2>10, OtherCallKeeps
<1> QED BY <1>9, <1>10

LEMMA MkdirKeeps == ASSUME WsInv, NEW c \in PrepareCalls, MkdirAll(c) PROVE WsInv'
<1> USE DEF WsInv
<1>1. PICK r : r = preparing[c].rev OBVIOUS
<1>2. /\ preparing[c].step = "ports" /\ Len(preparing[c].ports) = Len(Workloads)
      /\ preparing' = [d \in PrepareCalls |->
           IF d = c THEN [preparing[d] EXCEPT !.step = "files", !.alone = (WritingOf(r) = {})]
           ELSE IF d \in WritingOf(r) THEN [preparing[d] EXCEPT !.alone = FALSE]
           ELSE preparing[d]]
      /\ prepared' = prepared \ {r} /\ UNCHANGED <<runtimeFiles, wsManifest>>
  BY <1>1 DEF MkdirAll
<1>3. \A d \in PrepareCalls :
        /\ preparing'[d] \in PrepareState
        /\ preparing'[d].rev = preparing[d].rev /\ preparing'[d].ports = preparing[d].ports
        /\ preparing'[d].written = preparing[d].written
        /\ d # c => preparing'[d].step = preparing[d].step
        /\ d # c /\ preparing'[d].alone => preparing[d].alone /\ d \notin WritingOf(r)
        /\ d = c => preparing'[d].step = "files" /\ (preparing'[d].alone => WritingOf(r) = {})
  BY <1>2 DEF PrepareState, Calls
<1>4. preparing' \in [PrepareCalls -> PrepareState] BY <1>2, <1>3
<1>5. preparing[c].written = 0 /\ r \in Revisions BY <1>1, <1>2 DEF CallSound, Calls
<1>6. \A d \in PrepareCalls : CallSound(preparing'[d])
  <2> SUFFICES ASSUME NEW d \in PrepareCalls PROVE CallSound(preparing'[d]) OBVIOUS
  <2>1. CallSound(preparing[d]) BY DEF Calls
  <2>2. CASE d = c
    <3>1. /\ preparing'[d].rev = r /\ preparing'[d].ports = preparing[c].ports
          /\ preparing'[d].written = 0 /\ preparing'[d].step = "files"
      BY <1>1, <1>3, <1>5, <2>2
    <3>2. 0 <= Len(Workloads) BY Services
    <3> QED BY <1>2, <1>5, <2>1, <2>2, <3>1, <3>2 DEF CallSound
  <2>3. CASE d # c BY <1>3, <2>1, <2>3 DEF CallSound
  <2> QED BY <2>2, <2>3
<1>7. Writers(preparing', prepared')
  <2> SUFFICES ASSUME NEW d \in PrepareCalls, preparing'[d].step = "files"
      PROVE preparing'[d].rev \notin prepared' BY DEF Writers
  <2>1. preparing'[d].rev = preparing[d].rev /\ (d # c => preparing[d].step = "files") BY <1>3
  <2>2. prepared' = prepared \ {r} BY <1>2
  <2>3. d # c => preparing[d].rev \notin prepared BY <2>1 DEF Writers
  <2>4. d = c => preparing[d].rev = r BY <1>1
  <2> QED BY <2>1, <2>2, <2>3, <2>4
<1>8. Lone(preparing') BY <1>1, <1>3 DEF Lone, WritingOf
<1>9. Written(preparing', runtimeFiles')
  <2> SUFFICES ASSUME NEW d \in PrepareCalls, preparing'[d].step = "files", preparing'[d].alone,
                      NEW i \in 1..preparing'[d].written
      PROVE runtimeFiles'[preparing'[d].rev][i] = preparing'[d].ports[i] BY DEF Written
  <2>1. d # c BY <1>3, <1>5
  <2>2. /\ preparing[d].step = "files" /\ preparing[d].alone /\ i \in 1..preparing[d].written
        /\ preparing'[d].rev = preparing[d].rev /\ preparing'[d].ports = preparing[d].ports
    BY <1>3, <2>1
  <2>3. runtimeFiles' = runtimeFiles BY <1>2
  <2>4. \A j \in 1..preparing[d].written : runtimeFiles[preparing[d].rev][j] = preparing[d].ports[j]
    BY <2>2 DEF Written
  <2> QED BY <2>2, <2>3, <2>4
<1>10. Whole(wsManifest', runtimeFiles', prepared') BY <1>2 DEF Whole
<1> QED BY <1>2, <1>4, <1>6, <1>7, <1>8, <1>9, <1>10 DEF Calls

LEMMA WriteKeeps == ASSUME WsInv, NEW c \in PrepareCalls, WriteService(c) PROVE WsInv'
<1> USE DEF WsInv
<1>1. PICK p : p = preparing[c] OBVIOUS
<1>2. PICK i : i = p.written + 1 OBVIOUS
<1>3. /\ p \in PrepareState /\ CallSound(p) /\ p.step = "files" /\ i <= Len(Workloads)
      /\ runtimeFiles' = [runtimeFiles EXCEPT ![p.rev][i] = p.ports[i]]
      /\ preparing' = [preparing EXCEPT ![c].written = i]
      /\ UNCHANGED <<wsManifest, prepared>>
  BY <1>1, <1>2 DEF WriteService, Calls
<1>4. p.rev \in Revisions /\ i \in 1..Len(Workloads) /\ i \in DOMAIN Workloads /\ p.ports[i] \in Nat
      /\ p.rev \notin prepared
  BY <1>1, <1>2, <1>3, Services DEF CallSound, PrepareState, Writers
<1>5. /\ runtimeFiles' \in [Revisions -> [DOMAIN Workloads -> Nat]]
      /\ \A r \in Revisions \ {p.rev} : runtimeFiles'[r] = runtimeFiles[r]
      /\ runtimeFiles'[p.rev][i] = p.ports[i]
      /\ \A j \in DOMAIN Workloads \ {i} : runtimeFiles'[p.rev][j] = runtimeFiles[p.rev][j]
  BY <1>3, <1>4
<1>6. \A d \in PrepareCalls :
        /\ preparing'[d] \in PrepareState
        /\ preparing'[d].rev = preparing[d].rev /\ preparing'[d].ports = preparing[d].ports
        /\ preparing'[d].step = preparing[d].step /\ preparing'[d].alone = preparing[d].alone
        /\ d # c => preparing'[d].written = preparing[d].written
        /\ d = c => preparing'[d].written = i
  <2>1. i \in Nat BY <1>4, Services
  <2> QED BY <1>1, <1>3, <2>1 DEF PrepareState, Calls
<1>7. preparing' \in [PrepareCalls -> PrepareState] BY <1>3, <1>6 DEF Calls
<1>8. \A d \in PrepareCalls : CallSound(preparing'[d])
  BY <1>1, <1>2, <1>3, <1>6 DEF CallSound, Calls
<1>9. Writers(preparing', prepared') /\ Lone(preparing') BY <1>3, <1>6 DEF Writers, Lone
<1>10. Written(preparing', runtimeFiles')
  <2> SUFFICES ASSUME NEW d \in PrepareCalls, preparing[d].step = "files", preparing[d].alone,
                      NEW j \in 1..preparing'[d].written
      PROVE runtimeFiles'[preparing[d].rev][j] = preparing[d].ports[j]
    BY <1>6 DEF Written
  <2>1. preparing[d].written <= Len(Workloads) /\ preparing[d].written \in Nat
        /\ preparing[d].rev \in Revisions BY DEF CallSound, PrepareState, Calls
  <2>2. \A k \in 1..preparing[d].written : runtimeFiles[preparing[d].rev][k] = preparing[d].ports[k]
    BY DEF Written
  <2>3. CASE d = c
    <3>1. j = i \/ (j \in 1..preparing[d].written /\ j # i)
      <4>1. preparing'[d].written = i /\ i = preparing[d].written + 1 BY <1>1, <1>2, <1>6, <2>3
      <4> QED BY <2>1, <4>1
    <3>2. j \in 1..preparing[d].written => j \in DOMAIN Workloads BY <2>1, Services
    <3> QED BY <1>1, <1>5, <2>2, <2>3, <3>1, <3>2
  <2>4. CASE d # c
    <3>1. preparing[d].rev # p.rev BY <1>1, <1>3, <2>4 DEF Lone
    <3> QED BY <1>5, <1>6, <2>1, <2>2, <2>4, <3>1
  <2> QED BY <2>3, <2>4
<1>11. Whole(wsManifest', runtimeFiles', prepared')
  <2>1. \A r \in prepared : r \in Revisions \ {p.rev} BY <1>4
  <2> QED BY <1>3, <1>5, <2>1 DEF Whole
<1> QED BY <1>3, <1>5, <1>7, <1>8, <1>9, <1>10, <1>11 DEF Calls

(* The call ends: what is on disk of another revision stays as it is. *)
LEMMA PrepareKeeps == ASSUME WsInv, NEW c \in PrepareCalls, PrepareReleaseWorkspace(c) PROVE WsInv'
<1> USE DEF WsInv
<1>1. PICK p : p = preparing[c] OBVIOUS
<1>2. PICK r : r = p.rev OBVIOUS
<1>3. /\ p \in PrepareState /\ CallSound(p) /\ p.step = "files" /\ p.written = Len(Workloads)
      /\ preparing' = [preparing EXCEPT ![c] = NoPrepare]
      /\ wsManifest' = [wsManifest EXCEPT ![r] = p.ports] /\ runtimeFiles' = runtimeFiles
      /\ prepared' = IF p.alone THEN prepared \cup {r} ELSE prepared
  BY <1>1, <1>2 DEF PrepareReleaseWorkspace, Calls
<1>4. r \in Revisions /\ r \notin prepared /\ Assigned(p.ports) /\ Len(p.ports) = Len(Workloads)
      /\ p.ports \in Seq(Nat)
  BY <1>1, <1>2, <1>3 DEF CallSound, PrepareState, Writers
<1>5. Calls(preparing') /\ Lone(preparing') /\ Written(preparing', runtimeFiles')
  BY <1>3, NoPrepareSound, OtherCall
<1>6. wsManifest' \in [Revisions -> Seq(Nat)] /\ wsManifest'[r] = p.ports
      /\ \A q \in Revisions \ {r} : wsManifest'[q] = wsManifest[q]
  BY <1>3, <1>4
<1>7. Writers(preparing', prepared')
  <2> SUFFICES ASSUME NEW d \in PrepareCalls, preparing'[d].step = "files"
      PROVE preparing'[d].rev \notin prepared' BY DEF Writers
  <2>1. d # c /\ preparing'[d] = preparing[d] BY <1>3, NoPrepareSound DEF Calls
  <2>2. p.alone => preparing[d].rev # r BY <1>1, <1>2, <1>3, <2>1 DEF Lone
  <2> QED BY <1>3, <2>1, <2>2 DEF Writers
<1>8. p.alone => \A i \in DOMAIN Workloads : runtimeFiles[r][i] = p.ports[i]
  BY <1>1, <1>2, <1>3, Services DEF Written
<1>9. Whole(wsManifest', runtimeFiles', prepared')
  <2> SUFFICES ASSUME NEW q \in prepared'
      PROVE /\ Len(wsManifest'[q]) = Len(Workloads) /\ Assigned(wsManifest'[q])
            /\ \A i \in DOMAIN Workloads : runtimeFiles'[q][i] = wsManifest'[q][i]
    BY DEF Whole
  <2>1. CASE q = r
    <3>1. p.alone BY <1>3, <1>4, <2>1
    <3> QED BY <1>3, <1>4, <1>6, <1>8, <2>1, <3>1
  <2>2. CASE q # r
    <3>1. q \in prepared BY <1>3, <2>2
    <3> QED BY <1>3, <1>6, <2>2, <3>1 DEF Whole
  <2> QED BY <2>1, <2>2
<1> QED BY <1>3, <1>4, <1>5, <1>6, <1>7, <1>9

LEMMA FailKeeps == ASSUME WsInv, NEW c \in PrepareCalls, PrepareFails(c) PROVE WsInv'
<1> USE DEF WsInv
<1>1. PICK r : r = preparing[c].rev OBVIOUS
<1>2. /\ preparing[c].step = "files" /\ preparing' = [preparing EXCEPT ![c] = NoPrepare]
      /\ runtimeFiles' = [runtimeFiles EXCEPT ![r] = NoPorts]
      /\ wsManifest' = [wsManifest EXCEPT ![r] = <<>>] /\ prepared' = prepared
  BY <1>1 DEF PrepareFails
<1>3. r \in Revisions /\ r \notin prepared BY <1>1, <1>2 DEF CallSound, Writers, Calls
<1>4. Calls(preparing') /\ Lone(preparing') /\ Writers(preparing', prepared')
      /\ Written(preparing', runtimeFiles)
  BY <1>2, NoPrepareSound, OtherCall
<1>5. NoPorts \in [DOMAIN Workloads -> Nat] BY Services DEF NoPorts
<1>6. runtimeFiles' \in [Revisions -> [DOMAIN Workloads -> Nat]] /\ wsManifest' \in [Revisions -> Seq(Nat)]
      /\ \A q \in Revisions \ {r} : runtimeFiles'[q] = runtimeFiles[q] /\ wsManifest'[q] = wsManifest[q]
  <2>1. PICK none : none = NoPorts OBVIOUS
  <2>2. runtimeFiles' = [runtimeFiles EXCEPT ![r] = none] /\ none \in [DOMAIN Workloads -> Nat]
    BY <1>2, <1>5, <2>1
  <2>3. <<>> \in Seq(Nat) OBVIOUS
  <2> QED BY <1>2, <2>2, <2>3
<1>7. Written(preparing', runtimeFiles')
  <2> SUFFICES ASSUME NEW d \in PrepareCalls, preparing'[d].step = "files", preparing'[d].alone
      PROVE  \A i \in 1..preparing'[d].written :
                 runtimeFiles'[preparing'[d].rev][i] = preparing'[d].ports[i]
    BY DEF Written
  <2>1. d # c /\ preparing'[d] = preparing[d] BY <1>2, NoPrepareSound DEF Calls
  <2>2. preparing[d].rev \in Revisions BY <2>1 DEF CallSound, Calls
  <2>3. preparing[d].rev # r BY <1>1, <1>2, <2>1 DEF Lone
  <2>4. runtimeFiles'[preparing'[d].rev] = runtimeFiles[preparing'[d].rev] BY <1>6, <2>1, <2>2, <2>3
  <2>5. \A i \in 1..preparing'[d].written : runtimeFiles[preparing'[d].rev][i] = preparing'[d].ports[i]
    BY <1>4 DEF Written
  <2> QED BY <2>4, <2>5
<1>8. Whole(wsManifest', runtimeFiles', prepared')
  <2>1. \A q \in prepared : q \in Revisions \ {r} BY <1>3
  <2> QED BY <1>2, <1>6, <2>1 DEF Whole
<1> QED BY <1>2, <1>4, <1>6, <1>7, <1>8

LEMMA StopsKeeps == ASSUME WsInv, AgentStops PROVE WsInv'
<1> USE DEF WsInv
<1>1. preparing' = [c \in PrepareCalls |-> NoPrepare] /\ UNCHANGED <<runtimeFiles, wsManifest, prepared>>
  BY DEF AgentStops
<1>2. \A c \in PrepareCalls : preparing'[c] = NoPrepare BY <1>1
<1>3. Calls(preparing') BY <1>1, NoPrepareSound DEF Calls
<1> QED BY <1>1, <1>2, <1>3, NoPrepareSound DEF Writers, Lone, Written

LEMMA WsInvNext == WsInv /\ [WsNext]_workspaceVars => WsInv'
<1> SUFFICES ASSUME WsInv, [WsNext]_workspaceVars PROVE WsInv' OBVIOUS
<1>1. CASE Listen \/ UNCHANGED workspaceVars
  <2>1. UNCHANGED <<preparing, runtimeFiles, wsManifest, prepared>> BY <1>1 DEF Listen, workspaceVars
  <2> QED BY <2>1 DEF WsInv
<1>2. CASE WsNext
  BY <1>1, <1>2, BeginKeeps, AssignKeeps, MkdirKeeps, WriteKeeps, PrepareKeeps, FailKeeps, StopsKeeps
     DEF WsNext
<1> QED BY <1>1, <1>2

LEMMA WsInvWhole == WsInv => PreparedWhole
<1> SUFFICES ASSUME WsInv, NEW r \in prepared, NEW i \in DOMAIN Workloads, NEW j \in DOMAIN Workloads
    PROVE  LET port == runtimeFiles[r][i] IN
           /\ wsManifest[r][i] = port
           /\ i # j /\ port # 0 => port # runtimeFiles[r][j]
           /\ Workloads[i].internal \/ port # 0
           /\ ~Workloads[i].internal /\ serviceLocalListenerPortConflicts(Workloads[i], port)
               => port \in StandaloneRange
  BY DEF PreparedWhole
<1>1. r \in Revisions /\ wsManifest[r] \in Seq(Nat) /\ Len(wsManifest[r]) = Len(Workloads)
      /\ Assigned(wsManifest[r])
      /\ runtimeFiles[r][i] = wsManifest[r][i] /\ runtimeFiles[r][j] = wsManifest[r][j]
  BY DEF WsInv, Whole
<1>2. i \in DOMAIN wsManifest[r] /\ j \in DOMAIN wsManifest[r] BY <1>1, Services
<1> QED BY <1>1, <1>2 DEF Assigned, Apart, Fitting

(* PrepareReleaseWorkspace: a revision that was last prepared to the end,   *)
(* by a call no other one overlapped on disk, has the same ports in the     *)
(* files its containers start from and in the manifest, one port a service. *)
THEOREM WorkspacesKept == WsSpec => []PreparedWhole
<1>1. WsInit => WsInv BY WsInvInit
<1>2. WsInv /\ [WsNext]_workspaceVars => WsInv' BY WsInvNext
<1>3. WsInv => PreparedWhole BY WsInvWhole
<1> QED BY <1>1, <1>2, <1>3, PTL DEF WsSpec

-----------------------------------------------------------------------------
(* Artifacts.  What is sent of a target is what was built for it, and the  *)
(* callback gives each to a service of its own.                            *)

(* What is sent of a target, and what was built for it.                    *)
Built(i) == job.targets[i]
SentOf(i) ==
    /\ sent[i].name = Built(i).name /\ sent[i].path = Built(i).path
    /\ sent[i].ref = imageNameForService(Built(i), job.commit)
    /\ Built(i) \in DOMAIN made /\ made[Built(i)] \in Digests
    /\ sent[i].digest \in {made[Built(i)], "none"}
    /\ sent[i].ref \in DOMAIN registry
    /\ \E j \in DOMAIN sent : sent[j].ref = sent[i].ref /\ registry[sent[i].ref] = made[Built(j)]

TargetsApart ==
    \A i, j \in DOMAIN job.targets :
        buildTargetServiceKey(Built(i)) = buildTargetServiceKey(Built(j)) => i = j

ArtInv ==
    /\ inventory \in Inventories
    /\ DOMAIN job.targets \subseteq Nat /\ IsFiniteSet(DOMAIN job.targets)
    /\ TargetsApart
    /\ job.status = "none" => job = NoJob
    /\ job.status \in {"none", "queued"} => sent = <<>> /\ made = <<>>
    /\ job.targets # <<>> =>
          /\ DOMAIN sent \subseteq DOMAIN job.targets
          /\ \A i \in DOMAIN sent : SentOf(i)
          /\ \A t \in DOMAIN made : \E i \in DOMAIN sent : t = Built(i)
    /\ EachTargetItsImage

LEMMA ArtInvInit == ArtInit => ArtInv
<1>1. SUFFICES ASSUME ArtInit PROVE ArtInv OBVIOUS
<1>2. job = NoJob /\ job.targets = <<>> /\ job.status = "none" /\ sent = <<>> /\ made = <<>>
  BY <1>1 DEF ArtInit, NoJob
<1>3. DOMAIN job.targets = {} /\ DOMAIN sent = {} /\ DOMAIN made = {} BY <1>2
<1>4. inventory \in Inventories BY <1>1 DEF ArtInit
<1>5. IsFiniteSet(DOMAIN job.targets) BY <1>3, FS_EmptySet
<1> QED BY <1>2, <1>3, <1>4, <1>5 DEF ArtInv, TargetsApart, EachTargetItsImage

(* Steps before anything is built, and steps of the rest of the world.     *)
LEMMA JobMoves ==
    ASSUME ArtInv, job.status \in {"none", "queued"}, job'.status # "none", job'.status # "ready",
           job'.targets = job.targets, UNCHANGED <<sent, made>>, inventory' \in Inventories
    PROVE  ArtInv'
<1>1. sent' = <<>> /\ made' = <<>> BY DEF ArtInv
<1>2. DOMAIN sent' = {} /\ DOMAIN made' = {} BY <1>1
<1>3. TargetsApart' BY DEF ArtInv, TargetsApart, Built
<1> QED BY <1>1, <1>2, <1>3 DEF ArtInv, EachTargetItsImage

LEMMA EnqueueKeeps == ASSUME ArtInv, Enqueue PROVE ArtInv'
<1> DEFINE repo == {i \in DOMAIN inventory : ~inventory[i].internal}
           first == {i \in repo : \A k \in repo : k < i =>
                        buildTargetServiceKey(inventory[k]) # buildTargetServiceKey(inventory[i])}
<1>1. /\ job'.status = "queued" /\ job'.targets = [i \in first |-> inventory[i]]
      /\ sent' = <<>> /\ made' = <<>> /\ inventory' = inventory
  <2>1. PICK commit : job' = [status |-> "queued", commit |-> commit, targets |-> resolveBuildTargets]
    BY DEF Enqueue
  <2>2. job.status = "none" /\ UNCHANGED <<inventory, made, sent>> BY DEF Enqueue
  <2>3. job'.status = "queued" /\ job'.targets = resolveBuildTargets BY <2>1
  <2>4. sent = <<>> /\ made = <<>> BY <2>2 DEF ArtInv
  <2> QED BY <2>2, <2>3, <2>4 DEF resolveBuildTargets
<1>2. PICK n \in Nat : DOMAIN inventory = 1..n
  <2>1. inventory \in Seq(Range(inventory)) BY ArtifactsAssumption DEF ArtInv
  <2> QED BY <2>1
<1>3. DOMAIN job'.targets = first /\ first \subseteq 1..n BY <1>1, <1>2
<1>4. TargetsApart'
  <2>1. SUFFICES ASSUME NEW i \in first, NEW j \in first,
                        buildTargetServiceKey(inventory[i]) = buildTargetServiceKey(inventory[j])
                 PROVE  i = j
    BY <1>1 DEF TargetsApart, Built
  <2>2. ~(i < j) /\ ~(j < i) BY <2>1
  <2>3. i \in Nat /\ j \in Nat BY <1>3
  <2> QED BY <2>2, <2>3
<1>5. DOMAIN sent' = {} /\ DOMAIN made' = {} BY <1>1
<1>6. IsFiniteSet(1..n) BY FS_Interval
<1>7. DOMAIN job'.targets \subseteq Nat /\ IsFiniteSet(DOMAIN job'.targets) BY <1>3, <1>6, FS_Subset
<1> HIDE DEF first
<1> QED BY <1>1, <1>4, <1>5, <1>7 DEF ArtInv, EachTargetItsImage

LEMMA WholeKeeps == ASSUME ArtInv, BuildWholeRepo PROVE ArtInv'
BY DEF ArtInv, BuildWholeRepo, TargetsApart, Built, EachTargetItsImage

(* What building and pushing target i does. *)
Pushes(i, digest, read, ok) ==
    LET t == job.targets[i]
        ref == imageNameForService(t, job.commit)
    IN  IF ok /\ resolveServiceBuildDir(t)
        THEN /\ registry' = [r \in DOMAIN registry \cup {ref} |-> IF r = ref THEN digest ELSE registry[r]]
             /\ made' = [u \in DOMAIN made \cup {t} |-> IF u = t THEN digest ELSE made[u]]
             /\ sent' = [k \in DOMAIN sent \cup {i} |->
                    IF k \in DOMAIN sent THEN sent[k]
                    ELSE [name |-> t.name, path |-> t.path, ref |-> ref,
                          digest |-> IF read THEN digest ELSE "none"]]
             /\ UNCHANGED job
        ELSE /\ job' = [job EXCEPT !.status = "failed"]
             /\ UNCHANGED <<registry, made, sent>>

LEMMA TargetKeeps == ASSUME ArtInv, buildAndPush PROVE ArtInv'
<1> DEFINE left == DOMAIN job.targets \ DOMAIN sent
           next == CHOOSE k \in left : \A n \in left : k <= n
<1>a. PICK digest \in Digests, read \in BOOLEAN, ok \in BOOLEAN :
        /\ left # {} /\ job.status = "building"
        /\ Pushes(next, digest, read, ok)
        /\ UNCHANGED <<inventory, head, compiled>>
  BY DEF buildAndPush, Pushes
<1>0. PICK i : i = next OBVIOUS
<1> DEFINE t == job.targets[i]
           ref == imageNameForService(t, job.commit)
<1>1. /\ left # {} /\ job.status = "building"
      /\ Pushes(i, digest, read, ok)
      /\ UNCHANGED <<inventory, head, compiled>>
  BY <1>a, <1>0
<1>2. job.targets # <<>> BY <1>1
<1>3. i \in DOMAIN job.targets /\ i \notin DOMAIN sent
  <2>1. left \in SUBSET Nat BY DEF ArtInv
  <2>2. \E k \in left : \A n \in left : k <= n
    <3> HIDE DEF left
    <3> QED BY <1>1, <2>1, LeastNat
  <2>3. i \in left
    <3> HIDE DEF left
    <3> QED BY <1>0, <2>2
  <2> QED BY <2>3
<1>4. /\ DOMAIN sent \subseteq DOMAIN job.targets /\ \A k \in DOMAIN sent : SentOf(k)
      /\ \A u \in DOMAIN made : \E k \in DOMAIN sent : u = Built(k)
      /\ TargetsApart
  BY <1>2 DEF ArtInv
<1>5. CASE ~(ok /\ resolveServiceBuildDir(t))
  <2>1. job' = [job EXCEPT !.status = "failed"] /\ UNCHANGED <<registry, made, sent, inventory>>
    BY <1>1, <1>5 DEF Pushes
  <2>2. job'.targets = job.targets /\ job'.commit = job.commit /\ (job'.status = "failed" \/ job' = job)
    BY <2>1
  <2>3. \A k : SentOf(k)' = SentOf(k) BY <2>1, <2>2 DEF SentOf, Built
  <2>4. job'.status \in {"building", "failed"} BY <1>1, <2>2
  <2>5. TargetsApart' BY <1>4, <2>2 DEF TargetsApart, Built
  <2> QED BY <1>4, <2>1, <2>2, <2>3, <2>4, <2>5 DEF ArtInv, EachTargetItsImage, Built
<1>6. CASE ok /\ resolveServiceBuildDir(t)
  <2>0. job' = job /\ inventory' = inventory BY <1>1, <1>6 DEF Pushes
  <2>1. PICK d : d = IF read THEN digest ELSE "none" OBVIOUS
  <2>2. /\ DOMAIN sent' = DOMAIN sent \cup {i} /\ \A k \in DOMAIN sent : sent'[k] = sent[k]
        /\ sent'[i] = [name |-> t.name, path |-> t.path, ref |-> ref, digest |-> d]
    BY <1>1, <1>3, <1>6, <2>1 DEF Pushes
  <2>3. /\ DOMAIN made' = DOMAIN made \cup {t} /\ made'[t] = digest
        /\ \A u \in DOMAIN made : u # t => made'[u] = made[u]
    BY <1>1, <1>6 DEF Pushes
  <2>4. /\ DOMAIN registry' = DOMAIN registry \cup {ref} /\ registry'[ref] = digest
        /\ \A r \in DOMAIN registry : r # ref => registry'[r] = registry[r]
    BY <1>1, <1>6 DEF Pushes
  <2>5. \A k \in DOMAIN sent : Built(k) # t BY <1>3, <1>4 DEF TargetsApart, Built
  <2>6. Built(i) = t /\ \A k : Built(k)' = Built(k) BY <2>0 DEF Built
  <2>7. SentOf(i)'
    <3>1. sent'[i].ref = ref /\ sent'[i].name = t.name /\ sent'[i].path = t.path /\ sent'[i].digest = d
      BY <2>2
    <3>2. d \in {digest, "none"} BY <2>1
    <3>3. i \in DOMAIN sent' BY <2>2
    <3>4. imageNameForService(Built(i), job.commit)' = ref
      <4>1. imageNameForService(Built(i), job.commit)' = imageNameForService(job'.targets[i], job'.commit)
        BY DEF imageNameForService, Built
      <4> QED BY <2>0, <4>1
    <3>5. Built(i)' = t BY <2>6
    <3> HIDE DEF t, ref
    <3> QED BY <2>3, <2>4, <3>1, <3>2, <3>3, <3>4, <3>5 DEF SentOf
  <2>8. ASSUME NEW k \in DOMAIN sent PROVE SentOf(k)'
    <3>1. SentOf(k) /\ sent'[k] = sent[k] BY <1>4, <2>2
    <3>2. Built(k) \in DOMAIN made' /\ made'[Built(k)] = made[Built(k)]
      BY <2>3, <2>5, <3>1 DEF SentOf
    <3>3. sent[k].ref \in DOMAIN registry' BY <2>4, <3>1 DEF SentOf
    <3>4. \E j \in DOMAIN sent' : sent'[j].ref = sent[k].ref /\ registry'[sent[k].ref] = made'[Built(j)]
      <4>1. CASE sent[k].ref = ref
        <5>1. sent'[i].ref = ref /\ i \in DOMAIN sent' BY <2>2
        <5>2. made'[Built(i)] = digest BY <2>3, <2>6
        <5> HIDE DEF t, ref
        <5> QED BY <2>4, <4>1, <5>1, <5>2
      <4>2. CASE sent[k].ref # ref
        <5>1. PICK j \in DOMAIN sent : sent[j].ref = sent[k].ref /\ registry[sent[k].ref] = made[Built(j)]
          BY <3>1 DEF SentOf
        <5>2. SentOf(j) /\ sent'[j] = sent[j] /\ j \in DOMAIN sent' BY <1>4, <2>2
        <5>3. made'[Built(j)] = made[Built(j)] BY <2>3, <2>5, <5>2 DEF SentOf
        <5>4. registry'[sent[k].ref] = registry[sent[k].ref] BY <2>4, <3>1, <4>2 DEF SentOf
        <5> QED BY <5>1, <5>2, <5>3, <5>4
      <4> QED BY <4>1, <4>2
    <3>5. imageNameForService(Built(k), job.commit)' = imageNameForService(Built(k), job.commit)
      BY <2>0, <2>6 DEF imageNameForService, Built
    <3> QED BY <2>6, <3>1, <3>2, <3>3, <3>4, <3>5 DEF SentOf
  <2>9. \A u \in DOMAIN made' : \E k \in DOMAIN sent' : u = Built(k)
    <3> HIDE DEF t
    <3> QED BY <1>4, <2>2, <2>3, <2>6
  <2>10. \A k \in DOMAIN sent' : SentOf(k)' BY <2>2, <2>7, <2>8
  <2>11. DOMAIN sent' \subseteq DOMAIN job.targets BY <1>3, <1>4, <2>2
  <2>12. TargetsApart' BY <1>4, <2>0 DEF TargetsApart, Built
  <2> QED BY <1>1, <2>0, <2>6, <2>9, <2>10, <2>11, <2>12 DEF ArtInv, EachTargetItsImage
<1> QED BY <1>5, <1>6

(* The artifacts are what was sent, one for each target, and each is for a *)
(* service of its own.                                                     *)
LEMMA CoveredBy ==
    ASSUME NEW D, NEW arts, arts # {}, arts = normalizeBuildServiceArtifacts(sent),
           D = DOMAIN job.targets, DOMAIN sent = D, TargetsApart,
           \A i \in D : SentOf(i),
           validateStagedServiceArtifactCoverage(Range(job.targets), arts)
    PROVE  /\ \A a \in arts : \E i \in D : a = sent[i]
           /\ \A i \in D : sent[i] \in arts /\ sent[i].digest = made[Built(i)] /\ sent[i].digest # "none"
<1>1. \A a \in arts : \E i \in D : a = sent[i] /\ sent[i].digest # "none"
  BY DEF normalizeBuildServiceArtifacts
<1>2. \A i \in D : buildTargetServiceKey(sent[i]) = buildTargetServiceKey(Built(i))
  BY DEF SentOf, buildTargetServiceKey
<1>3. ASSUME NEW i \in D PROVE sent[i] \in arts /\ sent[i].digest # "none"
  <2>1. Built(i) \in Range(job.targets) BY DEF Range, Built
  <2>2. PICK a \in arts : buildTargetServiceKey(Built(i)) = buildTargetServiceKey(a)
    BY <2>1 DEF validateStagedServiceArtifactCoverage
  <2>3. PICK j \in D : a = sent[j] /\ sent[j].digest # "none" BY <1>1
  <2>4. buildTargetServiceKey(Built(i)) = buildTargetServiceKey(Built(j)) BY <1>2, <2>2, <2>3
  <2>5. i = j BY <2>4 DEF TargetsApart
  <2> QED BY <2>3, <2>5
<1>4. \A i \in D : sent[i].digest = made[Built(i)] BY <1>3 DEF SentOf
<1> QED BY <1>1, <1>3, <1>4

(* A target's place, where the places of two targets differ.               *)
LEMMA AsManyServed ==
    ASSUME NEW D, IsFiniteSet(D), NEW T, NEW S, NEW place, NEW of,
           \A t \in T : \E i \in D : t = of[i],
           \A i \in D : of[i] \in T /\ place[i] \in S,
           \A i, j \in D : place[i] = place[j] \/ of[i] = of[j] => i = j,
           \A m \in S : \E i \in D : m = place[i]
    PROVE  Cardinality(S) = Cardinality(T)
<1> DEFINE f == [i \in D |-> of[i]]
           g == [i \in D |-> place[i]]
<1>1. f \in Bijection(D, T) BY DEF Bijection, Injection, Surjection, IsInjective
<1>2. g \in Bijection(D, S) BY DEF Bijection, Injection, Surjection, IsInjective
<1>3. Cardinality(D) = Cardinality(T) BY <1>1, FS_Bijection DEF ExistsBijection
<1>4. Cardinality(D) = Cardinality(S) BY <1>2, FS_Bijection DEF ExistsBijection
<1> QED BY <1>3, <1>4

Places(a) == resolveServiceArtifactTargetIndexes(inventory, a)

LEMMA ReadyIsRight ==
    ASSUME ArtInv, NEW arts, job.status = "building", DOMAIN job.targets \subseteq DOMAIN sent,
           arts = normalizeBuildServiceArtifacts(sent), job.targets # <<>>, arts # {},
           validateStagedServiceArtifactCoverage(Range(job.targets), arts),
           validateServiceArtifactImageReferences(arts),
           validateServiceArtifactsAgainstBlueprintServices(inventory, arts),
           job'.targets = job.targets, job'.commit = job.commit,
           compiled' = applyServiceArtifactsToBlueprintServices(inventory, arts),
           UNCHANGED <<inventory, registry, made, sent>>
    PROVE  EachTargetItsImage'
<1>0. PICK D : D = DOMAIN job.targets OBVIOUS
<1>1. /\ DOMAIN sent = D /\ \A i \in D : SentOf(i)
      /\ \A t \in DOMAIN made : \E i \in D : t = Built(i)
  BY <1>0 DEF ArtInv
<1>2. /\ \A a \in arts : \E i \in D : a = sent[i]
      /\ \A i \in D : sent[i] \in arts /\ sent[i].digest = made[Built(i)] /\ sent[i].digest # "none"
  BY <1>0, <1>1, CoveredBy DEF ArtInv
<1>3. PICK n \in Nat : DOMAIN inventory = 1..n
  <2>1. inventory \in Seq(Range(inventory)) BY ArtifactsAssumption DEF ArtInv
  <2> QED BY <2>1
<1>4. ASSUME NEW a \in arts PROVE \E m \in DOMAIN inventory : Places(a) = {m}
  <2>1. Places(a) \subseteq 1..n BY <1>3 DEF Places, resolveServiceArtifactTargetIndexes
  <2>2. IsFiniteSet(1..n)
    <3>1. 1 \in Int /\ n \in Int OBVIOUS
    <3> QED BY ONLY <3>1, FS_Interval
  <2>5. IsFiniteSet(Places(a)) BY <2>1, <2>2, FS_Subset
  <2>3. Cardinality(Places(a)) = 1 BY DEF Places, validateServiceArtifactsAgainstBlueprintServices
  <2>4. PICK m : Places(a) = {m} BY <2>5, <2>3, FS_Singleton
  <2> QED BY <1>3, <2>1, <2>4
<1>5. \A a, b \in arts : Places(a) = Places(b) => a = b BY DEF Places, validateServiceArtifactsAgainstBlueprintServices
<1> DEFINE placeOf(i) == CHOOSE m \in DOMAIN inventory : Places(sent[i]) = {m}
<1>a. PICK place : place = [i \in D |-> placeOf(i)] OBVIOUS
<1>b. PICK of : of = [i \in D |-> Built(i)] OBVIOUS
<1>6. \A i \in D : place[i] \in DOMAIN inventory /\ Places(sent[i]) = {place[i]}
  <2>1. SUFFICES ASSUME NEW i \in D PROVE placeOf(i) \in DOMAIN inventory /\ Places(sent[i]) = {placeOf(i)}
    BY <1>a
  <2>2. \E m \in DOMAIN inventory : Places(sent[i]) = {m} BY <1>2, <1>4
  <2> QED BY <2>2
<1>7. DOMAIN compiled' = DOMAIN inventory BY DEF applyServiceArtifactsToBlueprintServices
<1>8. ASSUME NEW i \in D
      PROVE  compiled'[place[i]] = [ref |-> sent[i].ref, digest |-> sent[i].digest]
  <2> DEFINE mine == {a \in arts : Places(a) = {place[i]}}
  <2>0. i \in D /\ sent[i] \in arts /\ Places(sent[i]) = {place[i]} BY <1>2, <1>6
  <2>1. mine = {sent[i]} BY <2>0, <1>5
  <2>2. compiled'[place[i]] = IF mine = {} THEN NoArtifact
            ELSE LET a == CHOOSE a \in mine : TRUE IN [ref |-> a.ref, digest |-> a.digest]
    BY <1>6 DEF applyServiceArtifactsToBlueprintServices, Places
  <2>3. (CHOOSE a \in {sent[i]} : TRUE) = sent[i] OBVIOUS
  <2> HIDE DEF mine
  <2> QED BY <2>1, <2>2, <2>3
<1>9. ASSUME NEW m \in DOMAIN inventory, compiled'[m] # NoArtifact
      PROVE  \E i \in D : m = place[i]
  <2> DEFINE mine == {a \in arts : Places(a) = {m}}
  <2>1. compiled'[m] = IF mine = {} THEN NoArtifact
            ELSE LET a == CHOOSE a \in mine : TRUE IN [ref |-> a.ref, digest |-> a.digest]
    BY DEF applyServiceArtifactsToBlueprintServices, Places
  <2>2. PICK a \in arts : Places(a) = {m} BY <1>9, <2>1
  <2>3. PICK i \in D : a = sent[i] BY <1>2
  <2> QED BY <1>6, <2>2, <2>3
<1>10. \A i \in D : compiled'[place[i]] # NoArtifact
  <2>0. SUFFICES ASSUME NEW i \in D PROVE compiled'[place[i]].digest # NoArtifact.digest OBVIOUS
  <2>a. compiled'[place[i]] = [ref |-> sent[i].ref, digest |-> sent[i].digest] BY <1>8
  <2>1. compiled'[place[i]].digest = sent[i].digest BY <2>a
  <2>2. sent[i].digest # "none" BY <1>2
  <2> QED BY <2>1, <2>2 DEF NoArtifact
<1> DEFINE S == {m \in DOMAIN compiled' : compiled'[m] # NoArtifact}
<1>11. Cardinality(S) = Cardinality(DOMAIN made)
  <2>1. IsFiniteSet(D) BY <1>0 DEF ArtInv
  <2>2. \A t \in DOMAIN made : \E i \in D : t = of[i] BY <1>1, <1>b
  <2>3. \A i \in D : of[i] \in DOMAIN made BY <1>1, <1>b DEF SentOf
  <2>4. \A i \in D : place[i] \in S BY <1>6, <1>7, <1>10
  <2>5. \A m \in S : \E i \in D : m = place[i] BY <1>7, <1>9
  <2>6. ASSUME NEW i \in D, NEW j \in D, place[i] = place[j] \/ of[i] = of[j] PROVE i = j
    <3>1. CASE of[i] = of[j] BY <1>0, <1>b, <3>1 DEF ArtInv, TargetsApart
    <3>2. CASE place[i] = place[j]
      <4>a. SentOf(i) /\ SentOf(j) BY <1>1
      <4>b. sent[i] \in arts /\ sent[j] \in arts BY <1>2
      <4>c. Places(sent[i]) = Places(sent[j]) BY <1>6, <3>2
      <4>1. sent[i] = sent[j] BY <1>5, <4>b, <4>c
      <4>2. Built(i).name = Built(j).name /\ Built(i).path = Built(j).path BY <4>a, <4>1 DEF SentOf
      <4>3. buildTargetServiceKey(Built(i)) = buildTargetServiceKey(Built(j))
        BY <4>2 DEF buildTargetServiceKey
      <4> QED BY <1>0, <4>3 DEF ArtInv, TargetsApart
    <3> QED BY <2>6, <3>1, <3>2
  <2> HIDE DEF S
  <2> QED BY <2>1, <2>2, <2>3, <2>4, <2>5, <2>6, AsManyServed
<1>12. ASSUME NEW t \in DOMAIN made
       PROVE  \E i \in DOMAIN inventory :
                /\ inventory[i].name.lower = t.name.lower
                /\ t.path.key \in {inventory[i].path.key, inventory[i].path.base}
                /\ compiled'[i] = [ref |-> imageNameForService(t, job.commit), digest |-> made[t]]
  <2>1. PICK k \in D : t = Built(k) BY <1>1
  <2>2. PICK m \in DOMAIN inventory : m = place[k] /\ Places(sent[k]) = {m} BY <1>6
  <2>3. /\ inventory[m].name.lower = sent[k].name.lower
        /\ sent[k].path.key \in {inventory[m].path.key, inventory[m].path.base}
    BY <2>2 DEF Places, resolveServiceArtifactTargetIndexes, buildArtifactPathMatchers
  <2>4. /\ sent[k].name = t.name /\ sent[k].path = t.path
        /\ sent[k].ref = imageNameForService(t, job.commit) /\ sent[k].digest = made[t]
    BY <1>1, <1>2, <2>1 DEF SentOf
  <2>5. compiled'[m] = [ref |-> sent[k].ref, digest |-> sent[k].digest] BY <1>8, <2>2
  <2> QED BY <2>3, <2>4, <2>5
<1>13. ASSUME NEW m \in DOMAIN inventory, compiled'[m] # NoArtifact
       PROVE  registry[compiled'[m].ref] = compiled'[m].digest
  <2>1. PICK i \in D : m = place[i] BY <1>9, <1>13
  <2>a. compiled'[place[i]] = [ref |-> sent[i].ref, digest |-> sent[i].digest] BY <1>8
  <2>2. compiled'[m].ref = sent[i].ref /\ compiled'[m].digest = sent[i].digest BY <2>a, <2>1
  <2>3. PICK j \in D : sent[j].ref = sent[i].ref /\ registry[sent[i].ref] = made[Built(j)]
    BY <1>1 DEF SentOf
  <2>4. sent[j].digest = sent[i].digest BY <1>2, <2>3 DEF validateServiceArtifactImageReferences
  <2> QED BY <1>2, <2>2, <2>3, <2>4
<1> QED BY <1>7, <1>11, <1>12, <1>13 DEF EachTargetItsImage, imageNameForService

(* The callback, whatever it makes of the job.                             *)
LEMMA HandleKeeps == ASSUME ArtInv, Handle PROVE ArtInv'
<1> DEFINE whole == job.targets = <<>>
           arts == IF whole THEN {} ELSE normalizeBuildServiceArtifacts(sent)
           accepted == IF whole THEN sent[1].digest # "none"
                       ELSE /\ arts # {}
                            /\ validateStagedServiceArtifactCoverage(Range(job.targets), arts)
                            /\ validateServiceArtifactImageReferences(arts)
           resolved == inventory # <<>> /\ validateServiceArtifactsAgainstBlueprintServices(inventory, arts)
<1>1. /\ job.status = "building" /\ DOMAIN job.targets \subseteq DOMAIN sent
      /\ job' = [job EXCEPT !.status = IF ~accepted THEN "failed"
                                       ELSE IF ~resolved THEN "succeeded" ELSE "ready"]
      /\ UNCHANGED <<inventory, registry, made, sent>>
  BY DEF Handle
<1>2. /\ job'.targets = job.targets /\ job'.commit = job.commit
      /\ job'.status \in {"building", "failed", "succeeded", "ready"}
      /\ job'.status = "ready" => accepted /\ resolved
  BY <1>1
<1>3. EachTargetItsImage'
  <2>1. CASE job'.status = "ready" /\ ~whole
    <3>1. accepted /\ resolved BY <1>2, <2>1
    <3>2. compiled' = applyServiceArtifactsToBlueprintServices(inventory, arts) BY <2>1, <3>1 DEF Handle
    <3>3. arts = normalizeBuildServiceArtifacts(sent) /\ arts # {} BY <2>1, <3>1
    <3>4. /\ validateStagedServiceArtifactCoverage(Range(job.targets), arts)
          /\ validateServiceArtifactImageReferences(arts)
          /\ validateServiceArtifactsAgainstBlueprintServices(inventory, arts)
      BY <2>1, <3>1
    <3> HIDE DEF arts
    <3> QED BY <1>1, <1>2, <2>1, <3>2, <3>3, <3>4, ReadyIsRight
  <2>2. CASE ~(job'.status = "ready" /\ ~whole) BY <1>2, <2>2 DEF EachTargetItsImage
  <2> QED BY <2>1, <2>2
<1>4. TargetsApart' BY <1>2 DEF ArtInv, TargetsApart, Built
<1>5. \A i : SentOf(i)' = SentOf(i) BY <1>1, <1>2 DEF SentOf, Built
<1>6. \A i : Built(i)' = Built(i) BY <1>2 DEF Built
<1> HIDE DEF whole, accepted, resolved
<1> QED BY <1>1, <1>2, <1>3, <1>4, <1>5, <1>6 DEF ArtInv

(* Steps of the rest of the world.                                         *)
LEMMA OthersKeep ==
    ASSUME ArtInv, UNCHANGED <<job, registry, made, sent, compiled>>, inventory' \in Inventories,
           job.status # "ready" \/ inventory' = inventory
    PROVE  ArtInv'
<1>1. TargetsApart' BY DEF ArtInv, TargetsApart, Built
<1>2. \A i : SentOf(i)' = SentOf(i) BY DEF SentOf, Built
<1>3. \A i : Built(i)' = Built(i) BY DEF Built
<1>4. EachTargetItsImage'
  <2>1. CASE job.status # "ready" BY <2>1 DEF EachTargetItsImage
  <2>2. CASE inventory' = inventory BY <2>2 DEF ArtInv, EachTargetItsImage
  <2> QED BY <2>1, <2>2
<1> QED BY <1>1, <1>2, <1>3, <1>4 DEF ArtInv

LEMMA ArtInvNext == ArtInv /\ [ArtNext]_artVars => ArtInv'
<1> SUFFICES ASSUME ArtInv, [ArtNext]_artVars PROVE ArtInv' OBVIOUS
<1>0. inventory \in Inventories BY DEF ArtInv
<1>1. CASE Enqueue BY <1>1, EnqueueKeeps
<1>2. CASE cloneRepo
  <2>1. /\ job'.status \in {"building", "failed"} /\ job'.targets = job.targets
        /\ UNCHANGED <<inventory, sent, made>> /\ job.status = "queued"
    BY <1>2 DEF cloneRepo
  <2> QED BY <1>0, <2>1, JobMoves
<1>3. CASE buildAndPush BY <1>3, TargetKeeps
<1>4. CASE BuildWholeRepo BY <1>4, WholeKeeps
<1>5. CASE Handle BY <1>5, HandleKeeps
<1>6. CASE Push BY <1>0, <1>6, OthersKeep DEF Push
<1>7. CASE ConfigureInventory BY <1>7, OthersKeep DEF ConfigureInventory
<1>8. CASE UNCHANGED artVars BY <1>0, <1>8, OthersKeep DEF artVars
<1> QED BY <1>1, <1>2, <1>3, <1>4, <1>5, <1>6, <1>7, <1>8 DEF ArtNext

(* A revision made ready runs, for each target of its build, the image     *)
(* that was built for it, in one service and no other, whatever the user   *)
(* did to the services between the push and the callback.                  *)
THEOREM ImagesReachTheirs == ArtSpec => []EachTargetItsImage
<1>1. ArtInv => EachTargetItsImage BY DEF ArtInv
<1> QED BY <1>1, ArtInvInit, ArtInvNext, PTL DEF ArtSpec

-----------------------------------------------------------------------------
(* Views.  A reader of logs walks back page by page behind a cursor that   *)
(* only moves to older lines, and every rollup that is found has a point.  *)

Rows == [id : LogIds, at : Nat]
Cursors == [at : Nat, id : Nat]

LogsSound == IsFiniteSet(logs) /\ logs \subseteq Rows /\ clock \in Nat /\ clock > 0

(* A line is shown if and only if the cursor has passed it, for those that *)
(* were there when the reader began, and only then for those that came.    *)
ReaderSound ==
    /\ reader.cursor \in Cursors \cup {NoCursor}
    /\ reader.cursor = NoCursor => reader.since = {}
    /\ \A l \in DOMAIN reader.shown :
          l \in logs /\ reader.shown[l] \in {0, 1} /\ (reader.shown[l] = 1 => ~before(l, reader.cursor))
    /\ \A l \in reader.since : /\ l \in logs
                               /\ before(l, reader.cursor) \/ (l \in DOMAIN reader.shown /\ reader.shown[l] = 1)
    /\ reader.over => \A l \in reader.since : ~before(l, reader.cursor)

RollupsSound ==
    /\ IsFiniteSet(rollups)
    /\ \A r \in rollups : r.start \in Int /\ r.end \in Int /\ r.end <= clock /\ r.count \in Nat

ViewsInv == LogsSound /\ ReaderSound /\ RollupsSound

LEMMA ViewsInvInit == ObsInit => ViewsInv
<1> SUFFICES ASSUME ObsInit PROVE ViewsInv OBVIOUS
<1>1. logs = {} /\ rollups = {} /\ clock = Window BY DEF ObsInit
<1>2. reader = [cursor |-> NoCursor, since |-> {}, shown |-> <<>>, over |-> FALSE] BY DEF ObsInit
<1>3. reader.cursor = NoCursor /\ reader.since = {} /\ DOMAIN reader.shown = {} /\ ~reader.over BY <1>2
<1>4. Window \in Nat /\ Window > 0 BY ObservabilityAssumption
<1>5. LogsSound BY <1>1, <1>4, FS_EmptySet DEF LogsSound
<1>6. RollupsSound BY <1>1, FS_EmptySet DEF RollupsSound
<1> QED BY <1>3, <1>5, <1>6 DEF ViewsInv, ReaderSound

(* The order of the rows is total.                                         *)
LEMMA NewerOrders ==
    /\ \A a \in Rows : ~Newer(a, a)
    /\ \A a, b \in Rows : a = b \/ Newer(a, b) \/ Newer(b, a)
    /\ \A a, b \in Rows : ~(Newer(a, b) /\ Newer(b, a))
    /\ \A a, b, c \in Rows : Newer(a, b) /\ Newer(b, c) => Newer(a, c)
<1>1. \A a \in Rows : a.at \in Nat /\ a.id \in LogIds /\ a = [id |-> a.id, at |-> a.at] BY DEF Rows
<1>3. \A a \in Rows : a.id \in Nat BY <1>1, ObservabilityAssumption
<1>2. \A a, b \in Rows : a.id = b.id /\ a.at = b.at => a = b BY <1>1
<1> QED BY <1>1, <1>2, <1>3 DEF Newer

LEMMA OldestRow ==
    ASSUME NEW S, IsFiniteSet(S), S # {}, S \subseteq Rows
    PROVE  \E l \in S : \A k \in S : k = l \/ Newer(k, l)
<1>1. PICK R : R = {p \in S \X S : Newer(p[2], p[1])} OBVIOUS
<1>2. \A a, b \in S : <<a, b>> \in R <=> Newer(b, a) BY <1>1
<1>3. \A a \in S : <<a, a>> \notin R BY <1>2, NewerOrders
<1>4. \A a, b, c \in S : <<a, b>> \in R /\ <<b, c>> \in R => <<a, c>> \in R
  <2>1. \A a, b, c \in S : Newer(c, b) /\ Newer(b, a) => Newer(c, a) BY NewerOrders
  <2> QED BY <1>2, <2>1
<1>5. PICK l \in S : \A k \in S : <<k, l>> \notin R BY <1>3, <1>4, MinimalElement
<1> QED BY <1>2, <1>5, NewerOrders

LEMMA NewestRow ==
    ASSUME NEW S, IsFiniteSet(S), S # {}, S \subseteq Rows
    PROVE  \E l \in S : \A k \in S : ~Newer(k, l)
<1>1. PICK R : R = {p \in S \X S : Newer(p[1], p[2])} OBVIOUS
<1>2. \A a, b \in S : <<a, b>> \in R <=> Newer(a, b) BY <1>1
<1>3. \A a \in S : <<a, a>> \notin R BY <1>2, NewerOrders
<1>4. \A a, b, c \in S : <<a, b>> \in R /\ <<b, c>> \in R => <<a, c>> \in R
  <2>1. \A a, b, c \in S : Newer(a, b) /\ Newer(b, c) => Newer(a, c) BY NewerOrders
  <2> QED BY <1>2, <2>1
<1>5. PICK l \in S : \A k \in S : <<k, l>> \notin R BY <1>3, <1>4, MinimalElement
<1> QED BY <1>2, <1>5

(* A page ends with a row behind which are all the rows it leaves for the  *)
(* next, and it is empty only if there are none.                           *)
LEMMA PageSound ==
    ASSUME LogsSound, NEW cursor, NEW limit \in 1..2, NEW given, given = ListByQuery(cursor, limit)
    PROVE  /\ given \subseteq logs /\ \A l \in given : before(l, cursor)
           /\ given = {} => \A l \in logs : ~before(l, cursor)
           /\ given # {} => \E last \in given : /\ \A k \in given : k = last \/ Newer(k, last)
                                              /\ \A l \in logs \ given : before(l, cursor) => Newer(last, l)
<1> DEFINE earlier == {l \in logs : before(l, cursor)}
           newer(l) == {k \in earlier : Newer(k, l)}
<1>1. earlier \subseteq Rows /\ IsFiniteSet(earlier) BY FS_Subset DEF LogsSound
<1>2. \A l : IsFiniteSet(newer(l)) /\ Cardinality(newer(l)) \in Nat
  <2>1. \A l : IsFiniteSet(newer(l))
    <3> SUFFICES ASSUME NEW l PROVE IsFiniteSet(newer(l)) OBVIOUS
    <3>1. newer(l) \subseteq earlier OBVIOUS
    <3> QED BY ONLY <1>1, <3>1, FS_Subset
  <2> HIDE DEF newer
  <2> QED BY <2>1, FS_CardinalityType
<1>3. given = {l \in earlier : Cardinality(newer(l)) < limit} BY DEF ListByQuery
<1>4. given \subseteq logs /\ \A l \in given : before(l, cursor) BY <1>3
<1>5. ASSUME earlier # {} PROVE given # {}
  <2>1. PICK l \in earlier : \A k \in earlier : ~Newer(k, l)
    <3> HIDE DEF earlier
    <3> QED BY <1>1, <1>5, NewestRow
  <2>2. newer(l) = {} BY <2>1
  <2>3. Cardinality(newer(l)) = 0 BY <2>2, FS_EmptySet
  <2> HIDE DEF newer, earlier
  <2> QED BY <1>3, <2>1, <2>3
<1>6. ASSUME given # {}
      PROVE  \E last \in given : /\ \A k \in given : k = last \/ Newer(k, last)
                                /\ \A l \in logs \ given : before(l, cursor) => Newer(last, l)
  <2>1. given \subseteq earlier /\ given \subseteq Rows BY <1>1, <1>3
  <2>2. IsFiniteSet(given)
    <3> HIDE DEF earlier
    <3> QED BY <1>1, <2>1, FS_Subset
  <2>3. PICK last \in given : \A k \in given : k = last \/ Newer(k, last) BY <1>6, <2>1, <2>2, OldestRow
  <2>4. ASSUME NEW l \in logs \ given, before(l, cursor), ~Newer(last, l) PROVE FALSE
    <3>1. l \in earlier /\ l \in Rows /\ last \in earlier /\ last \in Rows /\ l # last
      BY <1>1, <2>1, <2>4
    <3>2. Newer(l, last) BY <2>4, <3>1, NewerOrders
    <3>3. newer(l) \subseteq newer(last)
      <4>1. \A k \in earlier : Newer(k, l) => Newer(k, last) BY <1>1, <3>1, <3>2, NewerOrders
      <4> QED BY <4>1
    <3>4. Cardinality(newer(l)) <= Cardinality(newer(last))
      <4> HIDE DEF newer
      <4> QED BY <1>2, <3>3, FS_Subset
    <3>5. Cardinality(newer(last)) < limit BY <1>3
    <3> HIDE DEF newer, earlier
    <3>6. Cardinality(newer(l)) < limit BY <1>2, <3>4, <3>5
    <3> QED BY <1>3, <2>4, <3>1, <3>6
  <2> QED BY <2>3, <2>4
<1> QED BY <1>4, <1>5, <1>6

(* The reader asks for the next page.                                      *)
LEMMA ReaderTurns == ASSUME ViewsInv, PreviewLogs PROVE ReaderSound'
<1> DEFINE cursor == reader.cursor
<1>1. PICK limit, given, last :
        /\ limit \in 1..2 /\ given = ListByQuery(cursor, limit)
        /\ last = CHOOSE l \in given : \A k \in given : k = l \/ Newer(k, l)
        /\ reader' = [cursor |-> IF given = {} THEN cursor ELSE [at |-> last.at, id |-> last.id],
                      since |-> IF cursor = NoCursor THEN logs ELSE reader.since,
                      shown |-> [l \in logs |-> (IF l \in DOMAIN reader.shown THEN reader.shown[l] ELSE 0)
                                               + (IF l \in given THEN 1 ELSE 0)],
                      over |-> given = {}]
        /\ logs' = logs
  BY DEF PreviewLogs
<1>2. LogsSound /\ ReaderSound BY DEF ViewsInv
<1> HIDE DEF cursor
<1>3. /\ given \subseteq logs /\ \A l \in given : before(l, cursor)
      /\ given = {} => \A l \in logs : ~before(l, cursor)
      /\ given # {} => \E l \in given : /\ \A k \in given : k = l \/ Newer(k, l)
                                      /\ \A m \in logs \ given : before(m, cursor) => Newer(l, m)
  BY <1>1, <1>2, PageSound
<1>4. logs \subseteq Rows BY <1>2 DEF LogsSound
<1>5. /\ cursor \in Cursors \cup {NoCursor} /\ (cursor = NoCursor => reader.since = {})
      /\ \A l \in DOMAIN reader.shown :
            l \in logs /\ reader.shown[l] \in {0, 1} /\ (reader.shown[l] = 1 => ~before(l, cursor))
      /\ \A l \in reader.since : /\ l \in logs
                                 /\ before(l, cursor) \/ (l \in DOMAIN reader.shown /\ reader.shown[l] = 1)
  BY <1>2 DEF ReaderSound, cursor
<1>6. PICK shown : shown = reader'.shown OBVIOUS
<1>7. /\ DOMAIN shown = logs
      /\ \A l \in logs : shown[l] = (IF l \in DOMAIN reader.shown THEN reader.shown[l] ELSE 0)
                                    + (IF l \in given THEN 1 ELSE 0)
  BY <1>1, <1>6
<1>8. \A l \in logs : shown[l] \in {0, 1} /\ (l \in given => shown[l] = 1)
  <2>1. SUFFICES ASSUME NEW l \in logs PROVE shown[l] \in {0, 1} /\ (l \in given => shown[l] = 1) OBVIOUS
  <2>2. l \in given => ~(l \in DOMAIN reader.shown /\ reader.shown[l] = 1) BY <1>3, <1>5
  <2>3. l \in DOMAIN reader.shown => reader.shown[l] \in {0, 1} BY <1>5
  <2>4. shown[l] = (IF l \in DOMAIN reader.shown THEN reader.shown[l] ELSE 0) + (IF l \in given THEN 1 ELSE 0)
    BY <1>7
  <2> QED BY <2>2, <2>3, <2>4
<1>9. \A l \in logs : shown[l] = 1 => l \in given \/ (l \in DOMAIN reader.shown /\ reader.shown[l] = 1)
  BY <1>5, <1>7
<1>10. \A l \in DOMAIN reader.shown : reader.shown[l] = 1 => shown[l] = 1
  <2>1. SUFFICES ASSUME NEW l \in DOMAIN reader.shown, reader.shown[l] = 1 PROVE shown[l] = 1 OBVIOUS
  <2>2. l \in logs /\ l \notin given BY <1>3, <1>5, <2>1
  <2> QED BY <1>7, <2>1, <2>2
<1>11. PICK next : next = reader'.cursor OBVIOUS
<1>12. /\ reader'.over = (given = {}) /\ next = (IF given = {} THEN cursor ELSE [at |-> last.at, id |-> last.id])
       /\ reader'.since = (IF cursor = NoCursor THEN logs ELSE reader.since)
  BY <1>1, <1>11
<1>13. \A l \in reader'.since : l \in logs BY <1>5, <1>12
<1>14. \A l \in reader'.since : before(l, cursor) \/ shown[l] = 1
  <2>1. CASE cursor = NoCursor BY <2>1 DEF before
  <2>2. CASE cursor # NoCursor
    <3>1. reader'.since = reader.since BY <1>12, <2>2
    <3> QED BY <1>5, <1>10, <3>1
  <2> QED BY <2>1, <2>2
<1>15. CASE given = {}
  <2>1. next = cursor /\ reader'.over BY <1>12, <1>15
  <2>2. \A l \in logs : ~before(l, cursor) BY <1>3, <1>15
  <2>3. next = NoCursor => reader'.since = {}
    <3>1. SUFFICES ASSUME next = NoCursor, NEW l \in reader'.since PROVE FALSE OBVIOUS
    <3>2. before(l, cursor) BY <2>1, <3>1 DEF before
    <3> QED BY <1>13, <2>2, <3>2
  <2>4. \A l \in reader'.since : shown[l] = 1 BY <1>13, <1>14, <2>2
  <2> HIDE DEF before
  <2>5. \A l \in DOMAIN shown : l \in logs /\ shown[l] \in {0, 1} /\ ~before(l, next) BY <1>7, <1>8, <2>1, <2>2
  <2> QED BY <1>1, <1>5, <1>6, <1>7, <1>11, <1>13, <2>1, <2>2, <2>3, <2>4, <2>5 DEF ReaderSound, before
<1>16. CASE given # {}
  <2>1. /\ last \in given /\ \A k \in given : k = last \/ Newer(k, last)
        /\ \A m \in logs \ given : before(m, cursor) => Newer(last, m)
    <3>1. PICK l \in given : /\ \A k \in given : k = l \/ Newer(k, l)
                            /\ \A m \in logs \ given : before(m, cursor) => Newer(l, m)
      BY <1>3, <1>16
    <3>2. last \in given /\ \A k \in given : k = last \/ Newer(k, last) BY <1>1, <3>1
    <3>3. last = l BY <1>3, <1>4, <3>1, <3>2, NewerOrders
    <3> QED BY <3>1, <3>2, <3>3
  <2>2. next = [at |-> last.at, id |-> last.id] /\ ~reader'.over BY <1>12, <1>16
  <2>3. last \in Rows /\ next \in Cursors /\ next # NoCursor
    <3>1. last \in Rows BY <1>3, <1>4, <2>1
    <3>2. last.at \in Nat /\ last.id \in LogIds BY <3>1 DEF Rows
    <3>3. last.id \in Nat BY <3>2, ObservabilityAssumption
    <3>4. next.at # -1 BY <2>2, <3>2
    <3> QED BY <2>2, <3>1, <3>2, <3>3, <3>4 DEF Cursors, NoCursor
  <2>4. \A l : before(l, next) <=> Newer(last, l) BY <2>2, <2>3 DEF before, Newer
  <2>5. ASSUME NEW l \in logs, shown[l] = 1 PROVE ~before(l, next)
    <3>1. CASE l \in given
      <4>1. l = last \/ Newer(l, last) BY <2>1, <3>1
      <4>2. ~Newer(last, l) BY <1>4, <2>3, <4>1, NewerOrders
      <4> QED BY <2>4, <4>2
    <3>2. CASE l \in DOMAIN reader.shown /\ reader.shown[l] = 1
      <4>1. ~before(l, cursor) /\ before(last, cursor) BY <1>3, <1>5, <2>1, <3>2
      <4>2. cursor # NoCursor /\ ~Newer(cursor, l) /\ Newer(cursor, last) BY <4>1 DEF before
      <4>3. cursor.at \in Nat /\ cursor.id \in Nat BY <1>5, <4>2 DEF Cursors
      <4>4. last.at \in Nat /\ last.id \in Nat /\ l.at \in Nat /\ l.id \in Nat
        BY <1>4, <2>3, ObservabilityAssumption DEF Rows
      <4>5. ~Newer(last, l) BY <4>2, <4>3, <4>4 DEF Newer
      <4> QED BY <2>4, <4>5
    <3> QED BY <1>9, <2>5, <3>1, <3>2
  <2>6. ASSUME NEW l \in reader'.since PROVE before(l, next) \/ shown[l] = 1
    <3>1. CASE l \in given BY <1>8, <1>3, <3>1
    <3>2. CASE l \notin given /\ before(l, cursor) BY <1>13, <2>1, <2>4, <3>2
    <3> QED BY <1>14, <3>1, <3>2
  <2>7. \A l : before(l, reader.cursor)' <=> before(l, next) BY <1>11 DEF before
  <2>8. \A l \in DOMAIN reader'.shown :
           l \in logs' /\ reader'.shown[l] \in {0, 1} /\ (reader'.shown[l] = 1 => ~before(l, next))
    BY <1>1, <1>6, <1>7, <1>8, <2>5
  <2>9. \A l \in reader'.since :
           l \in logs' /\ (before(l, next) \/ (l \in DOMAIN reader'.shown /\ reader'.shown[l] = 1))
    BY <1>1, <1>6, <1>7, <1>13, <2>6
  <2>10. reader'.cursor \in Cursors /\ reader'.cursor # NoCursor /\ ~reader'.over BY <1>11, <2>2, <2>3
  <2> QED BY <2>7, <2>8, <2>9, <2>10 DEF ReaderSound
<1> QED BY <1>15, <1>16

(* More lines, which the reader has not been shown.                        *)
LEMMA ReaderStays ==
    ASSUME ReaderSound, logs \subseteq logs', reader' = reader
    PROVE  ReaderSound'
<1>1. \A l : before(l, reader.cursor)' <=> before(l, reader.cursor) BY DEF before
<1> QED BY <1>1 DEF ReaderSound

LEMMA LogBatchKeeps ==
    ASSUME LogsSound, NEW c \in IngestCalls, NEW ids \in SUBSET LogIds, NEW at \in Nat, CreateBatch(c, ids, at)
    PROVE  LogsSound' /\ logs \subseteq logs'
<1> DEFINE entry == [i \in ids |-> [id |-> i, at |-> at]]
           new == {entry[i] : i \in ids}
<1>1. logs' = logs \cup new /\ clock' = clock BY DEF CreateBatch
<1>2. IsFiniteSet(ids) BY ObservabilityAssumption, FS_Subset
<1>3. new \subseteq Rows BY DEF Rows
<1>4. IsFiniteSet(new)
  <2>1. entry = [i \in ids |-> entry[i]] OBVIOUS
  <2> HIDE DEF entry
  <2> QED BY <1>2, <2>1, ImageFinite
<1> HIDE DEF new
<1>5. IsFiniteSet(logs \cup new) BY <1>4, FS_Union DEF LogsSound
<1> QED BY <1>1, <1>3, <1>5 DEF LogsSound

LEMMA RollupArrives == ASSUME LogsSound, RollupsSound, IngestMetricRollup PROVE RollupsSound'
<1>1. PICK msg \in RollupMessages :
        /\ rollups' = rollups \cup {[n |-> Cardinality(rollups), start |-> clock - msg.length,
                                     end |-> clock, count |-> msg.count]}
        /\ clock' = clock
  BY DEF IngestMetricRollup
<1>2. msg.length \in Nat /\ msg.count \in Nat
  <2>1. msg.length \in Lengths /\ msg.count \in 1..2 BY DEF RollupMessages
  <2>2. Lengths \subseteq Nat BY ObservabilityAssumption
  <2>3. msg.count \in Nat BY ONLY <2>1
  <2> QED BY ONLY <2>1, <2>2, <2>3
<1>3. PICK new : new = [n |-> Cardinality(rollups), start |-> clock - msg.length,
                        end |-> clock, count |-> msg.count] OBVIOUS
<1>4. new.start \in Int /\ new.end \in Int /\ new.end <= clock /\ new.count \in Nat
  BY <1>2, <1>3 DEF LogsSound
<1>5. rollups' = rollups \cup {new} BY <1>1, <1>3
<1>6. IsFiniteSet(rollups \cup {new}) BY FS_AddElement DEF RollupsSound
<1> QED BY <1>1, <1>4, <1>5, <1>6 DEF RollupsSound

LEMMA ViewsInvNext == ViewsInv /\ [AlertsNext \/ PagesNext \/ DashboardNext]_obsVars => ViewsInv'
<1> SUFFICES ASSUME ViewsInv, [AlertsNext \/ PagesNext \/ DashboardNext]_obsVars PROVE ViewsInv' OBVIOUS
<1>0. LogsSound /\ ReaderSound /\ RollupsSound /\ clock \in Nat /\ clock > 0 BY DEF ViewsInv, LogsSound
<1>1. ASSUME UNCHANGED <<logs, reader, rollups>>, clock' \in {clock, clock + 1} PROVE ViewsInv'
  <2>1. LogsSound' BY <1>0, <1>1 DEF LogsSound
  <2>2. ReaderSound' BY <1>0, <1>1, ReaderStays
  <2>3. RollupsSound' BY <1>0, <1>1 DEF RollupsSound
  <2> QED BY <2>1, <2>2, <2>3 DEF ViewsInv
<1>2. ASSUME NEW c \in IngestCalls, NEW ids \in SUBSET LogIds, NEW at \in Nat, CreateBatch(c, ids, at)
      PROVE  ViewsInv'
  <2>1. LogsSound' /\ logs \subseteq logs' BY <1>0, <1>2, LogBatchKeeps
  <2>2. reader' = reader /\ rollups' = rollups /\ clock' = clock BY <1>2 DEF CreateBatch
  <2>3. ReaderSound' BY <1>0, <2>1, <2>2, ReaderStays
  <2>4. RollupsSound' BY <1>0, <2>2 DEF RollupsSound
  <2> QED BY <2>1, <2>3, <2>4 DEF ViewsInv
<1>3. CASE \E c \in IngestCalls : IndexLogEntries(c) \/ processLogRecord(c) \/ LogBatchDone(c)
  BY <1>1, <1>3 DEF IndexLogEntries, processLogRecord, GetByFingerprint, createIncident, SaveState, LogBatchDone
<1>4. CASE \E c \in IngestCalls : CreateBatch(c, {}, clock) BY <1>0, <1>2, <1>4
<1>5. CASE \E c \in IngestCalls : \E ids \in SUBSET (LogIds \ {l.id : l \in logs}), at \in {clock, clock - 1} :
               CreateBatch(c, ids, at)
  <2>1. PICK c \in IngestCalls, ids \in SUBSET LogIds, at \in {clock, clock - 1} : CreateBatch(c, ids, at)
    BY <1>5
  <2>2. at \in Nat BY <1>0, <2>1
  <2> QED BY <1>2, <2>1, <2>2
<1>6. CASE PreviewLogs
  <2>1. ReaderSound' BY <1>6, ReaderTurns
  <2>2. UNCHANGED <<logs, rollups, clock>> BY <1>6 DEF PreviewLogs
  <2>3. LogsSound' /\ RollupsSound' BY <1>0, <2>2 DEF LogsSound, RollupsSound
  <2> QED BY <2>1, <2>3 DEF ViewsInv
<1>7. CASE IngestMetricRollup
  <2>1. RollupsSound' BY <1>0, <1>7, RollupArrives
  <2>2. UNCHANGED <<logs, reader, clock>> BY <1>7 DEF IngestMetricRollup
  <2>3. LogsSound' /\ ReaderSound' BY <1>0, <2>2, ReaderStays DEF LogsSound
  <2> QED BY <2>1, <2>3 DEF ViewsInv
<1>8. CASE ClockMoves BY <1>1, <1>8 DEF ClockMoves
<1>9. CASE UNCHANGED obsVars BY <1>1, <1>9 DEF obsVars
<1> QED BY <1>3, <1>4, <1>5, <1>6, <1>7, <1>8, <1>9 DEF AlertsNext, LogsIngested, PagesNext, DashboardNext

(* The pages: a row the cursor has passed was shown, once.                 *)
LEMMA ViewsPaged == ViewsInv => PagedOnce
<1> SUFFICES ASSUME ReaderSound PROVE PagedOnce BY DEF ViewsInv
<1> QED BY DEF ReaderSound, PagedOnce

(* The points of the chart are the multiples of the step within it.        *)
LEMMA Truncates ==
    ASSUME NEW a \in Int
    PROVE  /\ a - alignMetricTimestamp(a) \in 0..(Step - 1)
           /\ \E k \in Int : alignMetricTimestamp(a) = k * Step
<1>1. Step \in Nat /\ Step > 0 BY ObservabilityAssumption
<1>2. a % Step \in 0..(Step - 1) /\ a = Step * (a \div Step) + (a % Step) /\ a \div Step \in Int BY <1>1
<1>3. alignMetricTimestamp(a) = a - (a % Step) BY DEF alignMetricTimestamp
<1>4. alignMetricTimestamp(a) = (a \div Step) * Step BY <1>1, <1>2, <1>3
<1> QED BY <1>1, <1>2, <1>3, <1>4

LEMMA SeriesIs ==
    ASSUME clock \in Nat, NEW t \in Int, alignMetricTimestamp(t) = t, windowStart <= t, t <= windowEnd
    PROVE  t \in buildEmptyMetricSeries
<1>1. Step \in Nat /\ Step > 0 /\ Window \in Nat /\ Window % Step = 0 BY ObservabilityAssumption
<1>2. PICK c \in Int : windowEnd = c * Step BY Truncates DEF windowEnd
<1>3. PICK m \in Int : t = m * Step BY Truncates
<1>4. PICK n \in Int : n = Window \div Step BY <1>1
<1>5. Window = n * Step
  <2>1. Window = Step * (Window \div Step) + (Window % Step) BY <1>1
  <2> QED BY <1>1, <1>4, <2>1
<1>6. windowStart = (c - n) * Step BY <1>1, <1>2, <1>5 DEF windowStart
<1>7. m <= c
  <2>1. SUFFICES ASSUME m >= c + 1 PROVE FALSE OBVIOUS
  <2>2. m * Step >= (c + 1) * Step BY <1>1, <2>1
  <2>3. (c + 1) * Step = c * Step + Step BY <1>1
  <2>4. c * Step \in Int /\ m * Step \in Int BY <1>1
  <2> QED BY <1>1, <1>2, <1>3, <2>2, <2>3, <2>4
<1>8. c - n <= m
  <2>1. SUFFICES ASSUME c - n >= m + 1 PROVE FALSE OBVIOUS
  <2>2. (c - n) * Step >= (m + 1) * Step BY <1>1, <2>1
  <2>3. (m + 1) * Step = m * Step + Step BY <1>1
  <2>4. (c - n) * Step \in Int /\ m * Step \in Int BY <1>1
  <2> QED BY <1>1, <1>3, <1>6, <2>2, <2>3, <2>4
<1>9. PICK k : k = m - (c - n) OBVIOUS
<1>10. k \in 0..n BY <1>7, <1>8, <1>9
<1>11. windowStart + k * Step = t
  <2>1. (c - n) * Step + (m - (c - n)) * Step = m * Step BY <1>1
  <2> QED BY <1>3, <1>6, <1>9, <2>1
<1> QED BY <1>4, <1>10, <1>11 DEF buildEmptyMetricSeries

(* Every rollup of the window is bucketed with a point of the chart.       *)
LEMMA Bucketed ==
    ASSUME ViewsInv, NEW r \in rollups, r.end >= windowStart, r.start <= windowEnd
    PROVE  r \in ListByProjectAndService /\ InRange(r) /\ bucketAt(r) \in buildEmptyMetricSeries
<1>1. /\ clock \in Nat /\ r.end \in Int /\ r.end <= clock /\ Step \in Nat /\ Step > 0
      /\ Window \in Nat /\ Window % Step = 0
  BY ObservabilityAssumption DEF ViewsInv, LogsSound, RollupsSound
<1>2. clock - windowEnd \in 0..(Step - 1) /\ windowEnd \in Int BY <1>1, Truncates DEF windowEnd, alignMetricTimestamp
<1>3. InRange(r) BY <1>1, <1>2 DEF InRange
<1>4. windowStart \in Int /\ windowStart <= windowEnd BY <1>1, <1>2 DEF windowStart
<1>5. \A t \in Int : (\E k \in Int : t = k * Step) => alignMetricTimestamp(t) = t
  <2>1. SUFFICES ASSUME NEW t \in Int, NEW k \in Int, t = k * Step PROVE alignMetricTimestamp(t) = t OBVIOUS
  <2>2. PICK j \in Int : alignMetricTimestamp(t) = j * Step BY Truncates
  <2>3. t - alignMetricTimestamp(t) \in 0..(Step - 1) BY Truncates
  <2>4. (k - j) * Step \in 0..(Step - 1)
    <3>1. (k - j) * Step = k * Step - j * Step BY <1>1
    <3> QED BY <2>1, <2>2, <2>3, <3>1
  <2>5. k - j = 0
    <3>1. CASE k - j >= 1
      <4>1. (k - j) * Step >= 1 * Step BY <1>1, <3>1
      <4> QED BY <1>1, <2>4, <4>1
    <3>2. CASE k - j <= -1
      <4>1. (k - j) * Step <= (-1) * Step BY <1>1, <3>2
      <4> QED BY <1>1, <2>4, <4>1
    <3> QED BY <3>1, <3>2
  <2> QED BY <2>1, <2>2, <2>5
<1>6. PICK c \in Int : windowEnd = c * Step
  <2>1. clock \in Int BY <1>1
  <2> QED BY ONLY <2>1, Truncates DEF windowEnd
<1>7. PICK n \in Int : Window = n * Step
  <2>1. PICK n \in Int : n = Window \div Step BY <1>1
  <2>2. Window = Step * (Window \div Step) + (Window % Step) BY <1>1
  <2>3. Window = n * Step BY <1>1, <2>1, <2>2
  <2> QED BY <2>3
<1>8. windowStart = (c - n) * Step BY <1>1, <1>6, <1>7 DEF windowStart
<1>9. alignMetricTimestamp(windowEnd) = windowEnd /\ alignMetricTimestamp(windowStart) = windowStart
  BY <1>2, <1>4, <1>5, <1>6, <1>8
<1>10. PICK a \in Int : a = alignMetricTimestamp(r.end) BY <1>1, Truncates DEF alignMetricTimestamp
<1>11. alignMetricTimestamp(a) = a BY <1>1, <1>5, <1>10, Truncates
<1>12. bucketAt(r) = (IF a < windowStart THEN windowStart ELSE IF a > windowEnd THEN windowEnd ELSE a)
  BY <1>2, <1>4, <1>10 DEF bucketAt
<1>13. bucketAt(r) \in buildEmptyMetricSeries
  <2>1. CASE a < windowStart BY <1>1, <1>2, <1>4, <1>9, <1>12, <2>1, SeriesIs
  <2>2. CASE ~(a < windowStart) /\ a > windowEnd BY <1>1, <1>2, <1>4, <1>9, <1>12, <2>2, SeriesIs
  <2>3. CASE ~(a < windowStart) /\ ~(a > windowEnd)
    BY <1>1, <1>2, <1>4, <1>10, <1>11, <1>12, <2>3, SeriesIs
  <2> QED BY <2>1, <2>2, <2>3
<1> QED BY <1>3, <1>13 DEF ListByProjectAndService

(* Each rollup r of S is in the group of the point of[r], at[t] counts the *)
(* requests of the group of t, and counted is those points' requests.      *)
CountedByPoint(S, points, of, group, at, counted) ==
    /\ \A t \in points : \A r : r \in group[t] <=> r \in S /\ of[r] = t
    /\ \A t \in points : at[t] = Cardinality(RequestsOf(group[t]))
    /\ \A p : p \in counted <=> p = <<p[1], p[2]>> /\ p[1] \in points /\ p[2] \in 1..at[p[1]]
    /\ \A r \in S : r.count \in Nat /\ of[r] \in points

(* Requests counted point by point are counted once each.                  *)
LEMMA SumOverPoints ==
    ASSUME NEW S, IsFiniteSet(S), NEW points, NEW of, NEW group, NEW at, NEW counted,
           CountedByPoint(S, points, of, group, at, counted)
    PROVE  Cardinality(counted) = Cardinality(RequestsOf(S))
<1> USE DEF CountedByPoint
<1>1. \A T \in SUBSET S : IsFiniteSet(RequestsOf(T))
  <2>1. SUFFICES ASSUME NEW T \in SUBSET S PROVE IsFiniteSet(RequestsOf(T)) OBVIOUS
  <2>2. IsFiniteSet(T) BY <2>1, FS_Subset
  <2> DEFINE f == [r \in T |-> {r} \X (1..r.count)]
  <2>3. \A r \in T : IsFiniteSet(f[r])
    <3>1. SUFFICES ASSUME NEW r \in T PROVE IsFiniteSet({r} \X (1..r.count)) OBVIOUS
    <3>2. 1 \in Int /\ r.count \in Int BY <2>1
    <3>3. IsFiniteSet(1..r.count) BY ONLY <3>2, FS_Interval
    <3>4. IsFiniteSet({r}) BY FS_Singleton
    <3> QED BY ONLY <3>3, <3>4, FS_Product
  <2>4. f = [r \in T |-> f[r]] OBVIOUS
  <2>5. RequestsOf(T) = UNION {f[r] : r \in T} BY DEF RequestsOf
  <2> HIDE DEF f
  <2>6. IsFiniteSet({f[r] : r \in T}) BY <2>2, <2>4, ImageFinite
  <2>7. PICK U : U = {f[r] : r \in T} OBVIOUS
  <2>8. \A u \in U : IsFiniteSet(u) BY <2>3, <2>7
  <2>9. IsFiniteSet(UNION U) BY <2>6, <2>7, <2>8, FS_UNION
  <2> QED BY <2>5, <2>7, <2>9
<1>2. \A T \in SUBSET S : \A p :
        p \in RequestsOf(T) <=> \E r \in T : p[1] = r /\ p[2] \in 1..r.count /\ p = <<p[1], p[2]>>
  BY DEF RequestsOf
<1>3. ASSUME NEW t \in points
      PROVE  at[t] \in Nat /\ \E b : b \in Bijection(1..at[t], RequestsOf(group[t]))
  <2>1. group[t] \in SUBSET S OBVIOUS
  <2>2. at[t] = Cardinality(RequestsOf(group[t])) OBVIOUS
  <2>3. IsFiniteSet(RequestsOf(group[t])) BY <1>1, <2>1
  <2> QED BY <2>2, <2>3, FS_CardinalityType DEF ExistsBijection
<1> DEFINE bijectionOf(t) == CHOOSE b : b \in Bijection(1..at[t], RequestsOf(group[t]))
<1>4. \A t \in points : bijectionOf(t) \in Bijection(1..at[t], RequestsOf(group[t]))
  <2>1. SUFFICES ASSUME NEW t \in points PROVE bijectionOf(t) \in Bijection(1..at[t], RequestsOf(group[t]))
    OBVIOUS
  <2>2. \E b : b \in Bijection(1..at[t], RequestsOf(group[t])) BY <1>3
  <2> QED BY <2>2
<1>5. PICK nth : nth = [t \in points |-> bijectionOf(t)] OBVIOUS
<1>6. \A t \in points : nth[t] \in Bijection(1..at[t], RequestsOf(group[t]))
  <2> HIDE DEF bijectionOf
  <2> QED BY <1>4, <1>5
<1> HIDE DEF bijectionOf
<1>7. \A t \in points :
        /\ \A i \in 1..at[t] : nth[t][i] \in RequestsOf(group[t])
        /\ \A i, j \in 1..at[t] : nth[t][i] = nth[t][j] => i = j
        /\ \A q \in RequestsOf(group[t]) : \E i \in 1..at[t] : nth[t][i] = q
  <2>1. SUFFICES ASSUME NEW t \in points
                 PROVE  /\ \A i \in 1..at[t] : nth[t][i] \in RequestsOf(group[t])
                        /\ \A i, j \in 1..at[t] : nth[t][i] = nth[t][j] => i = j
                        /\ \A q \in RequestsOf(group[t]) : \E i \in 1..at[t] : nth[t][i] = q
    OBVIOUS
  <2>2. PICK b : b = nth[t] OBVIOUS
  <2>3. b \in Bijection(1..at[t], RequestsOf(group[t])) BY <1>6, <2>2
  <2>4. b \in [1..at[t] -> RequestsOf(group[t])] BY <2>3 DEF Bijection, Injection
  <2>5. IsInjective(b) BY <2>3 DEF Bijection, Injection
  <2>6. DOMAIN b = 1..at[t] BY <2>4
  <2>7. \A i, j \in 1..at[t] : b[i] = b[j] => i = j BY <2>5, <2>6 DEF IsInjective
  <2>8. \A q \in RequestsOf(group[t]) : \E i \in 1..at[t] : b[i] = q
    BY <2>3 DEF Bijection, Surjection
  <2> QED BY <2>2, <2>4, <2>7, <2>8
<1>8. \A p : p \in counted <=> p = <<p[1], p[2]>> /\ p[1] \in points /\ p[2] \in 1..at[p[1]]
  OBVIOUS
<1> DEFINE f == [p \in counted |-> nth[p[1]][p[2]]]
<1>9. \A t \in points : \A q : q \in RequestsOf(group[t]) <=> q \in RequestsOf(S) /\ of[q[1]] = t
  <2>1. SUFFICES ASSUME NEW t \in points, NEW q
                 PROVE  q \in RequestsOf(group[t]) <=> q \in RequestsOf(S) /\ of[q[1]] = t
    OBVIOUS
  <2>2. group[t] \in SUBSET S /\ S \in SUBSET S OBVIOUS
  <2>3. \A r : r \in group[t] <=> r \in S /\ of[r] = t OBVIOUS
  <2> QED BY <1>2, <2>2, <2>3
<1>10. \A p \in counted : f[p] \in RequestsOf(S) /\ of[f[p][1]] = p[1] BY <1>7, <1>8, <1>9
<1>11. ASSUME NEW p \in counted, NEW q \in counted, f[p] = f[q] PROVE p = q
  <2>1. p[1] = q[1] BY <1>10, <1>11
  <2>2. p[1] \in points /\ p[2] \in 1..at[p[1]] /\ q[2] \in 1..at[p[1]] BY <1>8, <2>1
  <2>3. nth[p[1]][p[2]] = nth[p[1]][q[2]] BY <1>11, <2>1
  <2>4. p[2] = q[2] BY <1>7, <2>2, <2>3
  <2>5. p = <<p[1], p[2]>> /\ q = <<q[1], q[2]>> BY <1>8
  <2> QED BY <2>1, <2>4, <2>5
<1>12. ASSUME NEW q \in RequestsOf(S) PROVE \E p \in counted : f[p] = q
  <2>1. PICK t \in points : t = of[q[1]]
    <3>1. q[1] \in S BY <1>2, <1>12
    <3> QED BY <3>1
  <2>2. PICK i \in 1..at[t] : nth[t][i] = q BY <1>7, <1>9, <2>1
  <2>3. <<t, i>> \in counted BY <1>8
  <2>4. f[<<t, i>>] = q BY <2>2, <2>3
  <2> QED BY <2>3, <2>4
<1>13. f \in Bijection(counted, RequestsOf(S))
  <2>1. f \in [counted -> RequestsOf(S)] BY <1>10
  <2> HIDE DEF f
  <2>2. f \in Surjection(counted, RequestsOf(S)) BY <2>1, <1>12 DEF Surjection
  <2>3. f \in Injection(counted, RequestsOf(S)) BY <2>1, <1>11 DEF Injection, IsInjective
  <2> QED BY <2>2, <2>3 DEF Bijection
<1>14. ExistsBijection(RequestsOf(S), counted)
  <2> HIDE DEF f
  <2> QED BY <1>13, Fun_ExistsBijSymmetric DEF ExistsBijection
<1>15. IsFiniteSet(RequestsOf(S)) BY <1>1
<1> QED BY <1>14, <1>15, FS_Bijection

(* The chart: of the rollups it counts, each is with one of its points.    *)
LEMMA ViewsCharted == ViewsInv => DashboardComplete
<1> SUFFICES ASSUME ViewsInv PROVE DashboardComplete OBVIOUS
<1> DEFINE S == {r \in rollups : r.end >= windowStart /\ r.start <= windowEnd}
           points == buildEmptyMetricSeries
<1>1. IsFiniteSet(S) /\ \A r \in S : r.count \in Nat
  <2>1. S \subseteq rollups OBVIOUS
  <2>2. IsFiniteSet(rollups) /\ \A r \in rollups : r.count \in Nat BY DEF ViewsInv, RollupsSound
  <2> QED BY <2>1, <2>2, FS_Subset
<1>2. PICK of : of = [r \in S |-> bucketAt(r)] OBVIOUS
<1>3. ListByProjectAndService = S BY DEF ListByProjectAndService
<1>4. \A r \in S : InRange(r) /\ of[r] \in points BY <1>2, Bucketed
<1>5. ASSUME NEW t PROVE {r \in ListByProjectAndService : InRange(r) /\ bucketAt(r) = t} = {r \in S : of[r] = t}
  BY <1>2, <1>3, <1>4
<1>6. PICK at : at = [t \in points |-> Point(t)] OBVIOUS
<1>7. PICK group : group = [t \in points |-> {r \in S : of[r] = t}] OBVIOUS
<1>8. \A t \in points : at[t] = Cardinality(RequestsOf(group[t]))
  <2>1. SUFFICES ASSUME NEW t \in points PROVE at[t] = Cardinality(RequestsOf(group[t])) OBVIOUS
  <2>2. at[t] = Point(t) BY <1>6
  <2>3. group[t] = {r \in ListByProjectAndService : InRange(r) /\ bucketAt(r) = t} BY <1>5, <1>7
  <2> QED BY <2>2, <2>3 DEF Point
<1>9. BuildMetricDashboard.requests = Cardinality(UNION {{t} \X (1..at[t]) : t \in points})
  BY <1>6 DEF BuildMetricDashboard
<1>10. Cardinality(UNION {{t} \X (1..at[t]) : t \in points}) = Cardinality(RequestsOf(S))
  <2>1. \A t \in points : \A r : r \in group[t] <=> r \in S /\ of[r] = t BY <1>7
  <2> DEFINE counted == UNION {{t} \X (1..at[t]) : t \in points}
  <2> HIDE DEF S, points
  <2>3. \A p : p \in counted <=> p = <<p[1], p[2]>> /\ p[1] \in points /\ p[2] \in 1..at[p[1]]
    <3>1. \A p, t : p \in {t} \X (1..at[t]) <=> p = <<p[1], p[2]>> /\ p[1] = t /\ p[2] \in 1..at[t]
      OBVIOUS
    <3>2. \A p : p \in counted <=> \E t \in points : p \in {t} \X (1..at[t]) OBVIOUS
    <3> HIDE DEF counted
    <3>3. SUFFICES ASSUME NEW p
                   PROVE  p \in counted <=> p = <<p[1], p[2]>> /\ p[1] \in points /\ p[2] \in 1..at[p[1]]
      OBVIOUS
    <3>4. p \in counted <=> \E t \in points : p = <<p[1], p[2]>> /\ p[1] = t /\ p[2] \in 1..at[t]
      BY <3>1, <3>2
    <3> QED BY <3>4
  <2>2. \A r \in S : r.count \in Nat /\ of[r] \in points BY <1>1, <1>4
  <2> HIDE DEF counted
  <2>4. CountedByPoint(S, points, of, group, at, counted) BY <1>8, <2>1, <2>2, <2>3 DEF CountedByPoint
  <2>5. Cardinality(counted) = Cardinality(RequestsOf(S)) BY <1>1, <2>4, SumOverPoints
  <2> QED BY <2>5 DEF counted
<1> QED BY <1>9, <1>10 DEF DashboardComplete

(* PreviewLogs and BuildMetricDashboard: a reader that pages to the end    *)
(* was shown every line that was there when it began, once; the chart and  *)
(* its total count each rollup of the window that had begun at its last    *)
(* point, once.                                                            *)
THEOREM ViewsAreComplete == ObsSpec => []ViewsComplete
<1>1. ViewsInv => ViewsComplete BY ViewsPaged, ViewsCharted DEF ViewsComplete
<1> QED BY <1>1, ViewsInvInit, ViewsInvNext, PTL DEF ObsSpec

-----------------------------------------------------------------------------
(* The environment.  A process is started with what was promised: URLs that *)
(* open a database of the same revision, and the values the user saved.      *)

(* The words a database of this kind is started with are under these names. *)
PrefixOf(kind) == IF kind = "mysql" THEN "MYSQL" ELSE "POSTGRES"
DatabaseOf(kind) == IF kind = "mysql" THEN "DATABASE" ELSE "DB"
StartedWith(kind) == {<<PrefixOf(kind), word>> : word \in {DatabaseOf(kind), "USER", "PASSWORD"}}

(* A database has all it is started with.                                  *)
HasAll(kind, env) == isRelationalDatabaseKind(kind) => \A k \in StartedWith(kind) : valueOf(env, k) # Blank

(* A URL of the database that is called name and started with env.         *)
OpensDatabase(url, kind, name, env) ==
    /\ kind = url[1] /\ name = url[4]
    /\ valueOf(env, <<PrefixOf(kind), "USER">>) = <<url[2]>>
    /\ valueOf(env, <<PrefixOf(kind), "PASSWORD">>) = <<url[3]>>
    /\ valueOf(env, <<PrefixOf(kind), DatabaseOf(kind)>>) = <<url[5]>>

EnvRowsSound == \A i \in DOMAIN rows :
    /\ \A k \in DOMAIN rows[i].env : OneWord(rows[i].env[k])
    /\ HasAll(rows[i].kind, rows[i].env)
    /\ rows[i].template = <<>> \/ DOMAIN rows[i].template = Slots
    /\ DOMAIN rows[i].deps \subseteq Nat
    /\ \A j \in DOMAIN rows[i].deps : DOMAIN rows[i].deps[j].template \subseteq Slots

(* What was promised is in the revision, and its URLs open a database of   *)
(* it.                                                                     *)
CompiledSound == \A i \in DOMAIN compiledEnv :
    /\ HasAll(compiledEnv[i].kind, compiledEnv[i].env)
    /\ compiledEnv[i].promised \subseteq DOMAIN compiledEnv[i].env
    /\ envMode = "distributed-k3s" => \A k \in DOMAIN compiledEnv[i].env :
           LET url == compiledEnv[i].env[k]
           IN  Len(url) = 5 => \E j \in DOMAIN compiledEnv :
                   OpensDatabase(url, compiledEnv[j].kind, compiledEnv[j].name, compiledEnv[j].env)

EnvInv == EnvRowsSound /\ CompiledSound /\ EnvDelivered

(* The first value that is not blank.                                      *)
LEMMA LeastIs ==
    ASSUME NEW T \in SUBSET Nat, T # {}
    PROVE  Min(T) \in T /\ \A j \in T : Min(T) <= j
<1>1. \E i \in T : \A j \in T : i <= j BY LeastNat
<1> QED BY <1>1 DEF Min

LEMMA FirstNonBlank ==
    ASSUME NEW values, DOMAIN values \subseteq Nat
    PROVE  /\ firstNonBlank(values) = Blank \/ \E i \in DOMAIN values : firstNonBlank(values) = values[i]
           /\ \A i \in DOMAIN values : values[i] # Blank /\ (\A j \in DOMAIN values : i <= j)
                                          => firstNonBlank(values) = values[i]
<1> DEFINE given == {i \in DOMAIN values : values[i] # Blank}
<1>1. firstNonBlank(values) = (IF given = {} THEN Blank ELSE values[Min(given)]) BY DEF firstNonBlank
<1>2. given \in SUBSET Nat OBVIOUS
<1>3. given # {} => Min(given) \in given /\ \A j \in given : Min(given) <= j
  <2> HIDE DEF given
  <2> QED BY <1>2, LeastIs
<1>4. firstNonBlank(values) = Blank \/ \E i \in DOMAIN values : firstNonBlank(values) = values[i]
  BY <1>1, <1>3
<1>5. ASSUME NEW i \in DOMAIN values, values[i] # Blank, \A j \in DOMAIN values : i <= j
      PROVE  firstNonBlank(values) = values[i]
  <2>1. i \in given BY <1>5
  <2>2. Min(given) \in given /\ Min(given) <= i BY <1>3, <2>1
  <2>3. i <= Min(given) BY <1>5, <2>2
  <2>4. Min(given) = i BY <1>2, <2>1, <2>2, <2>3
  <2> QED BY <1>1, <2>1, <2>4
<1> QED BY <1>4, <1>5

LEMMA FirstOfTwo == ASSUME NEW a, NEW b PROVE firstNonBlank(<<a, b>>) = (IF a # Blank THEN a ELSE b)
<1> DEFINE values == <<a, b>>
<1>0. DOMAIN values = {1, 2} /\ values[1] = a /\ values[2] = b OBVIOUS
<1> HIDE DEF values
<1>1. CASE a # Blank BY <1>0, <1>1, FirstNonBlank DEF values
<1>2. CASE a = Blank
  <2>1. {i \in DOMAIN values : values[i] # Blank} \in SUBSET {2} BY <1>0, <1>2
  <2>2. CASE b = Blank
    <3>1. firstNonBlank(values) = Blank BY <1>0, <1>2, <2>2, FirstNonBlank
    <3> QED BY <1>2, <2>2, <3>1 DEF values
  <2>3. CASE b # Blank
    <3>1. {i \in DOMAIN values : values[i] # Blank} = {2} BY <1>0, <1>2, <2>3
    <3>2. Min({2}) = 2 BY LeastIs
    <3>3. firstNonBlank(values) = values[2] BY <3>1, <3>2 DEF firstNonBlank
    <3> QED BY <1>0, <1>2, <3>3 DEF values
  <2> QED BY <2>2, <2>3
<1> QED BY <1>1, <1>2

(* What is filled in keeps what was there.                                 *)
LEMMA FilledDomain == ASSUME NEW env, NEW more PROVE DOMAIN fillIfBlank(env, more) = DOMAIN env \cup DOMAIN more
BY DEF fillIfBlank

LEMMA FilledValue ==
    ASSUME NEW env, NEW more, NEW k, NEW a, NEW b, a = valueOf(env, k), b = valueOf(more, k)
    PROVE  valueOf(fillIfBlank(env, more), k) = (IF a # Blank THEN a ELSE b)
<1>1. CASE k \in DOMAIN env \cup DOMAIN more
  <2>1. fillIfBlank(env, more)[k] = firstNonBlank(<<a, b>>) BY <1>1 DEF fillIfBlank
  <2>2. k \in DOMAIN fillIfBlank(env, more) BY <1>1, FilledDomain
  <2> QED BY <2>1, <2>2, FirstOfTwo DEF valueOf
<1>2. CASE k \notin DOMAIN env \cup DOMAIN more
  <2>1. k \notin DOMAIN fillIfBlank(env, more) BY <1>2, FilledDomain
  <2>2. a = Blank /\ b = Blank BY <1>2 DEF valueOf
  <2> QED BY <2>1, <2>2 DEF valueOf
<1> QED BY <1>1, <1>2

LEMMA FillKeeps ==
    ASSUME NEW env, NEW more, NEW k, valueOf(env, k) # Blank
    PROVE  valueOf(fillIfBlank(env, more), k) = valueOf(env, k)
<1>1. PICK a, b : a = valueOf(env, k) /\ b = valueOf(more, k) OBVIOUS
<1>2. valueOf(fillIfBlank(env, more), k) = (IF a # Blank THEN a ELSE b) BY <1>1, FilledValue
<1> QED BY <1>1, <1>2

LEMMA FillAdds ==
    ASSUME NEW env, NEW more, NEW k, valueOf(env, k) = Blank
    PROVE  valueOf(fillIfBlank(env, more), k) = valueOf(more, k)
<1>1. PICK a, b : a = valueOf(env, k) /\ b = valueOf(more, k) OBVIOUS
<1>2. valueOf(fillIfBlank(env, more), k) = (IF a # Blank THEN a ELSE b) BY <1>1, FilledValue
<1> QED BY <1>1, <1>2

(* The project env: what is saved wins.                                    *)
LEMMA GreatestIs ==
    ASSUME NEW T \in SUBSET Nat, NEW n \in T, \A j \in T : j <= n
    PROVE  Max(T) = n
<1>1. \A i, j \in T : (\A x \in T : i >= x) /\ (\A x \in T : j >= x) => i = j OBVIOUS
<1>2. n \in T /\ \A x \in T : n >= x OBVIOUS
<1> QED BY <1>1, <1>2 DEF Max

LEMMA SavedReaches ==
    ASSUME NEW deps, NEW services, NEW projectEnv, NEW k \in DOMAIN projectEnv, ~isReservedRuntimeEnvKey(k)
    PROVE  valueOf(buildContainerEnvVars(deps, services, projectEnv), k) = projectEnv[k]
<1>1. PICK a, b, c, d : /\ a = automaticServiceDiscoveryEnvMap(services) /\ b = dependencyEnvMap(deps)
                        /\ c = Restrict(projectEnv, {x \in DOMAIN projectEnv : ~isReservedRuntimeEnvKey(x)})
                        /\ d = only(<<"PORT">>, <<"runtime port">>)
  OBVIOUS
<1>2. k \in DOMAIN c /\ c[k] = projectEnv[k] BY <1>1 DEF Restrict
<1>3. k \notin DOMAIN d BY <1>1 DEF only, isReservedRuntimeEnvKey
<1>4. PICK envs : envs = <<a, b, c, d>> OBVIOUS
<1>5. DOMAIN envs = 1..4 /\ envs[3] = c /\ envs[4] = d BY <1>4
<1>6. buildContainerEnvVars(deps, services, projectEnv) = overAll(envs) BY <1>1, <1>4 DEF buildContainerEnvVars
<1> DEFINE T == {i \in DOMAIN envs : k \in DOMAIN envs[i]}
<1>7. Max(T) = 3
  <2>1. T \in SUBSET Nat /\ 3 \in T /\ \A j \in T : j <= 3 BY <1>2, <1>3, <1>5
  <2> HIDE DEF T
  <2> QED BY <2>1, GreatestIs
<1>8. k \in UNION {DOMAIN envs[i] : i \in DOMAIN envs} BY <1>2, <1>5
<1>9. k \in DOMAIN overAll(envs) /\ overAll(envs)[k] = envs[3][k] BY <1>7, <1>8 DEF overAll
<1> QED BY <1>2, <1>5, <1>6, <1>9 DEF valueOf

(* The credentials a URL has are those its database is started with.       *)
LEMMA OwnCredential ==
    ASSUME NEW t, NEW own, NEW alt, NEW otherwise,
           valueOf(t.env, <<PrefixOf(t.kind), own>>) # Blank
    PROVE  credential(t, own, alt, otherwise) = valueOf(t.env, <<PrefixOf(t.kind), own>>)
<1>1. PICK a, b, c, d, e :
        /\ a = valueOf(t.env, <<PrefixOf(t.kind), own>>) /\ b = valueOf(t.env, <<"DB", alt>>)
        /\ c = valueOf(LoadRuntimeEnv, <<PrefixOf(t.kind), own>>) /\ d = valueOf(LoadRuntimeEnv, <<"DB", alt>>)
        /\ e = <<otherwise>>
  OBVIOUS
<1>2. PICK values : values = <<a, b, c, d, e>> OBVIOUS
<1>3. credential(t, own, alt, otherwise) = firstNonBlank(values) BY <1>1, <1>2 DEF credential, PrefixOf
<1>4. DOMAIN values = 1..5 /\ values[1] = a BY <1>2
<1>5. DOMAIN values \subseteq Nat /\ 1 \in DOMAIN values /\ \A j \in DOMAIN values : 1 <= j BY <1>4
<1>6. values[1] # Blank BY <1>1, <1>4
<1>7. firstNonBlank(values) = values[1] BY <1>5, <1>6, FirstNonBlank
<1> QED BY <1>1, <1>3, <1>4, <1>7

LEMMA ValuesOpen ==
    ASSUME NEW t, envMode = "distributed-k3s", isRelationalDatabaseKind(t.kind), HasAll(t.kind, t.env),
           \A k \in DOMAIN t.env : OneWord(t.env[k]),
           NEW slot \in Slots, Len(buildRelationalConnectionRuntimeValues(t)[slot]) = 5
    PROVE  OpensDatabase(buildRelationalConnectionRuntimeValues(t)[slot], t.kind, t.name, t.env)
<1> DEFINE key(word) == <<PrefixOf(t.kind), word>>
<1>1. \A word \in {DatabaseOf(t.kind), "USER", "PASSWORD"} :
        valueOf(t.env, key(word)) # Blank /\ valueOf(t.env, key(word)) = <<valueOf(t.env, key(word))[1]>>
  BY DEF HasAll, StartedWith, valueOf, OneWord, Blank
<1>2. PICK name, user, password :
        /\ valueOf(t.env, key(DatabaseOf(t.kind))) = <<name>> /\ valueOf(t.env, key("USER")) = <<user>>
        /\ valueOf(t.env, key("PASSWORD")) = <<password>>
  BY <1>1
<1>3. credential(t, DatabaseOf(t.kind), "NAME", "app") = <<name>> BY <1>1, <1>2, OwnCredential
<1>4. credential(t, "USER", "USER", t.kind) = <<user>> /\ credential(t, "PASSWORD", "PASSWORD", t.kind) = <<password>>
  BY <1>1, <1>2, OwnCredential
<1>5. hostOf(t) = t.name BY DEF hostOf
<1> DEFINE url == <<t.kind, user, password, t.name, name>>
<1>6. buildRelationalConnectionRuntimeValues(t) =
        [x \in Slots |-> CASE x = "URL" -> url [] x = "NAME" -> <<name>> [] x = "HOST" -> <<t.name>>
                           [] x = "PORT" -> <<t.kind, "port">> [] x = "USERNAME" -> <<user>>
                           [] x = "PASSWORD" -> <<password>>]
  <2>1. PICK n, u, p : /\ n = credential(t, DatabaseOf(t.kind), "NAME", "app") /\ n = <<name>>
                       /\ u = credential(t, "USER", "USER", t.kind) /\ u = <<user>>
                       /\ p = credential(t, "PASSWORD", "PASSWORD", t.kind) /\ p = <<password>>
    BY <1>3, <1>4
  <2>2. n[1] = name /\ u[1] = user /\ p[1] = password BY <2>1
  <2>3. buildRelationalConnectionRuntimeValues(t) =
          [x \in Slots |-> CASE x = "URL" -> <<t.kind, u[1], p[1], hostOf(t), n[1]>> [] x = "NAME" -> n
                             [] x = "HOST" -> <<hostOf(t)>> [] x = "PORT" -> <<t.kind, "port">>
                             [] x = "USERNAME" -> u [] x = "PASSWORD" -> p]
    BY ONLY <2>1 DEF buildRelationalConnectionRuntimeValues, DatabaseOf
  <2> QED BY <1>5, <2>1, <2>2, <2>3
<1>7. PICK words : words = url OBVIOUS
<1>10. words[1] = t.kind /\ words[2] = user /\ words[3] = password /\ words[4] = t.name /\ words[5] = name
  BY <1>7
<1> HIDE DEF url
<1>8. slot = "URL"
  <2>1. \A x : Len(<<x>>) = 1 OBVIOUS
  <2>2. Len(<<t.kind, "port">>) = 2 OBVIOUS
  <2> QED BY <1>6, <2>1, <2>2 DEF Slots
<1>9. buildRelationalConnectionRuntimeValues(t)[slot] = words BY <1>6, <1>7, <1>8
<1> QED BY <1>2, <1>9, <1>10 DEF OpensDatabase

(* Whatever the variables of a dependency are called, those of five words  *)
(* are URLs that open it.                                                  *)
LEMMA BindingOpens ==
    ASSUME NEW t, NEW dep, NEW kindCount, NEW relationalCount,
           envMode = "distributed-k3s", HasAll(t.kind, t.env), \A k \in DOMAIN t.env : OneWord(t.env[k]),
           t.template = <<>> \/ DOMAIN t.template = Slots, DOMAIN dep.template \subseteq Slots,
           NEW k \in DOMAIN buildDependencyBindingEnv(dep, t, kindCount, relationalCount),
           Len(buildDependencyBindingEnv(dep, t, kindCount, relationalCount)[k]) = 5
    PROVE  OpensDatabase(buildDependencyBindingEnv(dep, t, kindCount, relationalCount)[k], t.kind, t.name, t.env)
<1> DEFINE env == buildDependencyRuntimeEnv(t)
<1>1. CASE isRelationalDatabaseKind(t.kind)
  <2>1. PICK values : values = buildRelationalConnectionRuntimeValues(t) OBVIOUS
  <2>2. PICK template :
          /\ DOMAIN template = Slots
          /\ buildDependencyBindingEnv(dep, t, kindCount, relationalCount) = underNames(template, values)
    <3>1. DOMAIN normalizeConnectionTemplateForKind(dep.template) = Slots
      BY DEF normalizeConnectionTemplateForKind, over, defaultConnectionTemplateForKind
    <3>2. DOMAIN defaultConnectionTemplateForKind = Slots BY DEF defaultConnectionTemplateForKind
    <3>3. DOMAIN prefixedRelationalConnectionTemplate(t.name) = Slots BY DEF prefixedRelationalConnectionTemplate
    <3>4. CASE dep.template # <<>> BY <1>1, <2>1, <3>1, <3>4 DEF buildDependencyBindingEnv
    <3>5. CASE dep.template = <<>> /\ t.template # <<>> BY <1>1, <2>1, <3>5 DEF buildDependencyBindingEnv
    <3>6. CASE dep.template = <<>> /\ t.template = <<>> /\ relationalCount <= 1 /\ kindCount <= 1
      BY <1>1, <2>1, <3>2, <3>6 DEF buildDependencyBindingEnv
    <3>7. CASE dep.template = <<>> /\ t.template = <<>> /\ ~(relationalCount <= 1 /\ kindCount <= 1)
      BY <1>1, <2>1, <3>3, <3>7 DEF buildDependencyBindingEnv
    <3> QED BY <3>4, <3>5, <3>6, <3>7
  <2>3. k \in {template[x] : x \in DOMAIN template} BY <2>2 DEF underNames, Range
  <2>4. PICK slot \in Slots : slot = CHOOSE x \in Slots : template[x] = k BY <2>2, <2>3
  <2>5. underNames(template, values)[k] = values[slot] BY <2>2, <2>3, <2>4 DEF underNames, Range
  <2> QED BY <1>1, <2>1, <2>2, <2>5, ValuesOpen
<1>2. CASE ~isRelationalDatabaseKind(t.kind)
  <2>1. \A x \in DOMAIN env : env[x] = <<t.kind, "port">> \/ env[x] = <<hostOf(t)>>
    BY DEF buildDependencyRuntimeEnv
  <2>2. \A x \in DOMAIN env : Len(env[x]) # 5
    <3>1. PICK one, two : one = <<hostOf(t)>> /\ two = <<t.kind, "port">> OBVIOUS
    <3>2. Len(one) = 1 /\ Len(two) = 2 BY <3>1
    <3> HIDE DEF env
    <3>3. \A x \in DOMAIN env : env[x] = two \/ env[x] = one BY <2>1, <3>1
    <3>4. SUFFICES ASSUME NEW x \in DOMAIN env PROVE Len(env[x]) # 5 OBVIOUS
    <3>5. CASE env[x] = one
      <4>1. Len(env[x]) = 1 BY ONLY <3>2, <3>5
      <4> QED BY <4>1
    <3>6. CASE env[x] = two
      <4>1. Len(env[x]) = 2 BY ONLY <3>2, <3>6
      <4> QED BY <4>1
    <3> QED BY <3>3, <3>5, <3>6
  <2>3. CASE kindCount <= 1 BY <1>2, <2>2, <2>3 DEF buildDependencyBindingEnv
  <2>4. CASE ~(kindCount <= 1)
    <3>1. buildDependencyBindingEnv(dep, t, kindCount, relationalCount) = prefixDependencyEnv(t.name, env)
      BY <1>2, <2>4 DEF buildDependencyBindingEnv
    <3>2. \A key \in DOMAIN env : key = <<key[1], key[2]>> BY DEF buildDependencyRuntimeEnv
    <3> HIDE DEF env
    <3>3. PICK key \in DOMAIN env : k = <<t.name, key[1], key[2]>> BY <3>1 DEF prefixDependencyEnv
    <3>4. k[2] = key[1] /\ k[3] = key[2] BY <3>3
    <3>5. prefixDependencyEnv(t.name, env)[k] = env[key]
      <4>1. prefixDependencyEnv(t.name, env)[k] = env[<<k[2], k[3]>>] BY <3>3 DEF prefixDependencyEnv
      <4> QED BY <3>2, <3>4, <4>1
    <3> QED BY <2>2, <3>1, <3>5
  <2> QED BY <2>3, <2>4
<1> QED BY <1>1, <1>2

(* A row found by its name is a row.                                       *)
LEMMA NamedRow ==
    ASSUME NEW services, NEW name \in names(services)
    PROVE  \E i \in DOMAIN services : named(services, name) = services[i] /\ services[i].name = name
<1>1. \E i \in DOMAIN services : services[i].name = name BY DEF names
<1>2. PICK i : i = CHOOSE x \in DOMAIN services : services[x].name = name OBVIOUS
<1>3. i \in DOMAIN services /\ services[i].name = name BY <1>1, <1>2
<1> QED BY <1>2, <1>3 DEF named

(* Of the dependencies of a service those on internal services have        *)
(* variables.  That the page counts internal ones only makes no            *)
(* difference: nothing else is of an internal kind.                        *)
LEMMA BindingsAgree ==
    ASSUME NEW s
    PROVE  bindingEnvs(s, {n \in names(rows) : internal(named(rows, n))}) = bindingEnvs(s, names(rows))
<1> DEFINE target(j) == s.deps[j].target
           toInternal == {j \in DOMAIN s.deps : target(j) \in names(rows) /\ internal(named(rows, target(j)))}
           all(kinds) == {j \in DOMAIN s.deps : target(j) \in names(rows) /\ named(rows, target(j)).kind \in kinds}
           some(kinds) == {j \in DOMAIN s.deps : target(j) \in {n \in names(rows) : internal(named(rows, n))}
                                                  /\ named(rows, target(j)).kind \in kinds}
           env(j, n, m) == buildDependencyBindingEnv(s.deps[j], named(rows, target(j)), n, m)
<1>1. ASSUME NEW kinds, "app" \notin kinds PROVE some(kinds) = all(kinds) BY <1>1 DEF internal
<1>2. Cardinality(some(relationalKinds)) = Cardinality(all(relationalKinds))
  <2>1. "app" \notin relationalKinds BY DEF relationalKinds
  <2>2. some(relationalKinds) = all(relationalKinds) BY <1>1, <2>1
  <2> HIDE DEF some, all
  <2> QED BY <2>2
<1>3. ASSUME NEW j \in toInternal
      PROVE  Cardinality(some({named(rows, target(j)).kind})) = Cardinality(all({named(rows, target(j)).kind}))
  <2>1. "app" \notin {named(rows, target(j)).kind} BY DEF internal
  <2>2. some({named(rows, target(j)).kind}) = all({named(rows, target(j)).kind}) BY <1>1, <2>1
  <2> HIDE DEF some, all
  <2> QED BY <2>2
<1>4. bindingEnvs(s, names(rows)) =
        [j \in toInternal |-> env(j, Cardinality(all({named(rows, target(j)).kind})), Cardinality(all(relationalKinds)))]
  BY DEF bindingEnvs
<1>5. bindingEnvs(s, {n \in names(rows) : internal(named(rows, n))}) =
        [j \in toInternal |-> env(j, Cardinality(some({named(rows, target(j)).kind})), Cardinality(some(relationalKinds)))]
  BY DEF bindingEnvs
<1> HIDE DEF some, all, env, toInternal
<1>6. \A j \in toInternal :
        env(j, Cardinality(some({named(rows, target(j)).kind})), Cardinality(some(relationalKinds)))
          = env(j, Cardinality(all({named(rows, target(j)).kind})), Cardinality(all(relationalKinds)))
  BY <1>2, <1>3
<1> QED BY <1>4, <1>5, <1>6

LEMMA WordsAreShort == ASSUME NEW value, OneWord(value) PROVE Len(value) # 5
<1>1. CASE value = <<>>
  <2>1. Len(value) = 0 BY ONLY <1>1
  <2> QED BY <2>1
<1>2. CASE value = <<value[1]>>
  <2>1. PICK word : word = value[1] OBVIOUS
  <2>2. value = <<word>> BY <1>2, <2>1
  <2>3. Len(value) = 1 BY ONLY <2>2
  <2> QED BY <2>3
<1> QED BY <1>1, <1>2 DEF OneWord

(* A database that opens still opens when blanks of it are filled in.      *)
LEMMA StillOpens ==
    ASSUME NEW url, NEW kind, NEW name, NEW env, NEW more, OpensDatabase(url, kind, name, env)
    PROVE  OpensDatabase(url, kind, name, fillIfBlank(env, more))
<1>1. \A k, word : valueOf(env, k) = <<word>> => valueOf(fillIfBlank(env, more), k) = <<word>>
  <2>1. SUFFICES ASSUME NEW k, NEW word, valueOf(env, k) = <<word>>
                 PROVE  valueOf(fillIfBlank(env, more), k) = <<word>>
    OBVIOUS
  <2>2. valueOf(env, k) # Blank BY <2>1 DEF Blank
  <2>3. valueOf(fillIfBlank(env, more), k) = valueOf(env, k) BY <2>2, FillKeeps
  <2> QED BY <2>1, <2>3
<1> QED BY <1>1 DEF OpensDatabase

LEMMA StillHasAll ==
    ASSUME NEW kind, NEW env, NEW more, HasAll(kind, env)
    PROVE  HasAll(kind, fillIfBlank(env, more))
<1>1. SUFFICES ASSUME isRelationalDatabaseKind(kind), NEW k \in StartedWith(kind)
               PROVE  valueOf(fillIfBlank(env, more), k) # Blank
  BY DEF HasAll
<1>2. valueOf(env, k) # Blank BY <1>1 DEF HasAll
<1> QED BY <1>2, FillKeeps

(* The revision: what a service has for its dependencies.                  *)
LEMMA BindingsOpen ==
    ASSUME EnvRowsSound, envMode = "distributed-k3s", NEW i \in DOMAIN rows, NEW k,
           Len(valueOf(filledIn(bindingEnvs(rows[i], names(rows))), k)) = 5
    PROVE  \E m \in DOMAIN rows :
             OpensDatabase(valueOf(filledIn(bindingEnvs(rows[i], names(rows))), k), rows[m].kind, rows[m].name, rows[m].env)
<1>1. PICK envs : envs = bindingEnvs(rows[i], names(rows)) OBVIOUS
<1>2. PICK url : url = valueOf(filledIn(envs), k) OBVIOUS
<1>3. Len(url) = 5 BY <1>1, <1>2
<1>4. url # Blank
  <2>1. Len(<<>>) = 0 OBVIOUS
  <2> QED BY <1>3, <2>1 DEF Blank
<1>5. PICK values : values = [j \in DOMAIN envs |-> valueOf(envs[j], k)] OBVIOUS
<1>6. url = firstNonBlank(values) BY <1>2, <1>4, <1>5 DEF filledIn, valueOf
<1>7. DOMAIN envs \subseteq DOMAIN rows[i].deps BY <1>1 DEF bindingEnvs
<1>8. DOMAIN values \subseteq Nat BY <1>5, <1>7 DEF EnvRowsSound
<1>9. PICK j \in DOMAIN envs : url = valueOf(envs[j], k) BY <1>4, <1>5, <1>6, <1>8, FirstNonBlank
<1>10. k \in DOMAIN envs[j] /\ url = envs[j][k] BY <1>4, <1>9 DEF valueOf
<1>11. rows[i].deps[j].target \in names(rows) BY <1>1 DEF bindingEnvs
<1>12. PICK n, r : envs[j] = buildDependencyBindingEnv(rows[i].deps[j], named(rows, rows[i].deps[j].target), n, r)
  BY <1>1 DEF bindingEnvs
<1>13. PICK m \in DOMAIN rows : named(rows, rows[i].deps[j].target) = rows[m] BY <1>11, NamedRow
<1>14. /\ HasAll(rows[m].kind, rows[m].env) /\ \A x \in DOMAIN rows[m].env : OneWord(rows[m].env[x])
       /\ rows[m].template = <<>> \/ DOMAIN rows[m].template = Slots
       /\ DOMAIN rows[i].deps[j].template \subseteq Slots
  BY <1>7 DEF EnvRowsSound
<1>15. OpensDatabase(url, rows[m].kind, rows[m].name, rows[m].env)
  <2>1. PICK t, dep : t = rows[m] /\ dep = rows[i].deps[j] OBVIOUS
  <2>2. envs[j] = buildDependencyBindingEnv(dep, t, n, r) BY <1>12, <1>13, <2>1
  <2>3. k \in DOMAIN buildDependencyBindingEnv(dep, t, n, r)
        /\ Len(buildDependencyBindingEnv(dep, t, n, r)[k]) = 5
    BY <1>3, <1>10, <2>2
  <2>4. /\ HasAll(t.kind, t.env) /\ \A x \in DOMAIN t.env : OneWord(t.env[x])
        /\ t.template = <<>> \/ DOMAIN t.template = Slots
        /\ DOMAIN dep.template \subseteq Slots
    BY <1>14, <2>1
  <2>5. OpensDatabase(buildDependencyBindingEnv(dep, t, n, r)[k], t.kind, t.name, t.env)
    BY <2>3, <2>4, BindingOpens
  <2> QED BY <1>10, <2>1, <2>2, <2>5
<1> QED BY <1>1, <1>2, <1>15

LEMMA CompileKeeps == ASSUME EnvRowsSound, Compile PROVE CompiledSound'
<1> DEFINE envs(i) == bindingEnvs(rows[i], names(rows))
           env(i) == fillIfBlank(rows[i].env, filledIn(envs(i)))
<1>1. compiledEnv' = buildServiceContracts /\ envMode' = envMode /\ rows' = rows /\ bundle' = bundle BY DEF Compile
<1>2. DOMAIN compiledEnv' = DOMAIN rows BY <1>1 DEF buildServiceContracts
<1>3. ASSUME NEW i \in DOMAIN rows
      PROVE  /\ compiledEnv'[i].name = rows[i].name /\ compiledEnv'[i].kind = rows[i].kind
             /\ compiledEnv'[i].promised = annotateProvisionedHelperPacks(rows[i])
             /\ compiledEnv'[i].env = env(i)
  BY <1>1 DEF buildServiceContracts
<1>4. ASSUME NEW i \in DOMAIN rows PROVE annotateProvisionedHelperPacks(rows[i]) \subseteq DOMAIN env(i)
  <2>1. managedKeys(rows[i]) = UNION {DOMAIN e : e \in Range(envs(i))} BY BindingsAgree DEF managedKeys
  <2> HIDE DEF envs
  <2>2. UNION {DOMAIN e : e \in Range(envs(i))} = DOMAIN filledIn(envs(i)) BY DEF Range, filledIn
  <2>3. DOMAIN filledIn(envs(i)) \subseteq DOMAIN env(i) BY FilledDomain
  <2> QED BY <2>1, <2>2, <2>3 DEF annotateProvisionedHelperPacks
<1>5. ASSUME NEW i \in DOMAIN rows PROVE HasAll(rows[i].kind, env(i))
  <2>1. HasAll(rows[i].kind, rows[i].env) BY DEF EnvRowsSound
  <2> QED BY <2>1, StillHasAll
<1>6. ASSUME envMode = "distributed-k3s", NEW i \in DOMAIN rows, NEW k \in DOMAIN env(i), Len(env(i)[k]) = 5
      PROVE  \E m \in DOMAIN rows : OpensDatabase(env(i)[k], rows[m].kind, rows[m].name, env(m))
  <2>1. env(i)[k] = valueOf(rows[i].env, k) \/ env(i)[k] = valueOf(filledIn(envs(i)), k)
    <3>1. PICK own, others : own = rows[i].env /\ others = filledIn(envs(i)) OBVIOUS
    <3>2. k \in DOMAIN fillIfBlank(own, others) BY <1>6, <3>1
    <3>3. fillIfBlank(own, others)[k] = valueOf(fillIfBlank(own, others), k) BY <3>2 DEF valueOf
    <3>4. fillIfBlank(own, others)[k] = valueOf(own, k) \/ fillIfBlank(own, others)[k] = valueOf(others, k)
      BY <3>3, FillKeeps, FillAdds
    <3> QED BY <3>1, <3>4
  <2>2. OneWord(valueOf(rows[i].env, k)) BY DEF EnvRowsSound, valueOf, OneWord, Blank
  <2>3. Len(valueOf(rows[i].env, k)) # 5 BY <2>2, WordsAreShort
  <2>4. env(i)[k] = valueOf(filledIn(envs(i)), k) BY <1>6, <2>1, <2>3
  <2>5. PICK m \in DOMAIN rows : OpensDatabase(env(i)[k], rows[m].kind, rows[m].name, rows[m].env)
    BY <1>6, <2>4, BindingsOpen
  <2>6. OpensDatabase(env(i)[k], rows[m].kind, rows[m].name, env(m)) BY <2>5, StillOpens
  <2> QED BY <2>6
<1> HIDE DEF env
<1> QED BY <1>1, <1>2, <1>3, <1>4, <1>5, <1>6 DEF CompiledSound

(* The services as stored: a database has its words, given, fixed or       *)
(* minted.                                                                 *)
LEMMA DefaultsAreWords ==
    ASSUME NEW kind, NEW name, NEW password, OneWord(password)
    PROVE  /\ \A k : OneWord(valueOf(defaultEnv(kind, name, password), k))
           /\ isRelationalDatabaseKind(kind) => \A k \in StartedWith(kind) :
                 \/ k = <<PrefixOf(kind), "PASSWORD">> /\ valueOf(defaultEnv(kind, name, password), k) = password
                 \/ valueOf(defaultEnv(kind, name, password), k) # Blank
<1>1. \A x : OneWord(<<x>>) BY DEF OneWord
<1>2. OneWord(Blank) BY DEF OneWord, Blank
<1>3. PICK app, postgres, mysql, own : app = <<"app">> /\ postgres = <<"postgres">> /\ mysql = <<"mysql">> /\ own = <<name>>
  OBVIOUS
<1>4. app # Blank /\ postgres # Blank /\ mysql # Blank BY <1>3 DEF Blank
<1>5. OneWord(app) /\ OneWord(postgres) /\ OneWord(mysql) /\ OneWord(own) BY <1>1, <1>3
<1>6. CASE kind = "postgres"
  <2>1. PICK env : env = defaultEnv(kind, name, password) OBVIOUS
  <2>2. env = over(over(only(<<"POSTGRES", "DB">>, app), only(<<"POSTGRES", "USER">>, postgres)),
                   only(<<"POSTGRES", "PASSWORD">>, password))
    BY <1>3, <1>6, <2>1 DEF defaultEnv
  <2>3. DOMAIN env = {<<"POSTGRES", "DB">>, <<"POSTGRES", "USER">>, <<"POSTGRES", "PASSWORD">>} BY <2>2 DEF over, only
  <2>4. /\ env[<<"POSTGRES", "DB">>] = app /\ env[<<"POSTGRES", "USER">>] = postgres
        /\ env[<<"POSTGRES", "PASSWORD">>] = password
    BY <2>2 DEF over, only
  <2>5. StartedWith(kind) = DOMAIN env BY <1>6, <2>3 DEF StartedWith, PrefixOf, DatabaseOf
  <2>6. <<PrefixOf(kind), "PASSWORD">> = <<"POSTGRES", "PASSWORD">> BY <1>6 DEF PrefixOf
  <2>7. \A k : OneWord(valueOf(env, k)) BY <1>2, <1>5, <2>3, <2>4 DEF valueOf
  <2>8. \A k \in StartedWith(kind) :
          \/ k = <<PrefixOf(kind), "PASSWORD">> /\ valueOf(env, k) = password
          \/ valueOf(env, k) # Blank
    BY <1>4, <2>3, <2>4, <2>5, <2>6 DEF valueOf
  <2> QED BY <2>1, <2>7, <2>8
<1>7. CASE kind = "mysql"
  <2>1. PICK env : env = defaultEnv(kind, name, password) OBVIOUS
  <2>2. env = over(over(only(<<"MYSQL", "DATABASE">>, app), only(<<"MYSQL", "USER">>, mysql)),
                   only(<<"MYSQL", "PASSWORD">>, password))
    BY <1>3, <1>7, <2>1 DEF defaultEnv
  <2>3. DOMAIN env = {<<"MYSQL", "DATABASE">>, <<"MYSQL", "USER">>, <<"MYSQL", "PASSWORD">>} BY <2>2 DEF over, only
  <2>4. /\ env[<<"MYSQL", "DATABASE">>] = app /\ env[<<"MYSQL", "USER">>] = mysql
        /\ env[<<"MYSQL", "PASSWORD">>] = password
    BY <2>2 DEF over, only
  <2>5. StartedWith(kind) = DOMAIN env BY <1>7, <2>3 DEF StartedWith, PrefixOf, DatabaseOf
  <2>6. <<PrefixOf(kind), "PASSWORD">> = <<"MYSQL", "PASSWORD">> BY <1>7 DEF PrefixOf
  <2>7. \A k : OneWord(valueOf(env, k)) BY <1>2, <1>5, <2>3, <2>4 DEF valueOf
  <2>8. \A k \in StartedWith(kind) :
          \/ k = <<PrefixOf(kind), "PASSWORD">> /\ valueOf(env, k) = password
          \/ valueOf(env, k) # Blank
    BY <1>4, <2>3, <2>4, <2>5, <2>6 DEF valueOf
  <2> QED BY <2>1, <2>7, <2>8
<1>8. CASE kind \notin {"postgres", "mysql"}
  <2>1. \A k : valueOf(defaultEnv(kind, name, password), k) \in {Blank, app, own}
    BY <1>3, <1>8 DEF defaultEnv, valueOf, only
  <2>2. ~isRelationalDatabaseKind(kind) BY <1>8 DEF isRelationalDatabaseKind, relationalKinds
  <2> QED BY <1>2, <1>5, <2>1, <2>2
<1> QED BY <1>6, <1>7, <1>8

LEMMA ConfigureKeeps == ASSUME ConfigureServices PROVE EnvRowsSound'
<1>1. PICK items \in EnvInventories :
        LET passwordKey(s) == <<IF s.kind = "mysql" THEN "MYSQL" ELSE "POSTGRES", "PASSWORD">>
            minting == {i \in DOMAIN items :
                isRelationalDatabaseKind(items[i].kind) /\ valueOf(items[i].env, passwordKey(items[i])) = Blank}
            password(i) == <<Minted[minted + Cardinality({j \in minting : j <= i})]>>
        IN  rows' = [i \in DOMAIN items |-> [
                name |-> items[i].name, kind |-> items[i].kind, deps |-> items[i].deps,
                template |-> IF isRelationalDatabaseKind(items[i].kind)
                             THEN normalizeConnectionTemplateForKind(items[i].template) ELSE <<>>,
                env |-> normalizeManagedInternalRuntimeEnv(items[i], IF i \in minting THEN password(i) ELSE Blank)]]
  BY DEF ConfigureServices
<1> DEFINE minting == {i \in DOMAIN items : isRelationalDatabaseKind(items[i].kind)
                          /\ valueOf(items[i].env, <<PrefixOf(items[i].kind), "PASSWORD">>) = Blank}
           password(i) == IF i \in minting THEN <<Minted[minted + Cardinality({j \in minting : j <= i})]>> ELSE Blank
           stored(i) == [name |-> items[i].name, kind |-> items[i].kind, deps |-> items[i].deps,
                         template |-> IF isRelationalDatabaseKind(items[i].kind)
                                      THEN normalizeConnectionTemplateForKind(items[i].template) ELSE <<>>,
                         env |-> normalizeManagedInternalRuntimeEnv(items[i], password(i))]
<1>2. rows' = [i \in DOMAIN items |-> stored(i)] BY <1>1 DEF PrefixOf
<1>3. \A i \in DOMAIN items :
        /\ OneWord(password(i))
        /\ isRelationalDatabaseKind(items[i].kind) =>
              valueOf(items[i].env, <<PrefixOf(items[i].kind), "PASSWORD">>) # Blank \/ password(i) # Blank
  <2>1. \A x : OneWord(<<x>>) /\ <<x>> # Blank BY DEF OneWord, Blank
  <2>2. OneWord(Blank) BY DEF OneWord, Blank
  <2>3. SUFFICES ASSUME NEW i \in DOMAIN items
                 PROVE  /\ OneWord(password(i))
                        /\ isRelationalDatabaseKind(items[i].kind) =>
                              valueOf(items[i].env, <<PrefixOf(items[i].kind), "PASSWORD">>) # Blank \/ password(i) # Blank
    OBVIOUS
  <2>4. PICK x : x = Minted[minted + Cardinality({j \in minting : j <= i})] OBVIOUS
  <2>5. password(i) = (IF i \in minting THEN <<x>> ELSE Blank) BY <2>4
  <2>6. i \in minting <=> isRelationalDatabaseKind(items[i].kind)
                          /\ valueOf(items[i].env, <<PrefixOf(items[i].kind), "PASSWORD">>) = Blank
    OBVIOUS
  <2> HIDE DEF minting, password
  <2> QED BY <2>1, <2>2, <2>5, <2>6
<1> HIDE DEF password
<1>4. ASSUME NEW i \in DOMAIN items
      PROVE  /\ \A k \in DOMAIN stored(i).env : OneWord(stored(i).env[k])
             /\ HasAll(stored(i).kind, stored(i).env)
  <2>1. PICK kind, own, word, more : /\ kind = items[i].kind /\ own = items[i].env /\ word = password(i)
                                     /\ more = defaultEnv(kind, items[i].name, word)
    OBVIOUS
  <2>2. stored(i).kind = kind /\ stored(i).env = fillIfBlank(own, more)
    BY <2>1 DEF normalizeManagedInternalRuntimeEnv
  <2>3. \A k : OneWord(valueOf(own, k)) BY <2>1, EnvAssumption DEF valueOf, OneWord, Blank
  <2>4. OneWord(word) /\ (isRelationalDatabaseKind(kind) =>
                             valueOf(own, <<PrefixOf(kind), "PASSWORD">>) # Blank \/ word # Blank)
    BY <1>3, <2>1
  <2>5. \A k : OneWord(valueOf(more, k)) BY <2>1, <2>4, DefaultsAreWords
  <2>6. isRelationalDatabaseKind(kind) => \A k \in StartedWith(kind) :
          \/ k = <<PrefixOf(kind), "PASSWORD">> /\ valueOf(more, k) = word
          \/ valueOf(more, k) # Blank
    BY <2>1, <2>4, DefaultsAreWords
  <2>7. \A k : \/ valueOf(own, k) # Blank /\ valueOf(fillIfBlank(own, more), k) = valueOf(own, k)
               \/ valueOf(own, k) = Blank /\ valueOf(fillIfBlank(own, more), k) = valueOf(more, k)
    BY FillKeeps, FillAdds
  <2>8. \A k : OneWord(valueOf(fillIfBlank(own, more), k)) BY <2>3, <2>5, <2>7
  <2>9. \A k \in DOMAIN fillIfBlank(own, more) : fillIfBlank(own, more)[k] = valueOf(fillIfBlank(own, more), k)
    BY DEF valueOf
  <2>10. HasAll(kind, fillIfBlank(own, more)) BY <2>4, <2>6, <2>7 DEF HasAll
  <2> QED BY <2>2, <2>8, <2>9, <2>10
<1>5. ASSUME NEW i \in DOMAIN items
      PROVE  /\ stored(i).template = <<>> \/ DOMAIN stored(i).template = Slots
             /\ DOMAIN stored(i).deps \subseteq Nat
             /\ \A j \in DOMAIN stored(i).deps : DOMAIN stored(i).deps[j].template \subseteq Slots
  <2>1. DOMAIN items[i].template \subseteq Slots BY EnvAssumption
  <2>2. DOMAIN normalizeConnectionTemplateForKind(items[i].template) = Slots
    BY <2>1 DEF normalizeConnectionTemplateForKind, over, defaultConnectionTemplateForKind
  <2>3. items[i].deps \in Seq(Range(items[i].deps)) BY EnvAssumption
  <2>4. DOMAIN items[i].deps \subseteq Nat BY <2>3
  <2>5. ASSUME NEW j \in DOMAIN items[i].deps PROVE DOMAIN items[i].deps[j].template \subseteq Slots
    <3>1. items[i].deps[j].template \in {d.template : d \in Range(items[i].deps)} BY DEF Range
    <3> QED BY <3>1, EnvAssumption
  <2> QED BY <2>2, <2>4, <2>5
<1> HIDE DEF stored
<1> QED BY <1>2, <1>4, <1>5 DEF EnvRowsSound

(* Processes: on the cluster, what they get is what the revision has.      *)
LEMMA NormalizedSame ==
    ASSUME NEW kind, NEW env, HasAll(kind, env)
    PROVE  /\ DOMAIN normalizeManagedServiceEnv(kind, env) = DOMAIN env
           /\ \A k : valueOf(normalizeManagedServiceEnv(kind, env), k) = valueOf(env, k)
<1>1. CASE kind # "postgres" BY <1>1 DEF normalizeManagedServiceEnv
<1>2. CASE kind = "postgres"
  <2>1. PICK word : word = firstNonBlank(<<valueOf(env, <<"DB", "PASSWORD">>), <<"postgres">>>>) OBVIOUS
  <2>2. PICK more : more = defaultEnv(kind, "", word) OBVIOUS
  <2>3. normalizeManagedServiceEnv(kind, env) = fillIfBlank(env, more)
    BY <1>2, <2>1, <2>2 DEF normalizeManagedServiceEnv
  <2>4. DOMAIN more = StartedWith(kind)
    BY <1>2, <2>2 DEF defaultEnv, over, only, StartedWith, PrefixOf, DatabaseOf
  <2>5. \A k \in StartedWith(kind) : valueOf(env, k) # Blank
    BY <1>2 DEF HasAll, isRelationalDatabaseKind, relationalKinds
  <2>6. StartedWith(kind) \subseteq DOMAIN env BY <2>5 DEF valueOf
  <2>7. \A k : valueOf(env, k) = Blank => valueOf(more, k) = Blank BY <2>4, <2>5 DEF valueOf
  <2>8. \A k : valueOf(fillIfBlank(env, more), k) = valueOf(env, k) BY <2>7, FillKeeps, FillAdds
  <2>9. DOMAIN fillIfBlank(env, more) = DOMAIN env BY <2>4, <2>6, FilledDomain
  <2> QED BY <2>3, <2>8, <2>9
<1> QED BY <1>1, <1>2

LEMMA OpensAll ==
    ASSUME NEW url, NEW service, NEW env, OpensDatabase(url, service.kind, service.name, env)
    PROVE  IsOpened(url, service, env)
<1>1. PICK kind : kind = url[1] OBVIOUS
<1>2. service.kind = kind BY <1>1 DEF OpensDatabase
<1>3. CASE kind = "mysql" BY <1>1, <1>2, <1>3 DEF OpensDatabase, IsOpened, PrefixOf, DatabaseOf
<1>4. CASE kind # "mysql" BY <1>1, <1>2, <1>4 DEF OpensDatabase, IsOpened, PrefixOf, DatabaseOf
<1> QED BY <1>3, <1>4

LEMMA ApplyDelivers == ASSUME CompiledSound, ApplyManifests PROVE EnvDelivered'
<1> DEFINE env(i) == normalizeManagedServiceEnv(compiledEnv[i].kind, compiledEnv[i].env)
<1>1. /\ envMode = "distributed-k3s" /\ envMode' = envMode
      /\ running'.from = compiledEnv /\ running'.env = [i \in DOMAIN compiledEnv |-> env(i)]
  BY DEF ApplyManifests
<1>2. ASSUME NEW i \in DOMAIN compiledEnv
      PROVE  DOMAIN env(i) = DOMAIN compiledEnv[i].env /\ \A k : valueOf(env(i), k) = valueOf(compiledEnv[i].env, k)
  BY NormalizedSame DEF CompiledSound
<1>3. \A i \in DOMAIN compiledEnv : compiledEnv[i].promised \subseteq DOMAIN env(i) BY <1>2 DEF CompiledSound
<1>4. ASSUME NEW i \in DOMAIN compiledEnv, NEW k \in DOMAIN env(i), Len(env(i)[k]) = 5
      PROVE  \E j \in DOMAIN compiledEnv : OpensDatabase(env(i)[k], compiledEnv[j].kind, compiledEnv[j].name, env(j))
  <2>1. k \in DOMAIN compiledEnv[i].env /\ env(i)[k] = compiledEnv[i].env[k] BY <1>2 DEF valueOf
  <2>2. PICK j \in DOMAIN compiledEnv :
          OpensDatabase(env(i)[k], compiledEnv[j].kind, compiledEnv[j].name, compiledEnv[j].env)
    BY <1>1, <1>4, <2>1 DEF CompiledSound
  <2>3. OpensDatabase(env(i)[k], compiledEnv[j].kind, compiledEnv[j].name, env(j)) BY <1>2, <2>2 DEF OpensDatabase
  <2> QED BY <2>3
<1> HIDE DEF env
<1>5. DOMAIN running'.env = DOMAIN compiledEnv /\ \A i \in DOMAIN compiledEnv : running'.env[i] = env(i) BY <1>1
<1>6. ASSUME NEW i \in DOMAIN running'.env, NEW k \in DOMAIN running'.env[i], Len(running'.env[i][k]) = 5
      PROVE  \E j \in DOMAIN running'.from :
               OpensDatabase(running'.env[i][k], running'.from[j].kind, running'.from[j].name, running'.env[j])
  BY <1>1, <1>4, <1>5, <1>6
<1>7. ASSUME NEW i \in DOMAIN running'.env
      PROVE  running'.from[i].promised \subseteq DOMAIN running'.env[i]
  BY <1>1, <1>3, <1>5
<1>9. ASSUME NEW i \in DOMAIN running'.env, NEW k \in DOMAIN running'.env[i], Len(running'.env[i][k]) = 5
      PROVE  \E j \in DOMAIN running'.from : IsOpened(running'.env[i][k], running'.from[j], running'.env[j])
  BY <1>6, <1>9, OpensAll
<1>10. ConnectionsOpen' BY <1>7, <1>9 DEF ConnectionsOpen
<1>8. SavedEnvWins' BY <1>1 DEF SavedEnvWins
<1> QED BY <1>10, <1>8 DEF EnvDelivered

LEMMA StartDelivers == ASSUME StartContainers PROVE EnvDelivered'
<1>1. /\ envMode' # "distributed-k3s" /\ running'.saved = LoadRuntimeEnv
      /\ DOMAIN running'.env = DOMAIN compiledEnv
  BY DEF StartContainers
<1>2. ASSUME NEW i \in DOMAIN compiledEnv
      PROVE  \E deps : running'.env[i] = buildContainerEnvVars(deps, compiledEnv, LoadRuntimeEnv)
  BY DEF StartContainers
<1>3. ASSUME NEW i \in DOMAIN compiledEnv, NEW k \in DOMAIN LoadRuntimeEnv, ~isReservedRuntimeEnvKey(k)
      PROVE  valueOf(running'.env[i], k) = LoadRuntimeEnv[k]
  BY <1>2, <1>3, SavedReaches
<1>4. SavedEnvWins' BY <1>1, <1>3 DEF SavedEnvWins, reached, valueOf, isReservedRuntimeEnvKey
<1>5. ConnectionsOpen' BY <1>1 DEF ConnectionsOpen
<1> QED BY <1>4, <1>5 DEF EnvDelivered

LEMMA EnvInvInit == EnvInit => EnvInv
<1> SUFFICES ASSUME EnvInit PROVE EnvInv OBVIOUS
<1>1. rows = <<>> /\ compiledEnv = <<>> /\ running.env = <<>> BY DEF EnvInit, NotRunning
<1>2. EnvRowsSound /\ CompiledSound BY <1>1 DEF EnvRowsSound, CompiledSound
<1>3. EnvDelivered BY <1>1 DEF EnvDelivered, ConnectionsOpen, SavedEnvWins
<1> QED BY <1>2, <1>3 DEF EnvInv

LEMMA EnvInvNext == EnvInv /\ [EnvNext]_envVars => EnvInv'
<1> SUFFICES ASSUME EnvInv, [EnvNext]_envVars PROVE EnvInv' OBVIOUS
<1>0. EnvRowsSound /\ CompiledSound /\ EnvDelivered BY DEF EnvInv
<1>1. ASSUME UNCHANGED rows PROVE EnvRowsSound' BY <1>0, <1>1 DEF EnvRowsSound
<1>2. ASSUME UNCHANGED <<compiledEnv, envMode>> PROVE CompiledSound' BY <1>0, <1>2 DEF CompiledSound
<1>3. ASSUME UNCHANGED <<running, envMode>> PROVE EnvDelivered'
  BY <1>0, <1>3 DEF EnvDelivered, ConnectionsOpen, SavedEnvWins, reached
<1>4. CASE Upsert BY <1>1, <1>2, <1>3, <1>4 DEF Upsert, EnvInv
<1>5. CASE Delete BY <1>1, <1>2, <1>3, <1>5 DEF Delete, EnvInv
<1>6. CASE ConfigureServices
  <2>1. UNCHANGED <<envMode, compiledEnv, running>> BY <1>6 DEF ConfigureServices
  <2> QED BY <1>2, <1>3, <1>6, <2>1, ConfigureKeeps DEF EnvInv
<1>7. CASE Compile
  <2>1. UNCHANGED <<envMode, rows, running>> BY <1>7 DEF Compile
  <2> QED BY <1>0, <1>1, <1>3, <1>7, <2>1, CompileKeeps DEF EnvInv
<1>8. CASE ApplyManifests
  <2>1. UNCHANGED <<envMode, rows, compiledEnv>> BY <1>8 DEF ApplyManifests
  <2> QED BY <1>0, <1>1, <1>2, <1>8, <2>1, ApplyDelivers DEF EnvInv
<1>9. CASE StartContainers
  <2>1. UNCHANGED <<envMode, rows, compiledEnv>> BY <1>9 DEF StartContainers
  <2> QED BY <1>1, <1>2, <1>9, <2>1, StartDelivers DEF EnvInv
<1>10. CASE UNCHANGED envVars BY <1>1, <1>2, <1>3, <1>10 DEF envVars, EnvInv
<1> QED BY <1>4, <1>5, <1>6, <1>7, <1>8, <1>9, <1>10 DEF EnvNext

(* What a process is started with is what was promised: on the cluster     *)
(* each URL it got opens a database that was started with it, and the      *)
(* variables the page promised are there; in a container every saved       *)
(* variable has the saved value.                                           *)
THEOREM EnvIsDelivered == EnvSpec => []EnvDelivered
<1>1. EnvInv => EnvDelivered BY DEF EnvInv
<1> QED BY <1>1, EnvInvInit, EnvInvNext, PTL DEF EnvSpec

==============================================================================
