----------------------------- MODULE SignInProofs -----------------------------
(***************************************************************************)
(* Signing in for any number of people, browsers and addresses: the types  *)
(* of Accounts with the uniqueness of its columns, whose session it is,    *)
(* and that a user is never left without an account or a workspace.        *)
(***************************************************************************)
EXTENDS AccountsProofs

(* A row of users and what hangs on it: nothing yet, or an account and a   *)
(* workspace.                                                              *)
Vacant(u) == Accounts(u) = {} /\ personal[u] = 0
Settled(u) == personal[u] = 1 /\ \E g \in Identities : Accounts(u) = {g}

(* What persist_identity has decided under the lock of the identity is     *)
(* still so when it writes, and afterwards.                                *)
Signing(b) ==
    /\ tab[b].pc \in {"lock", "commit", "issue"} => tab[b].who \in Identities /\ tab[b].mail \in Emails
    /\ tab[b].pc = "commit" => tab[b].user = account[tab[b].who]
    /\ tab[b].pc = "issue" => tab[b].user \in Users /\ account[tab[b].who] = tab[b].user

SignInInv ==
    /\ email \in [Users -> Emails \cup {None}]
    /\ \A u, v \in Users : u # v /\ email[u] = email[v] => email[u] = None
    /\ account \in [Identities -> Users \cup {None}]
    /\ personal \in [Users -> Nat]
    /\ sessions \subseteq Session
    /\ SignInType
    /\ \A u \in Users : IF email[u] = None THEN Vacant(u) ELSE Settled(u)
    /\ \A b \in Browsers : Signing(b)
    /\ \A b, c \in Browsers :
          tab[b].pc = "commit" /\ tab[c].pc = "commit" /\ tab[b].who = tab[c].who => b = c
    /\ SessionIsOwn

(* The tables of users and accounts. *)
people == <<email, account, personal>>

(* A callback in b becomes x; the others are left alone. *)
Becomes(b, x) == tab' = [tab EXCEPT ![b] = x]

(* The initial state: nobody, or people with distinct users and addresses. *)
LEMMA InitSignIn == Init => SignInInv
<1> SUFFICES ASSUME Init PROVE SignInInv
    OBVIOUS
<1>1. PICK s \in Scopes :
        /\ mailChanges = s.changes
        /\ oauth = [st \in States |-> IF st \in s.logins THEN "new" ELSE "gone"]
        /\ IF s.people
           THEN /\ email = [u \in Users |-> IF \E g \in Identities : Known[g] = u
                              THEN FirstMail[CHOOSE g \in Identities : Known[g] = u] ELSE None]
                /\ account = Known
                /\ \E b0 \in Browsers :
                     sessions = {[browser |-> b0, user |-> Known[g], by |-> g] : g \in Identities}
           ELSE /\ email = [u \in Users |-> None]
                /\ account = [g \in Identities |-> None]
                /\ sessions = {}
    BY DEF Init
<1>2. s.changes \in Nat /\ NoTab \in Tab /\ NoTab.pc = "off"
    BY AccountConstants DEF NoTab, Tab
<1>3. SignInType /\ \A b \in Browsers : tab[b].pc = "off"
    BY <1>1, <1>2, AccountConstants DEF Init, SignInType
<1>4. \A b \in Browsers : Signing(b)
    BY <1>3 DEF Signing
<1>5. personal \in [Users -> Nat]
    BY DEF Init
<1>6. CASE s.people
  <2>1. \A g \in Identities : Known[g] \in Users /\ FirstMail[g] \in Emails /\ account[g] = Known[g]
    BY <1>1, <1>6, AccountConstants
  <2>2. \A g \in Identities : email[Known[g]] = FirstMail[g]
    <3> SUFFICES ASSUME NEW g \in Identities PROVE email[Known[g]] = FirstMail[g]
      OBVIOUS
    <3>1. \A h \in Identities : Known[h] = Known[g] => h = g
      BY AccountConstants
    <3>2. (CHOOSE h \in Identities : Known[h] = Known[g]) = g
      BY <3>1
    <3>3. PICK u \in Users : u = Known[g]
      BY <2>1
    <3>4. \E h \in Identities : Known[h] = u
      BY <3>3
    <3>5. (CHOOSE h \in Identities : Known[h] = u) = g
      BY <3>2, <3>3
    <3>6. email[u] = IF \E h \in Identities : Known[h] = u
                     THEN FirstMail[CHOOSE h \in Identities : Known[h] = u] ELSE None
      BY <1>1, <1>6
    <3> QED BY <3>3, <3>4, <3>5, <3>6
  <2>3. \A u \in Users : email[u] = None \/ \E g \in Identities : Known[g] = u
    BY <1>1, <1>6
  <2>4. \A u \in Users : IF email[u] = None THEN Vacant(u) ELSE Settled(u)
    <3> SUFFICES ASSUME NEW u \in Users PROVE IF email[u] = None THEN Vacant(u) ELSE Settled(u)
      OBVIOUS
    <3>1. CASE \E g \in Identities : Known[g] = u
      <4>1. PICK g \in Identities : Known[g] = u
        BY <3>1
      <4>2. email[u] # None
        BY <2>1, <2>2, <4>1, DirectoryConstants
      <4>3. Accounts(u) = {g}
        BY <2>1, <4>1, AccountConstants DEF Accounts
      <4> QED BY <4>2, <4>3 DEF Settled, Init
    <3>2. CASE ~\E g \in Identities : Known[g] = u
      <4>1. email[u] = None /\ Accounts(u) = {}
        BY <2>1, <2>3, <3>2 DEF Accounts
      <4> QED BY <4>1 DEF Vacant, Init
    <3> QED BY <3>1, <3>2
  <2>5. email \in [Users -> Emails \cup {None}]
    <3>1. \A u \in Users : email[u] \in Emails \cup {None}
      BY <2>1, <2>2, <2>3
    <3> QED BY <1>1, <1>6, <3>1
  <2>6. ASSUME NEW u \in Users, NEW v \in Users, u # v, email[u] = email[v] PROVE email[u] = None
    BY <2>1, <2>2, <2>3, <2>6, AccountConstants
  <2>7. sessions \subseteq Session /\ SessionIsOwn
    BY <1>1, <1>6, <2>1 DEF Session, SessionIsOwn
  <2>8. account \in [Identities -> Users \cup {None}]
    BY <1>1, <1>6, AccountConstants
  <2> QED BY <1>3, <1>4, <1>5, <2>4, <2>5, <2>6, <2>7, <2>8 DEF SignInInv
<1>7. CASE ~s.people
  <2>1. /\ email = [u \in Users |-> None] /\ account = [g \in Identities |-> None] /\ sessions = {}
    BY <1>1, <1>7
  <2>2. \A u \in Users : IF email[u] = None THEN Vacant(u) ELSE Settled(u)
    BY <2>1, DirectoryConstants DEF Vacant, Accounts, Init
  <2> QED BY <1>3, <1>4, <1>5, <2>1, <2>2 DEF SignInInv, SessionIsOwn
<1> QED BY <1>6, <1>7

(* The users and accounts are left alone. *)
LEMMA PeopleStay ==
    ASSUME SignInInv, UNCHANGED people
    PROVE  /\ email' \in [Users -> Emails \cup {None}]
           /\ \A u, v \in Users : u # v /\ email'[u] = email'[v] => email'[u] = None
           /\ account' \in [Identities -> Users \cup {None}]
           /\ personal' \in [Users -> Nat]
           /\ \A u \in Users : IF email'[u] = None THEN Vacant(u)' ELSE Settled(u)'
           /\ \A s \in sessions : account'[s.by] = s.user
<1>1. UNCHANGED <<email, account, personal>>
    BY DEF people
<1>2. \A u \in Users : Accounts(u)' = Accounts(u)
    BY <1>1 DEF Accounts
<1> QED BY <1>1, <1>2 DEF SignInInv, SessionIsOwn, Vacant, Settled

(* A callback takes a step that changes no table. *)
LEMMA TabStep ==
    ASSUME SignInInv, UNCHANGED people, UNCHANGED <<mail, mailChanges>>,
           oauth' \in [States -> {"new", "stored", "gone"}],
           NEW b \in Browsers, NEW x \in Tab, Becomes(b, x),
           x.pc \in {"lock", "commit", "issue"} => x.who \in Identities /\ x.mail \in Emails,
           x.pc = "commit" => /\ x.user = account[x.who]
                              /\ \A c \in Browsers \ {b} : tab[c].pc = "commit" => tab[c].who # x.who,
           x.pc # "issue", sessions' \subseteq Session, \A s \in sessions' : account[s.by] = s.user
    PROVE  SignInInv'
<1>1. tab' \in [Browsers -> Tab] /\ tab'[b] = x /\ \A c \in Browsers \ {b} : tab'[c] = tab[c]
    BY DEF Becomes, SignInInv, SignInType
<1>2. account' = account
    BY DEF people
<1>3. SignInType'
    BY <1>1 DEF SignInInv, SignInType
<1>4. Signing(b)'
    BY <1>1, <1>2 DEF Signing
<1>5. \A c \in Browsers \ {b} : Signing(c)'
    BY <1>1, <1>2 DEF SignInInv, Signing
<1>6. \A c, d \in Browsers : tab'[c].pc = "commit" /\ tab'[d].pc = "commit" /\ tab'[c].who = tab'[d].who => c = d
    BY <1>1 DEF SignInInv
<1>7. SessionIsOwn'
    BY <1>2 DEF SessionIsOwn
<1> QED BY <1>3, <1>4, <1>5, <1>6, <1>7, PeopleStay DEF SignInInv

(* A step that changes neither tables nor callbacks. *)
LEMMA AsideStep ==
    ASSUME SignInInv, UNCHANGED people, UNCHANGED tab, SignInType', sessions' \subseteq sessions
    PROVE  SignInInv'
<1>1. account' = account
    BY DEF people
<1>2. \A c \in Browsers : Signing(c)'
    BY <1>1 DEF SignInInv, Signing
<1>3. SessionIsOwn' /\ sessions' \subseteq Session
    BY <1>1 DEF SessionIsOwn, SignInInv
<1> QED BY <1>2, <1>3, PeopleStay DEF SignInInv

(* The address of a person changes, a state comes or goes, a session ends. *)
LEMMA OutsideStep ==
    ASSUME SignInInv,
           \/ \E g \in Identities, e \in Emails : ChangeMail(g, e)
           \/ \E st \in States : GithubLogin(st) \/ ExpireState(st)
           \/ \E s \in sessions : Logout(s)
    PROVE  SignInInv'
<1>1. UNCHANGED people /\ UNCHANGED tab /\ sessions' \subseteq sessions
    BY DEF ChangeMail, GithubLogin, ExpireState, Logout, directory, people, signin
<1>2. SignInType'
  <2>1. ASSUME NEW g \in Identities, NEW e \in Emails, ChangeMail(g, e) PROVE SignInType'
    BY <2>1 DEF ChangeMail, SignInInv, SignInType
  <2>2. ASSUME NEW st \in States, GithubLogin(st) \/ ExpireState(st) PROVE SignInType'
    BY <2>2 DEF GithubLogin, ExpireState, SignInInv, SignInType
  <2>3. ASSUME NEW s \in sessions, Logout(s) PROVE SignInType'
    BY <2>3 DEF Logout, signin, SignInInv, SignInType
  <2> QED BY <2>1, <2>2, <2>3
<1> QED BY <1>1, <1>2, AsideStep

(* The callback up to the lock, its end without a session, and its end. *)
LEMMA CallbackStep ==
    ASSUME SignInInv, NEW b \in Browsers,
           \/ \E st \in States : ConsumeState(b, st)
           \/ \E g \in Identities : FetchUser(b, g)
           \/ IssueSession(b) \/ Abandon(b)
    PROVE  SignInInv'
<1>0. /\ tab[b] \in Tab /\ NoTab \in Tab /\ NoTab.pc = "off" /\ Signing(b)
      /\ oauth \in [States -> {"new", "stored", "gone"}] /\ mail \in [Identities -> Emails]
      /\ sessions \subseteq Session /\ \A s \in sessions : account[s.by] = s.user
    BY DEF SignInInv, SignInType, NoTab, Tab, SessionIsOwn
<1>1. ASSUME NEW st \in States, ConsumeState(b, st) PROVE SignInInv'
  <2> DEFINE x == [tab[b] EXCEPT !.pc = "exchange"]
  <2>1. x \in Tab /\ x.pc = "exchange"
    BY <1>0 DEF Tab
  <2>2. /\ UNCHANGED people /\ UNCHANGED <<mail, mailChanges, sessions>> /\ Becomes(b, x)
        /\ oauth' \in [States -> {"new", "stored", "gone"}]
    BY <1>0, <1>1 DEF ConsumeState, people, directory, Becomes
  <2> QED BY <1>0, <2>1, <2>2, TabStep
<1>2. ASSUME NEW g \in Identities, FetchUser(b, g) PROVE SignInInv'
  <2> DEFINE x == [tab[b] EXCEPT !.pc = "lock", !.who = g, !.mail = mail[g]]
  <2>1. x \in Tab /\ x.pc = "lock" /\ x.who = g /\ x.mail = mail[g] /\ mail[g] \in Emails
    BY <1>0 DEF Tab
  <2>2. /\ UNCHANGED people /\ UNCHANGED <<mail, mailChanges, sessions, oauth>> /\ Becomes(b, x)
    BY <1>2 DEF FetchUser, people, directory, Becomes
  <2> QED BY <1>0, <2>1, <2>2, TabStep
<1>3. CASE Abandon(b)
  <2>1. UNCHANGED people /\ UNCHANGED <<mail, mailChanges, sessions, oauth>> /\ Becomes(b, NoTab)
    BY <1>3 DEF Abandon, people, directory, Becomes
  <2> QED BY <1>0, <2>1, TabStep
<1>4. CASE IssueSession(b)
  <2> DEFINE s == [browser |-> b, user |-> tab[b].user, by |-> tab[b].who]
  <2>1. /\ UNCHANGED people /\ UNCHANGED <<mail, mailChanges, oauth>> /\ Becomes(b, NoTab)
        /\ sessions' = sessions \cup {s} /\ tab[b].pc = "issue"
    BY <1>4 DEF IssueSession, people, Becomes
  <2>2. s \in Session /\ account[s.by] = s.user
    BY <1>0, <2>1 DEF Signing, Session
  <2>3. sessions' \subseteq Session /\ \A z \in sessions' : account[z.by] = z.user
    BY <1>0, <2>1, <2>2
  <2> QED BY <1>0, <2>1, <2>3, TabStep
<1> QED BY <1>1, <1>2, <1>3, <1>4

(* persist_identity decides: an identity without an account meets no user, *)
(* as a user that has the address has an account.                          *)
LEMMA DecideStep ==
    ASSUME SignInInv, NEW b \in Browsers, Decide(b)
    PROVE  SignInInv'
<1> DEFINE who == tab[b].who
<1>0. /\ tab[b] \in Tab /\ tab[b].pc = "lock" /\ IdentityFree(b) /\ who \in Identities /\ tab[b].mail \in Emails
      /\ oauth \in [States -> {"new", "stored", "gone"}]
      /\ sessions \subseteq Session /\ \A s \in sessions : account[s.by] = s.user
    BY DEF Decide, SignInInv, SignInType, Signing, SessionIsOwn
<1>1. /\ UNCHANGED people /\ UNCHANGED <<mail, mailChanges, sessions, oauth>>
    BY DEF Decide, people, directory
<1>2. tab' = [tab EXCEPT ![b].pc = "commit", ![b].user = account[who]]
  <2>1. CASE account[who] # None
    BY <2>1 DEF Decide
  <2>2. CASE account[who] = None
    <3>1. \A u \in Owner(tab[b].mail) : Accounts(u) = {}
      BY <2>2 DEF Decide
    <3>2. \A u \in Owner(tab[b].mail) : Settled(u)
      BY <1>0, DirectoryConstants DEF Owner, SignInInv
    <3>3. Owner(tab[b].mail) = {}
      BY <3>1, <3>2 DEF Settled
    <3> QED BY <2>2, <3>3 DEF Decide
  <2> QED BY <2>1, <2>2
<1> DEFINE x == [tab[b] EXCEPT !.pc = "commit", !.user = account[who]]
<1>3. x \in Tab /\ x.pc = "commit" /\ x.user = account[who] /\ x.who = who /\ x.mail = tab[b].mail
  <2>1. account[who] \in Users \cup {None}
    BY <1>0 DEF SignInInv
  <2> QED BY <1>0, <2>1 DEF Tab
<1>4. Becomes(b, x)
    BY <1>2 DEF Becomes
<1>5. \A c \in Browsers \ {b} : tab[c].pc = "commit" => tab[c].who # x.who
    BY <1>0, <1>3 DEF IdentityFree
<1> QED BY <1>0, <1>1, <1>3, <1>4, <1>5, TabStep

(* persist_identity writes: the account keeps its user, a new user gets    *)
(* one account and one workspace, and the address was nobody else's.       *)
LEMMA PersistStep ==
    ASSUME SignInInv, NEW b \in Browsers, NEW u \in Users, PersistIdentity(b, u)
    PROVE  SignInInv'
<1>0. PICK who \in Identities, e \in Emails :
        /\ who = tab[b].who /\ e = tab[b].mail /\ tab[b] \in Tab /\ tab[b].pc = "commit"
        /\ tab[b].user = account[who] /\ e # None
    BY DirectoryConstants DEF PersistIdentity, SignInInv, SignInType, Signing
<1>1. /\ email \in [Users -> Emails \cup {None}] /\ account \in [Identities -> Users \cup {None}]
      /\ personal \in [Users -> Nat] /\ tab \in [Browsers -> Tab]
      /\ IF email[u] = None THEN Vacant(u) ELSE Settled(u)
    BY DEF SignInInv, SignInType
<1>2. /\ account[who] \in {None, u} /\ account' \in [Identities -> Users \cup {None}] /\ account'[who] = u
      /\ \A g \in Identities \ {who} : account'[g] = account[g]
      /\ Accounts(u) \subseteq {who} /\ personal[u] \in {0, 1}
  <2>1. CASE account[who] = None
    <3>1. email[u] = None /\ Vacant(u)
      BY <1>0, <1>1, <2>1 DEF PersistIdentity
    <3>2. account' = [account EXCEPT ![who] = u]
      BY <1>0, <2>1 DEF PersistIdentity
    <3> QED BY <1>1, <2>1, <3>1, <3>2 DEF Vacant
  <2>2. CASE account[who] # None
    <3>1. account' = account /\ account[who] = u
      BY <1>0, <2>2 DEF PersistIdentity
    <3>2. who \in Accounts(u)
      BY <3>1 DEF Accounts
    <3>3. Settled(u)
      BY <1>1, <3>2 DEF Vacant
    <3> QED BY <1>1, <3>1, <3>2, <3>3 DEF Settled
  <2> QED BY <2>1, <2>2
<1>3. Accounts(u)' = {who} /\ \A v \in Users \ {u} : Accounts(v)' = Accounts(v)
  <2>1. \A g \in Identities : account'[g] = u <=> g = who
    BY <1>2 DEF Accounts
  <2>2. \A g \in Identities, v \in Users \ {u} : account'[g] = v <=> account[g] = v
    BY <1>2, DirectoryConstants
  <2> QED BY <2>1, <2>2 DEF Accounts
<1>4. /\ personal' \in [Users -> Nat] /\ personal'[u] = 1
      /\ \A v \in Users \ {u} : personal'[v] = personal[v]
    BY <1>1, <1>2 DEF PersistIdentity, EnsurePersonal
<1>5. /\ email' \in [Users -> Emails \cup {None}] /\ email'[u] = e
      /\ \A v \in Users \ {u} : email'[v] = email[v] /\ email[v] # e
  <2>1. email' = [email EXCEPT ![u] = e] /\ Owner(e) \subseteq {u}
    BY <1>0 DEF PersistIdentity
  <2> QED BY <1>1, <2>1 DEF Owner
<1>6. \A v, w \in Users : v # w /\ email'[v] = email'[w] => email'[v] = None
    BY <1>5 DEF SignInInv
<1>7. \A v \in Users : IF email'[v] = None THEN Vacant(v)' ELSE Settled(v)'
  <2>1. Settled(u)' /\ email'[u] # None
    BY <1>0, <1>3, <1>4, <1>5 DEF Settled
  <2>2. ASSUME NEW v \in Users \ {u} PROVE IF email'[v] = None THEN Vacant(v)' ELSE Settled(v)'
    BY <1>3, <1>4, <1>5 DEF SignInInv, Settled, Vacant
  <2> QED BY <2>1, <2>2
<1> DEFINE x == [tab[b] EXCEPT !.pc = "issue", !.user = u]
<1>8. x \in Tab /\ x.pc = "issue" /\ x.who = who /\ x.mail = e /\ x.user = u
    BY <1>0 DEF Tab
<1>9. tab' \in [Browsers -> Tab] /\ tab'[b] = x /\ \A c \in Browsers \ {b} : tab'[c] = tab[c]
  <2>1. tab' = [tab EXCEPT ![b] = x]
    BY DEF PersistIdentity
  <2> QED BY <1>1, <1>8, <2>1
<1>10. Signing(b)'
    BY <1>2, <1>8, <1>9 DEF Signing
<1>11. ASSUME NEW c \in Browsers \ {b} PROVE Signing(c)'
  <2>1. Signing(c) /\ (tab[c].pc = "commit" => tab[c].who # who)
    BY <1>0 DEF SignInInv
  <2>2. tab[c].pc = "issue" => account'[tab[c].who] = tab[c].user
    BY <1>2, <2>1, DirectoryConstants DEF Signing
  <2> QED BY <1>2, <1>9, <2>1, <2>2 DEF Signing
<1>12. \A c, d \in Browsers : tab'[c].pc = "commit" /\ tab'[d].pc = "commit" /\ tab'[c].who = tab'[d].who => c = d
  <2>1. tab'[b].pc # "commit"
    BY <1>8, <1>9
  <2>2. \A c \in Browsers : tab'[c].pc = "commit" => tab'[c] = tab[c]
    BY <1>9, <2>1
  <2> QED BY <2>2 DEF SignInInv
<1>13. SignInType' /\ sessions' = sessions
    BY <1>9 DEF PersistIdentity, SignInInv, SignInType
<1>14. SessionIsOwn'
  <2>1. \A s \in sessions : s.by \in Identities /\ s.user \in Users /\ account[s.by] = s.user
    BY DEF SignInInv, Session, SessionIsOwn
  <2> QED BY <1>2, <1>13, <2>1, DirectoryConstants DEF SessionIsOwn
<1> QED BY <1>2, <1>4, <1>5, <1>6, <1>7, <1>10, <1>11, <1>12, <1>13, <1>14 DEF SignInInv

(* Every step keeps the invariant: a request of a member changes nothing   *)
(* that signing in reads or writes.                                        *)
LEMMA StepSignIn == SignInInv /\ [Next]_vars => SignInInv'
<1> SUFFICES ASSUME SignInInv, [Next]_vars PROVE SignInInv'
    OBVIOUS
<1>1. CASE SignInStep
    BY <1>1, OutsideStep, CallbackStep, DecideStep, PersistStep DEF SignInStep
<1>2. CASE MembershipStep /\ UNCHANGED signin
  <2>1. UNCHANGED people /\ sessions' = sessions
    BY <1>2 DEF MembershipStep, CreateTeam, BeginAdd, BeginRemove, BeginRead, BeginToken, InsertToken, CheckAdd,
                CheckRemove, UpsertMember, DeleteMember, Resolve, RequireRole, Refuse, EndToken, directory, people
  <2>2. UNCHANGED tab /\ SignInType'
    BY <1>2 DEF signin, SignInInv, SignInType
  <2> QED BY <2>1, <2>2, AsideStep
<1>3. CASE UNCHANGED vars
  <2>1. UNCHANGED people /\ sessions' = sessions /\ UNCHANGED tab
    BY <1>3 DEF vars, directory, signin, people
  <2>2. SignInType'
    BY <1>3 DEF vars, signin, SignInInv, SignInType
  <2> QED BY <2>1, <2>2, AsideStep
<1> QED BY <1>1, <1>2, <1>3 DEF Next

-----------------------------------------------------------------------------
(* A session is for the user whose connected account authenticated,        *)
(* however many callbacks of the same person are under way and whichever   *)
(* address GitHub gave to each.                                            *)
THEOREM SessionsAreOwn == Spec => []SessionIsOwn
<1>1. SignInInv => SessionIsOwn
    BY DEF SignInInv
<1> QED BY <1>1, InitSignIn, StepSignIn, PTL DEF Spec

(* What hangs on a row, counted. *)
LEMMA SettledHasOne ==
    ASSUME NEW u, Settled(u)
    PROVE  Cardinality(Accounts(u)) = 1 /\ personal[u] = 1
<1>1. PICK g \in Identities : Accounts(u) = {g}
    BY DEF Settled
<1>2. Cardinality({g}) = 1
    BY FS_Singleton
<1> QED BY <1>1, <1>2 DEF Settled

(* A user has one account and one workspace, from the transaction that     *)
(* creates it on: nobody is locked out of an address.                      *)
THEOREM UsersAreWhole == Spec => []UserIsWhole
<1>1. SignInInv => UserIsWhole
    BY SettledHasOne DEF SignInInv, UserIsWhole
<1> QED BY <1>1, InitSignIn, StepSignIn, PTL DEF Spec

(* The bound on requests is only ever spent. *)
Bounded == budget \in Nat

(* A request that comes takes one, no other step takes any. *)
LEMMA BudgetStays == Bounded /\ [Next]_vars => Bounded'
<1> SUFFICES ASSUME Bounded, [Next]_vars PROVE Bounded'
    OBVIOUS
<1>1. CASE UNCHANGED budget
    BY <1>1 DEF Bounded
<1>2. CASE budget > 0 /\ budget' = budget - 1
    BY <1>2 DEF Bounded
<1>3. ASSUME NEW a \in Users, NEW t \in Teams, CreateTeam(a, t) PROVE Bounded'
    BY <1>2, <1>3 DEF CreateTeam
<1>4. ASSUME NEW q \in Requests, NEW r, Come(q, r) PROVE Bounded'
    BY <1>2, <1>4 DEF Come
<1>5. ASSUME NEW q \in Requests, NEW a \in Users, NEW t \in Teams,
             \/ \E e \in Emails, r \in Roles : BeginAdd(q, a, t, e, r)
             \/ \E u \in Users : BeginRemove(q, a, t, u)
             \/ \E k \in Tokens \cup {None} : BeginRead(q, a, k, t)
      PROVE  Bounded'
    BY <1>4, <1>5 DEF BeginAdd, BeginRemove, BeginRead
<1>6. ASSUME NEW q \in Requests, NEW a \in Users, NEW scope \in Teams \cup {None}, BeginToken(q, a, scope)
      PROVE  Bounded'
    BY <1>4, <1>6 DEF BeginToken
<1>7. ASSUME NEW q \in Requests,
             \/ \E k \in Tokens : InsertToken(q, k)
             \/ CheckAdd(q) \/ CheckRemove(q) \/ UpsertMember(q) \/ DeleteMember(q)
             \/ Resolve(q) \/ RequireRole(q) \/ Refuse(q)
      PROVE  Bounded'
    BY <1>1, <1>7 DEF InsertToken, CheckAdd, CheckRemove, UpsertMember, DeleteMember, Resolve, RequireRole, Refuse
<1>8. ASSUME NEW k \in Tokens, EndToken(k) PROVE Bounded'
    BY <1>1, <1>8 DEF EndToken
<1>9. CASE MembershipStep
    BY <1>3, <1>5, <1>6, <1>7, <1>8, <1>9 DEF MembershipStep
<1> QED BY <1>1, <1>9 DEF Next, vars, membership

(* The tables keep their types and the uniqueness of users.email and       *)
(* github_accounts.user_id, whatever sign-ins and requests interleave.     *)
THEOREM AccountTypes == Spec => []TypeOK
<1>1. Init => Bounded
    BY AccountConstants DEF Init, Bounded
<1>2. SignInInv /\ TeamInv /\ Bounded => TypeOK
  <2> SUFFICES ASSUME SignInInv, TeamInv, Bounded PROVE TypeOK
    OBVIOUS
  <2>1. ASSUME NEW u \in Users PROVE Cardinality(Accounts(u)) <= 1
    <3>1. CASE Settled(u)
      BY <3>1, SettledHasOne
    <3>2. CASE Accounts(u) = {}
      BY <3>2, FS_EmptySet
    <3> QED BY <3>1, <3>2 DEF SignInInv, Vacant
  <2>2. DirectoryType
    BY <2>1 DEF DirectoryType, SignInInv, TeamInv, Typed
  <2>3. MembershipType
    BY DEF MembershipType, TeamInv, Typed, Bounded
  <2> QED BY <2>2, <2>3 DEF TypeOK, SignInInv
<1> QED BY <1>1, <1>2, BudgetStays, InitSignIn, StepSignIn, InitTeams, StepTeams, PTL DEF Spec
=============================================================================
