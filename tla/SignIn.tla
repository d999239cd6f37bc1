-------------------------------- MODULE SignIn --------------------------------
(***************************************************************************)
(* Signing in with GitHub, gateway/src/routes/auth.rs, with the sessions   *)
(* of sessions.rs and the calls of github.rs.  A callback runs in a        *)
(* browser; the same browser may come back with a state it has used, and   *)
(* two browsers may sign in the same person.                               *)
(***************************************************************************)
EXTENDS Directory

CONSTANTS States      \* OAuth states; they bound the sign-ins

VARIABLES mail,       \* mail[g]: the verified address of a person on GitHub
          oauth,      \* oauth[st]: the state in Redis
          tab,        \* tab[b]: the callback under way in b
          mailChanges \* bound: changes of address that are left

signin == <<mail, oauth, tab, mailChanges>>

NoTab == [pc |-> "off", who |-> None, mail |-> None, user |-> None]
Tab == [pc : {"off", "exchange", "lock", "commit", "issue"}, who : Identities \cup {None},
        mail : Emails \cup {None}, user : Users \cup {None}]

SignInType ==
    /\ mail \in [Identities -> Emails]
    /\ oauth \in [States -> {"new", "stored", "gone"}]
    /\ tab \in [Browsers -> Tab]
    /\ mailChanges \in Nat

(* GitHub lets an address be verified by one account only. *)
ChangeMail(g, e) ==
    /\ mailChanges > 0 /\ e \notin {mail[h] : h \in Identities}
    /\ mail' = [mail EXCEPT ![g] = e]
    /\ mailChanges' = mailChanges - 1
    /\ UNCHANGED <<directory, oauth, tab>>

(* github_login: a state is stored for the redirect to GitHub. *)
GithubLogin(st) ==
    /\ oauth[st] = "new"
    /\ oauth' = [oauth EXCEPT ![st] = "stored"]
    /\ UNCHANGED <<directory, mail, tab, mailChanges>>

ExpireState(st) ==
    /\ oauth[st] = "stored"
    /\ oauth' = [oauth EXCEPT ![st] = "gone"]
    /\ UNCHANGED <<directory, mail, tab, mailChanges>>

(* github_callback: a state is used up by the first callback that has it.  *)
ConsumeState(b, st) ==
    /\ tab[b].pc = "off" /\ oauth[st] = "stored"
    /\ oauth' = [oauth EXCEPT ![st] = "gone"]
    /\ tab' = [tab EXCEPT ![b].pc = "exchange"]
    /\ UNCHANGED <<directory, mail, mailChanges>>

(* exchange_code and fetch_user: who it is, and the address of then. *)
FetchUser(b, g) ==
    /\ tab[b].pc = "exchange"
    /\ tab' = [tab EXCEPT ![b].pc = "lock", ![b].who = g, ![b].mail = mail[g]]
    /\ UNCHANGED <<directory, mail, oauth, mailChanges>>

(* The callback ends without a session: refused on GitHub, a call failed,  *)
(* or the transaction was rolled back.                                     *)
Abandon(b) ==
    /\ tab[b].pc # "off"
    /\ tab' = [tab EXCEPT ![b] = NoTab]
    /\ UNCHANGED <<directory, mail, oauth, mailChanges>>

(* Mutant: nothing is locked. *)
IdentityAnyway(b) == b \in Browsers

(* pg_advisory_xact_lock on the GitHub id, held until the transaction ends. *)
IdentityFree(b) == \A c \in Browsers : tab[c].pc = "commit" => tab[c].who # tab[b].who

(* SELECT ... FOR UPDATE of the row that has the address. *)
RowFree(u) == \A c \in Browsers : tab[c].pc = "commit" => tab[c].user # u

Owner(e) == {u \in Users : email[u] = e}

(* Mutant: the user is looked up by address alone. *)
DecideByMail(b) ==
    /\ tab[b].pc = "lock" /\ IdentityFree(b)
    /\ LET same == Owner(tab[b].mail) IN
       tab' = [tab EXCEPT ![b].pc = "commit",
                ![b].user = IF same = {} THEN None ELSE CHOOSE u \in same : TRUE]
    /\ UNCHANGED <<directory, mail, oauth, mailChanges>>

(* persist_identity up to its writes: the user of the account, or of the   *)
(* address when no account is connected to it (an address of another       *)
(* identity is a conflict: Abandon), or a new one.                         *)
Decide(b) ==
    /\ tab[b].pc = "lock" /\ IdentityFree(b)
    /\ LET known == account[tab[b].who]
           same == Owner(tab[b].mail) IN
       \/ known # None /\ tab' = [tab EXCEPT ![b].user = known, ![b].pc = "commit"]
       \/ /\ known = None
          /\ \A u \in same : RowFree(u) /\ Accounts(u) = {}
          /\ tab' = [tab EXCEPT ![b].pc = "commit",
                ![b].user = IF same = {} THEN None ELSE CHOOSE u \in same : TRUE]
    /\ UNCHANGED <<directory, mail, oauth, mailChanges>>

(* ensure_personal_organization. *)
EnsurePersonal(u) == personal' = [personal EXCEPT ![u] = IF @ = 0 THEN 1 ELSE @]

(* Mutant: users.email is not unique. *)
PersistIdentityAnyMail(b, u) ==
    /\ tab[b].pc = "commit"
    /\ IF tab[b].user = None THEN email[u] = None ELSE u = tab[b].user
    /\ email' = [email EXCEPT ![u] = tab[b].mail]
    /\ IF account[tab[b].who] = None
       THEN Accounts(u) = {} /\ account' = [account EXCEPT ![tab[b].who] = u]
       ELSE UNCHANGED account
    /\ EnsurePersonal(u)
    /\ tab' = [tab EXCEPT ![b].pc = "issue", ![b].user = u]
    /\ UNCHANGED <<role, sessions, mail, oauth, mailChanges>>

(* The writes of persist_identity.  The unique columns fail the            *)
(* transaction; ON CONFLICT (github_user_id) leaves the user of an account *)
(* that is there.                                                          *)
PersistIdentity(b, u) ==
    /\ tab[b].pc = "commit"
    /\ IF tab[b].user = None THEN email[u] = None ELSE u = tab[b].user
    /\ Owner(tab[b].mail) \subseteq {u}
    /\ email' = [email EXCEPT ![u] = tab[b].mail]
    /\ IF account[tab[b].who] = None
       THEN Accounts(u) = {} /\ account' = [account EXCEPT ![tab[b].who] = u]
       ELSE UNCHANGED account
    /\ EnsurePersonal(u)
    /\ tab' = [tab EXCEPT ![b].pc = "issue", ![b].user = u]
    /\ UNCHANGED <<role, sessions, mail, oauth, mailChanges>>

(* sessions::issue, and the cookie. *)
IssueSession(b) ==
    /\ tab[b].pc = "issue"
    /\ sessions' = sessions \cup {[browser |-> b, user |-> tab[b].user, by |-> tab[b].who]}
    /\ tab' = [tab EXCEPT ![b] = NoTab]
    /\ UNCHANGED <<email, account, personal, role, mail, oauth, mailChanges>>

(* logout, or the session expires. *)
Logout(s) ==
    /\ s \in sessions
    /\ sessions' = sessions \ {s}
    /\ UNCHANGED <<email, account, personal, role, signin>>

SignInStep ==
    \/ \E g \in Identities, e \in Emails : ChangeMail(g, e)
    \/ \E st \in States : GithubLogin(st) \/ ExpireState(st)
    \/ \E b \in Browsers :
          \/ \E st \in States : ConsumeState(b, st)
          \/ \E g \in Identities : FetchUser(b, g)
          \/ \E u \in Users : PersistIdentity(b, u)
          \/ Decide(b) \/ IssueSession(b) \/ Abandon(b)
    \/ \E s \in sessions : Logout(s)

-----------------------------------------------------------------------------
(* "Two callback tabs for the same identity serialize before either        *)
(* decides": a session is for the user whose connected GitHub account      *)
(* authenticated, also when the person's address changed between the tabs. *)
SessionIsOwn == \A s \in sessions : account[s.by] = s.user

(* Every user has one connected account and one personal workspace, so     *)
(* that link_to_personal_organization finds it and no sign-in meets a user *)
(* that nobody can sign in as.                                             *)
UserIsWhole ==
    \A u \in Users : email[u] # None => Cardinality(Accounts(u)) = 1 /\ personal[u] = 1
=============================================================================
