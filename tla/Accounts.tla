------------------------------- MODULE Accounts -------------------------------
(* Users, sessions and the first administrator of the bootstrap tenant:      *)
(* repository.py:632-788, the routes app.py:773-850, scripts/manage_user.py. *)
(* A password is named after its number among those its user has had. The    *)
(* script is two steps, because it looks the user up without a lock before   *)
(* it prompts for the password, and so is a login, which reads the user      *)
(* without a lock and spends 210000 hash rounds before it writes; a setup is *)
(* two, between which it holds the advisory lock of the tenant.              *)
EXTENDS Naturals, FiniteSets

CONSTANTS
    Emails,
    Logins,         \* POST /auth/login, and the login that ends a setup
    Setups,         \* POST /auth/bootstrap-admin with the setup key
    Scripts,        \* terminals that run the script
    MaxPasswords,   \* bound on the passwords of a user
    NoEmail

ASSUME AccountsAssumption == MaxPasswords \in Nat /\ NoEmail \notin Emails

VARIABLES
    users,          \* email -> its row; password 0 is no row
    login,          \* login -> the user it has verified, then its session; spared marks,
                    \* as a history, one that a script left open under an old password
    setup,          \* setup -> the email it is about to activate
    prompt,         \* script -> the email whose password it prompts for
    recoveryId,     \* ADMIN_RECOVERY_ID is set, to an id of its own
    initialSetups, recoveries   \* audit rows auth.bootstrap_admin, auth.recover_admin

accountVars == <<users, login, setup, prompt, recoveryId, initialSetups, recoveries>>

NoUser == [active |-> FALSE, admin |-> FALSE, initial |-> FALSE, password |-> 0]
NoLogin == [at |-> "idle", email |-> NoEmail, opened |-> 0, spared |-> FALSE]
Ended == [at |-> "revoked", email |-> NoEmail, opened |-> 0, spared |-> FALSE]
NoSetup == [email |-> NoEmail, existed |-> FALSE, recovery |-> FALSE]
NoPrompt == [email |-> NoEmail, existed |-> FALSE]
SessionsOf(e) == {l \in Logins : login[l].at = "session" /\ login[l].email = e}
Live(l) == login[l].at = "session" /\ users[login[l].email].active
Initialized == \E e \in Emails : users[e].active /\ users[e].admin
RowLocked(e) == \E s \in Setups : setup[s].email = e /\ setup[s].existed

UserRow == [active: BOOLEAN, admin: BOOLEAN, initial: BOOLEAN, password: 0 .. MaxPasswords]
LoginRow == [at: {"idle", "verified", "session", "revoked"}, email: Emails \cup {NoEmail},
             opened: 0 .. MaxPasswords, spared: BOOLEAN]

AccountsTypeOK ==
    /\ users \in [Emails -> UserRow]
    /\ login \in [Logins -> LoginRow]
    /\ setup \in [Setups -> [email: Emails \cup {NoEmail}, existed: BOOLEAN, recovery: BOOLEAN]]
    /\ prompt \in [Scripts -> [email: Emails \cup {NoEmail}, existed: BOOLEAN]]
    /\ recoveryId \in BOOLEAN
    /\ initialSetups \in Nat /\ recoveries \in Nat

AccountsInit ==
    /\ users = [e \in Emails |-> NoUser]
    /\ login = [l \in Logins |-> NoLogin]
    /\ setup = [s \in Setups |-> NoSetup]
    /\ prompt = [m \in Scripts |-> NoPrompt]
    /\ recoveryId = FALSE
    /\ initialSetups = 0
    /\ recoveries = 0

VerifyPassword(l, e) ==
    /\ login[l].at = "idle"
    /\ users[e].active
    /\ login' = [login EXCEPT ![l].at = "verified", ![l].email = e]
    /\ UNCHANGED <<users, setup, prompt, recoveryId, initialSetups, recoveries>>

(* Nothing reads the user again: a login that has verified the password     *)
(* opens its session although the user was disabled or reset meanwhile.     *)
OpenSession(l) ==
    /\ login[l].at = "verified"
    /\ ~RowLocked(login[l].email)
    /\ login' = [login EXCEPT ![l].at = "session", ![l].opened = users[login[l].email].password]
    /\ UNCHANGED <<users, setup, prompt, recoveryId, initialSetups, recoveries>>

SessionExpires(l) ==
    /\ login[l].at = "session"
    /\ login' = [login EXCEPT ![l] = Ended]
    /\ UNCHANGED <<users, setup, prompt, recoveryId, initialSetups, recoveries>>

(* Activates a user with a new password and revokes its sessions.           *)
Activates(e, admin, initial) ==
    /\ users[e].password < MaxPasswords
    /\ users' = [users EXCEPT ![e] = [active |-> TRUE, admin |-> admin, initial |-> initial,
                                      password |-> @.password + 1]]
Revokes(e) == login' = [l \in Logins |-> IF l \in SessionsOf(e) THEN Ended ELSE login[l]]

(* The script looks the user up, and waits for the operator to type.        *)
BeginManage(m, e) ==
    /\ prompt[m] = NoPrompt
    /\ prompt' = [prompt EXCEPT ![m] = [email |-> e, existed |-> users[e] # NoUser]]
    /\ UNCHANGED <<users, login, setup, recoveryId, initialSetups, recoveries>>

(* The upsert overwrites a row that came meanwhile, but only the sessions of*)
(* one that was there before the prompt are revoked.                        *)
CommitManage(m, admin) ==
    LET e == prompt[m].email
    IN  /\ e # NoEmail /\ ~RowLocked(e)
        /\ Activates(e, admin, FALSE)
        /\ \/ prompt[m].existed /\ Revokes(e)
           \/ /\ ~prompt[m].existed
              /\ login' = [l \in Logins |-> IF l \in SessionsOf(e)
                            THEN [login[l] EXCEPT !.spared = TRUE] ELSE login[l]]
        /\ prompt' = [prompt EXCEPT ![m] = NoPrompt]
        /\ UNCHANGED <<setup, recoveryId, initialSetups, recoveries>>

(* The two entries differ, or the password is too weak.                     *)
ManageStops(m) ==
    /\ prompt[m] # NoPrompt
    /\ prompt' = [prompt EXCEPT ![m] = NoPrompt]
    /\ UNCHANGED <<users, login, setup, recoveryId, initialSetups, recoveries>>

DisableUser(e) ==
    /\ users[e] # NoUser /\ ~RowLocked(e)
    /\ users' = [users EXCEPT ![e].active = FALSE]
    /\ Revokes(e)
    /\ UNCHANGED <<setup, prompt, recoveryId, initialSetups, recoveries>>

(* A setup that takes no lock before it reads.                              *)
BeginSetupUnlocked(s, e) ==
    /\ setup[s] = NoSetup
    /\ IF recoveryId THEN recoveries = 0 ELSE ~Initialized
    /\ ~users[e].active
    /\ setup' = [setup EXCEPT ![s] = [email |-> e, existed |-> users[e] # NoUser,
                                      recovery |-> recoveryId]]
    /\ UNCHANGED <<users, login, prompt, recoveryId, initialSetups, recoveries>>

(* An initialized tenant is refused unless an unused recovery id is set, and*)
(* so is an email that is active already.                                   *)
BeginSetup(s, e) ==
    /\ \A other \in Setups : setup[other] = NoSetup
    /\ IF recoveryId THEN recoveries = 0 ELSE ~Initialized
    /\ ~users[e].active
    /\ setup' = [setup EXCEPT ![s] = [email |-> e, existed |-> users[e] # NoUser,
                                      recovery |-> recoveryId]]
    /\ UNCHANGED <<users, login, prompt, recoveryId, initialSetups, recoveries>>

(* A setup that trusts the disabling of the user to have ended its sessions.*)
CommitSetupKeepsSessions(s) ==
    LET e == setup[s].email
    IN  /\ e # NoEmail /\ (setup[s].existed \/ users[e] = NoUser)
        /\ Activates(e, TRUE, ~setup[s].recovery)
        /\ setup' = [setup EXCEPT ![s] = NoSetup]
        /\ initialSetups' = IF setup[s].recovery THEN initialSetups ELSE initialSetups + 1
        /\ recoveries' = IF setup[s].recovery THEN recoveries + 1 ELSE recoveries
        /\ UNCHANGED <<login, prompt, recoveryId>>

(* An email that the script inserted meanwhile is a unique violation.       *)
CommitSetup(s) ==
    LET e == setup[s].email
    IN  /\ e # NoEmail /\ (setup[s].existed \/ users[e] = NoUser)
        /\ Activates(e, TRUE, ~setup[s].recovery)
        /\ Revokes(e)
        /\ setup' = [setup EXCEPT ![s] = NoSetup]
        /\ initialSetups' = IF setup[s].recovery THEN initialSetups ELSE initialSetups + 1
        /\ recoveries' = IF setup[s].recovery THEN recoveries + 1 ELSE recoveries
        /\ UNCHANGED <<prompt, recoveryId>>

SetupFails(s) ==
    /\ setup[s] # NoSetup
    /\ setup' = [setup EXCEPT ![s] = NoSetup]
    /\ UNCHANGED <<users, login, prompt, recoveryId, initialSetups, recoveries>>

(* The operator redeploys with or without the recovery id.                  *)
Redeploy ==
    /\ recoveryId' = ~recoveryId
    /\ UNCHANGED <<users, login, setup, prompt, initialSetups, recoveries>>

AccountsNext ==
    \/ \E l \in Logins :
        (\E e \in Emails : VerifyPassword(l, e)) \/ OpenSession(l) \/ SessionExpires(l)
    \/ \E m \in Scripts :
        \/ \E e \in Emails : BeginManage(m, e)
        \/ \E admin \in BOOLEAN : CommitManage(m, admin)
        \/ ManageStops(m)
    \/ \E e \in Emails : DisableUser(e)
    \/ \E s \in Setups : (\E e \in Emails : BeginSetup(s, e)) \/ CommitSetup(s) \/ SetupFails(s)
    \/ Redeploy

AccountsSpec == AccountsInit /\ [][AccountsNext]_accountVars

-----------------------------------------------------------------------------
(* A new password ends every session that was open under another, also the  *)
(* one a slow login opened after its user was disabled: a live session was  *)
(* opened under the password of today, but for those that a script spares,  *)
(* because their user appeared while it prompted (repository.py:704-719,    *)
(* manage_user.py:41-90).                                                   *)
SessionsEndWithPassword ==
    \A l \in Logins :
        Live(l) => login[l].opened = users[login[l].email].password \/ login[l].spared

(* Two setups at once make one administrator: of the active users one at    *)
(* most is an initial administrator, and a recovery id works once           *)
(* (repository.py:658-692).                                                 *)
AdministratorMadeOnce ==
    /\ Cardinality({e \in Emails : users[e].active /\ users[e].initial}) <= 1
    /\ recoveries <= 1

(* "The endpoint [...] closes permanently for that tenant after an          *)
(* administrator exists" (README.md:218).                                   *)
BootstrapClosesForGood == initialSetups <= 1
=============================================================================
