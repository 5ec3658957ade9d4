------------------------------- MODULE Identity -------------------------------
(***************************************************************************)
(* Local accounts of the appliance: passwords with their retry delay, web  *)
(* sessions, TOTP with recovery codes, API tokens with the client          *)
(* certificates they need, the bootstrap secret of the set-up program, and *)
(* the audit chain every administrative change is committed with.          *)
(*                                                                         *)
(* One control thread serves one request at a time, so a request is one    *)
(* action; where a handler commits several transactions (a password        *)
(* change, a bootstrap) the action may stop after each of them.  The       *)
(* set-up program is another process with a connection of its own.         *)
(*                                                                         *)
(* "db" is the part of the database these handlers use.  Secrets are       *)
(* abstract: a password is a model value, a TOTP secret a serial number,   *)
(* and whoever presents a session presents its CSRF value and comes from   *)
(* its address (anything else is refused and changes nothing).  A request  *)
(* that is refused leaves everything as it is, and is a stuttering step.   *)
(***************************************************************************)
EXTENDS Naturals, Sequences, FiniteSets

CONSTANTS
    Users,             \* user names
    Passwords,         \* passwords
    Certificates,      \* fingerprints of client certificates
    GivenRoles,        \* the roles requests ask for
    RecoveryCodes,     \* the codes handed out when TOTP is confirmed
    SessionLifetime,   \* MANAGEMENT_SESSION_LIFETIME
    Inactivity,        \* MANAGEMENT_SESSION_INACTIVITY
    BootstrapLifetime, \* JG_ACCOUNT_BOOTSTRAP_LIFETIME_MAX
    MaxDelay,          \* greatest retry delay of an account
    MaxTime,           \* bound: time stands still there
    MaxSteps,          \* bound: state-changing requests of a behaviour
    MaxSessions,       \* bound: rows of web_sessions
    MaxTokens          \* bound: rows of api_tokens

VARIABLES
    db,       \* users, sessions, tokens, mappings, bootstrap and audit rows
    now,      \* wall clock
    fresh,    \* serial number of the latest random secret
    saved,    \* database of the latest full backup, or <<>>
    steps,    \* requests so far, for the bound
    changes   \* history: audited changes that were committed

vars == <<db, now, fresh, saved, steps, changes>>

-----------------------------------------------------------------------------
(* Roles and permissions.                                                  *)

Roles == {"administrator", "operator", "auditor"}

\* The permissions that tell the roles apart here: of the twelve bits, one
\* every role has, one of the operator, one of the auditor, and the two that
\* guard the requests of this module.
AllPermissions ==
    {"status_read", "policy_write", "audit_read", "access_write", "security_write"}

RolePermissions(role) ==
    CASE role = "administrator" -> AllPermissions
      [] role = "operator"      -> {"status_read", "policy_write"}
      [] role = "auditor"       -> {"status_read", "audit_read"}

-----------------------------------------------------------------------------
(* Rows.                                                                   *)

Exists(d, u) == u \in DOMAIN d.user

UsersExist(d) == DOMAIN d.user # {}

\* A new account: revision and session epoch start at one.
NewUser(role, pw, force) ==
    [role |-> role, enabled |-> TRUE, force |-> force, pw |-> pw,
     revision |-> 1, epoch |-> 1, failed |-> 0, locked |-> 0,
     totp |-> "none", key |-> 0, codes |-> {}]

\* The table of users with one row more.
UserInserted(d, u, row) ==
    [d EXCEPT !.user = [v \in {u} \cup DOMAIN @ |-> IF v = u THEN row ELSE @[v]]]

EnabledAdministrators(d) ==
    {u \in DOMAIN d.user : d.user[u].enabled /\ d.user[u].role = "administrator"}

WithoutSessions(d, u) ==
    [d EXCEPT !.sessions = {s \in @ : s.user # u}]

\* Tokens already revoked keep their row.
WithTokensRevoked(d, u) ==
    [d EXCEPT !.tokens = {IF t.user = u THEN [t EXCEPT !.revoked = TRUE] ELSE t : t \in @}]

FreeId(rows, bound) == {i \in 1..bound : \A r \in rows : r.id # i}

\* Revision and epoch advance together: every session of the account dies
\* with the old epoch.
Advanced(user) ==
    [user EXCEPT !.revision = @ + 1, !.epoch = @ + 1]

\* The append of one audit event inside the transaction of the change: it
\* reads the hash of the newest row and chains to it.
LatestHash(d) == IF d.audit = <<>> THEN 0 ELSE d.audit[Len(d.audit)].hash

\* The hash of an event covers the one before it; its material is left out.
EventHash(previous) == previous + 1

Audited(d) ==
    [d EXCEPT !.audit = Append(@, [previous |-> LatestHash(d),
                                   hash |-> EventHash(LatestHash(d))])]

\* jg_database_audit_verify: the whole chain from its first row.
ChainVerifies(audit) ==
    \A i \in 1..Len(audit) :
        /\ audit[i].previous = IF i = 1 THEN 0 ELSE audit[i - 1].hash
        /\ audit[i].hash = EventHash(audit[i].previous)

-----------------------------------------------------------------------------
(* Sessions.                                                               *)

\* What a login proved, kept as history in the row of the session: the
\* password, the TOTP secret of the second factor (0: none) and the role.
Proof(user, factor) ==
    [pw |-> user.pw, key |-> factor, role |-> user.role]

SessionIssued(d, u, factor, id) ==
    [d EXCEPT !.sessions = @ \cup
        {[id |-> id, user |-> u, epoch |-> d.user[u].epoch,
          expires |-> now + SessionLifetime, seen |-> now,
          proof |-> Proof(d.user[u], factor)]}]

\* What the database says of the second factor of an account.
TotpRequired(user) == user.totp = "enabled"

\* A session is only issued to an identity that finished its factors.
SessionAllowed(user, factor) == TotpRequired(user) => factor # 0

SessionMatchesUser(d, s) ==
    /\ Exists(d, s.user)
    /\ d.user[s.user].enabled
    /\ s.epoch = d.user[s.user].epoch

SessionAccepted(d, s, t) ==
    /\ SessionMatchesUser(d, s)
    /\ s.expires > t
    /\ s.seen <= t
    /\ t - s.seen <= Inactivity

SessionTouched(d, s) ==
    [d EXCEPT !.sessions = (@ \ {s}) \cup {[s EXCEPT !.seen = now]}]

-----------------------------------------------------------------------------
(* Tokens and client certificates.                                         *)

TokenAccepted(d, k, t) ==
    /\ Exists(d, k.user)
    /\ ~k.revoked
    /\ d.user[k.user].enabled
    /\ ~d.user[k.user].force
    /\ k.expires = 0 \/ k.expires > t
    /\ k.scopes \cap RolePermissions(d.user[k.user].role) # {}

\* What a token may do is cut down to the present role of its owner.
TokenPermissions(d, k) == k.scopes \cap RolePermissions(d.user[k.user].role)

CertificateAuthorizes(d, c, u, t) ==
    \E m \in d.mappings :
        /\ m.certificate = c
        /\ ~m.revoked
        /\ m.until >= t
        /\ m.subject = u \/ m.subject = d.user[u].role

-----------------------------------------------------------------------------
(* Actors.  The local administrator of the control socket presents nothing *)
(* and may do everything; a browser presents its session; a program its    *)
(* token and the certificate of its TLS connection.                        *)

Local == [kind |-> "local"]

Actors ==
    {Local}
    \cup {[kind |-> "session", row |-> s] : s \in db.sessions}
    \cup {[kind |-> "token", row |-> k, certificate |-> c] :
             k \in db.tokens, c \in Certificates}

\* Permissions authenticate_actor grants; a user who must change his
\* password gets none.
Granted(a) ==
    CASE a.kind = "local" -> AllPermissions
      [] a.kind = "session" ->
            IF SessionAccepted(db, a.row, now) /\ ~db.user[a.row.user].force
            THEN RolePermissions(db.user[a.row.user].role) ELSE {}
      [] a.kind = "token" ->
            IF /\ TokenAccepted(db, a.row, now)
               /\ CertificateAuthorizes(db, a.certificate, a.row.user, now)
            THEN TokenPermissions(db, a.row) ELSE {}

\* The database after the activity of the actor was recorded.
Recorded(a) == IF a.kind = "session" THEN SessionTouched(db, a.row) ELSE db

May(a, permission) == permission \in Granted(a)

\* A request of the bounded behaviour that changes the database to d.
Commit(d) ==
    /\ steps < MaxSteps
    /\ steps' = steps + 1
    /\ db' = d
    /\ UNCHANGED <<now, saved>>

\* The change and its audit event are one transaction.
CommitAudited(d) ==
    /\ Commit(Audited(d))
    /\ changes' = changes + 1
    /\ UNCHANGED fresh

CommitPlain(d) == Commit(d) /\ UNCHANGED <<fresh, changes>>

-----------------------------------------------------------------------------
(* First access.                                                           *)

\* The set-up program issues the secret anew each time it runs on an
\* appliance without users; the latest one replaces the row.
BootstrapIssue ==
    /\ ~UsersExist(db)
    /\ fresh' = fresh + 1
    /\ Commit([db EXCEPT !.bootstrap =
                  [secret |-> fresh + 1, expires |-> now + BootstrapLifetime,
                   consumed |-> FALSE]])
    /\ UNCHANGED changes

BootstrapVerified(d, secret) ==
    /\ d.bootstrap.secret = secret
    /\ d.bootstrap.secret # 0
    /\ ~d.bootstrap.consumed
    /\ d.bootstrap.expires > now

AdministratorInserted(d, u, pw) ==
    UserInserted(d, u, NewUser("administrator", pw, FALSE))

BootstrapConsumed(d) == [d EXCEPT !.bootstrap.consumed = TRUE]

\* One transaction creates the administrator and consumes the secret.
InitialAdministratorAllowed(d, secret, u) ==
    /\ ~UsersExist(d)
    /\ ~Exists(d, u)
    /\ BootstrapVerified(d, secret)

InitialAdministrator(d, u, pw) == BootstrapConsumed(AdministratorInserted(d, u, pw))

\* The session that follows may fail.
Bootstrap(secret, u, pw) ==
    /\ InitialAdministratorAllowed(db, secret, u)
    /\ LET d == InitialAdministrator(db, u, pw)
       IN  \/ CommitPlain(d)
           \/ \E id \in FreeId(d.sessions, MaxSessions) :
                  CommitPlain(SessionIssued(d, u, 0, id))

-----------------------------------------------------------------------------
(* Logging in.                                                             *)

RetryDelay(n) == IF n > 4 \/ 2 ^ (n - 1) > MaxDelay THEN MaxDelay ELSE 2 ^ (n - 1)

\* A wrong password inside the delay is refused without being counted.
LoginFailure(d, u) ==
    LET n == d.user[u].failed + 1
    IN  [d EXCEPT !.user[u].failed = n, !.user[u].locked = now + RetryDelay(n)]

LoginSuccess(d, u) ==
    [d EXCEPT !.user[u].failed = 0, !.user[u].locked = 0]

\* The right password of an enabled account always passes.
PasswordAccepted(d, u, pw) ==
    Exists(d, u) /\ d.user[u].enabled /\ d.user[u].pw = pw

WrongPassword(u, pw) ==
    /\ Exists(db, u)
    /\ db.user[u].enabled
    /\ db.user[u].pw # pw
    /\ db.user[u].locked <= now
    /\ CommitPlain(LoginFailure(db, u))

RecoveryCodeConsumed(d, u, c) == [d EXCEPT !.user[u].codes = @ \ {c}]

\* The second factor: none where TOTP is off, else a code of the enabled
\* secret or a recovery code, which is spent.
FactorCompleted(d, u) ==
    IF ~TotpRequired(d.user[u])
    THEN {[db |-> d, factor |-> 0]}
    ELSE {[db |-> d, factor |-> d.user[u].key]}
         \cup {[db |-> RecoveryCodeConsumed(d, u, c), factor |-> d.user[u].key] :
                  c \in d.user[u].codes}

\* A login without (or with a wrong) second factor, or whose session cannot
\* be stored, has still reset the failures, and spent its recovery code.
Login(u, pw) ==
    /\ PasswordAccepted(db, u, pw)
    /\ LET d == LoginSuccess(db, u)
       IN  \/ CommitPlain(d)
           \/ \E m \in FactorCompleted(d, u) :
                \/ CommitPlain(m.db)
                \/ \E id \in FreeId(m.db.sessions, MaxSessions) :
                     /\ SessionAllowed(m.db.user[u], m.factor)
                     /\ CommitPlain(SessionIssued(m.db, u, m.factor, id))

SessionRevoked(d, s) == [d EXCEPT !.sessions = @ \ {s}]

Logout(s) ==
    /\ SessionAccepted(db, s, now)
    /\ CommitPlain(SessionRevoked(db, s))

\* Any other request of a session: its activity is recorded.
UseSession(s) ==
    /\ SessionAccepted(db, s, now)
    /\ s.seen # now
    /\ CommitPlain(SessionTouched(db, s))

-----------------------------------------------------------------------------
(* Accounts.                                                               *)

UserCreate(a, u, role, pw, force) ==
    /\ ~Exists(db, u)
    /\ May(a, "access_write")
    /\ CommitAudited(UserInserted(Recorded(a), u, NewUser(role, pw, force)))

\* Mutant: a demotion is not counted as a loss.
AdministratorLostByDisabling(d, u, role, enabled) ==
    /\ u \in EnabledAdministrators(d)
    /\ ~enabled
    /\ Cardinality(EnabledAdministrators(d)) <= 1

\* Refused when it would take the last enabled administrator away.
AdministratorLost(d, u, role, enabled) ==
    /\ u \in EnabledAdministrators(d)
    /\ ~enabled \/ role # "administrator"
    /\ Cardinality(EnabledAdministrators(d)) <= 1

UserUpdated(d, u, role, enabled, force) ==
    LET e == WithoutSessions(
               [d EXCEPT !.user[u] = [Advanced(@) EXCEPT !.role = role,
                                        !.enabled = enabled, !.force = force]], u)
    IN  IF enabled THEN e ELSE WithTokensRevoked(e, u)

UserUpdate(a, u, revision, role, enabled, force) ==
    /\ Exists(db, u)
    /\ db.user[u].revision = revision
    /\ ~AdministratorLost(db, u, role, enabled)
    /\ May(a, "access_write")
    /\ CommitAudited(UserUpdated(Recorded(a), u, role, enabled, force))

PasswordReset(d, u, pw, force) ==
    WithTokensRevoked(
        WithoutSessions(
            [d EXCEPT !.user[u] = [Advanced(@) EXCEPT !.pw = pw, !.force = force,
                                     !.failed = 0, !.locked = 0]], u), u)

UserPasswordReset(a, u, revision, pw, force) ==
    /\ Exists(db, u)
    /\ db.user[u].revision = revision
    /\ May(a, "access_write")
    /\ CommitAudited(PasswordReset(Recorded(a), u, pw, force))

\* The user replaces his own password; the session that asked for it is
\* gone with all the others, and a new one inherits its second factor.
PasswordChange(s, old, new) ==
    /\ SessionAccepted(db, s, now)
    /\ old # new
    /\ PasswordAccepted(db, s.user, old)
    /\ LET u == s.user
           d == PasswordReset(LoginSuccess(SessionTouched(db, s), u), u, new, FALSE)
       IN  \/ CommitAudited(d)
           \/ \E id \in FreeId(d.sessions, MaxSessions) :
                CommitAudited(SessionIssued(d, u, s.proof.key, id))

\* A wrong present password counts as a failed login.
PasswordChangeRefused(s, old) ==
    /\ SessionAccepted(db, s, now)
    /\ db.user[s.user].pw # old
    /\ db.user[s.user].locked <= now
    /\ CommitPlain(LoginFailure(SessionTouched(db, s), s.user))

-----------------------------------------------------------------------------
(* TOTP.                                                                   *)

\* A new secret waits for its confirmation; a waiting one is replaced.
TotpPending(d, u, key) ==
    [d EXCEPT !.user[u].totp = "pending", !.user[u].key = key, !.user[u].codes = {}]

TotpProvision(s) ==
    /\ SessionAccepted(db, s, now)
    /\ ~TotpRequired(db.user[s.user])
    /\ fresh' = fresh + 1
    /\ Commit(TotpPending(SessionTouched(db, s), s.user, fresh + 1))
    /\ UNCHANGED changes

\* Mutant: the sessions from before the second factor stay.
TotpEnabledOnly(d, u) ==
    [d EXCEPT !.user[u].totp = "enabled", !.user[u].codes = RecoveryCodes]

TotpEnabled(d, u) ==
    WithoutSessions(
        [d EXCEPT !.user[u] = [Advanced(@) EXCEPT !.totp = "enabled",
                                 !.codes = RecoveryCodes]], u)

\* A code of the waiting secret; an enabled one is not confirmed again.
TotpConfirmable(d, u) == d.user[u].totp = "pending"

TotpConfirm(s) ==
    /\ SessionAccepted(db, s, now)
    /\ TotpConfirmable(db, s.user)
    /\ CommitPlain(TotpEnabled(db, s.user))

TotpDisabled(d, u) ==
    WithoutSessions(
        [d EXCEPT !.user[u] = [Advanced(@) EXCEPT !.totp = "none", !.key = 0,
                                 !.codes = {}]], u)

\* The user himself shows a code of the secret he turns off.
TotpDisable(s) ==
    /\ SessionAccepted(db, s, now)
    /\ db.user[s.user].totp = "enabled"
    /\ CommitPlain(TotpDisabled(db, s.user))

UserTotpDisable(a, u, revision) ==
    /\ Exists(db, u)
    /\ db.user[u].revision = revision
    /\ db.user[u].totp # "none"
    /\ May(a, "access_write")
    /\ CommitAudited(TotpDisabled(Recorded(a), u))

-----------------------------------------------------------------------------
(* Tokens and certificate mappings.                                        *)

TokenIssueAllowed(d, u, scopes) ==
    /\ Exists(d, u)
    /\ d.user[u].enabled
    /\ scopes \subseteq RolePermissions(d.user[u].role)

TokenConfigValid(scopes, expires) == scopes # {} /\ (expires = 0 \/ expires > now)

\* The history of a token: the password of its owner.
TokenInserted(d, u, scopes, expires, id) ==
    [d EXCEPT !.tokens = @ \cup
        {[id |-> id, user |-> u, scopes |-> scopes, expires |-> expires,
          revoked |-> FALSE, pw |-> d.user[u].pw]}]

TokenIssue(a, u, scopes, expires) ==
    /\ May(a, "access_write")
    /\ TokenConfigValid(scopes, expires)
    /\ TokenIssueAllowed(db, u, scopes)
    /\ \E id \in FreeId(db.tokens, MaxTokens) :
         CommitAudited(TokenInserted(Recorded(a), u, scopes, expires, id))

TokenRevoked(d, k) ==
    [d EXCEPT !.tokens = (@ \ {k}) \cup {[k EXCEPT !.revoked = TRUE]}]

\* Revoking twice is harmless, and audited twice.
TokenRevoke(a, k) ==
    /\ May(a, "access_write")
    /\ CommitAudited(TokenRevoked(Recorded(a), k))

MappingConfigValid(d, subject, until) ==
    /\ subject \in Users => Exists(d, subject)
    /\ until >= now

\* A certificate is mapped once; a revoked mapping keeps its row.
MappingInserted(d, c, subject, until) ==
    [d EXCEPT !.mappings = @ \cup
        {[certificate |-> c, subject |-> subject, until |-> until, revoked |-> FALSE]}]

MappingCreate(a, c, subject, until) ==
    /\ May(a, "security_write")
    /\ MappingConfigValid(db, subject, until)
    /\ \A m \in db.mappings : m.certificate # c
    /\ CommitAudited(MappingInserted(Recorded(a), c, subject, until))

MappingRevoked(d, m) ==
    [d EXCEPT !.mappings = (@ \ {m}) \cup {[m EXCEPT !.revoked = TRUE]}]

MappingRevoke(a, m) ==
    /\ May(a, "security_write")
    /\ CommitAudited(MappingRevoked(Recorded(a), m))

-----------------------------------------------------------------------------
(* Backups and restores, as far as they touch these tables.                *)

BackUp ==
    /\ steps < MaxSteps
    /\ steps' = steps + 1
    /\ saved' = <<db>>
    /\ UNCHANGED <<db, now, fresh, changes>>

\* Mutant: the audit chain goes back with the rest.
FullReplacementAll(d) == d

\* A full restore puts back every identity table, and keeps the audit chain
\* of the appliance it is applied to.
FullReplacement(d) == [d EXCEPT !.audit = db.audit]

RestoreFull ==
    /\ saved # <<>>
    /\ CommitAudited(FullReplacement(saved[1]))

Tick ==
    /\ now < MaxTime
    /\ now' = now + 1
    /\ UNCHANGED <<db, fresh, saved, steps, changes>>

-----------------------------------------------------------------------------
NewAppliance ==
    [user |-> <<>>, sessions |-> {}, tokens |-> {}, mappings |-> {},
     bootstrap |-> [secret |-> 0, expires |-> 0, consumed |-> FALSE],
     audit |-> <<>>]

\* An appliance set up long ago: its administrator may use TOTP.
SetUp(u, pw, totp) ==
    LET d == InitialAdministrator(NewAppliance, u, pw)
    IN  IF totp THEN [d EXCEPT !.user[u].totp = "enabled", !.user[u].key = 1,
                               !.user[u].codes = RecoveryCodes]
        ELSE d

Init ==
    /\ \/ db = NewAppliance
       \/ \E u \in Users, pw \in Passwords, totp \in BOOLEAN : db = SetUp(u, pw, totp)
    /\ now = 1
    /\ fresh = 1
    /\ saved = <<>>
    /\ steps = 0
    /\ changes = 0

Revisions == 1..(MaxSteps + 1)

AccountRequest ==
    \E a \in Actors, u \in Users :
        \/ \E role \in GivenRoles, pw \in Passwords, force \in BOOLEAN :
               UserCreate(a, u, role, pw, force)
        \/ \E revision \in Revisions, role \in GivenRoles, enabled, force \in BOOLEAN :
               UserUpdate(a, u, revision, role, enabled, force)
        \/ \E revision \in Revisions, pw \in Passwords, force \in BOOLEAN :
               UserPasswordReset(a, u, revision, pw, force)
        \/ \E revision \in Revisions : UserTotpDisable(a, u, revision)

TokenRequest ==
    \E a \in Actors :
        \/ \E u \in Users, scopes \in {RolePermissions(r) : r \in GivenRoles},
              expires \in {0, now + 1} : TokenIssue(a, u, scopes, expires)
        \/ \E k \in db.tokens : TokenRevoke(a, k)
        \/ \E c \in Certificates, subject \in Users \cup GivenRoles :
               MappingCreate(a, c, subject, now + 1)
        \/ \E m \in db.mappings : MappingRevoke(a, m)

SessionRequest ==
    \E s \in db.sessions :
        \/ Logout(s)
        \/ UseSession(s)
        \/ TotpProvision(s)
        \/ TotpConfirm(s)
        \/ TotpDisable(s)
        \/ \E old, new \in Passwords : PasswordChange(s, old, new)
        \/ \E old \in Passwords : PasswordChangeRefused(s, old)

AccessRequest ==
    \E u \in Users, pw \in Passwords :
        \/ \E secret \in 1..fresh : Bootstrap(secret, u, pw)
        \/ Login(u, pw)
        \/ WrongPassword(u, pw)

Next ==
    \/ BootstrapIssue
    \/ AccessRequest
    \/ SessionRequest
    \/ AccountRequest
    \/ TokenRequest
    \/ BackUp
    \/ RestoreFull
    \/ Tick

Spec == Init /\ [][Next]_vars


-----------------------------------------------------------------------------
(* Properties.                                                             *)

(* Whatever the daemon would still accept was earned under the account as   *)
(* it is now: the holder of a session proved the present password, has the  *)
(* role he logged in with and, where TOTP is on, showed the present secret  *)
(* (or a recovery code of it); a token was issued under the present         *)
(* password.  About the epochs, the deletion of sessions and the revocation *)
(* of tokens in jg_account_user_update, jg_account_user_reset_password,     *)
(* jg_account_totp_confirm and disable_totp, and about full restores, which *)
(* bring back rows of the past.                                             *)
CredentialsAreCurrent ==
    /\ \A s \in db.sessions :
          SessionAccepted(db, s, now) =>
              LET user == db.user[s.user]
              IN  /\ s.proof.pw = user.pw
                  /\ s.proof.role = user.role
                  /\ user.totp = "enabled" => s.proof.key = user.key
    /\ \A k \in db.tokens :
          TokenAccepted(db, k, now) => k.pw = db.user[k.user].pw

(* An appliance that has an enabled administrator keeps one, however users   *)
(* are demoted, disabled or reset and whoever asks; only the restore of a    *)
(* backup from before the first administrator goes back.  About the count in *)
(* jg_account_user_update.                                                   *)
AdministratorRemains ==
    [][EnabledAdministrators(db) # {} =>
           RestoreFull \/ EnabledAdministrators(db') # {}]_vars

(* The audit chain verifies and holds one event for every administrative    *)
(* change that was ever committed, those a full restore undid included.     *)
(* About audited_mutation_finish and preserve_restore_history_data.         *)
ChangesAreAudited ==
    ChainVerifies(db.audit) /\ Len(db.audit) = changes

=============================================================================
