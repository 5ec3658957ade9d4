--------------------------- MODULE ManagementProofs ---------------------------
(***************************************************************************)
(* Proofs about what the management server guards: the accounts, the       *)
(* network configuration and the alerts.                                   *)
(*                                                                         *)
(* Identity, for every set of users, passwords, certificates and recovery  *)
(* codes, every lifetime and every bound; NetworkTransaction, for every    *)
(* set of configurations, any number of failures and crashes, with a       *)
(* helper that may be killed or not and a kernel that may fail half-way or *)
(* not; AlertDelivery, for every set of conditions, all limits and any     *)
(* number of disturbances.                                                 *)
(***************************************************************************)
EXTENDS Identity, NetworkTransaction, AlertDelivery, TLAPS, FiniteSetTheorems

-----------------------------------------------------------------------------
(* Accounts, sessions, tokens and the audit *)

UserFields ==
  {"role", "enabled", "force", "pw", "revision", "epoch", "failed", "locked",
   "totp", "key", "codes"}
SessionFields == {"id", "user", "epoch", "expires", "seen", "proof"}
TokenFields == {"id", "user", "scopes", "expires", "revoked", "pw"}

Shape(d) ==
  /\ DOMAIN d = {"user", "sessions", "tokens", "mappings", "bootstrap", "audit"}
  /\ \A u \in DOMAIN d.user : DOMAIN d.user[u] = UserFields
  /\ \A s \in d.sessions : DOMAIN s = SessionFields /\ s.user \in DOMAIN d.user
  /\ \A k \in d.tokens : DOMAIN k = TokenFields /\ k.user \in DOMAIN d.user

(* What a session proved is still so: every change of a password, a role   *)
(* or an enabled second factor removes the sessions of its user.           *)
SessionCurrent(s, user) ==
  /\ s.proof.pw = user.pw
  /\ s.proof.role = user.role
  /\ user.totp = "enabled" => s.proof.key = user.key

TokenCurrent(k, user) == k.revoked \/ k.pw = user.pw

(* A database, the present one or the one in the backup, in which no       *)
(* credential is older than its account.                                   *)
Sound(d) ==
  /\ Shape(d)
  /\ \A s \in d.sessions : SessionCurrent(s, d.user[s.user])
  /\ \A k \in d.tokens : TokenCurrent(k, d.user[k.user])

(* Nobody loses his role or is disabled. *)
Standing(d, e) ==
  /\ DOMAIN d.user \subseteq DOMAIN e.user
  /\ \A u \in DOMAIN d.user :
       e.user[u].role = d.user[u].role /\ e.user[u].enabled = d.user[u].enabled

(* What most transactions do, before their audit event. *)
Follows(d, e) == Sound(e) /\ e.audit = d.audit /\ Standing(d, e)

USE DEF UserFields, SessionFields, TokenFields

LEMMA StandingKeepsAdministrators ==
  ASSUME NEW d, NEW e, Standing(d, e)
  PROVE  EnabledAdministrators(d) \subseteq EnabledAdministrators(e)
  BY DEF Standing, EnabledAdministrators

LEMMA FollowsItself ==
  ASSUME NEW d, Sound(d) PROVE Follows(d, d)
  BY DEF Follows, Standing

LEMMA FollowsOn ==
  ASSUME NEW d, NEW e, NEW f, Follows(d, e), Follows(e, f) PROVE Follows(d, f)
  BY DEF Follows, Standing

(* A row that is changed in fields no credential depends on. *)
LEMMA UserChanged ==
  ASSUME NEW d, NEW e, Sound(d), NEW u \in DOMAIN d.user,
         DOMAIN e = DOMAIN d, e.audit = d.audit, e.sessions = d.sessions, e.tokens = d.tokens,
         DOMAIN e.user = DOMAIN d.user, DOMAIN e.user[u] = UserFields,
         \A v \in DOMAIN d.user : v # u => e.user[v] = d.user[v],
         e.user[u].pw = d.user[u].pw, e.user[u].role = d.user[u].role,
         e.user[u].enabled = d.user[u].enabled,
         e.user[u].totp = "enabled" =>
           d.user[u].totp = "enabled" /\ e.user[u].key = d.user[u].key
  PROVE  Follows(d, e)
  <1>1. Shape(e)
    BY DEF Sound, Shape
  <1>2. \A s \in e.sessions : SessionCurrent(s, e.user[s.user])
    BY DEF Sound, Shape, SessionCurrent
  <1>3. \A k \in e.tokens : TokenCurrent(k, e.user[k.user])
    BY DEF Sound, Shape, TokenCurrent
  <1>4. Standing(d, e)
    BY DEF Standing
  <1>5. QED
    BY <1>1, <1>2, <1>3, <1>4 DEF Follows, Sound

(* A failed login changes the failures and the delay. *)
LEMMA LoginFailureFollows ==
  ASSUME NEW d, Sound(d), NEW u \in DOMAIN d.user
  PROVE  Follows(d, LoginFailure(d, u))
  <1> DEFINE e == LoginFailure(d, u)
  <1>0. Shape(d)
    BY DEF Sound
  <1>1. DOMAIN e = DOMAIN d /\ e.audit = d.audit /\ e.sessions = d.sessions /\ e.tokens = d.tokens
    BY <1>0 DEF Shape, LoginFailure
  <1>2. /\ DOMAIN e.user = DOMAIN d.user /\ DOMAIN e.user[u] = UserFields
        /\ \A v \in DOMAIN d.user : v # u => e.user[v] = d.user[v]
    BY <1>0 DEF Shape, LoginFailure
  <1>3. /\ e.user[u].pw = d.user[u].pw /\ e.user[u].role = d.user[u].role
        /\ e.user[u].enabled = d.user[u].enabled
        /\ e.user[u].totp = d.user[u].totp /\ e.user[u].key = d.user[u].key
    BY <1>0 DEF Shape, LoginFailure
  <1> HIDE DEF e
  <1>4. Follows(d, e)
    BY <1>1, <1>2, <1>3, UserChanged
  <1>5. QED
    BY <1>4 DEF e

(* A login resets them. *)
LEMMA LoginSuccessFollows ==
  ASSUME NEW d, Sound(d), NEW u \in DOMAIN d.user
  PROVE  Follows(d, LoginSuccess(d, u))
  <1> DEFINE e == LoginSuccess(d, u)
  <1>0. Shape(d)
    BY DEF Sound
  <1>1. DOMAIN e = DOMAIN d /\ e.audit = d.audit /\ e.sessions = d.sessions /\ e.tokens = d.tokens
    BY <1>0 DEF Shape, LoginSuccess
  <1>2. /\ DOMAIN e.user = DOMAIN d.user /\ DOMAIN e.user[u] = UserFields
        /\ \A v \in DOMAIN d.user : v # u => e.user[v] = d.user[v]
    BY <1>0 DEF Shape, LoginSuccess
  <1>3. /\ e.user[u].pw = d.user[u].pw /\ e.user[u].role = d.user[u].role
        /\ e.user[u].enabled = d.user[u].enabled
        /\ e.user[u].totp = d.user[u].totp /\ e.user[u].key = d.user[u].key
    BY <1>0 DEF Shape, LoginSuccess
  <1> HIDE DEF e
  <1>4. Follows(d, e)
    BY <1>1, <1>2, <1>3, UserChanged
  <1>5. QED
    BY <1>4 DEF e

(* A recovery code is spent. *)
LEMMA RecoveryCodeConsumedFollows ==
  ASSUME NEW d, Sound(d), NEW u \in DOMAIN d.user, NEW c
  PROVE  Follows(d, RecoveryCodeConsumed(d, u, c))
  <1> DEFINE e == RecoveryCodeConsumed(d, u, c)
  <1>0. Shape(d)
    BY DEF Sound
  <1>1. DOMAIN e = DOMAIN d /\ e.audit = d.audit /\ e.sessions = d.sessions /\ e.tokens = d.tokens
    BY <1>0 DEF Shape, RecoveryCodeConsumed
  <1>2. /\ DOMAIN e.user = DOMAIN d.user /\ DOMAIN e.user[u] = UserFields
        /\ \A v \in DOMAIN d.user : v # u => e.user[v] = d.user[v]
    BY <1>0 DEF Shape, RecoveryCodeConsumed
  <1>3. /\ e.user[u].pw = d.user[u].pw /\ e.user[u].role = d.user[u].role
        /\ e.user[u].enabled = d.user[u].enabled
        /\ e.user[u].totp = d.user[u].totp /\ e.user[u].key = d.user[u].key
    BY <1>0 DEF Shape, RecoveryCodeConsumed
  <1> HIDE DEF e
  <1>4. Follows(d, e)
    BY <1>1, <1>2, <1>3, UserChanged
  <1>5. QED
    BY <1>4 DEF e

(* A secret that waits for its confirmation is no factor yet. *)
LEMMA TotpPendingFollows ==
  ASSUME NEW d, Sound(d), NEW u \in DOMAIN d.user, NEW key
  PROVE  Follows(d, TotpPending(d, u, key))
  <1> DEFINE e == TotpPending(d, u, key)
  <1>0. Shape(d)
    BY DEF Sound
  <1>1. DOMAIN e = DOMAIN d /\ e.audit = d.audit /\ e.sessions = d.sessions /\ e.tokens = d.tokens
    BY <1>0 DEF Shape, TotpPending
  <1>2. /\ DOMAIN e.user = DOMAIN d.user /\ DOMAIN e.user[u] = UserFields
        /\ \A v \in DOMAIN d.user : v # u => e.user[v] = d.user[v]
    BY <1>0 DEF Shape, TotpPending
  <1>3. /\ e.user[u].pw = d.user[u].pw /\ e.user[u].role = d.user[u].role
        /\ e.user[u].enabled = d.user[u].enabled
        /\ e.user[u].totp = "pending"
    BY <1>0 DEF Shape, TotpPending
  <1> HIDE DEF e
  <1>4. Follows(d, e)
    BY <1>1, <1>2, <1>3, UserChanged
  <1>5. QED
    BY <1>4 DEF e

(* A new account has no sessions and no tokens. *)
LEMMA UserInsertedFollows ==
  ASSUME NEW d, Sound(d), NEW u, u \notin DOMAIN d.user, NEW row, DOMAIN row = UserFields
  PROVE  Follows(d, UserInserted(d, u, row))
  <1> DEFINE e == UserInserted(d, u, row)
  <1>0. Shape(d)
    BY DEF Sound
  <1>1. DOMAIN e = DOMAIN d /\ e.audit = d.audit /\ e.sessions = d.sessions /\ e.tokens = d.tokens
    BY <1>0 DEF Shape, UserInserted
  <1>2. /\ DOMAIN e.user = {u} \cup DOMAIN d.user /\ e.user[u] = row
        /\ \A v \in DOMAIN d.user : e.user[v] = d.user[v]
    BY <1>0 DEF Shape, UserInserted
  <1> HIDE DEF e
  <1>3. Shape(e)
    BY <1>0, <1>1, <1>2 DEF Shape
  <1>4. Sound(e)
    BY <1>0, <1>1, <1>2, <1>3 DEF Sound, Shape
  <1>5. Follows(d, e)
    BY <1>1, <1>2, <1>4 DEF Follows, Standing
  <1>6. QED
    BY <1>5 DEF e

(* Changes of the sessions alone, *)
LEMMA SessionsChanged ==
  ASSUME NEW d, Sound(d), NEW S,
         \A s \in S : /\ DOMAIN s = SessionFields /\ s.user \in DOMAIN d.user
                      /\ SessionCurrent(s, d.user[s.user])
  PROVE  Follows(d, [d EXCEPT !.sessions = S])
  <1> DEFINE e == [d EXCEPT !.sessions = S]
  <1>1. /\ DOMAIN e = DOMAIN d /\ e.audit = d.audit /\ e.sessions = S /\ e.tokens = d.tokens
        /\ e.user = d.user
    BY DEF Sound, Shape
  <1> HIDE DEF e
  <1>2. Sound(e)
    BY <1>1 DEF Sound, Shape
  <1>3. Follows(d, e)
    BY <1>1, <1>2 DEF Follows, Standing
  <1>4. QED
    BY <1>3 DEF e

LEMMA SessionTouchedFollows ==
  ASSUME NEW d, Sound(d), NEW s \in d.sessions
  PROVE  Follows(d, SessionTouched(d, s))
  <1> DEFINE r == [s EXCEPT !.seen = now]
  <1>1. DOMAIN r = SessionFields /\ r.user = s.user /\ r.proof = s.proof
    BY DEF Sound, Shape
  <1> HIDE DEF r
  <1>2. \A x \in (d.sessions \ {s}) \cup {r} :
          /\ DOMAIN x = SessionFields /\ x.user \in DOMAIN d.user
          /\ SessionCurrent(x, d.user[x.user])
    BY <1>1 DEF Sound, Shape, SessionCurrent
  <1>3. Follows(d, [d EXCEPT !.sessions = (d.sessions \ {s}) \cup {r}])
    BY <1>2, SessionsChanged
  <1>4. QED
    BY <1>3 DEF SessionTouched, r

LEMMA SessionRevokedFollows ==
  ASSUME NEW d, Sound(d), NEW s PROVE Follows(d, SessionRevoked(d, s))
  <1>1. \A x \in d.sessions \ {s} : /\ DOMAIN x = SessionFields /\ x.user \in DOMAIN d.user
                                    /\ SessionCurrent(x, d.user[x.user])
    BY DEF Sound, Shape
  <1>2. QED
    BY <1>1, SessionsChanged DEF SessionRevoked

(* A session is issued with the factor that its user needs. *)
LEMMA SessionIssuedFollows ==
  ASSUME NEW d, Sound(d), NEW u \in DOMAIN d.user, NEW factor, NEW id,
         d.user[u].totp = "enabled" => factor = d.user[u].key
  PROVE  Follows(d, SessionIssued(d, u, factor, id))
  <1> DEFINE r == [id |-> id, user |-> u, epoch |-> d.user[u].epoch,
                   expires |-> now + SessionLifetime, seen |-> now,
                   proof |-> Proof(d.user[u], factor)]
  <1>1. DOMAIN r = SessionFields /\ r.user = u /\ SessionCurrent(r, d.user[u])
    BY DEF SessionCurrent, Proof
  <1> HIDE DEF r
  <1>2. \A x \in d.sessions \cup {r} :
          /\ DOMAIN x = SessionFields /\ x.user \in DOMAIN d.user
          /\ SessionCurrent(x, d.user[x.user])
    BY <1>1 DEF Sound, Shape
  <1>3. Follows(d, [d EXCEPT !.sessions = d.sessions \cup {r}])
    BY <1>2, SessionsChanged
  <1>4. QED
    BY <1>3 DEF SessionIssued, r

(* and of the tokens alone. *)
LEMMA TokensChanged ==
  ASSUME NEW d, Sound(d), NEW T,
         \A k \in T : /\ DOMAIN k = TokenFields /\ k.user \in DOMAIN d.user
                      /\ TokenCurrent(k, d.user[k.user])
  PROVE  Follows(d, [d EXCEPT !.tokens = T])
  <1> DEFINE e == [d EXCEPT !.tokens = T]
  <1>1. /\ DOMAIN e = DOMAIN d /\ e.audit = d.audit /\ e.sessions = d.sessions /\ e.tokens = T
        /\ e.user = d.user
    BY DEF Sound, Shape
  <1> HIDE DEF e
  <1>2. Sound(e)
    BY <1>1 DEF Sound, Shape
  <1>3. Follows(d, e)
    BY <1>1, <1>2 DEF Follows, Standing
  <1>4. QED
    BY <1>3 DEF e

LEMMA TokenInsertedFollows ==
  ASSUME NEW d, Sound(d), NEW u \in DOMAIN d.user, NEW scopes, NEW expires, NEW id
  PROVE  Follows(d, TokenInserted(d, u, scopes, expires, id))
  <1> DEFINE r == [id |-> id, user |-> u, scopes |-> scopes, expires |-> expires,
                   revoked |-> FALSE, pw |-> d.user[u].pw]
  <1>1. DOMAIN r = TokenFields /\ r.user = u /\ TokenCurrent(r, d.user[u])
    BY DEF TokenCurrent
  <1> HIDE DEF r
  <1>2. \A x \in d.tokens \cup {r} :
          /\ DOMAIN x = TokenFields /\ x.user \in DOMAIN d.user
          /\ TokenCurrent(x, d.user[x.user])
    BY <1>1 DEF Sound, Shape
  <1>3. Follows(d, [d EXCEPT !.tokens = d.tokens \cup {r}])
    BY <1>2, TokensChanged
  <1>4. QED
    BY <1>3 DEF TokenInserted, r

LEMMA TokenRevokedFollows ==
  ASSUME NEW d, Sound(d), NEW k \in d.tokens
  PROVE  Follows(d, TokenRevoked(d, k))
  <1> DEFINE r == [k EXCEPT !.revoked = TRUE]
  <1>1. DOMAIN r = TokenFields /\ r.user = k.user /\ r.revoked
    BY DEF Sound, Shape
  <1> HIDE DEF r
  <1>2. \A x \in (d.tokens \ {k}) \cup {r} :
          /\ DOMAIN x = TokenFields /\ x.user \in DOMAIN d.user
          /\ TokenCurrent(x, d.user[x.user])
    BY <1>1 DEF Sound, Shape, TokenCurrent
  <1>3. Follows(d, [d EXCEPT !.tokens = (d.tokens \ {k}) \cup {r}])
    BY <1>2, TokensChanged
  <1>4. QED
    BY <1>3 DEF TokenRevoked, r

(* Changes of what no credential depends on. *)
LEMMA OthersChanged ==
  ASSUME NEW d, Sound(d), NEW e, DOMAIN e = DOMAIN d, e.audit = d.audit,
         e.user = d.user, e.sessions = d.sessions, e.tokens = d.tokens
  PROVE  Follows(d, e)
  BY DEF Follows, Standing, Sound, Shape

RevokedTokens(d, u) == {IF t.user = u THEN [t EXCEPT !.revoked = TRUE] ELSE t : t \in d.tokens}

(* An account whose sessions go, and whose tokens too unless its password  *)
(* stays.                                                                  *)
LEMMA UserReset ==
  ASSUME NEW d, Sound(d), NEW u \in DOMAIN d.user, NEW e, DOMAIN e = DOMAIN d,
         e.audit = d.audit, DOMAIN e.user = DOMAIN d.user, DOMAIN e.user[u] = UserFields,
         \A v \in DOMAIN d.user : v # u => e.user[v] = d.user[v],
         e.sessions = {s \in d.sessions : s.user # u},
         \/ e.tokens = d.tokens /\ e.user[u].pw = d.user[u].pw
         \/ e.tokens = RevokedTokens(d, u)
  PROVE  Sound(e) /\ e.audit = d.audit
  <1>0. Shape(d)
    BY DEF Sound
  <1>1. \A k \in RevokedTokens(d, u) :
          /\ DOMAIN k = TokenFields /\ k.user \in DOMAIN d.user
          /\ k.user = u => k.revoked
          /\ k.user # u => k \in d.tokens
    BY <1>0 DEF RevokedTokens, Shape
  <1>2. \A k \in e.tokens : /\ DOMAIN k = TokenFields /\ k.user \in DOMAIN e.user
                            /\ TokenCurrent(k, e.user[k.user])
    <2>1. CASE e.tokens = d.tokens /\ e.user[u].pw = d.user[u].pw
      BY <2>1, <1>0 DEF Shape, Sound, TokenCurrent
    <2>2. CASE e.tokens = RevokedTokens(d, u)
      BY <2>2, <1>1 DEF Sound, TokenCurrent
    <2>3. QED
      BY <2>1, <2>2
  <1>3. \A s \in e.sessions : /\ DOMAIN s = SessionFields /\ s.user \in DOMAIN e.user
                              /\ SessionCurrent(s, e.user[s.user])
    BY <1>0 DEF Shape, Sound
  <1>4. Shape(e)
    BY <1>0, <1>2, <1>3 DEF Shape
  <1>5. QED
    BY <1>2, <1>3, <1>4 DEF Sound

Updated(d, e, u, role, enabled) ==
  /\ Sound(e) /\ e.audit = d.audit /\ DOMAIN e.user = DOMAIN d.user
  /\ e.user[u].role = role /\ e.user[u].enabled = enabled
  /\ \A v \in DOMAIN d.user : v # u => e.user[v] = d.user[v]

(* An update of an account, which may take its role or its access away. *)
LEMMA UserUpdatedSound ==
  ASSUME NEW d, Sound(d), NEW u \in DOMAIN d.user, NEW role, NEW enabled \in BOOLEAN, NEW force
  PROVE  Updated(d, UserUpdated(d, u, role, enabled, force), u, role, enabled)
  <1> DEFINE e == UserUpdated(d, u, role, enabled, force)
  <1>0. Shape(d)
    BY DEF Sound
  <1>1. /\ DOMAIN e = DOMAIN d /\ e.audit = d.audit /\ DOMAIN e.user = DOMAIN d.user
        /\ e.sessions = {s \in d.sessions : s.user # u}
    BY <1>0 DEF Shape, UserUpdated, Advanced, WithoutSessions, WithTokensRevoked
  <1>2. /\ DOMAIN e.user[u] = UserFields
        /\ \A v \in DOMAIN d.user : v # u => e.user[v] = d.user[v]
    BY <1>0 DEF Shape, UserUpdated, Advanced, WithoutSessions, WithTokensRevoked
  <1>3. e.user[u].pw = d.user[u].pw /\ e.user[u].role = role /\ e.user[u].enabled = enabled
    BY <1>0 DEF Shape, UserUpdated, Advanced, WithoutSessions, WithTokensRevoked
  <1>4. e.tokens = d.tokens \/ e.tokens = RevokedTokens(d, u)
    BY <1>0 DEF Shape, RevokedTokens, UserUpdated, Advanced, WithoutSessions, WithTokensRevoked
  <1> HIDE DEF e
  <1>5. Sound(e) /\ e.audit = d.audit
    BY <1>1, <1>2, <1>3, <1>4, UserReset
  <1>6. Updated(d, e, u, role, enabled)
    BY <1>1, <1>2, <1>3, <1>5 DEF Updated
  <1>7. QED
    BY <1>6 DEF e

(* A new password ends the sessions and the tokens of the account. *)
LEMMA PasswordResetFollows ==
  ASSUME NEW d, Sound(d), NEW u \in DOMAIN d.user, NEW pw, NEW force
  PROVE  Follows(d, PasswordReset(d, u, pw, force))
  <1> DEFINE e == PasswordReset(d, u, pw, force)
  <1>0. Shape(d)
    BY DEF Sound
  <1>1. /\ DOMAIN e = DOMAIN d /\ e.audit = d.audit /\ DOMAIN e.user = DOMAIN d.user
        /\ e.sessions = {s \in d.sessions : s.user # u}
    BY <1>0 DEF Shape, PasswordReset, Advanced, WithoutSessions, WithTokensRevoked
  <1>2. /\ DOMAIN e.user[u] = UserFields
        /\ \A v \in DOMAIN d.user : v # u => e.user[v] = d.user[v]
    BY <1>0 DEF Shape, PasswordReset, Advanced, WithoutSessions, WithTokensRevoked
  <1>3. e.user[u].role = d.user[u].role /\ e.user[u].enabled = d.user[u].enabled
    BY <1>0 DEF Shape, PasswordReset, Advanced, WithoutSessions, WithTokensRevoked
  <1>4. e.tokens = RevokedTokens(d, u)
    BY <1>0 DEF Shape, RevokedTokens, PasswordReset, Advanced, WithoutSessions,
       WithTokensRevoked
  <1> HIDE DEF e
  <1>5. Sound(e) /\ e.audit = d.audit
    BY <1>1, <1>2, <1>3, <1>4, UserReset
  <1>6. Standing(d, e)
    BY <1>1, <1>2, <1>3 DEF Standing
  <1>7. QED
    BY <1>5, <1>6 DEF e, Follows

(* A second factor that is turned on ends the sessions from before it, *)
LEMMA TotpEnabledFollows ==
  ASSUME NEW d, Sound(d), NEW u \in DOMAIN d.user
  PROVE  Follows(d, TotpEnabled(d, u))
  <1> DEFINE e == TotpEnabled(d, u)
  <1>0. Shape(d)
    BY DEF Sound
  <1>1. /\ DOMAIN e = DOMAIN d /\ e.audit = d.audit /\ DOMAIN e.user = DOMAIN d.user
        /\ e.sessions = {s \in d.sessions : s.user # u}
    BY <1>0 DEF Shape, TotpEnabled, Advanced, WithoutSessions
  <1>2. /\ DOMAIN e.user[u] = UserFields
        /\ \A v \in DOMAIN d.user : v # u => e.user[v] = d.user[v]
    BY <1>0 DEF Shape, TotpEnabled, Advanced, WithoutSessions
  <1>3. e.user[u].role = d.user[u].role /\ e.user[u].enabled = d.user[u].enabled /\ e.user[u].pw = d.user[u].pw
    BY <1>0 DEF Shape, TotpEnabled, Advanced, WithoutSessions
  <1>4. e.tokens = d.tokens
    BY <1>0 DEF Shape, RevokedTokens, TotpEnabled, Advanced, WithoutSessions
  <1> HIDE DEF e
  <1>5. Sound(e) /\ e.audit = d.audit
    BY <1>1, <1>2, <1>3, <1>4, UserReset
  <1>6. Standing(d, e)
    BY <1>1, <1>2, <1>3 DEF Standing
  <1>7. QED
    BY <1>5, <1>6 DEF e, Follows

(* and so does one that is turned off. *)
LEMMA TotpDisabledFollows ==
  ASSUME NEW d, Sound(d), NEW u \in DOMAIN d.user
  PROVE  Follows(d, TotpDisabled(d, u))
  <1> DEFINE e == TotpDisabled(d, u)
  <1>0. Shape(d)
    BY DEF Sound
  <1>1. /\ DOMAIN e = DOMAIN d /\ e.audit = d.audit /\ DOMAIN e.user = DOMAIN d.user
        /\ e.sessions = {s \in d.sessions : s.user # u}
    BY <1>0 DEF Shape, TotpDisabled, Advanced, WithoutSessions
  <1>2. /\ DOMAIN e.user[u] = UserFields
        /\ \A v \in DOMAIN d.user : v # u => e.user[v] = d.user[v]
    BY <1>0 DEF Shape, TotpDisabled, Advanced, WithoutSessions
  <1>3. e.user[u].role = d.user[u].role /\ e.user[u].enabled = d.user[u].enabled /\ e.user[u].pw = d.user[u].pw
    BY <1>0 DEF Shape, TotpDisabled, Advanced, WithoutSessions
  <1>4. e.tokens = d.tokens
    BY <1>0 DEF Shape, RevokedTokens, TotpDisabled, Advanced, WithoutSessions
  <1> HIDE DEF e
  <1>5. Sound(e) /\ e.audit = d.audit
    BY <1>1, <1>2, <1>3, <1>4, UserReset
  <1>6. Standing(d, e)
    BY <1>1, <1>2, <1>3 DEF Standing
  <1>7. QED
    BY <1>5, <1>6 DEF e, Follows

FactorKept(d, e, u) ==
  /\ DOMAIN e.user = DOMAIN d.user
  /\ e.user[u].totp = d.user[u].totp /\ e.user[u].key = d.user[u].key

(* The factor of an account outlives its password. *)
LEMMA PasswordResetKeepsFactor ==
  ASSUME NEW d, Sound(d), NEW u \in DOMAIN d.user, NEW pw, NEW force
  PROVE  FactorKept(d, PasswordReset(d, u, pw, force), u)
  BY DEF FactorKept, Sound, Shape, PasswordReset, Advanced, WithoutSessions, WithTokensRevoked

Event == [previous : Nat, hash : Nat]

AuditInv(audit, n) ==
  /\ audit \in Seq(Event) /\ ChainVerifies(audit)
  /\ n \in Nat /\ Len(audit) = n

(* The append of an event keeps the chain. *)
LEMMA ChainGrows ==
  ASSUME NEW audit, NEW n, AuditInv(audit, n), NEW latest,
         latest = IF audit = <<>> THEN 0 ELSE audit[Len(audit)].hash
  PROVE  AuditInv(Append(audit, [previous |-> latest, hash |-> EventHash(latest)]), n + 1)
  <1> DEFINE event == [previous |-> latest, hash |-> latest + 1]
  <1> DEFINE longer == Append(audit, event)
  <1>1. audit \in Seq(Event) /\ Len(audit) \in Nat /\ Len(audit) = n
    BY DEF AuditInv
  <1>2. latest \in Nat
    <2>1. CASE audit = <<>>
      BY <2>1
    <2>2. CASE audit # <<>>
      <3>1. Len(audit) \in 1 .. Len(audit)
        BY <1>1, <2>2
      <3>2. audit[Len(audit)] \in Event
        BY <1>1, <3>1
      <3>3. QED
        BY <2>2, <3>2 DEF Event
    <2>3. QED
      BY <2>1, <2>2
  <1>3. event \in Event /\ event.previous = latest /\ event.hash = latest + 1
    BY <1>2 DEF Event
  <1>4. (audit = <<>>) <=> (Len(audit) = 0)
    BY <1>1
  <1> HIDE DEF event
  <1>5. /\ longer \in Seq(Event) /\ Len(longer) = n + 1 /\ longer[n + 1] = event
        /\ \A i \in 1 .. n : longer[i] = audit[i]
    BY <1>1, <1>3
  <1> HIDE DEF longer
  <1>6. ASSUME NEW i \in 1 .. n + 1
        PROVE  /\ longer[i].previous = IF i = 1 THEN 0 ELSE longer[i - 1].hash
               /\ longer[i].hash = longer[i].previous + 1
    <2>1. CASE i = n + 1
      BY <1>1, <1>3, <1>4, <1>5, <2>1
    <2>2. CASE i \in 1 .. n
      <3>1. /\ audit[i].previous = IF i = 1 THEN 0 ELSE audit[i - 1].hash
            /\ audit[i].hash = audit[i].previous + 1
        BY <1>1, <2>2 DEF AuditInv, ChainVerifies, EventHash
      <3>2. i # 1 => longer[i - 1] = audit[i - 1]
        BY <1>1, <1>5, <2>2
      <3>3. QED
        BY <1>5, <2>2, <3>1, <3>2
    <2>3. QED
      BY <1>1, <2>1, <2>2
  <1>7. ChainVerifies(longer)
    BY <1>5, <1>6 DEF ChainVerifies, EventHash
  <1>8. QED
    BY <1>1, <1>5, <1>7 DEF AuditInv, longer, event, EventHash

LEMMA AuditedEffect ==
  ASSUME NEW d, Sound(d), NEW n, AuditInv(d.audit, n)
  PROVE  Sound(Audited(d)) /\ AuditInv(Audited(d).audit, n + 1) /\ Standing(d, Audited(d))
  <1> DEFINE event == [previous |-> LatestHash(d), hash |-> EventHash(LatestHash(d))]
  <1> DEFINE e == Audited(d)
  <1>1. /\ DOMAIN e = DOMAIN d /\ e.user = d.user /\ e.sessions = d.sessions
        /\ e.tokens = d.tokens /\ e.audit = Append(d.audit, event)
    BY DEF Sound, Shape, Audited
  <1>2. AuditInv(Append(d.audit, event), n + 1)
    BY ChainGrows DEF LatestHash
  <1> HIDE DEF e, event
  <1>3. Sound(e) /\ Standing(d, e)
    BY <1>1 DEF Sound, Shape, Standing
  <1>4. QED
    BY <1>1, <1>2, <1>3 DEF e

IdentityInv ==
  /\ Sound(db)
  /\ saved # <<>> => Sound(saved[1])
  /\ AuditInv(db.audit, changes)

(* An administrator remains. *)
Keeps == EnabledAdministrators(db) # {} => EnabledAdministrators(db') # {}

LEMMA InitIdentityInv == Init => IdentityInv
  <1> SUFFICES ASSUME Init PROVE IdentityInv
    OBVIOUS
  <1>1. AuditInv(<<>>, 0)
    BY DEF AuditInv, ChainVerifies
  <1>2. Sound(NewAppliance) /\ NewAppliance.audit = <<>>
    BY DEF NewAppliance, Sound, Shape
  <1>3. ASSUME NEW u \in Users, NEW pw \in Passwords, NEW totp \in BOOLEAN
        PROVE  Sound(SetUp(u, pw, totp)) /\ SetUp(u, pw, totp).audit = <<>>
    <2> DEFINE d == InitialAdministrator(NewAppliance, u, pw)
    <2>1. /\ DOMAIN d = {"user", "sessions", "tokens", "mappings", "bootstrap", "audit"}
          /\ d.audit = <<>> /\ d.sessions = {} /\ d.tokens = {}
          /\ DOMAIN d.user = {u} /\ DOMAIN d.user[u] = UserFields
      BY DEF InitialAdministrator, BootstrapConsumed, AdministratorInserted, UserInserted,
         NewUser, NewAppliance
    <2> HIDE DEF d
    <2> DEFINE e == [d EXCEPT !.user[u].totp = "enabled", !.user[u].key = 1,
                              !.user[u].codes = RecoveryCodes]
    <2>2. /\ DOMAIN e = {"user", "sessions", "tokens", "mappings", "bootstrap", "audit"}
          /\ e.audit = <<>> /\ e.sessions = {} /\ e.tokens = {}
          /\ DOMAIN e.user = {u} /\ DOMAIN e.user[u] = UserFields
      BY <2>1
    <2> HIDE DEF e
    <2>3. Sound(d) /\ Sound(e)
      BY <2>1, <2>2 DEF Sound, Shape
    <2>4. SetUp(u, pw, totp) = e \/ SetUp(u, pw, totp) = d
      BY DEF SetUp, d, e
    <2>5. QED
      BY <2>1, <2>2, <2>3, <2>4
  <1>4. Sound(db) /\ db.audit = <<>> /\ saved = <<>> /\ changes = 0
    BY <1>2, <1>3 DEF Init
  <1>5. QED
    BY <1>1, <1>4 DEF IdentityInv

(* A transaction without an audit event, *)
LEMMA PlainStep ==
  ASSUME IdentityInv, NEW e, Follows(db, e), Commit(e), UNCHANGED changes
  PROVE  IdentityInv' /\ Keeps
  <1>1. db' = e /\ saved' = saved /\ changes' = changes
    BY DEF Commit
  <1>2. Standing(db, db')
    BY <1>1 DEF Follows
  <1>3. IdentityInv'
    BY <1>1 DEF IdentityInv, Follows
  <1>4. QED
    BY <1>2, <1>3, StandingKeepsAdministrators DEF Keeps

(* and one with its event. *)
LEMMA AuditedStep ==
  ASSUME IdentityInv, NEW e, Sound(e), e.audit = db.audit, CommitAudited(e)
  PROVE  /\ IdentityInv'
         /\ EnabledAdministrators(e) \subseteq EnabledAdministrators(db')
  <1>1. db' = Audited(e) /\ saved' = saved /\ changes' = changes + 1
    BY DEF CommitAudited, Commit
  <1>2. Sound(Audited(e)) /\ AuditInv(Audited(e).audit, changes + 1) /\ Standing(e, Audited(e))
    BY AuditedEffect DEF IdentityInv
  <1>3. IdentityInv'
    BY <1>1, <1>2 DEF IdentityInv
  <1>4. QED
    BY <1>1, <1>2, <1>3, StandingKeepsAdministrators

LEMMA AuditedFollowingStep ==
  ASSUME IdentityInv, NEW e, Follows(db, e), CommitAudited(e)
  PROVE  IdentityInv' /\ Keeps
  <1>1. IdentityInv' /\ EnabledAdministrators(e) \subseteq EnabledAdministrators(db')
    BY AuditedStep DEF Follows
  <1>2. EnabledAdministrators(db) \subseteq EnabledAdministrators(e)
    BY StandingKeepsAdministrators DEF Follows
  <1>3. QED
    BY <1>1, <1>2 DEF Keeps

(* The activity of an actor changes nothing that matters. *)
LEMMA RecordedFollows ==
  ASSUME Sound(db), NEW a \in Actors
  PROVE  Follows(db, Recorded(a)) /\ Recorded(a).user = db.user /\ Recorded(a).tokens = db.tokens
  <1>1. CASE a.kind = "session"
    <2>1. a.row \in db.sessions
      BY <1>1 DEF Actors, Local
    <2>2. Recorded(a) = SessionTouched(db, a.row)
      BY <1>1 DEF Recorded
    <2>3. SessionTouched(db, a.row).user = db.user /\ SessionTouched(db, a.row).tokens = db.tokens
      BY DEF SessionTouched, Sound, Shape
    <2>4. QED
      BY <2>1, <2>2, <2>3, SessionTouchedFollows
  <1>2. CASE a.kind # "session"
    BY <1>2, FollowsItself DEF Recorded
  <1>3. QED
    BY <1>1, <1>2

(* First access. *)
LEMMA BootstrapStep ==
  ASSUME IdentityInv, NEW secret, NEW u, NEW pw, Bootstrap(secret, u, pw)
  PROVE  IdentityInv' /\ Keeps
  <1> DEFINE row == NewUser("administrator", pw, FALSE)
  <1> DEFINE e == UserInserted(db, u, row)
  <1> DEFINE d == InitialAdministrator(db, u, pw)
  <1>0. Sound(db) /\ u \notin DOMAIN db.user
    BY DEF IdentityInv, Bootstrap, InitialAdministratorAllowed, Exists
  <1>1. DOMAIN row = UserFields /\ row.totp = "none"
    BY DEF NewUser
  <1>2. e.user[u] = row /\ u \in DOMAIN e.user
    BY <1>0 DEF Sound, Shape, UserInserted
  <1>3. Follows(db, e)
    BY <1>0, <1>1, UserInsertedFollows
  <1>4. d = [e EXCEPT !.bootstrap.consumed = TRUE]
    BY DEF InitialAdministrator, BootstrapConsumed, AdministratorInserted
  <1> HIDE DEF e, row
  <1>5. /\ DOMAIN d = DOMAIN e /\ d.audit = e.audit /\ d.user = e.user /\ d.sessions = e.sessions
        /\ d.tokens = e.tokens
    BY <1>3, <1>4 DEF Follows, Sound, Shape
  <1>6. /\ CommitPlain(d) \/ \E id \in FreeId(d.sessions, MaxSessions) :
                               CommitPlain(SessionIssued(d, u, 0, id))
    BY DEF Bootstrap
  <1> HIDE DEF d
  <1>7. Follows(e, d)
    BY <1>3, <1>5, OthersChanged DEF Follows
  <1>8. Follows(db, d) /\ Sound(d)
    BY <1>3, <1>7, FollowsOn DEF Follows
  <1>9. CASE CommitPlain(d)
    BY <1>8, <1>9, PlainStep DEF CommitPlain
  <1>10. ASSUME NEW id, CommitPlain(SessionIssued(d, u, 0, id)) PROVE IdentityInv' /\ Keeps
    <2>1. Follows(d, SessionIssued(d, u, 0, id))
      BY <1>1, <1>2, <1>5, <1>8, SessionIssuedFollows
    <2>2. Follows(db, SessionIssued(d, u, 0, id))
      BY <1>8, <2>1, FollowsOn
    <2>3. QED
      BY <1>10, <2>2, PlainStep DEF CommitPlain
  <1>11. QED
    BY <1>6, <1>9, <1>10

LEMMA BootstrapIssueStep ==
  ASSUME IdentityInv, BootstrapIssue
  PROVE  IdentityInv' /\ Keeps
  <1> DEFINE e == [db EXCEPT !.bootstrap = [secret |-> fresh + 1, expires |-> now + BootstrapLifetime,
                                            consumed |-> FALSE]]
  <1>1. /\ DOMAIN e = DOMAIN db /\ e.audit = db.audit /\ e.user = db.user
        /\ e.sessions = db.sessions /\ e.tokens = db.tokens
    BY DEF IdentityInv, Sound, Shape
  <1>2. Commit(e) /\ UNCHANGED changes
    BY DEF BootstrapIssue
  <1> HIDE DEF e
  <1>3. Follows(db, e)
    BY <1>1, OthersChanged DEF IdentityInv
  <1>4. QED
    BY <1>2, <1>3, PlainStep

(* Logging in: with the factors that the account has now. *)
LEMMA LoginStep ==
  ASSUME IdentityInv, NEW u, NEW pw, Login(u, pw)
  PROVE  IdentityInv' /\ Keeps
  <1> DEFINE d == LoginSuccess(db, u)
  <1>1. Sound(db) /\ u \in DOMAIN db.user
    BY DEF IdentityInv, Login, PasswordAccepted, Exists
  <1>2. Follows(db, d) /\ DOMAIN d.user = DOMAIN db.user
    BY <1>1, LoginSuccessFollows DEF LoginSuccess, Sound, Shape
  <1>3. \/ CommitPlain(d)
        \/ \E m \in FactorCompleted(d, u) :
             \/ CommitPlain(m.db)
             \/ \E id \in FreeId(m.db.sessions, MaxSessions) :
                  CommitPlain(SessionIssued(m.db, u, m.factor, id))
    BY DEF Login
  <1> HIDE DEF d
  <1>4. Sound(d)
    BY <1>2 DEF Follows
  <1>5. CASE CommitPlain(d)
    BY <1>2, <1>5, PlainStep DEF CommitPlain
  <1>6. ASSUME NEW m \in FactorCompleted(d, u)
        PROVE  /\ Follows(d, m.db) /\ u \in DOMAIN m.db.user
               /\ m.db.user[u].totp = "enabled" => m.factor = m.db.user[u].key
    <2>1. CASE m.db = d /\ (TotpRequired(d.user[u]) => m.factor = d.user[u].key)
      BY <1>1, <1>2, <1>4, <2>1, FollowsItself DEF TotpRequired
    <2>2. ASSUME NEW c, m.db = RecoveryCodeConsumed(d, u, c), m.factor = d.user[u].key
          PROVE  /\ Follows(d, m.db) /\ u \in DOMAIN m.db.user
                 /\ m.db.user[u].totp = "enabled" => m.factor = m.db.user[u].key
      <3>1. Follows(d, m.db)
        BY <1>1, <1>2, <1>4, <2>2, RecoveryCodeConsumedFollows
      <3>2. u \in DOMAIN m.db.user /\ m.db.user[u].key = d.user[u].key
        BY <1>1, <1>2, <1>4, <2>2 DEF RecoveryCodeConsumed, Sound, Shape
      <3>3. QED
        BY <2>2, <3>1, <3>2
    <2>3. \/ m.db = d /\ (TotpRequired(d.user[u]) => m.factor = d.user[u].key)
          \/ \E c \in d.user[u].codes : m.db = RecoveryCodeConsumed(d, u, c) /\ m.factor = d.user[u].key
      BY <1>6 DEF FactorCompleted
    <2>4. QED
      BY <2>1, <2>2, <2>3
  <1>7. ASSUME NEW m \in FactorCompleted(d, u), CommitPlain(m.db) PROVE IdentityInv' /\ Keeps
    <2>1. Follows(db, m.db)
      BY <1>2, <1>6, <1>7, FollowsOn
    <2>2. QED
      BY <1>7, <2>1, PlainStep DEF CommitPlain
  <1>8. ASSUME NEW m \in FactorCompleted(d, u), NEW id,
               CommitPlain(SessionIssued(m.db, u, m.factor, id))
        PROVE  IdentityInv' /\ Keeps
    <2>1. Follows(d, m.db) /\ Sound(m.db)
      BY <1>6, <1>8 DEF Follows
    <2>2. Follows(m.db, SessionIssued(m.db, u, m.factor, id))
      BY <1>6, <2>1, SessionIssuedFollows
    <2>3. Follows(db, SessionIssued(m.db, u, m.factor, id))
      BY <1>2, <2>1, <2>2, FollowsOn
    <2>4. QED
      BY <1>8, <2>3, PlainStep DEF CommitPlain
  <1>9. QED
    BY <1>3, <1>5, <1>7, <1>8

LEMMA WrongPasswordStep ==
  ASSUME IdentityInv, NEW u, NEW pw, WrongPassword(u, pw)
  PROVE  IdentityInv' /\ Keeps
  <1>1. Follows(db, LoginFailure(db, u))
    BY LoginFailureFollows DEF IdentityInv, WrongPassword, Exists
  <1>2. QED
    BY <1>1, PlainStep DEF WrongPassword, CommitPlain

(* Requests of a session. *)
LEMMA SessionStep ==
  ASSUME IdentityInv, NEW s \in db.sessions,
         Logout(s) \/ UseSession(s) \/ TotpProvision(s) \/ TotpConfirm(s) \/ TotpDisable(s)
  PROVE  IdentityInv' /\ Keeps
  <1>1. Sound(db) /\ s.user \in DOMAIN db.user
    BY DEF IdentityInv, Sound, Shape
  <1> DEFINE t == SessionTouched(db, s)
  <1>2. Follows(db, t) /\ Sound(t) /\ t.user = db.user
    BY <1>1, SessionTouchedFollows DEF Follows, SessionTouched, Sound, Shape
  <1>3. CASE Logout(s)
    BY <1>1, <1>3, SessionRevokedFollows, PlainStep DEF Logout, CommitPlain
  <1>4. CASE UseSession(s)
    BY <1>2, <1>4, PlainStep DEF UseSession, CommitPlain
  <1>5. CASE TotpProvision(s)
    <2>1. Commit(TotpPending(t, s.user, fresh + 1)) /\ UNCHANGED changes
      BY <1>5 DEF TotpProvision
    <2> HIDE DEF t
    <2>2. Follows(t, TotpPending(t, s.user, fresh + 1))
      BY <1>1, <1>2, TotpPendingFollows
    <2>3. Follows(db, TotpPending(t, s.user, fresh + 1))
      BY <1>2, <2>2, FollowsOn
    <2>4. QED
      BY <2>1, <2>3, PlainStep
  <1>6. CASE TotpConfirm(s)
    BY <1>1, <1>6, TotpEnabledFollows, PlainStep DEF TotpConfirm, CommitPlain
  <1>7. CASE TotpDisable(s)
    BY <1>1, <1>7, TotpDisabledFollows, PlainStep DEF TotpDisable, CommitPlain
  <1>8. QED
    BY <1>3, <1>4, <1>5, <1>6, <1>7

(* The new session of a password change inherits the factor of the old one. *)
LEMMA PasswordChangeStep ==
  ASSUME IdentityInv, NEW s \in db.sessions, NEW old, NEW new, PasswordChange(s, old, new)
  PROVE  IdentityInv' /\ Keeps
  <1> DEFINE u == s.user
  <1> DEFINE r == SessionTouched(db, s)
  <1> DEFINE t == LoginSuccess(r, u)
  <1> DEFINE d == PasswordReset(t, u, new, FALSE)
  <1>1. Sound(db) /\ u \in DOMAIN db.user /\ SessionCurrent(s, db.user[u])
    BY DEF IdentityInv, Sound, Shape
  <1>2. Follows(db, r) /\ Sound(r) /\ r.user = db.user
    BY <1>1, SessionTouchedFollows DEF Follows, SessionTouched, Sound, Shape
  <1>4. CommitAudited(d) \/ \E id \in FreeId(d.sessions, MaxSessions) :
                              CommitAudited(SessionIssued(d, u, s.proof.key, id))
    BY DEF PasswordChange
  <1> HIDE DEF r, u
  <1>3. FactorKept(r, t, u)
    BY <1>1, <1>2 DEF FactorKept, LoginSuccess, Sound, Shape
  <1>4a. Follows(r, t)
    BY <1>1, <1>2, LoginSuccessFollows
  <1> HIDE DEF t
  <1>5. Sound(t) /\ Follows(db, t) /\ u \in DOMAIN t.user
    BY <1>1, <1>2, <1>3, <1>4a, FollowsOn DEF Follows, FactorKept
  <1>6. Follows(t, d)
    BY <1>5, PasswordResetFollows
  <1>6a. FactorKept(t, d, u)
    BY <1>5, PasswordResetKeepsFactor
  <1> HIDE DEF d
  <1>7. Follows(db, d) /\ Sound(d)
    BY <1>5, <1>6, FollowsOn DEF Follows
  <1>8. CASE CommitAudited(d)
    BY <1>7, <1>8, AuditedFollowingStep
  <1>9. ASSUME NEW id, CommitAudited(SessionIssued(d, u, s.proof.key, id))
        PROVE  IdentityInv' /\ Keeps
    <2>1. d.user[u].totp = "enabled" => s.proof.key = d.user[u].key
      BY <1>1, <1>2, <1>3, <1>6a DEF SessionCurrent, FactorKept
    <2>2. Follows(d, SessionIssued(d, u, s.proof.key, id))
      BY <1>5, <1>6a, <1>7, <2>1, SessionIssuedFollows DEF FactorKept
    <2>3. Follows(db, SessionIssued(d, u, s.proof.key, id))
      BY <1>7, <2>2, FollowsOn
    <2>4. QED
      BY <1>9, <2>3, AuditedFollowingStep
  <1>10. QED
    BY <1>4, <1>8, <1>9

LEMMA PasswordChangeRefusedStep ==
  ASSUME IdentityInv, NEW s \in db.sessions, NEW old, PasswordChangeRefused(s, old)
  PROVE  IdentityInv' /\ Keeps
  <1> DEFINE t == SessionTouched(db, s)
  <1>1. Sound(db) /\ s.user \in DOMAIN db.user
    BY DEF IdentityInv, Sound, Shape
  <1>2. Follows(db, t) /\ Sound(t) /\ t.user = db.user
    BY <1>1, SessionTouchedFollows DEF Follows, SessionTouched, Sound, Shape
  <1>3. CommitPlain(LoginFailure(t, s.user))
    BY DEF PasswordChangeRefused
  <1> HIDE DEF t
  <1>4. Follows(db, LoginFailure(t, s.user))
    BY <1>1, <1>2, LoginFailureFollows, FollowsOn
  <1>5. QED
    BY <1>3, <1>4, PlainStep DEF CommitPlain

(* Requests of an administrator, whose own activity is recorded first. *)
LEMMA AccountStep ==
  ASSUME IdentityInv, NEW a \in Actors, NEW e,
         Follows(Recorded(a), e), CommitAudited(e)
  PROVE  IdentityInv' /\ Keeps
  <1>1. Follows(db, Recorded(a))
    BY RecordedFollows DEF IdentityInv
  <1>2. Follows(db, e)
    BY <1>1, FollowsOn
  <1>3. QED
    BY <1>2, AuditedFollowingStep

LEMMA UserCreateStep ==
  ASSUME IdentityInv, NEW a \in Actors, NEW u, NEW role, NEW pw, NEW force,
         UserCreate(a, u, role, pw, force)
  PROVE  IdentityInv' /\ Keeps
  <1> DEFINE r == Recorded(a)
  <1> DEFINE row == NewUser(role, pw, force)
  <1>1. Sound(r) /\ r.user = db.user
    BY RecordedFollows DEF IdentityInv, Follows
  <1>2. DOMAIN row = UserFields
    BY DEF NewUser
  <1>3. u \notin DOMAIN db.user /\ CommitAudited(UserInserted(r, u, row))
    BY DEF UserCreate, Exists
  <1> HIDE DEF row
  <1>4. Follows(r, UserInserted(r, u, row))
    BY <1>1, <1>2, <1>3, UserInsertedFollows
  <1>5. QED
    BY <1>3, <1>4, AccountStep

(* The last enabled administrator stays one: an update that would take his *)
(* standing is refused, and with two of them the other remains.            *)
LEMMA UserUpdateStep ==
  ASSUME IdentityInv, NEW a \in Actors, NEW u, NEW revision, NEW role,
         NEW enabled \in BOOLEAN, NEW force,
         UserUpdate(a, u, revision, role, enabled, force)
  PROVE  IdentityInv' /\ Keeps
  <1> DEFINE r == Recorded(a)
  <1> DEFINE e == UserUpdated(r, u, role, enabled, force)
  <1>1. Sound(r) /\ r.user = db.user /\ r.audit = db.audit
    BY RecordedFollows DEF IdentityInv, Follows
  <1>2. u \in DOMAIN db.user /\ ~AdministratorLost(db, u, role, enabled) /\ CommitAudited(e)
    BY DEF UserUpdate, Exists
  <1> HIDE DEF r
  <1>3. Updated(r, e, u, role, enabled)
    BY <1>1, <1>2, UserUpdatedSound
  <1> HIDE DEF e
  <1>4. Sound(e) /\ e.audit = db.audit
    BY <1>1, <1>3 DEF Updated
  <1>5. IdentityInv' /\ EnabledAdministrators(e) \subseteq EnabledAdministrators(db')
    BY <1>2, <1>4, AuditedStep
  <1>6. ASSUME NEW w \in EnabledAdministrators(db) PROVE EnabledAdministrators(e) # {}
    <2>1. CASE \E v \in EnabledAdministrators(db) : v # u
      BY <2>1, <1>1, <1>3 DEF EnabledAdministrators, Updated
    <2>2. CASE \A v \in EnabledAdministrators(db) : v = u
      <3>1. EnabledAdministrators(db) = {u} /\ u \in EnabledAdministrators(db)
        BY <1>6, <2>2
      <3>2. Cardinality(EnabledAdministrators(db)) <= 1
        BY <3>1, FS_Singleton
      <3>3. enabled /\ role = "administrator"
        BY <1>2, <3>1, <3>2 DEF AdministratorLost
      <3>4. u \in EnabledAdministrators(e)
        BY <1>1, <1>2, <1>3, <3>3 DEF EnabledAdministrators, Updated
      <3>5. QED
        BY <3>4
    <2>3. QED
      BY <2>1, <2>2
  <1>7. QED
    BY <1>5, <1>6 DEF Keeps

LEMMA UserPasswordResetStep ==
  ASSUME IdentityInv, NEW a \in Actors, NEW u, NEW revision, NEW pw, NEW force,
         UserPasswordReset(a, u, revision, pw, force)
  PROVE  IdentityInv' /\ Keeps
  <1> DEFINE r == Recorded(a)
  <1>1. Sound(r) /\ r.user = db.user
    BY RecordedFollows DEF IdentityInv, Follows
  <1>2. u \in DOMAIN db.user /\ CommitAudited(PasswordReset(r, u, pw, force))
    BY DEF UserPasswordReset, Exists
  <1>3. Follows(r, PasswordReset(r, u, pw, force))
    BY <1>1, <1>2, PasswordResetFollows
  <1>4. QED
    BY <1>2, <1>3, AccountStep

LEMMA UserTotpDisableStep ==
  ASSUME IdentityInv, NEW a \in Actors, NEW u, NEW revision, UserTotpDisable(a, u, revision)
  PROVE  IdentityInv' /\ Keeps
  <1> DEFINE r == Recorded(a)
  <1>1. Sound(r) /\ r.user = db.user
    BY RecordedFollows DEF IdentityInv, Follows
  <1>2. u \in DOMAIN db.user /\ CommitAudited(TotpDisabled(r, u))
    BY DEF UserTotpDisable, Exists
  <1>3. Follows(r, TotpDisabled(r, u))
    BY <1>1, <1>2, TotpDisabledFollows
  <1>4. QED
    BY <1>2, <1>3, AccountStep

(* Tokens and certificate mappings. *)
LEMMA TokenStep ==
  ASSUME IdentityInv, NEW a \in Actors,
         \/ \E u, scopes, expires : TokenIssue(a, u, scopes, expires)
         \/ \E k \in db.tokens : TokenRevoke(a, k)
  PROVE  IdentityInv' /\ Keeps
  <1> DEFINE r == Recorded(a)
  <1>1. Sound(r) /\ r.user = db.user /\ r.tokens = db.tokens
    BY RecordedFollows DEF IdentityInv, Follows
  <1>2. ASSUME NEW u, NEW scopes, NEW expires, TokenIssue(a, u, scopes, expires)
        PROVE  IdentityInv' /\ Keeps
    <2>1. u \in DOMAIN db.user
          /\ \E id \in FreeId(db.tokens, MaxTokens) :
                CommitAudited(TokenInserted(r, u, scopes, expires, id))
      BY <1>2 DEF TokenIssue, TokenIssueAllowed, Exists
    <2>2. PICK id \in FreeId(db.tokens, MaxTokens) :
                 CommitAudited(TokenInserted(r, u, scopes, expires, id))
      BY <2>1
    <2>3. Follows(r, TokenInserted(r, u, scopes, expires, id))
      BY <1>1, <2>1, TokenInsertedFollows
    <2>4. QED
      BY <2>2, <2>3, AccountStep
  <1>3. ASSUME NEW k \in db.tokens, TokenRevoke(a, k) PROVE IdentityInv' /\ Keeps
    <2>1. CommitAudited(TokenRevoked(r, k))
      BY <1>3 DEF TokenRevoke
    <2>2. Follows(r, TokenRevoked(r, k))
      BY <1>1, <1>3, TokenRevokedFollows
    <2>3. QED
      BY <2>1, <2>2, AccountStep
  <1>4. QED
    BY <1>2, <1>3

LEMMA MappingStep ==
  ASSUME IdentityInv, NEW a \in Actors,
         \/ \E c, subject, until : MappingCreate(a, c, subject, until)
         \/ \E m \in db.mappings : MappingRevoke(a, m)
  PROVE  IdentityInv' /\ Keeps
  <1> DEFINE r == Recorded(a)
  <1>1. Sound(r)
    BY RecordedFollows DEF IdentityInv, Follows
  <1>2. ASSUME NEW M, CommitAudited([r EXCEPT !.mappings = M]) PROVE IdentityInv' /\ Keeps
    <2> DEFINE e == [r EXCEPT !.mappings = M]
    <2>1. /\ DOMAIN e = DOMAIN r /\ e.audit = r.audit /\ e.user = r.user
          /\ e.sessions = r.sessions /\ e.tokens = r.tokens
      BY <1>1 DEF Sound, Shape
    <2> HIDE DEF e
    <2>2. Follows(r, e)
      BY <1>1, <2>1, OthersChanged
    <2>3. QED
      BY <1>2, <2>2, AccountStep DEF e
  <1>3. ASSUME NEW c, NEW subject, NEW until, MappingCreate(a, c, subject, until)
        PROVE  IdentityInv' /\ Keeps
    BY <1>2, <1>3 DEF MappingCreate, MappingInserted
  <1>4. ASSUME NEW m, MappingRevoke(a, m) PROVE IdentityInv' /\ Keeps
    BY <1>2, <1>4 DEF MappingRevoke, MappingRevoked
  <1>5. QED
    BY <1>3, <1>4

(* A restore goes back to another sound database, and on with its own chain. *)
LEMMA RestoreFullStep ==
  ASSUME IdentityInv, RestoreFull PROVE IdentityInv'
  <1> DEFINE d == saved[1]
  <1> DEFINE e == FullReplacement(d)
  <1>1. Sound(d) /\ CommitAudited(e)
    BY DEF IdentityInv, RestoreFull
  <1> HIDE DEF d
  <1>2. /\ DOMAIN e = DOMAIN d /\ e.audit = db.audit /\ e.user = d.user
        /\ e.sessions = d.sessions /\ e.tokens = d.tokens
    BY <1>1 DEF FullReplacement, Sound, Shape
  <1> HIDE DEF e
  <1>3. Sound(e)
    BY <1>1, <1>2 DEF Sound, Shape
  <1>4. QED
    BY <1>1, <1>2, <1>3, AuditedStep

(* Every step keeps the invariant, and an administrator unless it restores *)
(* a backup.                                                               *)
LEMMA NextIdentityInv ==
  ASSUME IdentityInv, [Next]_vars PROVE IdentityInv' /\ (Keeps \/ RestoreFull)
  <1>1. CASE BootstrapIssue
    BY <1>1, BootstrapIssueStep
  <1>2. CASE AccessRequest
    BY <1>2, BootstrapStep, LoginStep, WrongPasswordStep DEF AccessRequest
  <1>3. CASE SessionRequest
    BY <1>3, SessionStep, PasswordChangeStep, PasswordChangeRefusedStep DEF SessionRequest
  <1>4. CASE AccountRequest
    BY <1>4, UserCreateStep, UserUpdateStep, UserPasswordResetStep, UserTotpDisableStep
       DEF AccountRequest
  <1>5. CASE TokenRequest
    BY <1>5, TokenStep, MappingStep DEF TokenRequest
  <1>6. CASE BackUp
    <2>1. db' = db /\ changes' = changes /\ saved' = <<db>>
      BY <1>6 DEF BackUp
    <2>2. saved'[1] = db
      BY <2>1
    <2>3. QED
      BY <2>1, <2>2 DEF IdentityInv, Keeps
  <1>7. CASE RestoreFull
    BY <1>7, RestoreFullStep
  <1>8. CASE Tick \/ UNCHANGED vars
    BY <1>8 DEF Tick, vars, IdentityInv, Keeps
  <1>9. QED
    BY <1>1, <1>2, <1>3, <1>4, <1>5, <1>6, <1>7, <1>8 DEF Next

LEMMA IdentityInvHolds == Spec => []IdentityInv
  <1>1. IdentityInv /\ [Next]_vars => IdentityInv'
    BY NextIdentityInv
  <1>2. QED
    BY <1>1, InitIdentityInv, PTL DEF Spec

(* Whatever the daemon would accept, a session or a token, was earned under *)
(* the account as it is now, whoever changes passwords, roles and factors   *)
(* in between and whatever backup is restored: for every appliance.         *)
THEOREM CredentialsAreCurrentHolds == Spec => []CredentialsAreCurrent
  <1>1. ASSUME IdentityInv PROVE CredentialsAreCurrent
    <2>1. \A s \in db.sessions : SessionCurrent(s, db.user[s.user])
      BY <1>1 DEF IdentityInv, Sound
    <2>2. \A k \in db.tokens : TokenCurrent(k, db.user[k.user])
      BY <1>1 DEF IdentityInv, Sound
    <2>3. QED
      BY <2>1, <2>2 DEF CredentialsAreCurrent, SessionCurrent, TokenCurrent, TokenAccepted
  <1>2. QED
    BY <1>1, IdentityInvHolds, PTL

(* The audit chain verifies from its first event and has one for every      *)
(* administrative change, however many were made and undone by restores.    *)
THEOREM ChangesAreAuditedHolds == Spec => []ChangesAreAudited
  <1>1. IdentityInv => ChangesAreAudited
    BY DEF IdentityInv, AuditInv, ChangesAreAudited
  <1>2. QED
    BY <1>1, IdentityInvHolds, PTL

(* No request takes the last enabled administrator away; only the restore   *)
(* of a backup may.                                                         *)
THEOREM AdministratorRemainsHolds == Spec => AdministratorRemains
  <1>1. IdentityInv /\ [Next]_vars =>
          [EnabledAdministrators(db) # {} =>
             RestoreFull \/ EnabledAdministrators(db') # {}]_vars
    BY NextIdentityInv DEF Keeps
  <1>2. QED
    BY <1>1, IdentityInvHolds, PTL DEF Spec, AdministratorRemains

-----------------------------------------------------------------------------
(* Network transactions *)


Armed == journal.state = "ready"

HelperType ==
  /\ bridge \in Configs \cup {Partial} /\ rules \in Configs \cup {Absent}
  /\ current \in Configs \cup {None} /\ pending \in Configs \cup {None}
  /\ checkpoint \in Configs \cup {None, Partial} /\ (pending # None => checkpoint # None)

(* While it is intact the helper has a confirmed configuration.  Without a *)
(* transaction the kernel has it; with one the kernel has the pending      *)
(* configuration, and what a rollback needs is what was confirmed.         *)
HelperInv ==
  /\ HelperType
  /\ intact =>
       /\ current \in Configs
       /\ pending = None => kernelVars = <<current, current>>
       /\ pending # None => /\ kernelVars = <<pending, pending>>
                            /\ checkpoint = current
                            /\ prior = <<current, current>>

(* What the database holds.  An armed journal entry names two              *)
(* configurations, one of which is stored.                                 *)
DiskInv ==
  /\ stored \in [config : Configs, revision : Nat]
  /\ journal.state \in {None, "prepared", "ready"}
  /\ Armed => /\ journal.previous \in Configs /\ journal.replacement \in Configs
              /\ stored.config \in {journal.previous, journal.replacement}
  /\ intact /\ ~Armed => current = stored.config

(* While a confirmation or a recovery works, only its own configuration    *)
(* can be pending: nothing else calls the helper.                          *)
OnlyPending(c) == pending # None => pending = c

Recovering ==
  {"recover.rollback", "recover.apply", "recover.store", "recover.undo",
   "recover.confirm", "recover.fail", "recover.restore"}

(* What the daemon may rely on at each place between two of its calls. *)
PlaceInv ==
  /\ dpc \in {"idle", "apply.verify", "apply.undo", "confirm.prepare", "confirm.ready",
              "confirm.store", "confirm.call", "confirm.finish", "recover", "recover.finish",
              "down", "start.apply", "start.confirm", "start.undo"} \cup Recovering
  /\ after \in {"idle", "start.apply"}
  /\ dpc \in {"idle", "start.apply", "start.confirm"} /\ Armed => degraded
  /\ dpc \in {"apply.verify", "apply.undo", "confirm.prepare"} => ~Armed
  /\ dpc = "confirm.prepare" => target \in Configs /\ OnlyPending(target)
  /\ dpc = "confirm.ready" =>
       /\ target \in Configs /\ OnlyPending(target)
       /\ journal = [state |-> "prepared", previous |-> stored.config, replacement |-> target]
  /\ dpc = "confirm.store" =>
       Armed /\ journal.replacement = target /\ target \in Configs /\ OnlyPending(target)
  /\ dpc = "confirm.call" =>
       /\ Armed /\ journal.replacement = target /\ stored.config = target
       /\ target \in Configs /\ OnlyPending(target)
  /\ dpc = "confirm.finish" /\ Armed /\ intact => current = stored.config /\ pending = None
  /\ dpc \in Recovering => Armed
  /\ dpc = "recover.store" => OnlyPending(journal.previous)
  /\ dpc = "recover.confirm" => OnlyPending(journal.previous) /\ stored.config = journal.previous
  /\ dpc = "recover.finish" /\ Armed /\ intact => current = stored.config /\ pending = None
  /\ dpc = "start.confirm" => OnlyPending(stored.config)

NetworkInv == HelperInv /\ DiskInv /\ PlaceInv

(* How a transaction of the helper may end. *)
LEMMA GivesUp ==
  ASSUME NetworkNext, pending # None, pending' = None
  PROVE  \/ HelperConfirm
         \/ HelperRollback
         \/ ~intact' /\ (bridge' = checkpoint \/ current' = None)
  <1> USE DEF helperVars, Cleared, None
  <1>1. ASSUME NEW c \in Configs, NetworkApply(c) PROVE FALSE
    BY <1>1, ConfigAssumption DEF NetworkApply, ApplyCall, Call, Busy, HelperApply,
       HelperApplyBroken
  <1>2. CASE \/ NetworkRollback \/ NetworkApplyUndo \/ RecoverRollback \/ RecoverUndo
             \/ RecoverFail \/ StartUndo
    BY <1>2 DEF NetworkRollback, NetworkApplyUndo, RecoverRollback, RecoverUndo, RecoverFail,
       StartUndo, RollbackCall, Call, Busy, HelperRollbackBroken
  <1>3. CASE ConfirmCall \/ RecoverConfirm \/ StartConfirm
    BY <1>3 DEF ConfirmCall, RecoverConfirm, StartConfirm, Call, Busy
  <1>4. CASE RecoverApply \/ StartApply
    BY <1>4 DEF RecoverApply, StartApply, Call, Busy, HelperApply, HelperApplyBroken
  <1>5. CASE Expire \/ HelperCrash
    BY <1>5 DEF Expire, HelperCrash
  <1>6. CASE \/ NetworkConfirm \/ NetworkApplyVerify \/ ConfirmPrepare \/ ConfirmReady
             \/ ConfirmStore \/ ConfirmFinish \/ Recover \/ RecoverStore \/ RecoverRestore
             \/ RecoverFinish \/ DaemonStart \/ DaemonCrash \/ ServiceRestart \/ DeadlinePasses
    BY <1>6 DEF NetworkConfirm, NetworkApplyVerify, ConfirmPrepare, ConfirmReady, ConfirmStore,
       ConfirmFinish, Recover, RecoverStore, RecoverRestore, RecoverFinish, DaemonStart,
       DaemonCrash, ServiceRestart, DeadlinePasses
  <1>7. QED
    BY <1>1, <1>2, <1>3, <1>4, <1>5, <1>6 DEF NetworkNext, DaemonStep

LEMMA InitNetworkInv == NetworkInit => NetworkInv
  BY ConfigAssumption DEF NetworkInit, NetworkInv, HelperInv, HelperType, DiskInv, PlaceInv,
     OnlyPending,
     Armed, Recovering, NoJournal, kernelVars, None, Absent, Partial

(* Every step keeps what a rollback needs. *)
LEMMA NextHelperInv ==
  ASSUME HelperInv, DiskInv, PlaceInv, [NetworkNext]_networkVars
  PROVE  HelperInv'
  <1> USE DEF HelperInv, HelperType, DiskInv, PlaceInv, OnlyPending, Armed, Recovering, None, Absent, Partial,
              networkVars, helperVars, kernelVars, ghostVars, diskVars, daemonVars
  <1>1. ASSUME NEW c \in Configs, NetworkApply(c) PROVE HelperInv'
    BY <1>1, ConfigAssumption DEF NetworkApply, ApplyCall, Call, Busy, HelperApply,
       HelperApplyBroken
  <1>2. CASE NetworkRollback
    BY <1>2, ConfigAssumption DEF NetworkRollback, RollbackCall, Call, Busy,
       HelperRollback, HelperRollbackBroken, Cleared
  <1>3. CASE NetworkConfirm
    BY <1>3, ConfigAssumption DEF NetworkConfirm
  <1>4. CASE NetworkApplyVerify
    BY <1>4, ConfigAssumption DEF NetworkApplyVerify
  <1>5. CASE NetworkApplyUndo
    BY <1>5, ConfigAssumption DEF NetworkApplyUndo, RollbackCall, Call, Busy,
       HelperRollback, HelperRollbackBroken, Cleared
  <1>6. CASE ConfirmPrepare
    BY <1>6, ConfigAssumption DEF ConfirmPrepare
  <1>7. CASE ConfirmReady
    BY <1>7, ConfigAssumption DEF ConfirmReady
  <1>8. CASE ConfirmStore
    BY <1>8, ConfigAssumption DEF ConfirmStore, Store, RecoverThen
  <1>9. CASE ConfirmCall
    BY <1>9, ConfigAssumption DEF ConfirmCall, Call, Busy, HelperConfirm, Cleared
  <1>10. CASE ConfirmFinish
    BY <1>10, ConfigAssumption DEF ConfirmFinish, RecoverThen
  <1>11. CASE Recover
    BY <1>11, ConfigAssumption DEF Recover
  <1>12. CASE RecoverRollback
    BY <1>12, ConfigAssumption DEF RecoverRollback, Call, Busy, HelperRollback,
       HelperRollbackBroken, Cleared
  <1>13. CASE RecoverApply
    BY <1>13, ConfigAssumption DEF RecoverApply, Call, Busy, HelperApply, HelperApplyBroken
  <1>14. CASE RecoverStore
    BY <1>14, ConfigAssumption DEF RecoverStore, Store, StoreIfOther
  <1>15. CASE RecoverUndo
    BY <1>15, ConfigAssumption DEF RecoverUndo, RollbackCall, Call, Busy,
       HelperRollback, HelperRollbackBroken, Cleared
  <1>16. CASE RecoverConfirm
    BY <1>16, ConfigAssumption DEF RecoverConfirm, Call, Busy, HelperConfirm, Cleared
  <1>17. CASE RecoverFail
    BY <1>17, ConfigAssumption DEF RecoverFail, RollbackCall, Call, Busy,
       HelperRollback, HelperRollbackBroken, Cleared
  <1>18. CASE RecoverRestore
    BY <1>18, ConfigAssumption DEF RecoverRestore, Store, StoreIfOther
  <1>19. CASE RecoverFinish
    BY <1>19, ConfigAssumption DEF RecoverFinish
  <1>20. CASE DaemonStart
    BY <1>20, ConfigAssumption DEF DaemonStart, RecoverThen
  <1>21. CASE StartApply
    BY <1>21, ConfigAssumption DEF StartApply, Call, Busy, HelperApply, HelperApplyBroken
  <1>22. CASE StartConfirm
    BY <1>22, ConfigAssumption DEF StartConfirm, Call, Busy, HelperConfirm, Cleared
  <1>23. CASE StartUndo
    BY <1>23, ConfigAssumption DEF StartUndo, RollbackCall, Call, Busy, HelperRollback,
       HelperRollbackBroken, Cleared
  <1>24. CASE DaemonCrash
    BY <1>24, ConfigAssumption DEF DaemonCrash
  <1>25. CASE ServiceRestart
    BY <1>25, ConfigAssumption DEF ServiceRestart
  <1>26. CASE DeadlinePasses
    BY <1>26, ConfigAssumption DEF DeadlinePasses
  <1>27. CASE Expire
    BY <1>27, ConfigAssumption DEF Expire, HelperRollback, Cleared
  <1>28. CASE HelperCrash
    BY <1>28, ConfigAssumption DEF HelperCrash, Cleared
  <1>29. CASE UNCHANGED networkVars
    BY <1>29
  <1>30. QED
    BY <1>1, <1>2, <1>3, <1>4, <1>5, <1>6, <1>7, <1>8, <1>9, <1>10, <1>11, <1>12, <1>13,
       <1>14, <1>15, <1>16, <1>17, <1>18, <1>19, <1>20, <1>21, <1>22, <1>23, <1>24,
       <1>25, <1>26, <1>27, <1>28, <1>29 DEF NetworkNext, DaemonStep

(* Every step keeps the database with the helper, or the journal entry that will. *)
LEMMA NextDiskInv ==
  ASSUME HelperInv, DiskInv, PlaceInv, [NetworkNext]_networkVars
  PROVE  DiskInv'
  <1> USE DEF HelperInv, HelperType, DiskInv, PlaceInv, OnlyPending, Armed, Recovering, NoJournal, None, Absent, Partial,
              networkVars, helperVars, kernelVars, ghostVars, diskVars, daemonVars
  <1>1. ASSUME NEW c \in Configs, NetworkApply(c) PROVE DiskInv'
    BY <1>1, ConfigAssumption DEF NetworkApply, ApplyCall, Call, Busy, HelperApply,
       HelperApplyBroken
  <1>2. CASE NetworkRollback
    BY <1>2, ConfigAssumption DEF NetworkRollback, RollbackCall, Call, Busy,
       HelperRollback, HelperRollbackBroken, Cleared
  <1>3. CASE NetworkConfirm
    BY <1>3, ConfigAssumption DEF NetworkConfirm
  <1>4. CASE NetworkApplyVerify
    BY <1>4, ConfigAssumption DEF NetworkApplyVerify
  <1>5. CASE NetworkApplyUndo
    BY <1>5, ConfigAssumption DEF NetworkApplyUndo, RollbackCall, Call, Busy,
       HelperRollback, HelperRollbackBroken, Cleared
  <1>6. CASE ConfirmPrepare
    BY <1>6, ConfigAssumption DEF ConfirmPrepare
  <1>7. CASE ConfirmReady
    BY <1>7, ConfigAssumption DEF ConfirmReady
  <1>8. CASE ConfirmStore
    BY <1>8, ConfigAssumption DEF ConfirmStore, Store, RecoverThen
  <1>9. CASE ConfirmCall
    BY <1>9, ConfigAssumption DEF ConfirmCall, Call, Busy, HelperConfirm, Cleared
  <1>10. CASE ConfirmFinish
    BY <1>10, ConfigAssumption DEF ConfirmFinish, RecoverThen
  <1>11. CASE Recover
    BY <1>11, ConfigAssumption DEF Recover
  <1>12. CASE RecoverRollback
    BY <1>12, ConfigAssumption DEF RecoverRollback, Call, Busy, HelperRollback,
       HelperRollbackBroken, Cleared
  <1>13. CASE RecoverApply
    BY <1>13, ConfigAssumption DEF RecoverApply, Call, Busy, HelperApply, HelperApplyBroken
  <1>14. CASE RecoverStore
    BY <1>14, ConfigAssumption DEF RecoverStore, Store, StoreIfOther
  <1>15. CASE RecoverUndo
    BY <1>15, ConfigAssumption DEF RecoverUndo, RollbackCall, Call, Busy,
       HelperRollback, HelperRollbackBroken, Cleared
  <1>16. CASE RecoverConfirm
    BY <1>16, ConfigAssumption DEF RecoverConfirm, Call, Busy, HelperConfirm, Cleared
  <1>17. CASE RecoverFail
    BY <1>17, ConfigAssumption DEF RecoverFail, RollbackCall, Call, Busy,
       HelperRollback, HelperRollbackBroken, Cleared
  <1>18. CASE RecoverRestore
    BY <1>18, ConfigAssumption DEF RecoverRestore, Store, StoreIfOther
  <1>19. CASE RecoverFinish
    BY <1>19, ConfigAssumption DEF RecoverFinish
  <1>20. CASE DaemonStart
    BY <1>20, ConfigAssumption DEF DaemonStart, RecoverThen
  <1>21. CASE StartApply
    BY <1>21, ConfigAssumption DEF StartApply, Call, Busy, HelperApply, HelperApplyBroken
  <1>22. CASE StartConfirm
    BY <1>22, ConfigAssumption DEF StartConfirm, Call, Busy, HelperConfirm, Cleared
  <1>23. CASE StartUndo
    BY <1>23, ConfigAssumption DEF StartUndo, RollbackCall, Call, Busy, HelperRollback,
       HelperRollbackBroken, Cleared
  <1>24. CASE DaemonCrash
    BY <1>24, ConfigAssumption DEF DaemonCrash
  <1>25. CASE ServiceRestart
    BY <1>25, ConfigAssumption DEF ServiceRestart
  <1>26. CASE DeadlinePasses
    BY <1>26, ConfigAssumption DEF DeadlinePasses
  <1>27. CASE Expire
    BY <1>27, ConfigAssumption DEF Expire, HelperRollback, Cleared
  <1>28. CASE HelperCrash
    BY <1>28, ConfigAssumption DEF HelperCrash, Cleared
  <1>29. CASE UNCHANGED networkVars
    BY <1>29
  <1>30. QED
    BY <1>1, <1>2, <1>3, <1>4, <1>5, <1>6, <1>7, <1>8, <1>9, <1>10, <1>11, <1>12, <1>13,
       <1>14, <1>15, <1>16, <1>17, <1>18, <1>19, <1>20, <1>21, <1>22, <1>23, <1>24,
       <1>25, <1>26, <1>27, <1>28, <1>29 DEF NetworkNext, DaemonStep

(* Every step leads the daemon to a place whose assumptions hold. *)
LEMMA NextPlaceInv ==
  ASSUME HelperInv, DiskInv, PlaceInv, [NetworkNext]_networkVars
  PROVE  PlaceInv'
  <1> USE DEF HelperInv, HelperType, DiskInv, PlaceInv, OnlyPending, Armed, Recovering, NoJournal, None, Absent, Partial,
              networkVars, helperVars, kernelVars, ghostVars, diskVars, daemonVars
  <1>1. ASSUME NEW c \in Configs, NetworkApply(c) PROVE PlaceInv'
    BY <1>1, ConfigAssumption DEF NetworkApply, ApplyCall, Call, Busy, HelperApply,
       HelperApplyBroken
  <1>2. CASE NetworkRollback
    BY <1>2, ConfigAssumption DEF NetworkRollback, RollbackCall, Call, Busy,
       HelperRollback, HelperRollbackBroken, Cleared
  <1>3. CASE NetworkConfirm
    BY <1>3, ConfigAssumption DEF NetworkConfirm
  <1>4. CASE NetworkApplyVerify
    BY <1>4, ConfigAssumption DEF NetworkApplyVerify
  <1>5. CASE NetworkApplyUndo
    BY <1>5, ConfigAssumption DEF NetworkApplyUndo, RollbackCall, Call, Busy,
       HelperRollback, HelperRollbackBroken, Cleared
  <1>6. CASE ConfirmPrepare
    BY <1>6, ConfigAssumption DEF ConfirmPrepare
  <1>7. CASE ConfirmReady
    BY <1>7, ConfigAssumption DEF ConfirmReady
  <1>8. CASE ConfirmStore
    BY <1>8, ConfigAssumption DEF ConfirmStore, Store, RecoverThen
  <1>9. CASE ConfirmCall
    BY <1>9, ConfigAssumption DEF ConfirmCall, Call, Busy, HelperConfirm, Cleared
  <1>10. CASE ConfirmFinish
    BY <1>10, ConfigAssumption DEF ConfirmFinish, RecoverThen
  <1>11. CASE Recover
    BY <1>11, ConfigAssumption DEF Recover
  <1>12. CASE RecoverRollback
    BY <1>12, ConfigAssumption DEF RecoverRollback, Call, Busy, HelperRollback,
       HelperRollbackBroken, Cleared
  <1>13. CASE RecoverApply
    BY <1>13, ConfigAssumption DEF RecoverApply, Call, Busy, HelperApply, HelperApplyBroken
  <1>14. CASE RecoverStore
    BY <1>14, ConfigAssumption DEF RecoverStore, Store, StoreIfOther
  <1>15. CASE RecoverUndo
    BY <1>15, ConfigAssumption DEF RecoverUndo, RollbackCall, Call, Busy,
       HelperRollback, HelperRollbackBroken, Cleared
  <1>16. CASE RecoverConfirm
    BY <1>16, ConfigAssumption DEF RecoverConfirm, Call, Busy, HelperConfirm, Cleared
  <1>17. CASE RecoverFail
    BY <1>17, ConfigAssumption DEF RecoverFail, RollbackCall, Call, Busy,
       HelperRollback, HelperRollbackBroken, Cleared
  <1>18. CASE RecoverRestore
    BY <1>18, ConfigAssumption DEF RecoverRestore, Store, StoreIfOther
  <1>19. CASE RecoverFinish
    BY <1>19, ConfigAssumption DEF RecoverFinish
  <1>20. CASE DaemonStart
    BY <1>20, ConfigAssumption DEF DaemonStart, RecoverThen
  <1>21. CASE StartApply
    BY <1>21, ConfigAssumption DEF StartApply, Call, Busy, HelperApply, HelperApplyBroken
  <1>22. CASE StartConfirm
    BY <1>22, ConfigAssumption DEF StartConfirm, Call, Busy, HelperConfirm, Cleared
  <1>23. CASE StartUndo
    BY <1>23, ConfigAssumption DEF StartUndo, RollbackCall, Call, Busy, HelperRollback,
       HelperRollbackBroken, Cleared
  <1>24. CASE DaemonCrash
    BY <1>24, ConfigAssumption DEF DaemonCrash
  <1>25. CASE ServiceRestart
    BY <1>25, ConfigAssumption DEF ServiceRestart
  <1>26. CASE DeadlinePasses
    BY <1>26, ConfigAssumption DEF DeadlinePasses
  <1>27. CASE Expire
    BY <1>27, ConfigAssumption DEF Expire, HelperRollback, Cleared
  <1>28. CASE HelperCrash
    BY <1>28, ConfigAssumption DEF HelperCrash, Cleared
  <1>29. CASE UNCHANGED networkVars
    BY <1>29
  <1>30. QED
    BY <1>1, <1>2, <1>3, <1>4, <1>5, <1>6, <1>7, <1>8, <1>9, <1>10, <1>11, <1>12, <1>13,
       <1>14, <1>15, <1>16, <1>17, <1>18, <1>19, <1>20, <1>21, <1>22, <1>23, <1>24,
       <1>25, <1>26, <1>27, <1>28, <1>29 DEF NetworkNext, DaemonStep


LEMMA NetworkInvHolds == NetworkSpec => []NetworkInv
  <1>1. NetworkInv /\ [NetworkNext]_networkVars => NetworkInv'
    BY NextHelperInv, NextDiskInv, NextPlaceInv DEF NetworkInv
  <1>2. QED
    BY <1>1, InitNetworkInv, PTL DEF NetworkSpec

(* ConsistentWhileHelperLives: as long as the helper was not killed and no *)
(* restoration failed half-way, a daemon at rest has one configuration in  *)
(* the bridge, in the packet filter and in the database, whatever calls,   *)
(* answers, SQLite transactions and daemons were lost before.              *)
THEOREM ConsistentWhileHelperLivesHolds == NetworkSpec => []ConsistentWhileHelperLives
  <1>1. NetworkInv => ConsistentWhileHelperLives
    BY DEF NetworkInv, HelperInv, DiskInv, Armed, ConsistentWhileHelperLives,
       SettledIsConsistent, Settled, kernelVars
  <1>2. QED
    BY <1>1, NetworkInvHolds, PTL

(* RollbackRestoresPrior: jg_netd_rollback_network, asked for by the daemon *)
(* or at the deadline (jg_netd_expire_network), puts back the bridge and   *)
(* the packet filter that the pending configuration replaced.              *)
THEOREM RollbackRestoresPriorHolds == NetworkSpec => RollbackRestoresPrior
  <1>1. NetworkInv /\ [NetworkNext]_networkVars =>
          [intact' /\ pending # None /\ pending' = None /\ current' # pending =>
             kernelVars' = prior]_networkVars
    <2> SUFFICES ASSUME HelperInv, NetworkNext, intact', pending # None, pending' = None,
                        current' # pending
                 PROVE  kernelVars' = prior
      BY DEF NetworkInv
    <2>1. HelperRollback
      BY GivesUp DEF HelperConfirm
    <2>2. QED
      BY <2>1, ConfigAssumption DEF HelperRollback, HelperInv, kernelVars, ghostVars, None
  <1>2. QED
    BY <1>1, NetworkInvHolds, PTL DEF NetworkSpec, RollbackRestoresPrior

(* JournalEndsInAgreement: the entry that handle_network_confirm armed is  *)
(* removed only when the database holds one of its two configurations and  *)
(* the helper has confirmed that one.                                      *)
THEOREM JournalEndsInAgreementHolds == NetworkSpec => JournalEndsInAgreement
  <1>1. NetworkInv /\ [NetworkNext]_networkVars =>
          [intact /\ journal.state = "ready" /\ journal' = NoJournal =>
             /\ stored.config \in {journal.previous, journal.replacement}
             /\ current = stored.config /\ pending = None]_networkVars
    <2> SUFFICES ASSUME NetworkInv, NetworkNext, intact, Armed, journal' = NoJournal
                 PROVE  /\ stored.config \in {journal.previous, journal.replacement}
                        /\ current = stored.config /\ pending = None
      BY DEF Armed
    <2>1. ConfirmFinish \/ RecoverFinish
      <3>1. journal' # journal
        BY DEF Armed, NoJournal, None
      <3>2. ~ConfirmPrepare /\ ~ConfirmReady
        BY DEF ConfirmPrepare, ConfirmReady, NetworkInv, PlaceInv, Armed, NoJournal, None
      <3> USE DEF diskVars
      <3>3. QED
        BY <3>1, <3>2 DEF NetworkNext, DaemonStep, NetworkApply, NetworkRollback,
           NetworkConfirm,
           NetworkApplyVerify, NetworkApplyUndo, ConfirmStore, ConfirmCall, Recover,
           RecoverRollback, RecoverApply, RecoverStore, RecoverUndo, RecoverConfirm, RecoverFail,
           RecoverRestore, DaemonStart, StartApply, StartConfirm, StartUndo, DaemonCrash,
           ServiceRestart, DeadlinePasses, Expire, HelperCrash
    <2>2. dpc \in {"confirm.finish", "recover.finish"}
      BY <2>1 DEF ConfirmFinish, RecoverFinish
    <2>3. QED
      BY <2>2 DEF NetworkInv, DiskInv, PlaceInv, Armed
  <1>2. QED
    BY <1>1, NetworkInvHolds, PTL DEF NetworkSpec, JournalEndsInAgreement

(* CheckpointIsKept: a transaction of the helper ends by its confirmation, *)
(* with the captured bridge back in place, or with the helper itself.      *)
THEOREM CheckpointIsKeptHolds == NetworkSpec => CheckpointIsKept
  <1>1. [NetworkNext]_networkVars =>
          [pending # None /\ pending' = None =>
             \/ current' = pending
             \/ bridge' = checkpoint
             \/ current' = None]_networkVars
    <2> SUFFICES ASSUME NetworkNext, pending # None, pending' = None
                 PROVE  current' = pending \/ bridge' = checkpoint \/ current' = None
      OBVIOUS
    <2>1. HelperConfirm \/ HelperRollback \/ (bridge' = checkpoint \/ current' = None)
      BY GivesUp
    <2>2. QED
      BY <2>1 DEF HelperConfirm, HelperRollback
  <1>2. QED
    BY <1>1, PTL DEF NetworkSpec, CheckpointIsKept

-----------------------------------------------------------------------------
(* Alert delivery *)

(* A row of the outbox.  A row that is done was acknowledged, or as many   *)
(* requests failed as may be; a row that waits has counted no more         *)
(* attempts than have failed.                                              *)
OutboxRow(row) ==
  /\ row = [event |-> row.event, status |-> row.status, attempts |-> row.attempts,
            wait |-> row.wait, claim |-> row.claim, age |-> row.age,
            transport |-> row.transport, acked |-> row.acked, fails |-> row.fails]
  /\ row.attempts \in Nat /\ row.fails \in Nat
  /\ row.status = "pending" => row.attempts <= row.fails
  /\ row.status = "pending" \/ row.acked \/ row.fails >= MaxAttempts

(* A configuration and the rows that were queued under it or its           *)
(* predecessors, in the database or in a backup                            *)
Together(c, rows) ==
  /\ c = [enabled |-> c.enabled, hook |-> c.hook, secret |-> c.secret,
          transport |-> c.transport, past |-> c.past]
  /\ c.transport \in c.past
  /\ rows \in Seq(Range(rows))
  /\ \A i \in DOMAIN rows : OutboxRow(rows[i]) /\ rows[i].transport \in c.past

(* What is known of a claimed row once the receiver has answered *)
Answered(row, ok) == IF ok THEN row.acked ELSE row.attempts < row.fails

AlertInv ==
  /\ Together(cfg, outbox)
  /\ archive # <<>> => Together(archive.cfg, archive.outbox)
  /\ restoring => archive # <<>>
  /\ flight = [event |-> flight.event, ok |-> flight.ok]
  /\ AttemptKeepsItsRow
  /\ pc = "complete" =>
       \A i \in DOMAIN outbox : Claimed(outbox[i]) => Answered(outbox[i], flight.ok)

(* What a step leaves of a row that is neither acknowledged nor given up *)
LeavesPending ==
  \A row \in Range(outbox) : Pending(row.event)' \/ row.acked \/ row.fails >= MaxAttempts

(* The numbers of a finite set are counted without gaps by how many of the *)
(* set are not greater.                                                    *)
LEMMA PlacesAreDense ==
  ASSUME NEW S \in SUBSET Nat, IsFiniteSet(S)
  PROVE  LET Place(i) == Cardinality({j \in S : j <= i})
         IN  /\ \A i \in S : Place(i) \in 1 .. Cardinality(S)
             /\ \A i, j \in S : Place(i) = Place(j) => i = j
             /\ \A k \in 1 .. Cardinality(S) : \E i \in S : Place(i) = k
  <1> DEFINE Upto(i) == {j \in S : j <= i}
             N == 1 .. Cardinality(S)
             place == [i \in S |-> Cardinality(Upto(i))]
  <1>1. \A i \in S : IsFiniteSet(Upto(i)) /\ Upto(i) \subseteq S
    BY FS_Subset
  <1>2. Cardinality(S) \in Nat /\ \A i \in S : Cardinality(Upto(i)) \in Nat
    BY <1>1, FS_CardinalityType
  <1>3. \A i \in S : Cardinality(Upto(i)) \in N
    <2> TAKE i \in S
    <2>1. Cardinality(Upto(i)) <= Cardinality(S)
      BY <1>1, FS_Subset
    <2>2. Cardinality(Upto(i)) # 0
      BY <1>1, FS_EmptySet
    <2>3. QED
      BY <1>2, <2>1, <2>2
  <1>4. \A i, j \in S : i < j => Cardinality(Upto(i)) < Cardinality(Upto(j))
    <2> SUFFICES ASSUME NEW i \in S, NEW j \in S, i < j
                 PROVE  Cardinality(Upto(i)) < Cardinality(Upto(j))
      OBVIOUS
    <2>1. Upto(i) \subseteq Upto(j) /\ Upto(i) # Upto(j)
      <3>1. i \in Nat /\ j \in Nat /\ j \in Upto(j) /\ j \notin Upto(i)
        OBVIOUS
      <3>2. ASSUME NEW m \in Upto(i) PROVE m \in Upto(j)
        <4>1. m \in Nat /\ m \in S /\ m <= i
          OBVIOUS
        <4>2. m <= j
          BY <3>1, <4>1
        <4>3. QED
          BY <4>1, <4>2
      <3>3. QED
        BY <3>1, <3>2
    <2>2. Cardinality(Upto(i)) <= Cardinality(Upto(j)) /\ Cardinality(Upto(i)) # Cardinality(Upto(j))
      BY <1>1, <2>1, FS_Subset
    <2>3. QED
      BY <1>2, <2>2
  <1>5. \A i, j \in S : Cardinality(Upto(i)) = Cardinality(Upto(j)) => i = j
    <2> SUFFICES ASSUME NEW i \in S, NEW j \in S, Cardinality(Upto(i)) = Cardinality(Upto(j))
                 PROVE  i = j
      OBVIOUS
    <2>1. i \in Nat /\ j \in Nat /\ ~(i < j) /\ ~(j < i)
      BY <1>2, <1>4
    <2>2. QED
      BY <2>1
  <1>6. IsFiniteSet(N) /\ Cardinality(N) = Cardinality(S)
    BY <1>2, FS_Interval
  <1>7. \A k \in N : \E i \in S : place[i] = k
    <2>1. place \in Injection(S, N)
      BY <1>3, <1>5 DEF Injection, IsInjective
    <2>2. place \in Surjection(S, N)
      BY <1>6, <2>1, FS_Injection
    <2>3. QED
      BY <2>2 DEF Surjection
  <1>8. QED
    BY <1>3, <1>5, <1>7

(* The retention keeps every notification that is not finished, and every  *)
(* row it keeps was there before (jg_database_alert_prune).                *)
LEMMA PrunedOutboxIs ==
  ASSUME Together(cfg, outbox)
  PROVE  /\ Together(cfg, PrunedOutbox)
         /\ \A i \in DOMAIN outbox : outbox[i].status = "pending" => outbox[i] \in Range(PrunedOutbox)
  <1> DEFINE S == {i \in DOMAIN outbox :
                     Finished(outbox[i]) =>
                       Cardinality({j \in DOMAIN outbox : j > i /\ Finished(outbox[j])})
                         < OutboxRetention}
             Place(i) == Cardinality({j \in S : j <= i})
  <1>1. PICK n \in Nat : DOMAIN outbox = 1 .. n
    BY DEF Together
  <1>2. S \in SUBSET Nat /\ IsFiniteSet(S) /\ Cardinality(S) \in Nat
    <2>1. S \in SUBSET (1 .. n) /\ IsFiniteSet(1 .. n)
      BY <1>1, FS_Interval
    <2> HIDE DEF S
    <2>2. IsFiniteSet(S)
      BY <2>1, FS_Subset
    <2>3. QED
      BY <2>1, <2>2, FS_CardinalityType
  <1>3. /\ \A i \in S : Place(i) \in 1 .. Cardinality(S)
        /\ \A i, j \in S : Place(i) = Place(j) => i = j
        /\ \A k \in 1 .. Cardinality(S) : \E i \in S : Place(i) = k
    <2> HIDE DEF S
    <2>1. QED
      BY <1>2, PlacesAreDense
  <1>4. PrunedOutbox = [k \in 1 .. Cardinality(S) |-> outbox[CHOOSE i \in S : Place(i) = k]]
    BY DEF PrunedOutbox, KeepLast
  <1>5. \A i \in DOMAIN outbox : outbox[i].status = "pending" => i \in S
    BY DEF Finished
  <1>6. S \subseteq DOMAIN outbox
    OBVIOUS
  <1> HIDE DEF S, Place
  <1>7. \A k \in 1 .. Cardinality(S) : \E i \in S : PrunedOutbox[k] = outbox[i]
    <2> TAKE k \in 1 .. Cardinality(S)
    <2>1. (CHOOSE i \in S : Place(i) = k) \in S
      BY <1>3
    <2>2. QED
      BY <1>4, <2>1
  <1>8. \A i \in S : outbox[i] \in Range(PrunedOutbox)
    <2> TAKE i \in S
    <2>1. (CHOOSE j \in S : Place(j) = Place(i)) = i
      BY <1>3
    <2>2. PrunedOutbox[Place(i)] = outbox[i] /\ Place(i) \in DOMAIN PrunedOutbox
      BY <1>3, <1>4, <2>1
    <2>3. QED
      BY <2>2 DEF Range
  <1>9. PrunedOutbox \in Seq(Range(PrunedOutbox)) /\ DOMAIN PrunedOutbox = 1 .. Cardinality(S)
    BY <1>2, <1>4 DEF Range
  <1>10. \A k \in DOMAIN PrunedOutbox :
           OutboxRow(PrunedOutbox[k]) /\ PrunedOutbox[k].transport \in cfg.past
    BY <1>6, <1>7, <1>9 DEF Together
  <1>11. QED
    BY <1>5, <1>8, <1>9, <1>10 DEF Together

(* A row that is queued joins the rows there are. *)
LEMMA AppendedIs ==
  ASSUME NEW c, NEW rows, Together(c, rows), NEW row, OutboxRow(row), row.transport \in c.past
  PROVE  /\ Together(c, Append(rows, row))
         /\ Range(rows) \subseteq Range(Append(rows, row))
         /\ Range(Append(rows, row)) \subseteq Range(rows) \cup {row}
  <1>1. PICK n \in Nat : rows \in [1 .. n -> Range(rows)] /\ Len(rows) = n
    BY DEF Together
  <1>2. /\ DOMAIN Append(rows, row) = 1 .. n + 1
        /\ \A i \in 1 .. n : Append(rows, row)[i] = rows[i]
        /\ Append(rows, row)[n + 1] = row
    BY <1>1
  <1>3. PICK longer : longer = Append(rows, row)
    OBVIOUS
  <1>4. longer = [i \in 1 .. n + 1 |-> longer[i]]
    <2>1. longer \in Seq(Range(rows) \cup {row}) /\ DOMAIN longer = 1 .. n + 1
      BY <1>2, <1>3 DEF Together
    <2>2. QED
      BY <2>1
  <1>5. longer \in Seq(Range(longer))
    <2>1. \A i \in 1 .. n + 1 : longer[i] \in Range(longer)
      BY <1>2, <1>3 DEF Range
    <2>2. longer \in [1 .. n + 1 -> Range(longer)]
      BY <1>2, <1>3, <1>4, <2>1
    <2>3. QED
      BY <2>2
  <1>6. \A i \in DOMAIN longer : OutboxRow(longer[i]) /\ longer[i].transport \in c.past
    BY <1>1, <1>2, <1>3 DEF Together
  <1>7. Range(rows) \subseteq Range(longer)
    BY <1>1, <1>2, <1>3 DEF Range
  <1>8. Range(longer) \subseteq Range(rows) \cup {row}
    <2>1. \A i \in 1 .. n + 1 : longer[i] \in Range(rows) \cup {row}
      BY <1>1, <1>2, <1>3
    <2>2. QED
      BY <1>2, <1>3, <2>1 DEF Range
  <1>9. QED
    BY <1>3, <1>5, <1>6, <1>7, <1>8 DEF Together

(* Rows that are rewritten in place stay with their configuration. *)
LEMMA RewrittenIs ==
  ASSUME NEW c, NEW rows, Together(c, rows), NEW new,
         new = [i \in DOMAIN rows |-> new[i]],
         \A i \in DOMAIN rows : OutboxRow(new[i]) /\ new[i].transport = rows[i].transport
  PROVE  Together(c, new)
  <1>1. PICK n \in Nat : rows \in [1 .. n -> Range(rows)]
    BY DEF Together
  <1>2. new \in [1 .. n -> Range(new)]
    BY <1>1 DEF Range
  <1>3. new \in Seq(Range(new))
    BY <1>2
  <1>4. QED
    BY <1>1, <1>2, <1>3 DEF Together

(* A notification that is queued is due at once, under the present         *)
(* transport (enqueue_payload).                                            *)
LEMMA EnqueuedIs ==
  ASSUME Together(cfg, outbox), Enqueue \/ UNCHANGED <<outbox, events>>
  PROVE  /\ Together(cfg, outbox') /\ Range(outbox) \subseteq Range(outbox')
         /\ \A row \in Range(outbox') : row \in Range(outbox) \/ row.claim = "none"
  <1>1. CASE UNCHANGED <<outbox, events>>
    BY <1>1
  <1>2. CASE Enqueue
    <2>1. PICK row : row = Row(events + 1)
      OBVIOUS
    <2>2. OutboxRow(row) /\ row.transport \in cfg.past /\ row.claim = "none"
      BY <2>1 DEF Row, OutboxRow, Together
    <2>3. outbox' = Append(outbox, row)
      BY <1>2, <2>1 DEF Enqueue
    <2>4. QED
      BY <2>2, <2>3, AppendedIs
  <1>3. QED
    BY <1>1, <1>2

(* Rows that stay as they are stay pending if they were. *)
LEMMA KeptIsPending ==
  ASSUME Together(cfg, outbox),
         \A i \in DOMAIN outbox : outbox[i].status = "pending" => outbox[i] \in Range(outbox')
  PROVE  LeavesPending
  <1> SUFFICES ASSUME NEW row \in Range(outbox), ~row.acked, ~(row.fails >= MaxAttempts)
               PROVE  Pending(row.event)'
    BY DEF LeavesPending
  <1>1. PICK i \in DOMAIN outbox : row = outbox[i]
    BY DEF Range
  <1>2. row.status = "pending"
    BY <1>1 DEF Together, OutboxRow
  <1>3. row \in Range(outbox')
    BY <1>1, <1>2
  <1>4. QED
    BY <1>2, <1>3 DEF Pending

(* Rows that are rewritten in place and stay pending *)
LEMMA RewrittenIsPending ==
  ASSUME Together(cfg, outbox), outbox' = [i \in DOMAIN outbox |-> outbox'[i]],
         \A i \in DOMAIN outbox :
           outbox[i].status = "pending" =>
             \/ outbox'[i].event = outbox[i].event /\ outbox'[i].status = "pending"
             \/ outbox[i].acked \/ outbox[i].fails >= MaxAttempts
  PROVE  LeavesPending
  <1> SUFFICES ASSUME NEW row \in Range(outbox), ~row.acked, ~(row.fails >= MaxAttempts)
               PROVE  Pending(row.event)'
    BY DEF LeavesPending
  <1>1. PICK i \in DOMAIN outbox : row = outbox[i]
    BY DEF Range
  <1>2. row.status = "pending"
    BY <1>1 DEF Together, OutboxRow
  <1>3. outbox'[i].event = row.event /\ outbox'[i].status = "pending"
    BY <1>1, <1>2
  <1>4. outbox'[i] \in Range(outbox')
    BY <1>1 DEF Range
  <1>5. QED
    BY <1>3, <1>4 DEF Pending

-----------------------------------------------------------------------------
LEMMA AlertInitInv == AlertInit => AlertInv
  <1> SUFFICES ASSUME AlertInit PROVE AlertInv
    OBVIOUS
  <1>1. /\ cfg = [enabled |-> cfg.enabled, hook |-> cfg.hook, secret |-> cfg.secret,
                  transport |-> cfg.transport, past |-> cfg.past]
        /\ cfg.transport \in cfg.past
    BY DEF AlertInit, InitialConfiguration
  <1>2. Together(cfg, <<>>)
    <2>1. <<>> \in Seq(Range(<<>>)) /\ DOMAIN <<>> = {}
      OBVIOUS
    <2>2. QED
      BY <1>1, <2>1 DEF Together
  <1>3. archive # <<>> => archive.cfg = cfg /\ archive.outbox = <<>>
    BY DEF AlertInit
  <1>4. QED
    BY <1>2, <1>3 DEF AlertInit, AlertInv, NoFlight, AttemptKeepsItsRow

(* Steps that leave the outbox and the archive *)
LEMMA RestingStep ==
  ASSUME AlertInv, UNCHANGED <<outbox, archive>>,
         restoring' => archive # <<>>,
         \/ UNCHANGED <<flight, pc>>
         \/ flight' \in {flight, NoFlight} /\ pc' \notin {"http", "complete"},
         Together(cfg', outbox)
  PROVE  AlertInv' /\ LeavesPending
  <1>1. LeavesPending
    BY KeptIsPending DEF AlertInv, Range
  <1>2. AlertInv'
    BY DEF AlertInv, AttemptKeepsItsRow, Claimed, Answered, NoFlight
  <1>3. QED
    BY <1>1, <1>2

(* Steps that only add to the outbox *)
LEMMA QueueingStep ==
  ASSUME AlertInv, Enqueue \/ UNCHANGED <<outbox, events>>,
         UNCHANGED <<cfg, archive, restoring, flight>>,
         pc' = pc \/ pc' \notin {"http", "complete"}
  PROVE  AlertInv' /\ LeavesPending
  <1>1. /\ Together(cfg, outbox') /\ Range(outbox) \subseteq Range(outbox')
        /\ \A row \in Range(outbox') : row \in Range(outbox) \/ row.claim = "none"
    BY EnqueuedIs DEF AlertInv
  <1>2. LeavesPending
    BY <1>1, KeptIsPending DEF AlertInv, Range
  <1>3. AttemptKeepsItsRow'
    BY <1>1 DEF AlertInv, AttemptKeepsItsRow, Claimed
  <1>4. ASSUME pc' = "complete", NEW i \in DOMAIN outbox', Claimed(outbox[i])'
        PROVE  Answered(outbox'[i], flight.ok)
    <2>1. outbox'[i] \in Range(outbox') /\ outbox'[i].claim = "held"
      BY <1>4 DEF Claimed, Range
    <2>2. PICK j \in DOMAIN outbox : outbox[j] = outbox'[i]
      BY <1>1, <2>1 DEF Range
    <2>3. pc = "complete" /\ Claimed(outbox[j])
      BY <1>4, <2>2 DEF Claimed
    <2>4. QED
      BY <2>2, <2>3 DEF AlertInv
  <1>5. AlertInv'
    BY <1>1, <1>3, <1>4 DEF AlertInv
  <1>6. QED
    BY <1>2, <1>5

(* Steps that rewrite rows in place and keep them pending *)
LEMMA RewritingStep ==
  ASSUME AlertInv, outbox' = [i \in DOMAIN outbox |-> outbox'[i]],
         \A i \in DOMAIN outbox :
           /\ OutboxRow(outbox'[i]) /\ outbox'[i].transport = outbox[i].transport
           /\ outbox'[i].event = outbox[i].event /\ outbox'[i].status = outbox[i].status,
         UNCHANGED <<cfg, archive>>, restoring' => restoring,
         \/ /\ UNCHANGED <<flight, pc>>
            /\ \A i \in DOMAIN outbox :
                 /\ outbox'[i].claim = outbox[i].claim /\ outbox'[i].acked = outbox[i].acked
                 /\ outbox'[i].attempts = outbox[i].attempts
                 /\ outbox'[i].fails = outbox[i].fails
         \/ flight' = NoFlight /\ pc' \notin {"http", "complete"}
  PROVE  AlertInv' /\ LeavesPending
  <1>1. LeavesPending
    BY RewrittenIsPending DEF AlertInv
  <1>2. Together(cfg, outbox')
    BY RewrittenIs DEF AlertInv
  <1>3. flight' = [event |-> flight'.event, ok |-> flight'.ok]
    BY DEF AlertInv, NoFlight
  <1>4. CASE flight' = NoFlight /\ pc' \notin {"http", "complete"}
    BY <1>1, <1>2, <1>3, <1>4 DEF AlertInv, AttemptKeepsItsRow
  <1>5. CASE /\ UNCHANGED <<flight, pc>>
             /\ \A i \in DOMAIN outbox :
                  /\ outbox'[i].claim = outbox[i].claim /\ outbox'[i].acked = outbox[i].acked
                  /\ outbox'[i].attempts = outbox[i].attempts
                  /\ outbox'[i].fails = outbox[i].fails
    <2>1. DOMAIN outbox' = DOMAIN outbox
      OBVIOUS
    <2>2. AttemptKeepsItsRow'
      <3> SUFFICES ASSUME pc \in {"http", "complete"}
                   PROVE  \E i \in DOMAIN outbox' : Claimed(outbox[i])'
        BY <1>5 DEF AttemptKeepsItsRow, Claimed, Range
      <3>1. PICK i \in DOMAIN outbox : Claimed(outbox[i])
        BY DEF AlertInv, AttemptKeepsItsRow, Range
      <3>2. i \in DOMAIN outbox' /\ Claimed(outbox[i])'
        BY <1>5, <2>1, <3>1 DEF Claimed
      <3>3. QED
        BY <3>2
    <2>3. ASSUME pc' = "complete", NEW i \in DOMAIN outbox', Claimed(outbox[i])'
          PROVE  Answered(outbox'[i], flight'.ok)
      <3>1. pc = "complete" /\ Claimed(outbox[i]) /\ i \in DOMAIN outbox
        BY <1>5, <2>1, <2>3 DEF Claimed
      <3>2. Answered(outbox[i], flight.ok)
        BY <3>1 DEF AlertInv
      <3>3. QED
        BY <1>5, <3>1, <3>2 DEF Answered
    <2>4. QED
      BY <1>1, <1>2, <1>3, <1>5, <2>2, <2>3 DEF AlertInv
  <1>6. QED
    BY <1>4, <1>5

(* A configuration that descends from another keeps its rows. *)
LEMMA DescendantIs ==
  ASSUME NEW c, NEW rows, Together(c, rows), NEW d,
         d = [enabled |-> d.enabled, hook |-> d.hook, secret |-> d.secret,
              transport |-> d.transport, past |-> d.past],
         d.transport \in d.past, c.past \subseteq d.past
  PROVE  Together(d, rows)
  BY DEF Together

LEMMA WorkerStep ==
  ASSUME AlertInv,
         \/ BeginPass \/ SkipPass \/ EndBatch \/ Wake \/ ClaimFails \/ CompleteFails
         \/ \E k \in Keys : ReconcileFails(k)
  PROVE  AlertInv' /\ LeavesPending
  <1>1. /\ UNCHANGED <<outbox, archive, cfg, restoring>>
        /\ flight' \in {flight, NoFlight}
        /\ (pc' = pc /\ flight' = flight) \/ pc' \notin {"http", "complete"}
    BY DEF BeginPass, SkipPass, EndBatch, Wake, ClaimFails, CompleteFails, ReconcileFails,
           world, dbVars
  <1>2. Together(cfg', outbox) /\ (restoring' => archive # <<>>)
    BY <1>1 DEF AlertInv
  <1>3. QED
    BY <1>1, <1>2, RestingStep

LEMMA QueueStep ==
  ASSUME AlertInv, Startup \/ (\E k \in Keys : Reconcile(k)) \/ Test
  PROVE  AlertInv' /\ LeavesPending
  <1>1. CASE Startup
    <2>1. /\ Enqueue \/ UNCHANGED <<outbox, events>>
          /\ UNCHANGED <<cfg, archive, restoring, flight>> /\ pc' = "evaluate"
      BY <1>1 DEF Startup, Enqueued, world
    <2>2. QED
      BY <2>1, QueueingStep
  <1>2. CASE \E k \in Keys : Reconcile(k)
    <2>1. PICK k \in Keys : Reconcile(k)
      BY <1>2
    <2>2. Enqueue \/ UNCHANGED <<outbox, events>>
      <3>1. Enqueued(pass.hook) \/ UNCHANGED <<outbox, events>>
        BY <2>1 DEF Reconcile
      <3>2. QED
        BY <3>1 DEF Enqueued
    <2>3. UNCHANGED <<cfg, archive, restoring, flight, pc>>
      BY <2>1 DEF Reconcile, world
    <2>4. QED
      BY <2>2, <2>3, QueueingStep
  <1>3. CASE Test
    <2>1. Enqueue /\ UNCHANGED <<cfg, archive, restoring, flight, pc>>
      BY <1>3 DEF Test, WorkerAndWorld, workerVars
    <2>2. QED
      BY <2>1, QueueingStep
  <1>4. QED
    BY <1>1, <1>2, <1>3

(* Requests of operators, and what leaves the tables of the alerts alone *)
LEMMA OperatorStep ==
  ASSUME AlertInv,
         \/ \E enabled, hook \in BOOLEAN : Configure(enabled, hook)
         \/ RotateSecret \/ RestoreBegin \/ RestoreConfiguration \/ RestoreAbort
         \/ \E k \in Keys : Flip(k) \/ DeleteSource(k)
  PROVE  AlertInv' /\ LeavesPending
  <1>1. UNCHANGED <<outbox, archive, flight, pc>>
    BY DEF Configure, RotateSecret, RestoreBegin, RestoreConfiguration, RestoreAbort, Flip,
           DeleteSource, WorkerAndWorld, workerVars, dbVars
  <1>2. restoring' => archive # <<>>
    BY DEF AlertInv, Configure, RotateSecret, RestoreBegin, RestoreConfiguration, RestoreAbort,
           Flip, DeleteSource, WorkerAndWorld
  <1>3. Together(cfg', outbox)
    <2>1. /\ cfg = [enabled |-> cfg.enabled, hook |-> cfg.hook, secret |-> cfg.secret,
                    transport |-> cfg.transport, past |-> cfg.past]
          /\ cfg.transport \in cfg.past
      BY DEF AlertInv, Together
    <2>2. CASE RotateSecret
      <3>1. cfg' = [enabled |-> cfg.enabled, hook |-> cfg.hook, secret |-> TRUE,
                    transport |-> transports + 1, past |-> cfg.past \cup {transports + 1}]
        BY <2>1, <2>2 DEF RotateSecret, NewTransport
      <3>2. QED
        BY <3>1, DescendantIs DEF AlertInv
    <2>3. CASE \E enabled, hook \in BOOLEAN : Configure(enabled, hook)
      <3>1. PICK enabled, hook \in BOOLEAN : Configure(enabled, hook)
        BY <2>3
      <3>2. cfg' = [enabled |-> enabled, hook |-> hook, secret |-> cfg.secret,
                    transport |-> cfg.transport, past |-> cfg.past]
        BY <2>1, <3>1 DEF Configure
      <3>3. QED
        BY <2>1, <3>2, DescendantIs DEF AlertInv
    <2>4. CASE RestoreConfiguration
      <3>1. cfg' = [enabled |-> archive.cfg.enabled, hook |-> cfg.hook, secret |-> cfg.secret,
                    transport |-> cfg.transport, past |-> cfg.past]
        BY <2>1, <2>4 DEF RestoreConfiguration
      <3>2. QED
        BY <2>1, <3>1, DescendantIs DEF AlertInv
    <2>5. CASE RestoreBegin \/ RestoreAbort \/ \E k \in Keys : Flip(k) \/ DeleteSource(k)
      <3>1. cfg' = cfg
        BY <2>5 DEF RestoreBegin, RestoreAbort, Flip, DeleteSource, dbVars
      <3>2. QED
        BY <3>1 DEF AlertInv
    <2>6. QED
      BY <2>2, <2>3, <2>4, <2>5
  <1>4. QED
    BY <1>1, <1>2, <1>3, RestingStep

(* A row whose claim is orphaned, or whose times pass *)
LEMMA OrphanedIs ==
  ASSUME NEW c, NEW rows, Together(c, rows)
  PROVE  /\ Together(c, Orphaned(rows))
         /\ Orphaned(rows) = [i \in DOMAIN rows |-> Orphaned(rows)[i]]
         /\ \A i \in DOMAIN rows :
              /\ OutboxRow(Orphaned(rows)[i])
              /\ Orphaned(rows)[i].transport = rows[i].transport
              /\ Orphaned(rows)[i].event = rows[i].event
              /\ Orphaned(rows)[i].status = rows[i].status
  <1>1. PICK new : new = Orphaned(rows)
    OBVIOUS
  <1>2. new = [i \in DOMAIN rows |-> new[i]]
    BY <1>1 DEF Orphaned
  <1>3. \A i \in DOMAIN rows :
          /\ OutboxRow(new[i]) /\ new[i].transport = rows[i].transport
          /\ new[i].event = rows[i].event /\ new[i].status = rows[i].status
    BY <1>1 DEF Orphaned, Together, OutboxRow
  <1>4. QED
    BY <1>1, <1>2, <1>3, RewrittenIs

LEMMA RestartStep ==
  ASSUME AlertInv, Restart
  PROVE  AlertInv' /\ LeavesPending
  <1>1. outbox' = Orphaned(outbox) /\ flight' = NoFlight /\ pc' = "pass" /\ ~restoring'
        /\ UNCHANGED <<cfg, archive>>
    BY DEF Restart
  <1>2. QED
    BY <1>1, OrphanedIs, RewritingStep DEF AlertInv

LEMMA BackUpStep ==
  ASSUME AlertInv, BackUpAlerts
  PROVE  AlertInv' /\ LeavesPending
  <1>1. /\ archive' = [cfg |-> cfg, outbox |-> Orphaned(outbox)]
        /\ ~restoring' /\ UNCHANGED <<cfg, outbox, flight, pc>>
    BY DEF BackUpAlerts, GateOpen, dbVars, workerVars
  <1>2. LeavesPending
    BY <1>1, KeptIsPending DEF AlertInv, Range
  <1>3. Together(archive'.cfg, archive'.outbox)
    BY <1>1, OrphanedIs DEF AlertInv
  <1>4. QED
    BY <1>1, <1>2, <1>3 DEF AlertInv, AttemptKeepsItsRow, Claimed, Answered

LEMMA TickStep ==
  ASSUME AlertInv, AlertTick
  PROVE  AlertInv' /\ LeavesPending
  <1>1. outbox' = Aged(outbox) /\ UNCHANGED <<cfg, archive, restoring, flight, pc>>
    BY DEF AlertTick, world, workerVars
  <1>2. outbox' = [i \in DOMAIN outbox |-> outbox'[i]]
    BY <1>1 DEF Aged
  <1>3. \A i \in DOMAIN outbox : \E wait, age :
          outbox'[i] = [outbox[i] EXCEPT !.wait = wait, !.age = age]
    BY <1>1 DEF Aged
  <1>4. \A i \in DOMAIN outbox :
          /\ OutboxRow(outbox'[i]) /\ outbox'[i].transport = outbox[i].transport
          /\ outbox'[i].event = outbox[i].event /\ outbox'[i].status = outbox[i].status
          /\ outbox'[i].claim = outbox[i].claim /\ outbox'[i].acked = outbox[i].acked
          /\ outbox'[i].attempts = outbox[i].attempts
          /\ outbox'[i].fails = outbox[i].fails
    <2> TAKE i \in DOMAIN outbox
    <2>1. OutboxRow(outbox[i])
      BY DEF AlertInv, Together
    <2>2. PICK wait, age : outbox'[i] = [outbox[i] EXCEPT !.wait = wait, !.age = age]
      BY <1>3
    <2>3. QED
      BY <2>1, <2>2 DEF OutboxRow
  <1>5. QED
    BY <1>1, <1>2, <1>4, RewritingStep

LEMMA EndPassStep ==
  ASSUME AlertInv, EndPass
  PROVE  AlertInv' /\ LeavesPending
  <1>1. /\ outbox' = PrunedOutbox /\ pc' = "deliver"
        /\ UNCHANGED <<cfg, archive, restoring, flight>>
    BY DEF EndPass, world
  <1>2. LeavesPending
    BY <1>1, PrunedOutboxIs, KeptIsPending DEF AlertInv
  <1>3. QED
    BY <1>1, <1>2, PrunedOutboxIs DEF AlertInv, AttemptKeepsItsRow

LEMMA ClaimStep ==
  ASSUME AlertInv, Claim
  PROVE  AlertInv' /\ LeavesPending
  <1>1. PICK i \in DOMAIN outbox :
          /\ Due(outbox[i])
          /\ outbox' = [outbox EXCEPT ![i].claim = "held", ![i].age = 0]
          /\ flight' = [event |-> outbox[i].event, ok |-> FALSE]
    BY DEF Claim, NextDue
  <1>2. pc' = "http" /\ UNCHANGED <<cfg, archive, restoring>>
    BY DEF Claim, world
  <1>3. \A j \in DOMAIN outbox : OutboxRow(outbox[j])
    BY DEF AlertInv, Together
  <1>4. /\ outbox' = [j \in DOMAIN outbox |-> outbox'[j]]
        /\ \A j \in DOMAIN outbox : j # i => outbox'[j] = outbox[j]
        /\ outbox'[i] = [outbox[i] EXCEPT !.claim = "held", !.age = 0]
    BY <1>1
  <1>5. \A j \in DOMAIN outbox :
          /\ OutboxRow(outbox'[j]) /\ outbox'[j].transport = outbox[j].transport
          /\ outbox'[j].event = outbox[j].event /\ outbox'[j].status = outbox[j].status
    <2> TAKE j \in DOMAIN outbox
    <2>1. CASE j # i
      BY <1>3, <1>4, <2>1
    <2>2. CASE j = i
      <3>1. OutboxRow(outbox[i])
        BY <1>3
      <3>2. QED
        BY <1>4, <2>2, <3>1 DEF OutboxRow
    <2>3. QED
      BY <2>1, <2>2
  <1>6. LeavesPending
    BY <1>4, <1>5, RewrittenIsPending DEF AlertInv
  <1>7. Together(cfg, outbox')
    BY <1>4, <1>5, RewrittenIs DEF AlertInv
  <1>8. AttemptKeepsItsRow'
    <2>1. outbox'[i].claim = "held" /\ outbox'[i].status = "pending" /\ i \in DOMAIN outbox'
      BY <1>1, <1>3, <1>4 DEF Due, OutboxRow
    <2>2. Claimed(outbox[i])'
      BY <1>1, <1>5, <2>1 DEF Claimed
    <2>3. QED
      BY <2>1, <2>2 DEF AttemptKeepsItsRow, Range
  <1>9. QED
    BY <1>1, <1>2, <1>6, <1>7, <1>8 DEF AlertInv

LEMMA PostStep ==
  ASSUME AlertInv, Post
  PROVE  AlertInv' /\ LeavesPending
  <1>1. PICK ok \in BOOLEAN :
          /\ flight' = [flight EXCEPT !.ok = ok]
          /\ outbox' = [i \in DOMAIN outbox |->
                          IF ~Claimed(outbox[i]) THEN outbox[i]
                          ELSE IF ok THEN [outbox[i] EXCEPT !.acked = TRUE]
                          ELSE [outbox[i] EXCEPT !.fails = @ + 1]]
    BY DEF Post
  <1>2. pc = "http" /\ pc' = "complete" /\ UNCHANGED <<cfg, archive, restoring>>
    BY DEF Post, world
  <1>3. flight' = [event |-> flight.event, ok |-> ok]
    BY <1>1 DEF AlertInv
  <1>4. \A i \in DOMAIN outbox :
          /\ OutboxRow(outbox'[i]) /\ outbox'[i].transport = outbox[i].transport
          /\ outbox'[i].event = outbox[i].event /\ outbox'[i].status = outbox[i].status
          /\ outbox'[i].claim = outbox[i].claim
          /\ Claimed(outbox[i]) => Answered(outbox'[i], ok)
    <2> TAKE i \in DOMAIN outbox
    <2>1. OutboxRow(outbox[i])
      BY DEF AlertInv, Together
    <2>2. CASE ~Claimed(outbox[i])
      BY <1>1, <2>1, <2>2
    <2>3. CASE Claimed(outbox[i]) /\ ok
      <3>1. outbox'[i] = [outbox[i] EXCEPT !.acked = TRUE]
        BY <1>1, <2>3
      <3>2. QED
        BY <2>1, <2>3, <3>1 DEF OutboxRow, Answered
    <2>4. CASE Claimed(outbox[i]) /\ ~ok
      <3>1. outbox'[i] = [outbox[i] EXCEPT !.fails = @ + 1] /\ outbox[i].status = "pending"
        BY <1>1, <2>4 DEF Claimed
      <3>2. QED
        BY <2>1, <2>4, <3>1, LimitAssumption DEF OutboxRow, Answered
    <2>5. QED
      BY <2>2, <2>3, <2>4
  <1>5. outbox' = [i \in DOMAIN outbox |-> outbox'[i]]
    BY <1>1
  <1>6. LeavesPending
    BY <1>4, <1>5, RewrittenIsPending DEF AlertInv
  <1>7. Together(cfg, outbox')
    BY <1>4, <1>5, RewrittenIs DEF AlertInv
  <1>8. \A i \in DOMAIN outbox : Claimed(outbox[i])' <=> Claimed(outbox[i])
    BY <1>3, <1>4 DEF Claimed
  <1>9. AttemptKeepsItsRow'
    <2>1. PICK i \in DOMAIN outbox : Claimed(outbox[i])
      BY <1>2 DEF AlertInv, AttemptKeepsItsRow, Range
    <2>2. i \in DOMAIN outbox' /\ Claimed(outbox[i])'
      BY <1>5, <1>8, <2>1
    <2>3. QED
      BY <2>2 DEF AttemptKeepsItsRow, Range
  <1>10. \A i \in DOMAIN outbox' : Claimed(outbox[i])' => Answered(outbox'[i], flight'.ok)
    BY <1>3, <1>4, <1>5, <1>8
  <1>11. QED
    BY <1>2, <1>3, <1>6, <1>7, <1>9, <1>10 DEF AlertInv

LEMMA CompleteStep ==
  ASSUME AlertInv, Complete
  PROVE  AlertInv' /\ LeavesPending
  <1>1. /\ pc = "complete" /\ pc' \notin {"http", "complete"} /\ flight' = NoFlight
        /\ UNCHANGED <<cfg, archive, restoring>>
        /\ outbox' = [i \in DOMAIN outbox |-> IF Claimed(outbox[i]) THEN Completed(outbox[i])
                                                                  ELSE outbox[i]]
    BY DEF Complete, world
  <1>2. ASSUME NEW i \in DOMAIN outbox
        PROVE  /\ OutboxRow(outbox'[i]) /\ outbox'[i].transport = outbox[i].transport
               /\ outbox[i].status = "pending" =>
                    \/ outbox'[i].event = outbox[i].event /\ outbox'[i].status = "pending"
                    \/ outbox[i].acked \/ outbox[i].fails >= MaxAttempts
    <2>1. OutboxRow(outbox[i])
      BY DEF AlertInv, Together
    <2>2. CASE ~Claimed(outbox[i])
      BY <1>1, <2>1, <2>2
    <2>3. CASE Claimed(outbox[i])
      <3>1. Answered(outbox[i], flight.ok) /\ outbox[i].status = "pending"
        BY <1>1, <2>3 DEF AlertInv, Claimed
      <3>2. PICK wait : outbox'[i] =
              [outbox[i] EXCEPT
                 !.claim = "none", !.age = 0, !.attempts = outbox[i].attempts + 1,
                 !.status = IF flight.ok THEN "delivered"
                            ELSE IF outbox[i].attempts + 1 >= MaxAttempts THEN "abandoned"
                                 ELSE "pending",
                 !.wait = wait]
        BY <1>1, <2>3 DEF Completed
      <3>3. /\ outbox[i].attempts \in Nat /\ outbox[i].fails \in Nat
            /\ outbox[i].attempts <= outbox[i].fails
        BY <2>1, <3>1 DEF OutboxRow
      <3>4. /\ outbox'[i].transport = outbox[i].transport
            /\ outbox'[i].event = outbox[i].event
            /\ outbox'[i].acked = outbox[i].acked /\ outbox'[i].fails = outbox[i].fails
            /\ outbox'[i].attempts = outbox[i].attempts + 1
            /\ outbox'[i].status = IF flight.ok THEN "delivered"
                                   ELSE IF outbox[i].attempts + 1 >= MaxAttempts
                                        THEN "abandoned" ELSE "pending"
            /\ outbox'[i] =
                 [event |-> outbox'[i].event, status |-> outbox'[i].status,
                  attempts |-> outbox'[i].attempts, wait |-> outbox'[i].wait,
                  claim |-> outbox'[i].claim, age |-> outbox'[i].age,
                  transport |-> outbox'[i].transport, acked |-> outbox'[i].acked,
                  fails |-> outbox'[i].fails]
        BY <2>1, <3>2 DEF OutboxRow
      <3>5. CASE flight.ok
        <4>1. outbox[i].acked /\ outbox'[i].status = "delivered"
          BY <3>1, <3>4, <3>5 DEF Answered
        <4>2. QED
          BY <3>3, <3>4, <4>1 DEF OutboxRow
      <3>6. CASE ~flight.ok
        <4>1. outbox[i].attempts < outbox[i].fails
          BY <3>1, <3>6 DEF Answered
        <4>2. outbox[i].attempts + 1 <= outbox[i].fails
          BY <3>3, <4>1
        <4>3. CASE outbox[i].attempts + 1 >= MaxAttempts
          <5>1. outbox[i].fails >= MaxAttempts
            BY <3>3, <4>2, <4>3, LimitAssumption
          <5>2. outbox'[i].status = "abandoned"
            BY <3>4, <3>6, <4>3
          <5>3. QED
            BY <3>3, <3>4, <5>1, <5>2 DEF OutboxRow
        <4>4. CASE ~(outbox[i].attempts + 1 >= MaxAttempts)
          <5>1. outbox'[i].status = "pending"
            BY <3>4, <3>6, <4>4
          <5>2. QED
            BY <3>3, <3>4, <4>2, <5>1 DEF OutboxRow
        <4>5. QED
          BY <4>3, <4>4
      <3>7. QED
        BY <3>5, <3>6
    <2>4. QED
      BY <2>2, <2>3
  <1>3. outbox' = [i \in DOMAIN outbox |-> outbox'[i]]
    BY <1>1
  <1>4. LeavesPending
    BY <1>2, <1>3, RewrittenIsPending DEF AlertInv
  <1>5. Together(cfg, outbox')
    BY <1>2, <1>3, RewrittenIs DEF AlertInv
  <1>6. QED
    BY <1>1, <1>4, <1>5 DEF AlertInv, AttemptKeepsItsRow, NoFlight

LEMMA RestoreStep ==
  ASSUME AlertInv, RestoreAlerts
  PROVE  AlertInv'
  <1>1. /\ cfg' = archive.cfg /\ archive' = archive /\ ~restoring' /\ UNCHANGED <<flight, pc>>
        /\ outbox' \in {archive.outbox, Elapsed(archive.outbox)}
        /\ restoring /\ pc \notin {"http", "complete"}
    BY DEF RestoreAlerts, Alone, HoldsGate, workerVars
  <1>2. Together(archive.cfg, archive.outbox)
    BY <1>1 DEF AlertInv
  <1>3. Together(archive.cfg, Elapsed(archive.outbox))
    <2>1. PICK new : new = Elapsed(archive.outbox)
      OBVIOUS
    <2>2. new = [i \in DOMAIN archive.outbox |-> new[i]]
      BY <2>1 DEF Elapsed
    <2>3. \A i \in DOMAIN archive.outbox :
            OutboxRow(new[i]) /\ new[i].transport = archive.outbox[i].transport
      <3> TAKE i \in DOMAIN archive.outbox
      <3>1. OutboxRow(archive.outbox[i])
        BY <1>2 DEF Together
      <3>2. PICK age : new[i] = [archive.outbox[i] EXCEPT !.wait = 0, !.age = age]
        BY <2>1 DEF Elapsed
      <3>3. QED
        BY <3>1, <3>2 DEF OutboxRow
    <2>4. QED
      BY <1>2, <2>1, <2>2, <2>3, RewrittenIs
  <1>4. QED
    BY <1>1, <1>2, <1>3 DEF AlertInv, AttemptKeepsItsRow

LEMMA AlertStep ==
  ASSUME AlertInv, [AlertNext]_alertVars
  PROVE  AlertInv' /\ (RestoreAlerts \/ LeavesPending)
  <1>1. CASE UNCHANGED alertVars
    <2>1. UNCHANGED <<outbox, archive, cfg, restoring, flight, pc>>
      BY <1>1 DEF alertVars, dbVars, workerVars
    <2>2. Together(cfg', outbox) /\ (restoring' => archive # <<>>)
      BY <2>1 DEF AlertInv
    <2>3. QED
      BY <2>1, <2>2, RestingStep
  <1>2. CASE AlertNext
    BY <1>2, WorkerStep, QueueStep, OperatorStep, RestartStep, BackUpStep, TickStep,
       EndPassStep, ClaimStep, PostStep, CompleteStep, RestoreStep
       DEF AlertNext, Worker, AlertFaults, Restores, Operators
  <1>3. QED
    BY <1>1, <1>2

LEMMA AlertInvHolds == AlertSpec => []AlertInv
  <1>1. AlertInv /\ [AlertNext]_alertVars => AlertInv'
    BY AlertStep
  <1>2. QED
    BY <1>1, AlertInitInv, PTL DEF AlertSpec

(* A notification leaves the outbox only with the outbox that a full       *)
(* restore replaces, or acknowledged, or after as many failed requests as  *)
(* may be: not by the retention, a crash between claim and completion, a   *)
(* result that could not be stored, a changed configuration or a restore   *)
(* of the configuration (jg_database_alert_prune,                          *)
(* jg_database_alert_delivery_complete).                                   *)
THEOREM NothingIsLostHolds == AlertSpec => NothingIsLost
  <1>1. AlertInv /\ [AlertNext]_alertVars =>
          [~RestoreAlerts =>
             \A row \in Range(outbox) :
               Pending(row.event)' \/ row.acked \/ row.fails >= MaxAttempts]_alertVars
    BY AlertStep DEF LeavesPending
  <1>2. QED
    BY <1>1, AlertInvHolds, PTL DEF AlertSpec, NothingIsLost

(* From the claim until its result is stored a delivery keeps its row      *)
(* (management_alerts_deliver_pending holds the gate against restores).    *)
THEOREM AttemptKeepsItsRowHolds == AlertSpec => []AttemptKeepsItsRow
  <1>1. AlertInv => AttemptKeepsItsRow
    BY DEF AlertInv
  <1>2. QED
    BY <1>1, AlertInvHolds, PTL

(* A notification is only ever sent with the transport it was queued under *)
(* or a successor: rows and credentials of two histories never meet        *)
(* (preserve_sensitive_data, preserve_restore_history_data).               *)
THEOREM TransportBelongsToOutboxHolds == AlertSpec => []TransportBelongsToOutbox
  <1>1. AlertInv => TransportBelongsToOutbox
    BY DEF AlertInv, Together, TransportBelongsToOutbox, Range
  <1>2. QED
    BY <1>1, AlertInvHolds, PTL

===============================================================================
