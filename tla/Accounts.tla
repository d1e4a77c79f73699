------------------------------ MODULE Accounts ------------------------------
(***************************************************************************)
(* User accounts and the tenants they belong to: signup, login, OAuth,     *)
(* e-mail verification, telemetry and onboarding preferences, and the      *)
(* erasure of an account (crates/disk-server/src/{accounts,compliance,     *)
(* telemetry,onboarding} over crates/disk-core/src/meta_db).               *)
(*                                                                         *)
(* A handler is a sequence of statements on the control database, none of  *)
(* them in a common transaction; calls[c] is how far request c has come.   *)
(***************************************************************************)
EXTENDS Naturals, FiniteSets

CONSTANTS
  Emails, Tenants,
  UserIds,       \* ids new_user_id may draw, each of them once
  Callers,       \* requests that can be under way at the same time
  Nobody,        \* no request
  DefaultTenant, \* default_tenant_from_email
  MaxCalls       \* bound: requests in a behaviour

\* A request under way: which one, at which statement, and for whom.
CallA == [op : {"signup", "oauth", "telemetry", "delete"},
          at : {"plan", "terms", "privacy", "consent", "telemetry", "user", "count", "purge"},
          user : UserIds, email : Emails, tenant : Tenants]

ASSUME AccountsAssumption ==
  DefaultTenant \in [Emails -> Tenants] /\ MaxCalls \in Nat /\ Nobody \notin CallA

VARIABLES
  users,      \* user_accounts
  plan,       \* tenant_billing: the plan tier of a tenant, or "none"
  consents,   \* consent_events
  telemetry,  \* user_telemetry: users that opted in
  dismissed,  \* user_onboarding: users that dismissed the tour
  referenced, \* users a row of another table refers to by a FOREIGN KEY
  vaults,     \* tenants with vaults, files, nodes: what a purge removes
  tokens,     \* access tokens clients hold
  letters,    \* verification tokens sent: reusable until they expire
  calls,      \* requests under way
  crossed,    \* history: users with another request under way when they were erased
  joined,     \* history: tenants that got an account between a count and its purge
  orphaned,   \* history: tenants whose last user's erasure failed half-way
  drawn,      \* ids drawn so far
  started     \* requests so far

preferences == <<telemetry, dismissed, referenced>>
accountVars == <<users, plan, consents, preferences, vaults, tokens, letters,
                 calls, crossed, joined, orphaned, drawn, started>>

AccountsInit ==
  /\ users = {} /\ plan = [t \in Tenants |-> "none"] /\ consents = {}
  /\ telemetry = {} /\ dismissed = {} /\ referenced = {} /\ vaults = {}
  /\ tokens = {} /\ letters = {}
  /\ calls = [c \in Callers |-> Nobody]
  /\ crossed = {} /\ joined = {} /\ orphaned = {} /\ drawn = {} /\ started = 0

UserAccount(id, e, t, o) == [id |-> id, email |-> e, tenant |-> t, oauth |-> o, verified |-> o]
AccessToken(u) == [sub |-> u.id, email |-> u.email]
Members(t) == {u \in users : u.tenant = t}

Begins(c) == calls[c] = Nobody /\ started < MaxCalls /\ started' = started + 1
At(c, op, step) == calls[c] # Nobody /\ calls[c].op = op /\ calls[c].at = step
Signing(c, step) == At(c, "signup", step) \/ At(c, "oauth", step)
Goes(c, step) == calls' = [calls EXCEPT ![c].at = step]
Ends(c) == calls' = [calls EXCEPT ![c] = Nobody]

-----------------------------------------------------------------------------
(* Getting an account *)

\* The UNIQUE index on user_accounts.email.
EmailFree(e) == \A u \in users : u.email # e

\* get_user_by_id, get_user_by_email
ById(id) == {u \in users : u.id = id}
ByEmail(e) == {u \in users : u.email = e}

\* create_user_account and create_oauth_user_account: the row comes first.
CreateAccount(c, id, e, t, o) ==
  /\ Begins(c)
  /\ EmailFree(e)
  /\ id \notin drawn /\ drawn' = drawn \cup {id}
  /\ users' = users \cup {UserAccount(id, e, t, o)}
  /\ calls' = [calls EXCEPT ![c] = [op |-> IF o THEN "oauth" ELSE "signup", at |-> "plan",
                                    user |-> id, email |-> e, tenant |-> t]]
  /\ joined' = joined \cup
       ({t} \cap {calls[d].tenant : d \in {x \in Callers : At(x, "delete", "purge")}})
  /\ UNCHANGED <<plan, consents, preferences, vaults, tokens, letters, crossed, orphaned>>

\* signup: the tenant is the one asked for, or that of the address.
Signup(c, id, e, t) == CreateAccount(c, id, e, t, FALSE)

\* login_or_create_oauth_user for a subject nobody has signed in with.
OauthSignup(c, id, e) == CreateAccount(c, id, e, DefaultTenant[e], TRUE)

\* set_plan_tier
SetPlanTier(t, p) == plan' = [plan EXCEPT ![t] = p]

\* set_plan_tier(tenant, Free), whatever plan the tenant has; its error is ignored.
BootstrapPlan(c) ==
  /\ Signing(c, "plan")
  /\ Goes(c, "terms")
  /\ \/ SetPlanTier(calls[c].tenant, "free")
     \/ UNCHANGED plan
  /\ UNCHANGED <<users, consents, preferences, vaults, tokens, letters,
                 crossed, joined, orphaned, drawn, started>>

\* record_consent_event
RecordConsent(x) == consents' = consents \cup {x}

Consent(c, kind) == [user |-> calls[c].user, tenant |-> calls[c].tenant, kind |-> kind]

\* The end of a signup: an access token and, for a password account, a letter.
Welcome(c) ==
  /\ tokens' = tokens \cup {[sub |-> calls[c].user, email |-> calls[c].email]}
  /\ letters' = IF calls[c].op = "oauth" THEN letters ELSE letters \cup {calls[c].user}
  /\ Ends(c)

\* record_signup_policy_consents: terms, then privacy.
RecordTerms(c) ==
  /\ Signing(c, "terms")
  /\ RecordConsent(Consent(c, "terms"))
  /\ Goes(c, "privacy")
  /\ UNCHANGED <<users, plan, preferences, vaults, tokens, letters, crossed, joined, orphaned,
                 drawn, started>>

RecordPrivacy(c) ==
  /\ Signing(c, "privacy")
  /\ RecordConsent(Consent(c, "privacy"))
  /\ Welcome(c)
  /\ UNCHANGED <<users, plan, preferences, vaults, crossed, joined, orphaned, drawn, started>>

\* The first consent that cannot be recorded ends the recording, unnoticed.
ConsentFails(c) ==
  /\ Signing(c, "terms") \/ Signing(c, "privacy")
  /\ Welcome(c)
  /\ UNCHANGED <<users, plan, consents, preferences, vaults, crossed, joined, orphaned, drawn,
                 started>>

-----------------------------------------------------------------------------
(* Signing in and proving the address *)

SignsIn(u) ==
  /\ tokens' = tokens \cup {AccessToken(u)}
  /\ UNCHANGED <<plan, consents, preferences, vaults, calls, crossed, joined, orphaned, drawn,
                 started>>

\* login refuses an account without a password of its own.
Login(u) == ~u.oauth /\ SignsIn(u) /\ UNCHANGED <<users, letters>>

\* login_or_create_oauth_user for a known subject.
OauthLogin(u) == u.oauth /\ SignsIn(u) /\ UNCHANGED <<users, letters>>

\* set_email_verified
SetEmailVerified(u) == users' = (users \ {u}) \cup {[u EXCEPT !.verified = TRUE]}

\* verify_email signs in whoever holds a letter to an existing account.
VerifyEmail(u) ==
  /\ u.id \in letters
  /\ SetEmailVerified(u)
  /\ SignsIn(u)
  /\ UNCHANGED letters

\* resolve_user_from_access: by id, and by address when no account has the id.
Resolve(tok) ==
  IF ById(tok.sub) # {} THEN ById(tok.sub) ELSE ByEmail(tok.email)

ResendVerification(tok) ==
  /\ \E u \in Resolve(tok) : ~u.verified /\ letters' = letters \cup {u.id}
  /\ UNCHANGED <<users, plan, consents, preferences, vaults, tokens, calls,
                 crossed, joined, orphaned, drawn, started>>

-----------------------------------------------------------------------------
(* Preferences and vaults *)

Erasing(id) == \E d \in Callers : calls[d] # Nobody /\ calls[d].op = "delete" /\ calls[d].user = id

\* upsert_user_telemetry_opt_in, upsert_user_onboarding_dismissed
UpsertTelemetry(id) == telemetry' = telemetry \cup {id}
UpsertOnboarding(id) == dismissed' = dismissed \cup {id}

\* replace_device_sync_includes
ReplaceSyncIncludes(id) == referenced' = referenced \cup {id}

\* put_telemetry: the preference, then the consent it stands for.
PutTelemetry(c, tok) ==
  /\ Begins(c)
  /\ \E u \in Resolve(tok) :
       /\ UpsertTelemetry(u.id)
       /\ calls' = [calls EXCEPT ![c] = [op |-> "telemetry", at |-> "consent", user |-> u.id,
                                         email |-> u.email, tenant |-> u.tenant]]
       /\ crossed' = IF Erasing(u.id) THEN crossed \cup {u.id} ELSE crossed
  /\ UNCHANGED <<users, plan, consents, dismissed, referenced, vaults, tokens, letters, joined,
                 orphaned, drawn>>

RecordAnalytics(c) ==
  /\ At(c, "telemetry", "consent")
  /\ RecordConsent(Consent(c, "analytics"))
  /\ Ends(c)
  /\ UNCHANGED <<users, plan, preferences, vaults, tokens, letters, crossed, joined, orphaned,
                 drawn, started>>

PutOnboarding(c, tok) ==
  /\ Begins(c)
  /\ \E u \in Resolve(tok) : UpsertOnboarding(u.id)
  /\ UNCHANGED <<users, plan, consents, telemetry, referenced, vaults, tokens, letters, calls,
                 crossed, joined, orphaned, drawn>>

\* put_selective_sync, invites, memberships, organisations: rows that refer to
\* the account.  Nothing removes them when the account goes.
PutReference(c, tok) ==
  /\ Begins(c)
  /\ \E u \in Resolve(tok) : ReplaceSyncIncludes(u.id)
  /\ UNCHANGED <<users, plan, consents, telemetry, dismissed, vaults, tokens, letters, calls,
                 crossed, joined, orphaned, drawn>>

\* register_tenant_vault, on the first upload of one of the tenant's nodes.
RegisterVault(t) ==
  /\ Members(t) # {}
  /\ vaults' = vaults \cup {t}
  /\ UNCHANGED <<users, plan, consents, preferences, tokens, letters, calls,
                 crossed, joined, orphaned, drawn, started>>

-----------------------------------------------------------------------------
(* delete_account *)

\* What list_consents and export_data show of a user, and what is erased.
ConsentsOf(id) == {x \in consents : x.user = id}

Others(c, id) == \E d \in Callers \ {c} : calls[d] # Nobody /\ calls[d].user = id

\* delete_consent_events_for_user, delete_user_telemetry, delete_user_by_id
DeleteConsentEvents(id) == consents' = consents \ ConsentsOf(id)
DeleteUserTelemetry(id) == telemetry' = telemetry \ {id}
Deletable(id) == {u \in ById(id) : id \notin referenced}

\* purge_tenant_metadata
PurgeTenantMetadata(t) ==
  /\ vaults' = vaults \ {t}
  /\ plan' = [plan EXCEPT ![t] = "none"]
  /\ consents' = {x \in consents : x.tenant # t}

DeleteAccount(c, tok) ==
  /\ Begins(c)
  /\ \E u \in Resolve(tok) :
       /\ DeleteConsentEvents(u.id)
       /\ calls' = [calls EXCEPT ![c] = [op |-> "delete", at |-> "telemetry", user |-> u.id,
                                         email |-> u.email, tenant |-> u.tenant]]
       /\ crossed' = IF Others(c, u.id) THEN crossed \cup {u.id} ELSE crossed
  /\ UNCHANGED <<users, plan, preferences, vaults, tokens, letters, joined, orphaned, drawn>>

DeleteTelemetry(c) ==
  /\ At(c, "delete", "telemetry")
  /\ DeleteUserTelemetry(calls[c].user)
  /\ Goes(c, "user")
  /\ UNCHANGED <<users, plan, consents, dismissed, referenced, vaults, tokens, letters,
                 crossed, joined, orphaned, drawn, started>>

\* delete_user_by_id; no row removed is the end of the request.  The database
\* enforces foreign keys, so the row of a referenced account cannot go.
DeleteUser(c) ==
  /\ At(c, "delete", "user")
  /\ LET row == Deletable(calls[c].user)
     IN  /\ users' = users \ row
         /\ IF row = {} THEN Ends(c) ELSE Goes(c, "count")
  /\ UNCHANGED <<plan, consents, preferences, vaults, tokens, letters,
                 crossed, joined, orphaned, drawn, started>>

\* count_users_for_tenant, asked once the account's row is gone.
\* Mutant of LastOne: the account being deleted is still counted.
LastOneCounted(t) == Cardinality(Members(t)) = 1

LastOne(t) == Members(t) = {}

CountUsers(c) ==
  /\ At(c, "delete", "count")
  /\ IF LastOne(calls[c].tenant)
     THEN Goes(c, "purge") /\ joined' = joined \ {calls[c].tenant}
     ELSE Ends(c) /\ UNCHANGED joined
  /\ UNCHANGED <<users, plan, consents, preferences, vaults, tokens, letters,
                 crossed, orphaned, drawn, started>>

\* purge_tenant_metadata, one transaction.
Purge(c) ==
  /\ At(c, "delete", "purge")
  /\ PurgeTenantMetadata(calls[c].tenant)
  /\ Ends(c)
  /\ UNCHANGED <<users, preferences, tokens, letters, crossed, joined, orphaned, drawn, started>>

\* A statement fails, or the client goes away: the request ends where it is.
CallFails(c) ==
  /\ calls[c] # Nobody /\ calls[c].op \in {"delete", "telemetry"}
  /\ orphaned' = IF calls[c].at \in {"count", "purge"} THEN orphaned \cup {calls[c].tenant}
                                                       ELSE orphaned
  /\ Ends(c)
  /\ UNCHANGED <<users, plan, consents, preferences, vaults, tokens, letters,
                 crossed, joined, drawn, started>>

AccountsNext ==
  \/ \E c \in Callers :
       \/ \E id \in UserIds, e \in Emails : \/ OauthSignup(c, id, e)
                                            \/ \E t \in Tenants : Signup(c, id, e, t)
       \/ BootstrapPlan(c) \/ RecordTerms(c) \/ RecordPrivacy(c) \/ ConsentFails(c)
       \/ \E tok \in tokens : PutTelemetry(c, tok) \/ PutOnboarding(c, tok)
                              \/ PutReference(c, tok) \/ DeleteAccount(c, tok)
       \/ RecordAnalytics(c)
       \/ DeleteTelemetry(c) \/ DeleteUser(c) \/ CountUsers(c) \/ Purge(c) \/ CallFails(c)
  \/ \E u \in users : Login(u) \/ OauthLogin(u) \/ VerifyEmail(u)
  \/ \E tok \in tokens : ResendVerification(tok)
  \/ \E t \in Tenants : RegisterVault(t)

AccountsSpec == AccountsInit /\ [][AccountsNext]_accountVars

-----------------------------------------------------------------------------
\* The tables of the accounts; user_accounts keeps one row per address and per id
\* however signups of one address overlap (signup_inner, the UNIQUE columns).
AccountsTypeOK ==
  /\ users \subseteq [id : UserIds, email : Emails, tenant : Tenants,
                       oauth : BOOLEAN, verified : BOOLEAN]
  /\ \A u, v \in users : u.email = v.email \/ u.id = v.id => u = v
  /\ plan \in [Tenants -> {"none", "free"}]
  /\ consents \subseteq [user : UserIds, tenant : Tenants, kind : {"terms", "privacy", "analytics"}]
  /\ telemetry \subseteq UserIds /\ referenced \subseteq UserIds
  /\ dismissed \subseteq UserIds /\ letters \subseteq UserIds
  /\ vaults \subseteq Tenants /\ joined \subseteq Tenants /\ orphaned \subseteq Tenants
  /\ tokens \subseteq [sub : UserIds, email : Emails]
  /\ crossed \subseteq UserIds
  /\ \A c \in Callers : calls[c] = Nobody \/ calls[c].user \in UserIds
  /\ drawn \subseteq UserIds /\ started \in 0..MaxCalls

Exists(id) == \E u \in users : u.id = id

\* An erased user leaves no consent and no telemetry row behind, unless another
\* request of that user was under way meanwhile ("GDPR erasure", compliance).
ErasureComplete ==
  \A id \in UserIds :
    Exists(id) \/ Erasing(id) \/ id \in crossed
    \/ (id \notin telemetry /\ \A x \in consents : x.user # id)

\* However the deletions of a tenant's accounts interleave, the one that removes
\* the last account also purges the tenant, unless it fails half-way; then no
\* one can ask for it again, for the account is gone (delete_account_inner).
NoOrphanTenant ==
  \A t \in vaults : \/ Members(t) # {} \/ t \in orphaned
                    \/ \E c \in Callers : /\ At(c, "delete", "count") \/ At(c, "delete", "purge")
                                          /\ calls[c].tenant = t

\* The data of a tenant goes only when no account is left in it, or when one
\* came after the accounts were counted ("when the last account is deleted",
\* meta_db/compliance.rs).
PurgeSparesMembers ==
  \A t \in vaults \ vaults' : Members(t) = {} \/ t \in joined

\* However signups, verifications and erasures overlap or fail half-way, a step
\* purges no tenant with members, and after it no erased user left a row, no
\* tenant without accounts kept its data and no two accounts share an address
\* (accounts/routes.rs, compliance/routes.rs).
AccountsSound ==
  [][PurgeSparesMembers /\ AccountsTypeOK' /\ ErasureComplete' /\ NoOrphanTenant']_accountVars
=============================================================================
