------------------------------ MODULE MCControl -------------------------------
(***************************************************************************)
(* The control plane and the data the server keeps: accounts, sharing,     *)
(* organisations, quotas, sign-in, the dashboard, stored bodies, the       *)
(* history of a file, the rows of the database, enrollment, the gate of an *)
(* upload and selective sync.  A behaviour moves one of them, the part,    *)
(* and leaves the others as they started.                                  *)
(***************************************************************************)
EXTENDS Accounts, Sharing, Quota, Storage, SignIn, Dashboard, FileHistory,
        FileRows, Enrollment, UploadGate, SelectiveSync, TLC

CONSTANTS t1, t2, u1

VARIABLE part

mcVars == <<part, accountVars, sharingVars, orgVars, quotaVars, storageVars,
            signVars, dashVars, historyVars, fileVars, enrollVars,
            gateVars, selVars>>

\* Both addresses ask for one tenant; the first of three people has a home of their own.
SameTenant == [e \in Emails |-> t1]
TwoHomes   == [u \in People |-> IF u = u1 THEN t1 ELSE t2]

PlanStorage == [p \in Plans |-> 2 * p]
PlanVaults  == [p \in Plans |-> p]

\* The configuration gives several parts the same pair of model values to play with,
\* so that one group of permutations serves them all.
MCSymmetry == Permutations(UserIds) \cup Permutations(Emails)

\* What a part may start from is left open only where it is the part that moves.
Still(p, start) == part = p \/ start

MCInit ==
  /\ part \in {"accounts", "sharing", "orgs", "quota", "storage", "sign_in", "dashboard",
               "history", "rows", "enrollment", "gate", "selective"}
  /\ AccountsInit /\ OrgsInit /\ QuotaInit /\ GateInit /\ SelInit
  /\ SharingInit
  /\ Still("sharing", owned = {t1})
  /\ StorageInit
  /\ Still("storage", backendT = "local")
  /\ SignInit
  /\ Still("sign_in", modeJ = "local" /\ docJ = KidsJ)
  /\ DashInit
  /\ Still("dashboard", confD = [i \in ConfIds |-> [tenant |-> t1, resolved |-> FALSE, resolution |-> NoneD]])
  /\ HistoryInit
  /\ Still("history", tenant)
  /\ FilesInit
  /\ Still("rows", splitF)
  /\ EnrollInit
  /\ Still("enrollment", used = [r \in RunsE |-> t1])

AccountsMoves ==
  /\ part = "accounts" /\ AccountsNext
  /\ UNCHANGED <<part, sharingVars, orgVars, quotaVars, storageVars, signVars,
                 dashVars, historyVars, fileVars, enrollVars, gateVars,
                 selVars>>

SharingMoves ==
  /\ part = "sharing" /\ SharingNext
  /\ UNCHANGED <<part, accountVars, orgVars, quotaVars, storageVars, signVars,
                 dashVars, historyVars, fileVars, enrollVars, gateVars,
                 selVars>>

OrgsMoves ==
  /\ part = "orgs" /\ OrgsNext
  /\ UNCHANGED <<part, accountVars, sharingVars, quotaVars, storageVars, signVars,
                 dashVars, historyVars, fileVars, enrollVars, gateVars,
                 selVars>>

QuotaMoves ==
  /\ part = "quota" /\ QuotaNext
  /\ UNCHANGED <<part, accountVars, sharingVars, orgVars, storageVars, signVars,
                 dashVars, historyVars, fileVars, enrollVars, gateVars,
                 selVars>>

StorageMoves ==
  /\ part = "storage" /\ StorageNext
  /\ UNCHANGED <<part, accountVars, sharingVars, orgVars, quotaVars, signVars,
                 dashVars, historyVars, fileVars, enrollVars, gateVars,
                 selVars>>

SignInMoves ==
  /\ part = "sign_in" /\ SignNext
  /\ UNCHANGED <<part, accountVars, sharingVars, orgVars, quotaVars, storageVars,
                 dashVars, historyVars, fileVars, enrollVars, gateVars,
                 selVars>>

DashboardMoves ==
  /\ part = "dashboard" /\ DashNext
  /\ UNCHANGED <<part, accountVars, sharingVars, orgVars, quotaVars, storageVars,
                 signVars, historyVars, fileVars, enrollVars, gateVars,
                 selVars>>

HistoryMoves ==
  /\ part = "history" /\ HistoryNext
  /\ UNCHANGED <<part, accountVars, sharingVars, orgVars, quotaVars, storageVars,
                 signVars, dashVars, fileVars, enrollVars, gateVars,
                 selVars>>

RowsMoves ==
  /\ part = "rows" /\ FilesNext
  /\ UNCHANGED <<part, accountVars, sharingVars, orgVars, quotaVars, storageVars,
                 signVars, dashVars, historyVars, enrollVars, gateVars,
                 selVars>>

EnrollmentMoves ==
  /\ part = "enrollment" /\ EnrollNext
  /\ UNCHANGED <<part, accountVars, sharingVars, orgVars, quotaVars, storageVars,
                 signVars, dashVars, historyVars, fileVars, gateVars,
                 selVars>>

GateMoves ==
  /\ part = "gate" /\ GateNext
  /\ UNCHANGED <<part, accountVars, sharingVars, orgVars, quotaVars, storageVars,
                 signVars, dashVars, historyVars, fileVars, enrollVars,
                 selVars>>

SelectiveMoves ==
  /\ part = "selective" /\ SelNext
  /\ UNCHANGED <<part, accountVars, sharingVars, orgVars, quotaVars, storageVars,
                 signVars, dashVars, historyVars, fileVars, enrollVars,
                 gateVars>>

MCNext ==
  \/ AccountsMoves \/ SharingMoves \/ OrgsMoves \/ QuotaMoves \/ StorageMoves
  \/ SignInMoves \/ DashboardMoves \/ HistoryMoves \/ RowsMoves
  \/ EnrollmentMoves \/ GateMoves \/ SelectiveMoves

MCSpec == MCInit /\ [][MCNext]_mcVars

-----------------------------------------------------------------------------
\* Credentials keep working: a published key is accepted, a code meets its
\* redirect, a rotated refresh token is kept (jwks.rs, oauth.rs,
\* token_refresh.rs), and a later enrollment does not break the identity of a
\* machine (run_enroll).
CredentialsHold ==
  PublishedKeyAccepted /\ RedirectMatches /\ RefreshTokenKept /\ IdentityHolds

\* What is listed is what is there: the rows of a tenant are its own, one per path
\* and of whole exchanges (files.rs, node_baseline.rs), each stored row leads to
\* its body (disk-storage) and a summary agrees with its list (summary_inner).
RowsSound ==
  TenantsApart /\ OneRowPerPath /\ BaselineIsWhole /\ RowsAreReadable /\ SummaryAgrees
===============================================================================
