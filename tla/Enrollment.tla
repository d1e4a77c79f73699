----------------------------- MODULE Enrollment -----------------------------
(***************************************************************************)
(* `disk enroll` on a machine and EnrollmentService on the server: a token *)
(* is exchanged for a certificate over several awaits, the answer may be   *)
(* lost, either side may stop in between, and the command writes two files *)
(* that the daemon later loads as its TLS identity.  A run of the command  *)
(* has a key pair of its own, so a run names its key and its certificate.  *)
(* At most one command runs at a time on the machine; the server may still *)
(* be serving the call of one that was stopped.                            *)
(***************************************************************************)
EXTENDS Naturals, FiniteSets

CONSTANTS TokensE,     \* pending tokens
          RunsE,       \* runs of `disk enroll`
          MaxFailE,    \* failed attempts of a peer per window
          MaxWorkE,    \* bound on operator actions and failures
          NoRun        \* no file, no run

ASSUME EnrollmentAssumption == MaxFailE \in Nat \ {0} /\ MaxWorkE \in Nat

VARIABLES pending,    \* pending_enrollments: token -> its columns
          nodeRow,    \* the machine's row in `nodes` exists
          nodeCerts,  \* node_certs: certificates by run
          failedE,    \* failures of the peer in the limiter's window
          callE,      \* callE[r]: the Enroll call of the run at the server
          command,    \* command[r]: the run of the command
          used,       \* used[r]: the token it sends
          certFile, keyFile,
          tornE,       \* a command was stopped between its two files
          workE
enrollVars == <<pending, nodeRow, nodeCerts, failedE, callE, command, used,
                certFile, keyFile, tornE, workE>>
WorkE == workE < MaxWorkE /\ workE' = workE + 1

Issued == [issued |-> TRUE, consumed |-> FALSE, revoked |-> FALSE, expired |-> FALSE]
EnrollInit ==
  /\ pending = [t \in TokensE |-> [Issued EXCEPT !.issued = FALSE]]
  /\ nodeRow = FALSE /\ nodeCerts = {} /\ failedE = 0
  /\ callE = [r \in RunsE |-> "none"] /\ command = [r \in RunsE |-> "not run"]
  /\ used \in [RunsE -> TokensE]
  /\ certFile = NoRun /\ keyFile = NoRun /\ tornE = FALSE /\ workE = 0

(* The admin's side: require_admin passed. *)
IssueToken(t) ==
  /\ ~pending[t].issued /\ pending' = [pending EXCEPT ![t] = Issued]
  /\ UNCHANGED <<nodeRow, nodeCerts, failedE, callE, command, used, certFile, keyFile, tornE,
                 workE>>
RevokeToken(t) ==
  /\ pending[t].issued /\ ~pending[t].consumed /\ ~pending[t].revoked
  /\ WorkE /\ pending' = [pending EXCEPT ![t].revoked = TRUE]
  /\ UNCHANGED <<nodeRow, nodeCerts, failedE, callE, command, used, certFile, keyFile, tornE>>
TokenExpires(t) ==
  /\ pending[t].issued /\ ~pending[t].expired
  /\ WorkE /\ pending' = [pending EXCEPT ![t].expired = TRUE]
  /\ UNCHANGED <<nodeRow, nodeCerts, failedE, callE, command, used, certFile, keyFile, tornE>>
WindowPasses ==
  /\ failedE > 0 /\ failedE' = 0
  /\ UNCHANGED <<pending, nodeRow, nodeCerts, callE, command, used, certFile, keyFile, tornE,
                 workE>>

(* run_enroll up to the RPC: inputs, key pair and CSR, connection. *)
CommandIdle == \A r \in RunsE : command[r] \in {"not run", "done", "failed", "stopped"}
SendEnroll(r) ==
  /\ CommandIdle /\ command[r] = "not run" /\ pending[used[r]].issued
  /\ command' = [command EXCEPT ![r] = "sent"] /\ callE' = [callE EXCEPT ![r] = "arrived"]
  /\ UNCHANGED <<pending, nodeRow, nodeCerts, failedE, used, certFile, keyFile, tornE, workE>>

(* The peer is blocked while the window holds MaxFailE failures. *)
Allowed == failedE < MaxFailE
TokenError(t) == pending[t].revoked \/ pending[t].consumed \/ pending[t].expired
EnrollBlocked(r) ==
  /\ callE[r] = "arrived" /\ ~Allowed /\ callE' = [callE EXCEPT ![r] = "refused"]
  /\ UNCHANGED <<pending, nodeRow, nodeCerts, failedE, command, used, certFile, keyFile, tornE,
                 workE>>
EnrollRefused(r) ==
  /\ callE[r] = "arrived" /\ Allowed /\ TokenError(used[r])
  /\ failedE' = failedE + 1 /\ callE' = [callE EXCEPT ![r] = "refused"]
  /\ UNCHANGED <<pending, nodeRow, nodeCerts, command, used, certFile, keyFile, tornE, workE>>
EnrollChecked(r) ==
  /\ callE[r] = "arrived" /\ Allowed /\ ~TokenError(used[r])
  /\ callE' = [callE EXCEPT ![r] = "checked"]
  /\ UNCHANGED <<pending, nodeRow, nodeCerts, failedE, command, used, certFile, keyFile, tornE,
                 workE>>

(* The CA signs, or answers an error, or is not configured (offline mode). *)
IssueCert(r) ==
  /\ callE[r] = "checked" /\ callE' = [callE EXCEPT ![r] = "signed"]
  /\ UNCHANGED <<pending, nodeRow, nodeCerts, failedE, command, used, certFile, keyFile, tornE,
                 workE>>
InsertNode(r) ==
  /\ callE[r] = "signed" /\ nodeRow' = TRUE /\ callE' = [callE EXCEPT ![r] = "row"]
  /\ UNCHANGED <<pending, nodeCerts, failedE, command, used, certFile, keyFile, tornE, workE>>
InsertCert(r) ==
  /\ callE[r] = "row" /\ callE' = [callE EXCEPT ![r] = "cert"]
  /\ nodeCerts' = nodeCerts \cup {r}
  /\ UNCHANGED <<pending, nodeRow, failedE, command, used, certFile, keyFile, tornE, workE>>
ConsumeToken(r) ==
  /\ callE[r] = "cert" /\ callE' = [callE EXCEPT ![r] = "answered"]
  /\ pending' = [pending EXCEPT ![used[r]].consumed = TRUE] /\ failedE' = 0
  /\ UNCHANGED <<nodeRow, nodeCerts, command, used, certFile, keyFile, tornE, workE>>
(* CA or database fails, the server stops, or the caller is gone and the
   handler is dropped at an await: what was written stays. *)
CallStops(r) ==
  /\ callE[r] \in {"checked", "signed", "row", "cert"} /\ WorkE
  /\ callE' = [callE EXCEPT ![r] = "refused"]
  /\ UNCHANGED <<pending, nodeRow, nodeCerts, failedE, command, used, certFile, keyFile, tornE>>

(* run_enroll after the RPC: the certificate file, then the key file. *)
WriteCertFile(r) ==
  /\ command[r] = "sent" /\ callE[r] = "answered"
  /\ certFile' = r /\ command' = [command EXCEPT ![r] = "cert"]
  /\ UNCHANGED <<pending, nodeRow, nodeCerts, failedE, callE, used, keyFile, tornE, workE>>
WriteKeyFile(r) ==
  /\ command[r] = "cert" /\ keyFile' = r /\ command' = [command EXCEPT ![r] = "done"]
  /\ tornE' = FALSE
  /\ UNCHANGED <<pending, nodeRow, nodeCerts, failedE, callE, used, certFile, workE>>
CommandFails(r) ==
  /\ command[r] = "sent" /\ callE[r] = "refused"
  /\ command' = [command EXCEPT ![r] = "failed"]
  /\ UNCHANGED <<pending, nodeRow, nodeCerts, failedE, callE, used, certFile, keyFile, tornE,
                 workE>>
CommandStopped(r) ==
  /\ command[r] \in {"sent", "cert"} /\ WorkE
  /\ tornE' = (tornE \/ command[r] = "cert")
  /\ command' = [command EXCEPT ![r] = "stopped"]
  /\ UNCHANGED <<pending, nodeRow, nodeCerts, failedE, callE, used, certFile, keyFile>>

EnrollNext ==
  \/ \E t \in TokensE : IssueToken(t) \/ RevokeToken(t) \/ TokenExpires(t)
  \/ WindowPasses
  \/ \E r \in RunsE :
       \/ SendEnroll(r) \/ EnrollBlocked(r) \/ EnrollRefused(r) \/ EnrollChecked(r)
       \/ IssueCert(r) \/ InsertNode(r) \/ InsertCert(r) \/ ConsumeToken(r) \/ CallStops(r)
       \/ WriteCertFile(r) \/ WriteKeyFile(r) \/ CommandFails(r) \/ CommandStopped(r)
EnrollSpec == EnrollInit /\ [][EnrollNext]_enrollVars
-----------------------------------------------------------------------------
(* What load_client_identity and the handshake make of the two files: the
   loader checks that both are there, the handshake that they are a pair,
   and the server's gate that it knows the certificate. *)
LoadClientIdentity == certFile # NoRun /\ keyFile # NoRun
Handshakes == LoadClientIdentity /\ certFile = keyFile
VerifyEnrolled == nodeRow /\ certFile \in nodeCerts

(* A machine whose command was not stopped between its two files keeps a
   working identity: whatever later runs of `disk enroll` meet (a replayed,
   revoked or expired token, a blocked peer, a failing CA), the files on disk
   are a pair and the server knows their certificate (run_enroll, main.rs). *)
IdentityHolds ==
  (LoadClientIdentity /\ ~tornE /\ \A r \in RunsE : command[r] # "cert")
     => Handshakes /\ VerifyEnrolled
=============================================================================
