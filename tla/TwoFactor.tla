------------------------------ MODULE TwoFactor ------------------------------
(***************************************************************************)
(* The second factor of one identity account: the totp_* columns of the    *)
(* users row and the requests of AuthAppService that read and write them.  *)
(* A request reads the credential, checks the code it was given against    *)
(* what it read, and writes; between its statements other requests run.    *)
(* The account and the caller's session are taken to stay valid meanwhile. *)
(***************************************************************************)
EXTENDS Integers

CONSTANTS
    Clients,     \* requests in progress
    CodeCount,   \* BACKUP_CODE_COUNT
    MaxSecrets,  \* bound on the calls of setup_totp
    MaxBatches,  \* bound on the batches of backup codes
    MaxTokens    \* bound on the login tokens

ASSUME TwoFactorAssumption ==
    CodeCount \in Nat /\ MaxSecrets \in Nat /\ MaxBatches \in Nat /\ MaxTokens \in Nat

Tokens == 1 .. MaxTokens
Codes == (1 .. MaxBatches) \X (1 .. CodeCount)
Batch(b) == {b} \X (1 .. CodeCount)

VARIABLES
    secret,     \* totp_secret: which setup it comes from, 0 for NULL
    enabled,    \* totp_enabled_at IS NOT NULL
    codes,      \* totp_backup_code_hashes
    token,      \* totp_login_token, 0 for NULL
    live,       \* totp_login_expires_at is in the future
    issued,     \* how many secrets, batches and tokens have been generated
    request,    \* the request of each client
    accepted,   \* history: how often each backup code has been accepted
    granted     \* history: how often each login token has been consumed

row == <<secret, enabled, codes, token, live>>
history == <<accepted, granted>>
vars == <<row, issued, request, history>>

\* The mutating requests that check a code, and the login that needs one.
Guarded == {"disable", "regenerate", "login"}

Requests ==
    [op : Guarded \cup {"none", "password", "enable"},
     pc : {"idle", "check", "issue", "consume", "write", "open"},
     secret : 0 .. MaxSecrets,
     codes : SUBSET Codes,
     code : Codes \cup {<<0, 0>>},
     token : 0 .. MaxTokens]

None == [op |-> "none", pc |-> "idle", secret |-> 0, codes |-> {}, code |-> <<0, 0>>, token |-> 0]

TypeOK ==
    /\ secret \in 0 .. MaxSecrets
    /\ enabled \in BOOLEAN
    /\ codes \in SUBSET Codes
    /\ token \in 0 .. MaxTokens
    /\ live \in BOOLEAN
    /\ issued \in [secrets : 0 .. MaxSecrets, batches : 0 .. MaxBatches, tokens : 0 .. MaxTokens]
    /\ request \in [Clients -> Requests]
    /\ accepted \in [Codes -> Nat]
    /\ granted \in [Tokens -> Nat]

Init ==
    /\ secret = 0 /\ enabled = FALSE /\ codes = {} /\ token = 0 /\ live = FALSE
    /\ issued = [secrets |-> 0, batches |-> 0, tokens |-> 0]
    /\ request = [c \in Clients |-> None]
    /\ accepted = [k \in Codes |-> 0]
    /\ granted = [t \in Tokens |-> 0]

Done(c) == request' = [request EXCEPT ![c] = None]

\* A database error, a wrong code or a cancelled request ends the request where it is.
Abort(c) ==
    /\ request[c].pc # "idle"
    /\ Done(c)
    /\ UNCHANGED <<row, issued, history>>

-----------------------------------------------------------------------------
(* Enrolment                                                               *)

\* The mutated update keeps the login token.
SetupTotpKeepsToken(c) ==
    /\ request[c].pc = "idle" /\ issued.secrets < MaxSecrets
    /\ issued' = [issued EXCEPT !.secrets = @ + 1]
    /\ secret' = issued.secrets + 1
    /\ enabled' = FALSE /\ codes' = {}
    /\ UNCHANGED <<token, live, request, history>>

\* set_setup_secret: a new secret, not enabled; codes and login token are cleared.
SetupTotp(c) ==
    /\ request[c].pc = "idle" /\ issued.secrets < MaxSecrets
    /\ issued' = [issued EXCEPT !.secrets = @ + 1]
    /\ secret' = issued.secrets + 1
    /\ enabled' = FALSE /\ codes' = {} /\ token' = 0 /\ live' = FALSE
    /\ UNCHANGED <<request, history>>

\* enable_totp reads the credential and checks the code against its secret.
EnableRead(c) ==
    /\ request[c].pc = "idle" /\ secret # 0
    /\ request' = [request EXCEPT ![c] = [None EXCEPT !.op = "enable", !.pc = "write", !.secret = secret]]
    /\ UNCHANGED <<row, issued, history>>

\* enable: whatever secret the row has by then, if it has one.
EnableWrite(c) ==
    /\ request[c].op = "enable" /\ request[c].pc = "write" /\ issued.batches < MaxBatches
    /\ issued' = [issued EXCEPT !.batches = @ + 1]
    /\ IF secret # 0
       THEN /\ enabled' = TRUE /\ codes' = Batch(issued.batches + 1)
            /\ token' = 0 /\ live' = FALSE
       ELSE UNCHANGED <<enabled, codes, token, live>>
    /\ Done(c)
    /\ UNCHANGED <<secret, history>>

-----------------------------------------------------------------------------
(* Login with a password                                                   *)

\* login: the password is right; whether a second factor is needed is read next.
LoginPassword(c) ==
    /\ request[c].pc = "idle"
    /\ request' = [request EXCEPT ![c] = [None EXCEPT !.op = "password", !.pc = "check"]]
    /\ UNCHANGED <<row, issued, history>>

LoginCheck(c) ==
    /\ request[c].op = "password" /\ request[c].pc = "check"
    /\ request' = [request EXCEPT ![c].pc = IF enabled THEN "issue" ELSE "open"]
    /\ UNCHANGED <<row, issued, history>>

\* set_login_token refuses when the second factor was switched off meanwhile.
LoginIssueToken(c) ==
    /\ request[c].pc = "issue" /\ issued.tokens < MaxTokens
    /\ issued' = [issued EXCEPT !.tokens = @ + 1]
    /\ IF enabled THEN token' = issued.tokens + 1 /\ live' = TRUE ELSE UNCHANGED <<token, live>>
    /\ Done(c)
    /\ UNCHANGED <<secret, enabled, codes, history>>

\* totp_login_expires_at passes.
TokenExpires ==
    /\ live
    /\ live' = FALSE
    /\ UNCHANGED <<secret, enabled, codes, token, issued, request, history>>

\* create_session ends a login.
OpenSession(c) ==
    /\ request[c].pc = "open"
    /\ Done(c)
    /\ UNCHANGED <<row, issued, history>>

-----------------------------------------------------------------------------
(* Requests that check a code                                              *)

\* credential_by_username or credential_by_login_token.
CredentialFound(op, t) ==
    CASE op = "disable"    -> secret # 0
      [] op = "regenerate" -> secret # 0 /\ enabled
      [] op = "login"      -> t # 0 /\ t = token /\ live /\ secret # 0 /\ enabled

\* A code of the authenticator, checked against the secret that was read, passes
\* to the write; a backup code that was read has to be consumed first.
GuardedRead(c, op, t, k) ==
    /\ request[c].pc = "idle"
    /\ CredentialFound(op, t)
    /\ k \in codes \cup {<<0, 0>>}
    /\ op # "login" => t = 0
    /\ request' = [request EXCEPT ![c] = [op |-> op, pc |-> IF k \in codes THEN "consume" ELSE "write",
                                          secret |-> secret, codes |-> codes, code |-> k, token |-> t]]
    /\ UNCHANGED <<row, issued, history>>

\* The mutated update removes the code without comparing what was read.
ConsumeCodeBlind(c) ==
    /\ request[c].pc = "consume"
    /\ codes' = request[c].codes \ {request[c].code}
    /\ accepted' = [accepted EXCEPT ![request[c].code] = @ + 1]
    /\ request' = [request EXCEPT ![c].pc = "write"]
    /\ UNCHANGED <<secret, enabled, token, live, issued, granted>>

\* consume_backup_code_hashes: only if the row still has the hashes that were read.
ConsumeCode(c) ==
    /\ request[c].pc = "consume"
    /\ IF codes = request[c].codes
       THEN /\ codes' = codes \ {request[c].code}
            /\ accepted' = [accepted EXCEPT ![request[c].code] = @ + 1]
            /\ request' = [request EXCEPT ![c].pc = "write"]
       ELSE Done(c) /\ UNCHANGED <<codes, accepted>>
    /\ UNCHANGED <<secret, enabled, token, live, issued, granted>>

DisableWrite(c) ==
    /\ request[c].op = "disable" /\ request[c].pc = "write"
    /\ secret' = 0 /\ enabled' = FALSE /\ codes' = {} /\ token' = 0 /\ live' = FALSE
    /\ Done(c)
    /\ UNCHANGED <<issued, history>>

\* replace_backup_code_hashes does not look at the secret.
RegenerateWrite(c) ==
    /\ request[c].op = "regenerate" /\ request[c].pc = "write" /\ issued.batches < MaxBatches
    /\ issued' = [issued EXCEPT !.batches = @ + 1]
    /\ codes' = Batch(issued.batches + 1)
    /\ Done(c)
    /\ UNCHANGED <<secret, enabled, token, live, history>>

\* The mutated update does not say which token it consumes.
ConsumeTokenAny(c) ==
    /\ request[c].op = "login" /\ request[c].pc = "write"
    /\ token' = 0 /\ live' = FALSE
    /\ granted' = [granted EXCEPT ![request[c].token] = @ + 1]
    /\ request' = [request EXCEPT ![c].pc = "open"]
    /\ UNCHANGED <<secret, enabled, codes, issued, accepted>>

\* consume_login_token: a session follows only for the request that clears the token.
ConsumeToken(c) ==
    /\ request[c].op = "login" /\ request[c].pc = "write"
    /\ IF token = request[c].token /\ live
       THEN /\ token' = 0 /\ live' = FALSE
            /\ granted' = [granted EXCEPT ![request[c].token] = @ + 1]
            /\ request' = [request EXCEPT ![c].pc = "open"]
       ELSE Done(c) /\ UNCHANGED <<token, live, granted>>
    /\ UNCHANGED <<secret, enabled, codes, issued, accepted>>

Next ==
    \/ TokenExpires
    \/ \E c \in Clients :
        \/ Abort(c)
        \/ SetupTotp(c)
        \/ EnableRead(c)
        \/ EnableWrite(c)
        \/ LoginPassword(c)
        \/ LoginCheck(c)
        \/ LoginIssueToken(c)
        \/ OpenSession(c)
        \/ \E op \in Guarded, t \in 0 .. MaxTokens, k \in Codes \cup {<<0, 0>>} : GuardedRead(c, op, t, k)
        \/ ConsumeCode(c)
        \/ DisableWrite(c)
        \/ RegenerateWrite(c)
        \/ ConsumeToken(c)

Spec == Init /\ [][Next]_vars

-----------------------------------------------------------------------------
(* Properties                                                              *)

\* A backup code opens at most one request, however many requests present it at
\* the same time and whatever batches replace each other in between
\* (consume_backup_code_hashes compares the hashes that were read).
BackupCodeAcceptedOnce == \A k \in Codes : accepted[k] <= 1

\* A login token gives at most one session (consume_login_token).
LoginTokenGrantsOnce == \A t \in Tokens : granted[t] <= 1

\* The secret a code was checked against is the one in force when the login token
\* is consumed: no enrolment, re-enrolment or removal of the second factor slips
\* in between, because each of them clears the token.
CheckedSecretInForce ==
    [][\A c \in Clients :
          (request[c].op = "login" /\ request[c].pc = "write" /\ request'[c].pc = "open")
              => request[c].secret = secret /\ enabled]_vars

=============================================================================
