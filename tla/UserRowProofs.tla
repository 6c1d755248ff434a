--------------------------- MODULE UserRowProofs ---------------------------
(***************************************************************************)
(* What is kept beside the row of a user: the columns of the second factor *)
(* and the search projection.                                              *)
(* The second factor, for any number of concurrent requests, secrets,      *)
(* batches and tokens: a backup code is accepted once, a login token is    *)
(* consumed once, and the secret that was checked is in force when the     *)
(* token is consumed.                                                      *)
(* The projection, for any number of users, workers, rebuilders, writes    *)
(* and deliveries: the index never falls behind what is recorded, and at   *)
(* rest it shows what the users table has.                                 *)
(***************************************************************************)
EXTENDS TwoFactor, SearchProjection, FiniteSetTheorems, WellFoundedInduction, TLAPS

-----------------------------------------------------------------------------
(* The second factor                                                       *)

\* TypeOK in two parts, for provers that do either Booleans or arithmetic.
FlagsOK == enabled \in BOOLEAN /\ live \in BOOLEAN
ColumnsOK ==
    /\ secret \in 0 .. MaxSecrets
    /\ codes \in SUBSET Codes
    /\ token \in 0 .. MaxTokens
    /\ issued \in [secrets : 0 .. MaxSecrets, batches : 0 .. MaxBatches, tokens : 0 .. MaxTokens]
    /\ request \in [Clients -> Requests]
    /\ accepted \in [Codes -> Nat]
    /\ granted \in [Tokens -> Nat]

\* A code that can still be consumed, or is still to be generated, is unused.
CodesUnused ==
    /\ \A k \in codes : k[1] <= issued.batches /\ accepted[k] = 0
    /\ \A k \in Codes : k[1] > issued.batches => accepted[k] = 0
    /\ \A c \in Clients : request[c].pc = "consume" => request[c].code \in request[c].codes

\* The token in the row, and every token still to be issued, is unused.
TokensUnused ==
    /\ token <= issued.tokens
    /\ token # 0 => granted[token] = 0
    /\ \A t \in Tokens : t > issued.tokens => granted[t] = 0

\* A login in progress read a token that was issued; as long as the row still has
\* that token, the second factor is the one the login read.
LoginsCurrent ==
    \A c \in Clients :
        (request[c].op = "login" /\ request[c].pc \in {"consume", "write"})
        => /\ request[c].token \in 1 .. issued.tokens
           /\ request[c].token = token => request[c].secret = secret /\ enabled

IInv ==
    /\ TypeOK
    /\ BackupCodeAcceptedOnce /\ CodesUnused
    /\ LoginTokenGrantsOnce /\ TokensUnused
    /\ LoginsCurrent

\* The empty request is a request.
LEMMA NoneIsRequest == None \in Requests
BY TwoFactorAssumption DEF None, Requests, Guarded

\* A request that moves on to another statement stays a request.
LEMMA AdvancedIsRequest ==
    ASSUME NEW q \in Requests, NEW pc \in {"idle", "check", "issue", "consume", "write", "open"}
    PROVE  [q EXCEPT !.pc = pc] \in Requests
BY DEF Requests

\* The two parts are the type invariant.
LEMMA TypeParts == TypeOK <=> FlagsOK /\ ColumnsOK
BY DEF TypeOK, FlagsOK, ColumnsOK

\* The initial state satisfies the inductive invariant.
LEMMA InitIInv == Init => IInv
<1> SUFFICES ASSUME Init PROVE IInv
  OBVIOUS
<1> USE TwoFactorAssumption
<1>1. TypeOK
  <2>1. FlagsOK
    BY DEF Init, FlagsOK
  <2>2. ColumnsOK
    BY NoneIsRequest DEF Init, ColumnsOK
  <2> QED BY <2>1, <2>2, TypeParts
<1>2. \A c \in Clients : request[c].pc = "idle"
  BY DEF Init, None
<1> QED BY <1>1, <1>2 DEF Init, IInv, BackupCodeAcceptedOnce, CodesUnused, LoginTokenGrantsOnce,
        TokensUnused, LoginsCurrent, Codes, Tokens

\* Every step keeps the two flags Boolean.
LEMMA FlagsStep == FlagsOK /\ [Next]_vars => FlagsOK'
<1> SUFFICES ASSUME FlagsOK, [Next]_vars PROVE FlagsOK'
  OBVIOUS
<1> USE DEF FlagsOK
<1>1. ASSUME NEW c \in Clients, Abort(c) \/ EnableRead(c) \/ LoginPassword(c) \/ LoginCheck(c) \/ OpenSession(c)
      PROVE  FlagsOK'
  BY <1>1 DEF Abort, EnableRead, LoginPassword, LoginCheck, OpenSession, row
<1>2. ASSUME NEW c \in Clients, SetupTotp(c) \/ DisableWrite(c) PROVE FlagsOK'
  BY <1>2 DEF SetupTotp, DisableWrite
<1>3. ASSUME NEW c \in Clients, EnableWrite(c) PROVE FlagsOK'
  BY <1>3 DEF EnableWrite
<1>4. ASSUME NEW c \in Clients, LoginIssueToken(c) PROVE FlagsOK'
  BY <1>4 DEF LoginIssueToken
<1>5. ASSUME NEW c \in Clients, NEW op \in Guarded, NEW t \in 0 .. MaxTokens,
             NEW k \in Codes \cup {<<0, 0>>}, GuardedRead(c, op, t, k)
      PROVE  FlagsOK'
  BY <1>5 DEF GuardedRead, row
<1>6. ASSUME NEW c \in Clients, ConsumeCode(c) \/ RegenerateWrite(c) PROVE FlagsOK'
  BY <1>6 DEF ConsumeCode, RegenerateWrite
<1>7. ASSUME NEW c \in Clients, ConsumeToken(c) PROVE FlagsOK'
  BY <1>7 DEF ConsumeToken
<1>8. ASSUME TokenExpires PROVE FlagsOK'
  BY <1>8 DEF TokenExpires
<1>9. ASSUME UNCHANGED vars PROVE FlagsOK'
  BY <1>9 DEF vars, row
<1> HIDE DEF FlagsOK
<1> QED BY <1>1, <1>2, <1>3, <1>4, <1>5, <1>6, <1>7, <1>8, <1>9 DEF Next

\* Every step keeps the columns, the requests and the counters in their domains.
LEMMA ColumnsStep == ColumnsOK /\ CodesUnused /\ LoginsCurrent /\ [Next]_vars => ColumnsOK'
<1> SUFFICES ASSUME ColumnsOK, CodesUnused, LoginsCurrent, [Next]_vars PROVE ColumnsOK'
  OBVIOUS
<1> USE TwoFactorAssumption, NoneIsRequest DEF ColumnsOK
<1>1. ASSUME NEW c \in Clients, Abort(c) PROVE ColumnsOK'
  BY <1>1 DEF Abort, Done, row, history
<1>2. ASSUME NEW c \in Clients, SetupTotp(c) PROVE ColumnsOK'
  BY <1>2 DEF SetupTotp, history
<1>3. ASSUME NEW c \in Clients, EnableRead(c) PROVE ColumnsOK'
  <2>1. [None EXCEPT !.op = "enable", !.pc = "write", !.secret = secret] \in Requests
    BY DEF None, Requests, Guarded
  <2> QED BY <1>3, <2>1 DEF EnableRead, row, history
<1>4. ASSUME NEW c \in Clients, EnableWrite(c) PROVE ColumnsOK'
  <2>1. Batch(issued.batches + 1) \in SUBSET Codes
    BY <1>4 DEF EnableWrite, Batch, Codes
  <2> QED BY <1>4, <2>1 DEF EnableWrite, Done, history
<1>5. ASSUME NEW c \in Clients, LoginPassword(c) PROVE ColumnsOK'
  <2>1. [None EXCEPT !.op = "password", !.pc = "check"] \in Requests
    BY DEF None, Requests, Guarded
  <2> QED BY <1>5, <2>1 DEF LoginPassword, row, history
<1>6. ASSUME NEW c \in Clients, LoginCheck(c) PROVE ColumnsOK'
  <2>1. [request[c] EXCEPT !.pc = IF enabled THEN "issue" ELSE "open"] \in Requests
    BY AdvancedIsRequest
  <2> QED BY <1>6, <2>1 DEF LoginCheck, row, history
<1>7. ASSUME NEW c \in Clients, LoginIssueToken(c) PROVE ColumnsOK'
  BY <1>7 DEF LoginIssueToken, Done, history
<1>8. ASSUME NEW c \in Clients, OpenSession(c) PROVE ColumnsOK'
  BY <1>8 DEF OpenSession, Done, row, history
<1>9. ASSUME NEW c \in Clients, NEW op \in Guarded, NEW t \in 0 .. MaxTokens,
             NEW k \in Codes \cup {<<0, 0>>}, GuardedRead(c, op, t, k)
      PROVE  ColumnsOK'
  <2>1. [op |-> op, pc |-> IF k \in codes THEN "consume" ELSE "write",
         secret |-> secret, codes |-> codes, code |-> k, token |-> t] \in Requests
    BY DEF Requests, Guarded
  <2> QED BY <1>9, <2>1 DEF GuardedRead, row, history
<1>10. ASSUME NEW c \in Clients, ConsumeCode(c) PROVE ColumnsOK'
  <2>1. CASE codes = request[c].codes
    <3>1. request[c].code \in Codes
      BY <1>10 DEF ConsumeCode, CodesUnused, Requests
    <3>2. accepted' \in [Codes -> Nat] /\ codes' \in SUBSET Codes
      BY <1>10, <2>1, <3>1 DEF ConsumeCode
    <3>3. [request[c] EXCEPT !.pc = "write"] \in Requests
      BY AdvancedIsRequest
    <3> QED BY <1>10, <2>1, <3>2, <3>3 DEF ConsumeCode
  <2>2. CASE codes # request[c].codes
    BY <1>10, <2>2 DEF ConsumeCode, Done
  <2> QED BY <2>1, <2>2
<1>11. ASSUME NEW c \in Clients, DisableWrite(c) PROVE ColumnsOK'
  BY <1>11 DEF DisableWrite, Done, history
<1>12. ASSUME NEW c \in Clients, RegenerateWrite(c) PROVE ColumnsOK'
  <2>1. Batch(issued.batches + 1) \in SUBSET Codes
    BY <1>12 DEF RegenerateWrite, Batch, Codes
  <2> QED BY <1>12, <2>1 DEF RegenerateWrite, Done, history
<1>13. ASSUME NEW c \in Clients, ConsumeToken(c) PROVE ColumnsOK'
  <2>1. request[c].token \in Tokens
    BY <1>13 DEF ConsumeToken, LoginsCurrent, Tokens
  <2>2. [request[c] EXCEPT !.pc = "open"] \in Requests
    BY AdvancedIsRequest
  <2> QED BY <1>13, <2>1, <2>2 DEF ConsumeToken, Done
<1>14. ASSUME TokenExpires PROVE ColumnsOK'
  BY <1>14 DEF TokenExpires, history
<1>15. ASSUME UNCHANGED vars PROVE ColumnsOK'
  BY <1>15 DEF vars, row, history
<1> QED BY <1>1, <1>2, <1>3, <1>4, <1>5, <1>6, <1>7, <1>8, <1>9, <1>10, <1>11, <1>12, <1>13, <1>14, <1>15 DEF Next

\* Each of the two parts is preserved, hence the type invariant is.
LEMMA TypeStep == IInv /\ [Next]_vars => TypeOK'
<1> SUFFICES ASSUME IInv, [Next]_vars PROVE TypeOK'
  OBVIOUS
<1>1. FlagsOK' /\ ColumnsOK'
  BY TypeParts, FlagsStep, ColumnsStep DEF IInv
<1> QED BY <1>1 DEF TypeOK, FlagsOK, ColumnsOK

\* A code of a batch has the batch's number first.
LEMMA BatchFacts ==
    ASSUME NEW b \in 1 .. MaxBatches
    PROVE  Batch(b) \subseteq Codes /\ \A k \in Batch(b) : k[1] = b
BY TwoFactorAssumption DEF Batch, Codes

\* A step that leaves codes, batches and the acceptance record alone keeps CodesUnused
\* if the requests it starts read the codes they present.
LEMMA CodesUntouched ==
    ASSUME IInv, UNCHANGED <<codes, accepted>>, issued'.batches = issued.batches,
           NEW c \in Clients, NEW q,
           request' = [request EXCEPT ![c] = q],
           q.pc = "consume" => q.code \in q.codes
    PROVE  (BackupCodeAcceptedOnce /\ CodesUnused)'
BY DEF IInv, TypeOK, BackupCodeAcceptedOnce, CodesUnused

\* A fresh batch may replace the codes of the row.
LEMMA CodesReplaced ==
    ASSUME IInv, issued.batches < MaxBatches, issued'.batches = issued.batches + 1,
           codes' = Batch(issued.batches + 1) \/ codes' = codes,
           UNCHANGED accepted, NEW c \in Clients, Done(c)
    PROVE  (BackupCodeAcceptedOnce /\ CodesUnused)'
<1>1. issued.batches \in Nat /\ issued.batches + 1 \in 1 .. MaxBatches
  BY TwoFactorAssumption DEF IInv, TypeOK
<1>2. \A k \in Codes : k[1] \in Nat
  BY TwoFactorAssumption DEF Codes
<1>3. codes \subseteq Codes
  BY DEF IInv, TypeOK
<1>4. (\A k \in codes : k[1] <= issued.batches /\ accepted[k] = 0)'
  <2>1. CASE codes' = codes
    BY <2>1, <1>1, <1>2, <1>3 DEF IInv, CodesUnused
  <2>2. CASE codes' = Batch(issued.batches + 1)
    BY <2>2, <1>1, <1>2, BatchFacts DEF IInv, CodesUnused
  <2> QED BY <2>1, <2>2
<1>5. (\A k \in Codes : k[1] > issued.batches => accepted[k] = 0)'
  BY <1>1, <1>2 DEF IInv, CodesUnused
<1>6. (\A d \in Clients : request[d].pc = "consume" => request[d].code \in request[d].codes)'
  BY DEF IInv, TypeOK, CodesUnused, Done, None
<1> QED BY <1>4, <1>5, <1>6 DEF IInv, BackupCodeAcceptedOnce, CodesUnused

\* Every step keeps the codes that can still be consumed unused, and accepts a
\* code at most once.
LEMMA CodesStep == IInv /\ [Next]_vars => (BackupCodeAcceptedOnce /\ CodesUnused)'
<1> SUFFICES ASSUME IInv, [Next]_vars PROVE (BackupCodeAcceptedOnce /\ CodesUnused)'
  OBVIOUS
<1> DEFINE Goal == (BackupCodeAcceptedOnce /\ CodesUnused)'
<1>a. None.pc # "consume"
  BY DEF None
<1>1. ASSUME NEW c \in Clients, Abort(c) PROVE Goal
  BY <1>1, <1>a, CodesUntouched DEF Abort, Done, row, history
<1>2. ASSUME NEW c \in Clients, SetupTotp(c) PROVE Goal
  BY <1>2 DEF SetupTotp, history, IInv, TypeOK, BackupCodeAcceptedOnce, CodesUnused
<1>3. ASSUME NEW c \in Clients, EnableRead(c) PROVE Goal
  <2>1. [None EXCEPT !.op = "enable", !.pc = "write", !.secret = secret].pc # "consume"
    BY DEF None
  <2> HIDE DEF Goal
  <2> QED BY <1>3, <2>1, CodesUntouched DEF EnableRead, row, history, Goal
<1>4. ASSUME NEW c \in Clients, EnableWrite(c) PROVE Goal
  <2>1. issued'.batches = issued.batches + 1
    BY <1>4 DEF EnableWrite, IInv, TypeOK
  <2> QED BY <1>4, <2>1, CodesReplaced DEF EnableWrite, history
<1>5. ASSUME NEW c \in Clients, LoginPassword(c) PROVE Goal
  <2>1. [None EXCEPT !.op = "password", !.pc = "check"].pc # "consume"
    BY DEF None
  <2> QED BY <1>5, <2>1, CodesUntouched DEF LoginPassword, row, history
<1>6. ASSUME NEW c \in Clients, LoginCheck(c) PROVE Goal
  <2>1. [request[c] EXCEPT !.pc = IF enabled THEN "issue" ELSE "open"].pc # "consume"
    BY DEF IInv, TypeOK, Requests
  <2> QED BY <1>6, <2>1, CodesUntouched DEF LoginCheck, row, history
<1>7. ASSUME NEW c \in Clients, LoginIssueToken(c) PROVE Goal
  <2>1. issued'.batches = issued.batches
    BY <1>7 DEF LoginIssueToken, IInv, TypeOK
  <2> QED BY <1>7, <1>a, <2>1, CodesUntouched DEF LoginIssueToken, Done, history
<1>8. ASSUME NEW c \in Clients, OpenSession(c) PROVE Goal
  BY <1>8, <1>a, CodesUntouched DEF OpenSession, Done, row, history
<1>9. ASSUME NEW c \in Clients, NEW op \in Guarded, NEW t \in 0 .. MaxTokens,
             NEW k \in Codes \cup {<<0, 0>>}, GuardedRead(c, op, t, k)
      PROVE  Goal
  <2> DEFINE q == [op |-> op, pc |-> IF k \in codes THEN "consume" ELSE "write",
                   secret |-> secret, codes |-> codes, code |-> k, token |-> t]
  <2>1. q.pc = "consume" => q.code \in q.codes
    OBVIOUS
  <2>2. request' = [request EXCEPT ![c] = q] /\ UNCHANGED <<codes, accepted>> /\ issued'.batches = issued.batches
    BY <1>9 DEF GuardedRead, row, history
  <2> HIDE DEF q
  <2> QED BY <2>1, <2>2, CodesUntouched
<1>10. ASSUME NEW c \in Clients, ConsumeCode(c) PROVE Goal
  <2>1. CASE codes = request[c].codes
    <3>1. request[c].code \in codes /\ codes \subseteq Codes
      BY <1>10, <2>1 DEF ConsumeCode, IInv, TypeOK, CodesUnused
    <3>2. accepted[request[c].code] = 0 /\ request[c].code[1] <= issued.batches
      BY <3>1 DEF IInv, CodesUnused
    <3>3. accepted' = [accepted EXCEPT ![request[c].code] = 1]
      BY <1>10, <2>1, <3>2 DEF ConsumeCode
    <3>4. (\A k \in Codes : accepted[k] <= 1)'
      BY <3>1, <3>3 DEF IInv, TypeOK, BackupCodeAcceptedOnce
    <3>5. (\A k \in codes : k[1] <= issued.batches /\ accepted[k] = 0)'
      BY <1>10, <2>1, <3>1, <3>3 DEF ConsumeCode, IInv, TypeOK, CodesUnused
    <3>6. (\A k \in Codes : k[1] > issued.batches => accepted[k] = 0)'
      <4>1. issued.batches \in Int /\ \A k \in Codes : k[1] \in Int
        BY TwoFactorAssumption DEF IInv, TypeOK, Codes
      <4> QED BY <1>10, <3>1, <3>2, <3>3, <4>1 DEF ConsumeCode, IInv, TypeOK, CodesUnused
    <3>7. (\A d \in Clients : request[d].pc = "consume" => request[d].code \in request[d].codes)'
      BY <1>10, <2>1 DEF ConsumeCode, IInv, TypeOK, CodesUnused, Requests
    <3> QED BY <3>4, <3>5, <3>6, <3>7 DEF BackupCodeAcceptedOnce, CodesUnused
  <2>2. CASE codes # request[c].codes
    BY <1>10, <2>2, <1>a, CodesUntouched DEF ConsumeCode, Done
  <2> QED BY <2>1, <2>2
<1>11. ASSUME NEW c \in Clients, DisableWrite(c) PROVE Goal
  BY <1>11, <1>a DEF DisableWrite, Done, history, IInv, TypeOK, BackupCodeAcceptedOnce, CodesUnused
<1>12. ASSUME NEW c \in Clients, RegenerateWrite(c) PROVE Goal
  <2>1. issued'.batches = issued.batches + 1
    BY <1>12 DEF RegenerateWrite, IInv, TypeOK
  <2> QED BY <1>12, <2>1, CodesReplaced DEF RegenerateWrite, history
<1>13. ASSUME NEW c \in Clients, ConsumeToken(c) PROVE Goal
  <2>1. [request[c] EXCEPT !.pc = "open"].pc # "consume"
    BY DEF IInv, TypeOK, Requests
  <2> QED BY <1>13, <1>a, <2>1, CodesUntouched DEF ConsumeToken, Done
<1>14. ASSUME TokenExpires PROVE Goal
  BY <1>14 DEF TokenExpires, history, IInv, BackupCodeAcceptedOnce, CodesUnused
<1>15. ASSUME UNCHANGED vars PROVE Goal
  BY <1>15 DEF vars, row, history, IInv, BackupCodeAcceptedOnce, CodesUnused
<1> QED BY <1>1, <1>2, <1>3, <1>4, <1>5, <1>6, <1>7, <1>8, <1>9, <1>10, <1>11, <1>12, <1>13, <1>14, <1>15 DEF Next

\* Every step keeps the row's token unused and consumes a token at most once.
LEMMA TokensStep == IInv /\ [Next]_vars => (LoginTokenGrantsOnce /\ TokensUnused)'
<1> SUFFICES ASSUME IInv, [Next]_vars PROVE (LoginTokenGrantsOnce /\ TokensUnused)'
  OBVIOUS
<1> DEFINE Goal == (LoginTokenGrantsOnce /\ TokensUnused)'
<1>a. issued.tokens \in Nat /\ token \in Nat /\ Tokens = 1 .. MaxTokens /\ MaxTokens \in Nat
  BY TwoFactorAssumption DEF IInv, TypeOK, Tokens
<1>b. ASSUME UNCHANGED granted, issued'.tokens = issued.tokens, token' = token \/ token' = 0 PROVE Goal
  BY <1>a, <1>b DEF IInv, LoginTokenGrantsOnce, TokensUnused
<1>1. ASSUME NEW c \in Clients,
             \/ Abort(c) \/ EnableRead(c) \/ LoginPassword(c) \/ LoginCheck(c) \/ OpenSession(c)
             \/ ConsumeCode(c) \/ DisableWrite(c)
             \/ \E op \in Guarded, t \in 0 .. MaxTokens, k \in Codes \cup {<<0, 0>>} : GuardedRead(c, op, t, k)
      PROVE  UNCHANGED granted /\ issued'.tokens = issued.tokens /\ (token' = token \/ token' = 0)
  BY <1>1 DEF Abort, EnableRead, LoginPassword, LoginCheck, OpenSession, ConsumeCode, DisableWrite, GuardedRead,
          row, history
<1>2. ASSUME NEW c \in Clients, SetupTotp(c) \/ EnableWrite(c) \/ RegenerateWrite(c)
      PROVE  UNCHANGED granted /\ issued'.tokens = issued.tokens /\ (token' = token \/ token' = 0)
  BY <1>2 DEF SetupTotp, EnableWrite, RegenerateWrite, history, IInv, TypeOK
<1>3. ASSUME NEW c \in Clients, LoginIssueToken(c) PROVE Goal
  <2>1. issued'.tokens = issued.tokens + 1 /\ issued.tokens + 1 \in Tokens
    BY <1>3, <1>a DEF LoginIssueToken, IInv, TypeOK
  <2>2. token' = issued.tokens + 1 \/ token' = token
    BY <1>3 DEF LoginIssueToken
  <2>3. granted' = granted
    BY <1>3 DEF LoginIssueToken, history
  <2> QED BY <1>a, <2>1, <2>2, <2>3 DEF IInv, LoginTokenGrantsOnce, TokensUnused
<1>4. ASSUME NEW c \in Clients, ConsumeToken(c) PROVE Goal
  <2>1. CASE token = request[c].token /\ live
    <3>1. request[c].token \in 1 .. issued.tokens /\ issued.tokens <= MaxTokens
      BY <1>4 DEF ConsumeToken, IInv, LoginsCurrent, TypeOK
    <3>2. token \in Tokens /\ token # 0 /\ token <= issued.tokens /\ granted[token] = 0
      BY <1>a, <2>1, <3>1 DEF IInv, TokensUnused
    <3>3. granted' = [granted EXCEPT ![token] = 1] /\ token' = 0 /\ issued' = issued
      BY <1>4, <2>1, <3>2 DEF ConsumeToken
    <3>4. granted \in [Tokens -> Nat]
      BY DEF IInv, TypeOK
    <3>5. LoginTokenGrantsOnce'
      BY <3>2, <3>3, <3>4 DEF IInv, LoginTokenGrantsOnce
    <3>6. TokensUnused'
      BY <1>a, <3>2, <3>3, <3>4 DEF IInv, TokensUnused
    <3> QED BY <3>5, <3>6
  <2>2. CASE ~(token = request[c].token /\ live)
    BY <1>4, <1>b, <2>2 DEF ConsumeToken
  <2> QED BY <2>1, <2>2
<1>5. ASSUME TokenExpires \/ UNCHANGED vars PROVE Goal
  BY <1>5, <1>b DEF TokenExpires, vars, row, history
<1> QED BY <1>1, <1>2, <1>b, <1>3, <1>4, <1>5 DEF Next

\* A login in progress, seen from a step that leaves the second factor alone or
\* takes the token out of the row.
LEMMA LoginsUntouched ==
    ASSUME IInv, \/ UNCHANGED <<secret, enabled, token>>
                 \/ token' = 0,
           issued'.tokens = issued.tokens,
           NEW c \in Clients, NEW q,
           request' = [request EXCEPT ![c] = q],
           (q.op = "login" /\ q.pc \in {"consume", "write"})
              => /\ q.token \in 1 .. issued.tokens
                 /\ q.token = token' => q.secret = secret' /\ enabled'
    PROVE  LoginsCurrent'
<1> SUFFICES ASSUME NEW d \in Clients, request'[d].op = "login", request'[d].pc \in {"consume", "write"}
             PROVE  /\ request'[d].token \in 1 .. issued'.tokens
                    /\ request'[d].token = token' => request'[d].secret = secret' /\ enabled'
  BY DEF LoginsCurrent
<1>1. CASE d = c
  BY <1>1 DEF IInv, TypeOK
<1>2. CASE d # c
  <2>1. request'[d] = request[d]
    BY <1>2 DEF IInv, TypeOK
  <2>2. /\ request[d].token \in 1 .. issued.tokens
        /\ request[d].token = token => request[d].secret = secret /\ enabled
    BY <2>1 DEF IInv, LoginsCurrent
  <2>3. request[d].token # 0
    BY <2>2
  <2> QED BY <2>1, <2>2, <2>3
<1> QED BY <1>1, <1>2

\* Every step keeps the logins in progress on the second factor they read.
LEMMA LoginsStep == IInv /\ [Next]_vars => LoginsCurrent'
<1> SUFFICES ASSUME IInv, [Next]_vars PROVE LoginsCurrent'
  OBVIOUS
<1>a. None.op # "login"
  BY DEF None
<1>b. issued.tokens \in Nat
  BY TwoFactorAssumption DEF IInv, TypeOK
<1>1. ASSUME NEW c \in Clients, Abort(c) \/ OpenSession(c) PROVE LoginsCurrent'
  BY <1>1, <1>a, LoginsUntouched DEF Abort, OpenSession, Done, row, history
<1>2. ASSUME NEW c \in Clients, SetupTotp(c) PROVE LoginsCurrent'
  <2>1. token' = 0 /\ request' = request /\ issued'.tokens = issued.tokens
    BY <1>2 DEF SetupTotp, IInv, TypeOK
  <2> QED BY <1>b, <2>1 DEF IInv, LoginsCurrent
<1>3. ASSUME NEW c \in Clients, EnableRead(c) PROVE LoginsCurrent'
  <2>1. [None EXCEPT !.op = "enable", !.pc = "write", !.secret = secret].op # "login"
    BY DEF None
  <2> QED BY <1>3, <2>1, LoginsUntouched DEF EnableRead, row, history
<1>4. ASSUME NEW c \in Clients, EnableWrite(c) PROVE LoginsCurrent'
  <2>1. issued'.tokens = issued.tokens
    BY <1>4 DEF EnableWrite, IInv, TypeOK
  <2> QED BY <1>4, <1>a, <2>1, LoginsUntouched DEF EnableWrite, Done
<1>5. ASSUME NEW c \in Clients, LoginPassword(c) PROVE LoginsCurrent'
  <2>1. [None EXCEPT !.op = "password", !.pc = "check"].op # "login"
    BY DEF None
  <2> QED BY <1>5, <2>1, LoginsUntouched DEF LoginPassword, row, history
<1>6. ASSUME NEW c \in Clients, LoginCheck(c) PROVE LoginsCurrent'
  <2>1. [request[c] EXCEPT !.pc = IF enabled THEN "issue" ELSE "open"].op # "login"
    BY <1>6 DEF LoginCheck, IInv, TypeOK, Requests
  <2> QED BY <1>6, <2>1, LoginsUntouched DEF LoginCheck, row, history
<1>7. ASSUME NEW c \in Clients, LoginIssueToken(c) PROVE LoginsCurrent'
  <2>1. issued'.tokens = issued.tokens + 1 /\ (token' = issued.tokens + 1 \/ token' = token)
    BY <1>7 DEF LoginIssueToken, IInv, TypeOK
  <2>2. secret' = secret /\ enabled' = enabled /\ request' = [request EXCEPT ![c] = None]
    BY <1>7 DEF LoginIssueToken, Done
  <2> SUFFICES ASSUME NEW d \in Clients, request'[d].op = "login", request'[d].pc \in {"consume", "write"}
               PROVE  /\ request'[d].token \in 1 .. issued'.tokens
                      /\ request'[d].token = token' => request'[d].secret = secret' /\ enabled'
    BY DEF LoginsCurrent
  <2>3. d # c /\ request'[d] = request[d]
    BY <1>a, <2>2 DEF IInv, TypeOK
  <2>4. /\ request[d].token \in 1 .. issued.tokens
        /\ request[d].token = token => request[d].secret = secret /\ enabled
    BY <2>3 DEF IInv, LoginsCurrent
  <2>5. request[d].token # issued.tokens + 1 /\ request[d].token \in 1 .. issued'.tokens
    BY <1>b, <2>1, <2>4
  <2> QED BY <2>1, <2>2, <2>3, <2>4, <2>5
<1>8. ASSUME NEW c \in Clients, NEW op \in Guarded, NEW t \in 0 .. MaxTokens,
             NEW k \in Codes \cup {<<0, 0>>}, GuardedRead(c, op, t, k)
      PROVE  LoginsCurrent'
  <2> DEFINE q == [op |-> op, pc |-> IF k \in codes THEN "consume" ELSE "write",
                   secret |-> secret, codes |-> codes, code |-> k, token |-> t]
  <2>1. op = "login" => t = token /\ t # 0 /\ enabled
    BY <1>8 DEF GuardedRead, CredentialFound
  <2>2. op = "login" => t \in 1 .. issued.tokens
    BY <1>b, <2>1 DEF IInv, TokensUnused
  <2>3. request' = [request EXCEPT ![c] = q] /\ UNCHANGED <<secret, enabled, token, issued>>
    BY <1>8 DEF GuardedRead, row
  <2>4. q.op = op /\ q.token = t /\ q.secret = secret
    OBVIOUS
  <2> HIDE DEF q
  <2> QED BY <2>1, <2>2, <2>3, <2>4, LoginsUntouched
<1>9. ASSUME NEW c \in Clients, ConsumeCode(c) PROVE LoginsCurrent'
  <2>1. CASE codes = request[c].codes
    <3> DEFINE q == [request[c] EXCEPT !.pc = "write"]
    <3>1. q.op = request[c].op /\ q.token = request[c].token /\ q.secret = request[c].secret
      BY DEF IInv, TypeOK, Requests
    <3>2. request[c].op = "login" => /\ request[c].token \in 1 .. issued.tokens
                                     /\ request[c].token = token => request[c].secret = secret /\ enabled
      BY <1>9 DEF ConsumeCode, IInv, LoginsCurrent
    <3>3. request' = [request EXCEPT ![c] = q] /\ UNCHANGED <<secret, enabled, token, issued>>
      BY <1>9, <2>1 DEF ConsumeCode
    <3> HIDE DEF q
    <3> QED BY <3>1, <3>2, <3>3, LoginsUntouched
  <2>2. CASE codes # request[c].codes
    BY <1>9, <2>2, <1>a, LoginsUntouched DEF ConsumeCode, Done
  <2> QED BY <2>1, <2>2
<1>10. ASSUME NEW c \in Clients, DisableWrite(c) PROVE LoginsCurrent'
  BY <1>10, <1>a, LoginsUntouched DEF DisableWrite, Done
<1>11. ASSUME NEW c \in Clients, RegenerateWrite(c) PROVE LoginsCurrent'
  <2>1. issued'.tokens = issued.tokens
    BY <1>11 DEF RegenerateWrite, IInv, TypeOK
  <2> QED BY <1>11, <1>a, <2>1, LoginsUntouched DEF RegenerateWrite, Done
<1>12. ASSUME NEW c \in Clients, ConsumeToken(c) PROVE LoginsCurrent'
  <2>1. [request[c] EXCEPT !.pc = "open"].pc \notin {"consume", "write"}
    BY DEF IInv, TypeOK, Requests
  <2> QED BY <1>12, <1>a, <2>1, LoginsUntouched DEF ConsumeToken, Done
<1>13. ASSUME TokenExpires \/ UNCHANGED vars PROVE LoginsCurrent'
  BY <1>13 DEF TokenExpires, vars, row, IInv, LoginsCurrent
<1> QED BY <1>1, <1>2, <1>3, <1>4, <1>5, <1>6, <1>7, <1>8, <1>9, <1>10, <1>11, <1>12, <1>13 DEF Next

\* The invariant is inductive.
LEMMA Inductive == IInv /\ [Next]_vars => IInv'
BY TypeStep, CodesStep, TokensStep, LoginsStep DEF IInv

\* The totp columns, the requests and the history stay in their domains.
THEOREM TypeCorrect == Spec => []TypeOK
<1>1. IInv => TypeOK
  BY DEF IInv
<1> QED BY <1>1, InitIInv, Inductive, PTL DEF Spec

\* A backup code is accepted at most once, for any number of concurrent requests.
THEOREM CodesOnce == Spec => []BackupCodeAcceptedOnce
<1>1. IInv => BackupCodeAcceptedOnce
  BY DEF IInv
<1> QED BY <1>1, InitIInv, Inductive, PTL DEF Spec

\* A login token is consumed at most once, for any number of concurrent requests.
THEOREM TokensOnce == Spec => []LoginTokenGrantsOnce
<1>1. IInv => LoginTokenGrantsOnce
  BY DEF IInv
<1> QED BY <1>1, InitIInv, Inductive, PTL DEF Spec

\* A login that consumes its token checked its code against the secret in force.
THEOREM SecretInForce == Spec => CheckedSecretInForce
<1> DEFINE Step == \A c \in Clients :
                      (request[c].op = "login" /\ request[c].pc = "write" /\ request'[c].pc = "open")
                          => request[c].secret = secret /\ enabled
<1>1. IInv /\ [Next]_vars => [Step]_vars
  <2> SUFFICES ASSUME IInv, Next, NEW c \in Clients,
                      request[c].op = "login", request[c].pc = "write", request'[c].pc = "open"
               PROVE  request[c].secret = secret /\ enabled
    BY DEF vars
  <2>1. PICK d \in Clients :
           \/ Abort(d) \/ SetupTotp(d) \/ EnableRead(d) \/ EnableWrite(d) \/ LoginPassword(d) \/ LoginCheck(d)
           \/ LoginIssueToken(d) \/ OpenSession(d) \/ ConsumeCode(d) \/ DisableWrite(d) \/ RegenerateWrite(d)
           \/ ConsumeToken(d)
           \/ \E op \in Guarded, t \in 0 .. MaxTokens, k \in Codes \cup {<<0, 0>>} : GuardedRead(d, op, t, k)
    BY DEF Next, TokenExpires
  <2>2. None.pc = "idle"
    BY DEF None
  <2>3. c = d /\ ConsumeToken(c)
    BY <2>1, <2>2 DEF IInv, TypeOK, Requests, Abort, SetupTotp, EnableRead, EnableWrite, LoginPassword, LoginCheck,
          LoginIssueToken, OpenSession, ConsumeCode, DisableWrite, RegenerateWrite, ConsumeToken, GuardedRead, Done,
          None
  <2>4. token = request[c].token
    BY <2>2, <2>3 DEF ConsumeToken, Done, IInv, TypeOK
  <2> QED BY <2>4 DEF IInv, LoginsCurrent
<1> QED BY <1>1, InitIInv, Inductive, PTL DEF Spec, CheckedSecretInForce

-----------------------------------------------------------------------------
(* The search projection                                                   *)

\* A handler call that is past the rebuild lock, one that has the document's lock and has read its
\* version, and one whose task has succeeded.
Busy(w) == worker[w].pc \in {"document", "post", "wait", "record"}
Locked(w) == worker[w].pc \in {"post", "wait", "record"}
Succeeded(w) == worker[w].pc = "record" \/ (worker[w].pc = "wait" /\ worker[w].pos = 0)

\* What the index has of a user with the writes h when write r was the last one applied to it.
Effect(h, r) == IF r \in 1 .. Len(h) /\ h[r] = "upsert" THEN r ELSE 0

\* The writes g were all there were, of h, at some time.
Earlier(g, h) == Len(g) <= Len(h) /\ \A i \in 1 .. Len(g) : g[i] = h[i]

\* What a rebuild has put into the temporary index, and what it will be after a page has been added.
Copied(b, d) == IF d <= rebuild[b].last THEN Shown(rebuild[b].snap[d]) ELSE 0
Paged(t, d) == IF d \in DOMAIN t.rows THEN t.rows[d] ELSE index["temporary"][d]

Rows == UNION {[S -> Revisions] : S \in SUBSET Docs}
Tasks == [op : Kinds, doc : Docs, rev : Revisions] \cup {EmptyTemporary}
         \cup [op : {"page"}, rows : Rows]
         \cup [op : {"swap"}, snap : [Docs -> Seq(Kinds)], missed : SUBSET Docs]
HandlerCalls == [pc : {"idle", "begin", "document", "post", "wait", "record"}, doc : Docs, rev : Revisions,
                 fresh : BOOLEAN, pos : Nat]
Rebuilding == [pc : {"idle", "waiting", "granted", "paging", "swapping", "dropping"},
               snap : [Docs -> Seq(Kinds)], last : 0 .. NumDocs, pos : Nat]
Indexes == [{"live", "temporary"} -> [Docs -> 0 .. MaxRevision]]

Types ==
    /\ setup \in Setups /\ hist \in [Docs -> Seq(Kinds)] /\ versions \in [Docs -> Nat]
    /\ \A d \in Docs : Len(hist[d]) <= MaxRevision
    /\ worker \in [Workers -> HandlerCalls] /\ rebuild \in [Rebuilders -> Rebuilding]
    /\ queue \in Seq(Tasks) /\ index \in Indexes
    /\ missed \in [Rebuilders \cup {"live"} -> SUBSET Docs] /\ rebuilds \in 0 .. MaxRebuilds

\* The locks; SQLite has one worker and no rebuilds in their stead.
LocksInv ==
    /\ ~setup.postgres => /\ \A b \in Rebuilders : rebuild[b].pc = "idle"
                          /\ \A v, w \in Workers : worker[v].pc # "idle" /\ worker[w].pc # "idle" => v = w
    /\ \A v, w \in Workers : Locked(v) /\ Locked(w) /\ worker[v].doc = worker[w].doc => v = w
    /\ \A b \in Rebuilders : HoldsRebuildLock(b) => /\ \A w \in Workers : ~Busy(w)
                                                    /\ \A c \in Rebuilders : HoldsRebuildLock(c) => c = b

\* An accepted command is newer than what is recorded; pages and swaps are at the head, and a swap
\* finds the whole snapshot of its rebuild in the temporary index, with nobody about to record.
TaskOK(i) ==
    /\ queue[i].op \in Kinds => /\ versions[queue[i].doc] < queue[i].rev
                                /\ queue[i].rev <= Len(hist[queue[i].doc])
                                /\ hist[queue[i].doc][queue[i].rev] = queue[i].op
    /\ queue[i].op \in {"page", "swap"} => i = 1
    /\ queue[i].op = "swap" =>
          /\ \A w \in Workers : ~Succeeded(w)
          /\ \A d \in Docs : /\ index["temporary"][d] = Shown(queue[i].snap[d]) /\ Earlier(queue[i].snap[d], hist[d])
                             /\ d \notin queue[i].missed => versions[d] <= Len(queue[i].snap[d])
TasksInv == \A i \in 1 .. Len(queue) : TaskOK(i)

\* The command of a handler call is newer than what is recorded; behind it no other is accepted for
\* its user, and once it has succeeded the index shows it.
CallOK(w) ==
    /\ worker[w].pc # "idle" => worker[w].rev <= Len(hist[worker[w].doc])
    /\ Locked(w) => versions[worker[w].doc] < worker[w].rev
    /\ worker[w].pc # "wait" => worker[w].pos = 0
    /\ worker[w].pos <= Len(queue) /\ (worker[w].pos > 0 => queue[worker[w].pos] = Command(w))
    /\ worker[w].pc \in {"wait", "record"} =>
          \A i \in 1 .. Len(queue) : i > worker[w].pos /\ queue[i].op \in Kinds => queue[i].doc # worker[w].doc
    /\ Succeeded(w) => index["live"][worker[w].doc] = Effect(hist[worker[w].doc], worker[w].rev)
CallsInv == \A w \in Workers : CallOK(w)

\* A rebuild has every recorded write in its snapshot but for those it missed; what it posts is the
\* last task there is, and what it posted before has been done.
RebuildOK(b) ==
    /\ rebuild[b].pc # "idle" =>
          \A d \in Docs : /\ Earlier(rebuild[b].snap[d], hist[d])
                          /\ d \notin missed[b] => versions[d] <= Len(rebuild[b].snap[d])
    /\ rebuild[b].pos = IF HoldsRebuildLock(b) THEN Len(queue) ELSE 0
    /\ rebuild[b].pc \in {"waiting", "granted"} => rebuild[b].last = 0
    /\ rebuild[b].pc = "granted" /\ rebuild[b].pos > 0 => queue[rebuild[b].pos] = EmptyTemporary
    /\ ReadsPages(b) => \A d \in Docs : index["temporary"][d] = Copied(b, d)
    /\ rebuild[b].pc = "paging" /\ rebuild[b].pos > 0 =>
          /\ queue[rebuild[b].pos].op = "page"
          /\ \A d \in Docs : Paged(queue[rebuild[b].pos], d) = Copied(b, d)
RebuildsInv == \A b \in Rebuilders : RebuildOK(b)

\* The live index has of every user what was recorded last, or something newer.
LiveInv ==
    /\ \A d \in Docs : versions[d] <= Len(hist[d])
    /\ \A d \in Docs \ missed["live"] : \E r \in Nat :
          versions[d] <= r /\ r <= Len(hist[d]) /\ index["live"][d] = Effect(hist[d], r)

\* What is processed was recorded, or something newer was.
JobsInv ==
    /\ jobs \in [Docs -> [Revisions -> [attempts : 0 .. MaxAttempts, processed : BOOLEAN]]]
    /\ \A d \in Docs, r \in Revisions : jobs[d][r].processed => r <= versions[d]

ProjectionInv ==
    Types /\ LocksInv /\ TasksInv /\ CallsInv /\ RebuildsInv /\ LiveInv /\ JobsInv

USE SearchAssumption DEF Docs, Revisions, Kinds

LEMMA SetupOK ==
    ASSUME NEW s \in Setups
    PROVE  /\ s.postgres \in BOOLEAN /\ s.attempts \in Nat /\ s.attempts <= MaxAttempts
           /\ s.revisions \in Nat /\ s.revisions <= MaxRevision /\ s.rebuilds <= MaxRebuilds
           /\ s.rebuilds \in Nat /\ (s.postgres \/ s.rebuilds = 0)
OBVIOUS

\* What the fields of a task are.
LEMMA TaskFields ==
    ASSUME NEW t \in Tasks
    PROVE  /\ t.op \in {"upsert", "delete", "empty", "page", "swap"}
           /\ t.op \in Kinds => t.doc \in Docs /\ t.rev \in Revisions
           /\ t.op = "page" => t.rows \in Rows
           /\ t.op = "swap" => t.snap \in [Docs -> Seq(Kinds)] /\ t.missed \in SUBSET Docs
BY DEF Tasks, EmptyTemporary

\* Accepting a task, and taking one off the queue.
LEMMA Accepted ==
    ASSUME queue \in Seq(Tasks), NEW t \in Tasks, queue' = Append(queue, t)
    PROVE  /\ queue' \in Seq(Tasks) /\ Len(queue') = Len(queue) + 1 /\ Len(queue) \in Nat
           /\ \A i \in 1 .. Len(queue) : queue'[i] = queue[i]
           /\ queue'[Len(queue) + 1] = t
BY DEF Tasks

LEMMA Taken ==
    ASSUME queue \in Seq(Tasks), queue # <<>>, queue' = Tail(queue)
    PROVE  /\ queue' \in Seq(Tasks) /\ Len(queue') = Len(queue) - 1 /\ Len(queue) \in Nat /\ Len(queue) >= 1
           /\ \A i \in 1 .. Len(queue') : queue'[i] = queue[i + 1]
           /\ Head(queue) = queue[1] /\ Head(queue) \in Tasks
BY DEF Tasks

LEMMA ProjectionInitInv == ProjectionInit => ProjectionInv
<1> SUFFICES ASSUME ProjectionInit PROVE ProjectionInv
  OBVIOUS
<1>1. 1 \in Docs /\ 1 \in Revisions
  OBVIOUS
<1>2. \A d \in Docs : hist[d] = <<>> /\ versions[d] = 0
  BY DEF ProjectionInit
<1>3. \A w \in Workers : worker[w].pc = "idle" /\ worker[w].pos = 0
  BY DEF ProjectionInit, Idle
<1>4. \A b \in Rebuilders : rebuild[b].pc = "idle" /\ rebuild[b].pos = 0
  BY DEF ProjectionInit, Resting
<1>5. Types
  <2>1. Idle \in HandlerCalls
    BY <1>1 DEF Idle, HandlerCalls
  <2>2. Resting \in Rebuilding
    BY DEF Resting, Rebuilding
  <2> QED BY <2>1, <2>2 DEF ProjectionInit, Types, Indexes
<1>6. LocksInv
  BY <1>3, <1>4 DEF LocksInv, Locked, HoldsRebuildLock
<1>7. TasksInv
  BY DEF ProjectionInit, TasksInv
<1>8. CallsInv
  BY <1>3 DEF ProjectionInit, CallsInv, CallOK, Locked, Succeeded
<1>9. RebuildsInv
  BY <1>4 DEF ProjectionInit, RebuildsInv, RebuildOK, HoldsRebuildLock, ReadsPages
<1>10. LiveInv
  <2>1. \A d \in Docs : index["live"][d] = 0 /\ Effect(hist[d], 0) = 0
    BY DEF ProjectionInit, Effect
  <2> QED BY <1>2, <2>1 DEF LiveInv
<1>11. JobsInv
  BY DEF ProjectionInit, JobsInv
<1> QED BY <1>5, <1>6, <1>7, <1>8, <1>9, <1>10, <1>11 DEF ProjectionInv

\* A handler call goes on, and nothing else changes but the state of jobs.
LEMMA CallStep ==
    ASSUME ProjectionInv, NEW w \in Workers, NEW p \in HandlerCalls, worker' = [worker EXCEPT ![w] = p],
           UNCHANGED <<setup, hist, versions, rebuild, rebuilds, queue, index, missed>>, JobsInv', CallOK(w)',
           setup.postgres \/ worker[w].pc # "idle" \/ \A v \in Workers : worker[v].pc = "idle",
           Locked(w)' => \A v \in Workers \ {w} : Locked(v) => worker[v].doc # p.doc,
           Busy(w)' => \A b \in Rebuilders : ~HoldsRebuildLock(b),
           Succeeded(w)' => Succeeded(w)
    PROVE  ProjectionInv'
<1>1. worker' \in [Workers -> HandlerCalls] /\ worker'[w] = p /\ \A v \in Workers \ {w} : worker'[v] = worker[v]
  BY DEF ProjectionInv, Types
<1>2. Types'
  BY <1>1 DEF ProjectionInv, Types
<1>3. \A v \in Workers \ {w} : /\ Busy(v)' <=> Busy(v)
                               /\ Locked(v)' <=> Locked(v)
                               /\ Succeeded(v)' <=> Succeeded(v)
  BY <1>1 DEF Busy, Locked, Succeeded
<1>4. LocksInv'
  <2>1. ~setup'.postgres => /\ \A b \in Rebuilders : rebuild'[b].pc = "idle"
                            /\ \A u, v \in Workers : worker'[u].pc # "idle" /\ worker'[v].pc # "idle" => u = v
    BY <1>1 DEF ProjectionInv, LocksInv
  <2>2. \A u, v \in Workers : Locked(u)' /\ Locked(v)' /\ worker'[u].doc = worker'[v].doc => u = v
    BY <1>1, <1>3 DEF ProjectionInv, LocksInv
  <2>3. \A b \in Rebuilders : HoldsRebuildLock(b)' => /\ \A v \in Workers : ~Busy(v)'
                                                      /\ \A c \in Rebuilders : HoldsRebuildLock(c)' => c = b
    BY <1>3 DEF ProjectionInv, LocksInv, HoldsRebuildLock
  <2> QED BY <2>1, <2>2, <2>3 DEF LocksInv
<1>5. TasksInv'
  BY <1>3 DEF ProjectionInv, TasksInv, TaskOK, Earlier
<1>6. CallsInv'
  BY <1>1, <1>3 DEF ProjectionInv, CallsInv, CallOK, Command, Effect
<1>7. RebuildsInv'
  BY DEF ProjectionInv, RebuildsInv, RebuildOK, HoldsRebuildLock, ReadsPages, Copied, Paged
<1>8. LiveInv'
  BY DEF ProjectionInv, LiveInv
<1> QED BY <1>2, <1>4, <1>5, <1>6, <1>7, <1>8 DEF ProjectionInv

\* A handler call ends without anything recorded.
LEMMA CallEnds ==
    ASSUME ProjectionInv, NEW w \in Workers, worker[w].pc # "idle", worker' = [worker EXCEPT ![w] = Idle],
           UNCHANGED <<setup, hist, versions, rebuild, rebuilds, queue, index, missed>>, JobsInv'
    PROVE  ProjectionInv'
<1>1. Idle \in HandlerCalls /\ worker'[w] = Idle /\ Idle.pc = "idle" /\ Idle.pos = 0
  BY DEF ProjectionInv, Types, Idle, HandlerCalls
<1>2. ~Busy(w)' /\ ~Locked(w)' /\ ~Succeeded(w)'
  BY <1>1 DEF Busy, Locked, Succeeded
<1>3. CallOK(w)'
  BY <1>1, <1>2 DEF CallOK, ProjectionInv, Types
<1> QED BY <1>1, <1>2, <1>3, CallStep

\* What a worker does to its own call only.
LEMMA ClaimStep ==
    ASSUME ProjectionInv, UNCHANGED setup, NEW w \in Workers, NEW d \in Docs, NEW r \in Revisions, Claim(w, d, r)
    PROVE  ProjectionInv'
<1>1. [Idle EXCEPT !.pc = "begin", !.doc = d, !.rev = r] \in HandlerCalls
  BY DEF Idle, HandlerCalls
<1>2. worker'[w] = [Idle EXCEPT !.pc = "begin", !.doc = d, !.rev = r]
  BY DEF Claim, ProjectionInv, Types
<1>3. worker'[w].pc = "begin" /\ worker'[w].doc = d /\ worker'[w].rev = r /\ worker'[w].pos = 0
  BY <1>2 DEF Idle
<1>4. ~Busy(w)' /\ ~Locked(w)' /\ ~Succeeded(w)'
  BY <1>3 DEF Busy, Locked, Succeeded
<1>5. CallOK(w)'
  BY <1>3, <1>4 DEF CallOK, Claim, ProjectionInv, Types
<1>6. JobsInv'
  <2> DEFINE Deliveries == [attempts : 0 .. MaxAttempts, processed : BOOLEAN]
  <2>1. setup.attempts <= MaxAttempts /\ setup.attempts \in Nat
    BY SetupOK DEF ProjectionInv, Types
  <2>2. jobs \in [Docs -> [Revisions -> Deliveries]] /\ UNCHANGED versions
    BY DEF Claim, ProjectionInv, JobsInv
  <2>3. jobs[d][r] \in Deliveries /\ jobs[d][r].attempts < setup.attempts
    BY <2>2 DEF Claim
  <2>4. [jobs[d][r] EXCEPT !.attempts = @ + 1] \in Deliveries
    BY <2>1, <2>3
  <2>5. [jobs[d][r] EXCEPT !.attempts = @ + 1].processed = jobs[d][r].processed
    BY <2>3
  <2> HIDE DEF Deliveries
  <2>6. jobs' = [jobs EXCEPT ![d][r] = [jobs[d][r] EXCEPT !.attempts = @ + 1]]
    BY <2>2, Zenon DEF Claim
  <2>7. jobs' \in [Docs -> [Revisions -> Deliveries]]
    BY <2>2, <2>4, <2>6
  <2>8. \A e \in Docs, q \in Revisions : jobs'[e][q].processed = jobs[e][q].processed
    BY <2>2, <2>5, <2>6
  <2> QED BY <2>2, <2>7, <2>8 DEF ProjectionInv, JobsInv, Deliveries
<1> QED BY <1>1, <1>4, <1>5, <1>6, CallStep DEF Claim, MayWork

LEMMA ShareRebuildLockStep ==
    ASSUME ProjectionInv, UNCHANGED setup, NEW w \in Workers, ShareRebuildLock(w)
    PROVE  ProjectionInv'
<1>1. /\ worker' = [worker EXCEPT ![w] = [worker[w] EXCEPT !.pc = "document"]]
      /\ [worker[w] EXCEPT !.pc = "document"] \in HandlerCalls
  BY DEF ShareRebuildLock, ProjectionInv, Types, HandlerCalls
<1>2. worker'[w] = [worker[w] EXCEPT !.pc = "document"]
  BY <1>1 DEF ProjectionInv, Types
<1>3. worker'[w].pc = "document" /\ \A x \in {"doc", "rev", "pos"} : worker'[w][x] = worker[w][x]
  BY <1>2 DEF ProjectionInv, Types, HandlerCalls
<1>4. ~Locked(w)' /\ ~Succeeded(w)'
  BY <1>3 DEF Locked, Succeeded
<1>5. CallOK(w)'
  <2>1. CallOK(w) /\ worker[w].pc = "begin" /\ UNCHANGED <<hist, versions, queue, index>>
    BY DEF ShareRebuildLock, ProjectionInv, CallsInv
  <2> QED BY <1>3, <1>4, <2>1 DEF CallOK, Command
<1>6. JobsInv'
  BY DEF ShareRebuildLock, ProjectionInv, JobsInv
<1> QED BY <1>1, <1>4, <1>5, <1>6, CallStep DEF ShareRebuildLock

\* What is marked as processed is recorded.
LEMMA ProcessedJobs ==
    ASSUME ProjectionInv, NEW w \in Workers, Processed(w), versions' \in [Docs -> Nat],
           \A d \in Docs : versions[d] <= versions'[d], worker[w].rev <= versions'[worker[w].doc]
    PROVE  JobsInv'
<1> DEFINE Deliveries == [attempts : 0 .. MaxAttempts, processed : BOOLEAN]
<1>1. PICK e \in Docs, q \in Revisions : e = worker[w].doc /\ q = worker[w].rev
  BY DEF ProjectionInv, Types, HandlerCalls
<1>2. /\ jobs \in [Docs -> [Revisions -> Deliveries]]
      /\ \A d \in Docs, r \in Revisions : jobs[d][r].processed => r <= versions'[d]
  <2>1. versions \in [Docs -> Nat]
    BY DEF ProjectionInv, Types
  <2>2. \A d \in Docs, r \in Revisions : jobs[d][r].processed => r <= versions[d]
    BY DEF ProjectionInv, JobsInv
  <2>3. jobs \in [Docs -> [Revisions -> Deliveries]]
    BY DEF ProjectionInv, JobsInv
  <2>4. \A d \in Docs, r \in Revisions : r <= versions[d] => r <= versions'[d]
    BY <2>1
  <2> QED BY <2>2, <2>3, <2>4
<1>3. CASE UNCHANGED jobs
  BY <1>2, <1>3 DEF JobsInv
<1>4. CASE jobs' = [jobs EXCEPT ![worker[w].doc][worker[w].rev].processed = TRUE]
  <2>1. jobs[e][q] \in Deliveries
    BY <1>1, <1>2
  <2>2. [jobs[e][q] EXCEPT !.processed = TRUE] \in Deliveries
    BY <2>1
  <2> HIDE DEF Deliveries
  <2>3. jobs' = [jobs EXCEPT ![e][q] = [jobs[e][q] EXCEPT !.processed = TRUE]]
    BY <1>1, <1>4, Zenon
  <2>4. PICK j : j = [jobs[e][q] EXCEPT !.processed = TRUE]
    OBVIOUS
  <2>5. jobs' = [jobs EXCEPT ![e][q] = j] /\ j \in Deliveries
    BY <2>2, <2>3, <2>4, Zenon
  <2>6. jobs' \in [Docs -> [Revisions -> Deliveries]]
    BY <1>2, <2>5
  <2>7. \A d \in Docs, r \in Revisions : (d # e \/ r # q) => jobs'[d][r] = jobs[d][r]
    BY <1>2, <2>5
  <2>8. \A d \in Docs, r \in Revisions : jobs'[d][r].processed => r <= versions'[d]
    BY <1>1, <1>2, <2>7
  <2> QED BY <2>6, <2>8 DEF JobsInv, Deliveries
<1> QED BY <1>3, <1>4 DEF Processed

LEMMA LockDocumentStep ==
    ASSUME ProjectionInv, UNCHANGED setup, NEW w \in Workers, LockDocument(w)
    PROVE  ProjectionInv'
<1>1. worker[w] \in HandlerCalls /\ versions \in [Docs -> Nat] /\ worker[w].pc \in {"begin", "document"}
  BY DEF LockDocument, ProjectionInv, Types
<1>2. CASE versions[worker[w].doc] >= worker[w].rev
  <2>1. Processed(w) /\ UNCHANGED <<hist, versions, rebuild, rebuilds, queue, index, missed>>
    BY <1>2 DEF LockDocument, ReadVersion
  <2>2. JobsInv'
    BY <1>1, <1>2, <2>1, ProcessedJobs DEF HandlerCalls
  <2> QED BY <1>1, <2>1, <2>2, CallEnds DEF Processed
<1>3. CASE ~(versions[worker[w].doc] >= worker[w].rev)
  <2>1. /\ worker' = [worker EXCEPT ![w].pc = "post", ![w].fresh = TRUE]
        /\ UNCHANGED <<hist, jobs, versions, rebuild, rebuilds, queue, index, missed>>
    BY <1>3 DEF LockDocument, ReadVersion
  <2> DEFINE p == [worker[w] EXCEPT !.pc = "post", !.fresh = TRUE]
  <2>2. p \in HandlerCalls /\ p.pc = "post" /\ \A x \in {"doc", "rev", "pos"} : p[x] = worker[w][x]
    BY <1>1 DEF HandlerCalls
  <2>3. worker' = [worker EXCEPT ![w] = p] /\ worker'[w] = p
    BY <2>1 DEF ProjectionInv, Types
  <2> HIDE DEF p
  <2>4. CallOK(w)'
    <3>1. CallOK(w)
      BY DEF ProjectionInv, CallsInv
    <3>2. worker'[w].pc = "post" /\ \A x \in {"doc", "rev", "pos"} : worker'[w][x] = worker[w][x]
      BY <2>2, <2>3
    <3>3. ~Succeeded(w)' /\ versions[worker[w].doc] < worker[w].rev
      BY <1>1, <1>3, <3>2 DEF Succeeded, HandlerCalls
    <3>4. worker[w].rev <= Len(hist[worker[w].doc]) /\ worker[w].pos = 0 /\ worker[w].pos <= Len(queue)
      BY <1>1, <3>1 DEF CallOK
    <3> QED BY <2>1, <3>2, <3>3, <3>4 DEF CallOK, Locked
  <2>5. ~Succeeded(w)'
    BY <2>2, <2>3 DEF Succeeded
  <2>6. \A v \in Workers \ {w} : Locked(v) => worker[v].doc # p.doc
    <3>1. CASE setup.postgres
      BY <2>2, <3>1 DEF LockDocument, LocksDocument, Locked
    <3>2. CASE ~setup.postgres
      BY <1>1, <3>2 DEF ProjectionInv, LocksInv, Locked
    <3> QED BY <3>1, <3>2
  <2>7. \A b \in Rebuilders : ~HoldsRebuildLock(b)
    BY <1>1 DEF ProjectionInv, LocksInv, LockDocument, Busy, HoldsRebuildLock
  <2>8. JobsInv'
    BY <2>1 DEF ProjectionInv, JobsInv
  <2> QED BY <1>1, <2>1, <2>2, <2>3, <2>4, <2>5, <2>6, <2>7, <2>8, CallStep
<1> QED BY <1>2, <1>3

LEMMA TaskSucceededStep ==
    ASSUME ProjectionInv, UNCHANGED setup, NEW w \in Workers, TaskSucceeded(w)
    PROVE  ProjectionInv'
<1>1. worker[w] \in HandlerCalls /\ worker[w].pc = "wait" /\ worker[w].pos = 0
  BY DEF TaskSucceeded, ProjectionInv, Types
<1> DEFINE p == [worker[w] EXCEPT !.pc = "record"]
<1>2. p \in HandlerCalls /\ p.pc = "record" /\ \A x \in {"doc", "rev", "pos"} : p[x] = worker[w][x]
  BY <1>1 DEF HandlerCalls
<1>3. worker' = [worker EXCEPT ![w] = p] /\ worker'[w] = p
  BY DEF TaskSucceeded, ProjectionInv, Types
<1> HIDE DEF p
<1>4. UNCHANGED <<hist, jobs, versions, rebuild, rebuilds, queue, index, missed>>
  BY DEF TaskSucceeded
<1>5. Locked(w) /\ Busy(w) /\ Succeeded(w)
  BY <1>1 DEF Locked, Busy, Succeeded
<1>6. CallOK(w)'
  <2>1. CallOK(w)
    BY DEF ProjectionInv, CallsInv
  <2> QED BY <1>1, <1>2, <1>3, <1>4, <1>5, <2>1 DEF CallOK, Command, Effect, Locked
<1>7. JobsInv'
  BY <1>4 DEF ProjectionInv, JobsInv
<1>8. \A v \in Workers \ {w} : Locked(v) => worker[v].doc # p.doc
  BY <1>2, <1>5 DEF ProjectionInv, LocksInv
<1>9. \A b \in Rebuilders : ~HoldsRebuildLock(b)
  BY <1>5 DEF ProjectionInv, LocksInv
<1> QED BY <1>1, <1>2, <1>3, <1>4, <1>5, <1>6, <1>7, <1>8, <1>9, CallStep

LEMMA AbandonStep ==
    ASSUME ProjectionInv, UNCHANGED setup, NEW w \in Workers, Abandon(w)
    PROVE  ProjectionInv'
<1>1. JobsInv'
  BY DEF Abandon, ProjectionInv, JobsInv
<1> QED BY <1>1, CallEnds DEF Abandon

LEMMA PostCommandStep ==
    ASSUME ProjectionInv, UNCHANGED setup, NEW w \in Workers, PostCommand(w)
    PROVE  ProjectionInv'
<1>1. worker[w] \in HandlerCalls /\ worker[w].pc = "post" /\ Len(queue) \in Nat /\ CallOK(w)
  BY DEF PostCommand, ProjectionInv, Types, CallsInv
<1> DEFINE p == [worker[w] EXCEPT !.pc = "wait", !.pos = Len(queue) + 1]
<1>2. /\ p \in HandlerCalls /\ p.pc = "wait" /\ p.pos = Len(queue) + 1
      /\ p.doc = worker[w].doc /\ p.rev = worker[w].rev
  <2>1. PICK n \in Nat : n = Len(queue) + 1
    BY <1>1
  <2>2. p = [worker[w] EXCEPT !.pc = "wait", !.pos = n]
    BY <2>1
  <2> HIDE DEF p
  <2> QED BY <1>1, <2>1, <2>2 DEF HandlerCalls
<1>3. /\ worker' = [worker EXCEPT ![w] = p] /\ queue' = Append(queue, Command(w))
      /\ UNCHANGED <<setup, hist, jobs, versions, rebuild, rebuilds, index, missed>>
  BY DEF PostCommand
<1> HIDE DEF p
<1>4. worker' \in [Workers -> HandlerCalls] /\ worker'[w] = p /\ \A v \in Workers \ {w} : worker'[v] = worker[v]
  BY <1>2, <1>3 DEF ProjectionInv, Types
<1>5. Locked(w) /\ Busy(w) /\ ~Succeeded(w)'
  BY <1>1, <1>2, <1>4 DEF Locked, Busy, Succeeded
<1>6. \A b \in Rebuilders : ~HoldsRebuildLock(b)
  BY <1>5 DEF ProjectionInv, LocksInv
<1>7. /\ Command(w).op \in Kinds /\ Command(w).doc = worker[w].doc /\ Command(w).rev = worker[w].rev
      /\ Command(w).op = hist[worker[w].doc][worker[w].rev] /\ Command(w) \in Tasks
      /\ worker[w].rev <= Len(hist[worker[w].doc]) /\ versions[worker[w].doc] < worker[w].rev
  <2>1. worker[w].rev \in 1 .. Len(hist[worker[w].doc]) /\ hist[worker[w].doc] \in Seq(Kinds)
    BY <1>1 DEF CallOK, HandlerCalls, ProjectionInv, Types
  <2>2. versions[worker[w].doc] < worker[w].rev
    BY <1>1, <1>5 DEF CallOK
  <2>3. hist[worker[w].doc][worker[w].rev] \in Kinds /\ worker[w].doc \in Docs /\ worker[w].rev \in Revisions
    BY <1>1, <2>1 DEF HandlerCalls
  <2> QED BY <2>1, <2>2, <2>3 DEF Command, Tasks
<1>8. /\ queue' \in Seq(Tasks) /\ Len(queue') = Len(queue) + 1 /\ queue'[Len(queue) + 1] = Command(w)
      /\ \A i \in 1 .. Len(queue) : queue'[i] = queue[i]
  BY <1>3, <1>7, Accepted DEF ProjectionInv, Types
<1>9. Types'
  BY <1>3, <1>4, <1>8 DEF ProjectionInv, Types
<1>10. \A v \in Workers \ {w} : /\ Busy(v)' <=> Busy(v)
                                /\ Locked(v)' <=> Locked(v)
                                /\ Succeeded(v)' <=> Succeeded(v)
  BY <1>4 DEF Busy, Locked, Succeeded
<1>11. LocksInv'
  <2>1. ~setup'.postgres => /\ \A b \in Rebuilders : rebuild'[b].pc = "idle"
                            /\ \A u, v \in Workers : worker'[u].pc # "idle" /\ worker'[v].pc # "idle" => u = v
    BY <1>1, <1>3, <1>4 DEF ProjectionInv, LocksInv
  <2>2. \A u, v \in Workers : Locked(u)' /\ Locked(v)' /\ worker'[u].doc = worker'[v].doc => u = v
    BY <1>2, <1>4, <1>5, <1>10 DEF ProjectionInv, LocksInv
  <2>3. \A b \in Rebuilders : ~HoldsRebuildLock(b)'
    BY <1>3, <1>6 DEF HoldsRebuildLock
  <2> QED BY <2>1, <2>2, <2>3 DEF LocksInv
<1>12. TasksInv'
  <2> SUFFICES ASSUME NEW i \in 1 .. Len(queue') PROVE TaskOK(i)'
    BY DEF TasksInv
  <2>1. CASE i \in 1 .. Len(queue)
    <3>1. TaskOK(i) /\ queue'[i] = queue[i]
      BY <1>8, <2>1 DEF ProjectionInv, TasksInv
    <3> QED BY <1>3, <1>5, <1>10, <3>1 DEF TaskOK, Earlier
  <2>2. CASE i = Len(queue) + 1
    BY <1>3, <1>7, <1>8, <2>2 DEF TaskOK
  <2> QED BY <1>1, <1>8, <2>1, <2>2
<1>13. CallsInv'
  <2>1. CallOK(w)'
    <3>1. worker'[w].pc = "wait" /\ worker'[w].pos = Len(queue) + 1 /\ worker'[w].doc = worker[w].doc
          /\ worker'[w].rev = worker[w].rev /\ Command(w)' = Command(w)
      BY <1>2, <1>3, <1>4 DEF Command
    <3> QED BY <1>1, <1>3, <1>5, <1>7, <1>8, <3>1 DEF CallOK
  <2>2. ASSUME NEW v \in Workers \ {w} PROVE CallOK(v)'
    <3>1. CallOK(v) /\ worker'[v] = worker[v] /\ Command(v)' = Command(v) /\ worker[v].pos \in Nat
      BY <1>3, <1>4 DEF ProjectionInv, CallsInv, Command, Types, HandlerCalls
    <3>2. worker[v].pc \in {"wait", "record"} => worker[v].doc # worker[w].doc
      BY <1>5 DEF ProjectionInv, LocksInv, Locked
    <3>3. worker[v].pc \in {"wait", "record"} =>
            \A i \in 1 .. Len(queue') : i > worker[v].pos /\ queue'[i].op \in Kinds => queue'[i].doc # worker[v].doc
      <4>1. CASE worker[v].pc \in {"wait", "record"}
        <5>1. ASSUME NEW i \in 1 .. Len(queue'), i > worker[v].pos, queue'[i].op \in Kinds
              PROVE  queue'[i].doc # worker[v].doc
          <6>1. CASE i \in 1 .. Len(queue)
            BY <1>8, <3>1, <4>1, <5>1, <6>1 DEF CallOK
          <6>2. CASE i = Len(queue) + 1
            BY <1>7, <1>8, <3>2, <4>1, <6>2
          <6> QED BY <1>1, <1>8, <6>1, <6>2
        <5> QED BY <5>1
      <4> QED BY <4>1
    <3>4. worker[v].pos <= Len(queue') /\ (worker[v].pos > 0 => queue'[worker[v].pos] = Command(v))
      BY <1>1, <1>8, <3>1 DEF CallOK
    <3> QED BY <1>3, <1>10, <3>1, <3>3, <3>4 DEF CallOK, Effect
  <2> QED BY <2>1, <2>2 DEF CallsInv
<1>14. RebuildsInv'
  <2> SUFFICES ASSUME NEW b \in Rebuilders PROVE RebuildOK(b)'
    BY DEF RebuildsInv
  <2>1. RebuildOK(b) /\ ~HoldsRebuildLock(b) /\ ~HoldsRebuildLock(b)' /\ rebuild[b].pos = 0
    BY <1>3, <1>6 DEF ProjectionInv, RebuildsInv, RebuildOK, HoldsRebuildLock
  <2> QED BY <1>3, <2>1 DEF RebuildOK, HoldsRebuildLock, ReadsPages, Earlier
<1>15. LiveInv' /\ JobsInv'
  BY <1>3 DEF ProjectionInv, LiveInv, JobsInv, Effect
<1> QED BY <1>9, <1>11, <1>12, <1>13, <1>14, <1>15 DEF ProjectionInv

LEMMA RecordVersionStep ==
    ASSUME ProjectionInv, UNCHANGED setup, NEW w \in Workers, RecordVersion(w)
    PROVE  ProjectionInv'
<1>1. PICK d \in Docs, r \in Revisions : d = worker[w].doc /\ r = worker[w].rev
  BY DEF ProjectionInv, Types, HandlerCalls
<1>2. CallOK(w) /\ worker[w].pc = "record" /\ worker[w].pos = 0 /\ Locked(w) /\ Busy(w) /\ Succeeded(w)
  BY DEF RecordVersion, ProjectionInv, CallsInv, CallOK, Locked, Busy, Succeeded
<1>3. versions[d] < r /\ r <= Len(hist[d]) /\ index["live"][d] = Effect(hist[d], r)
  BY <1>1, <1>2 DEF CallOK
<1>4. /\ versions' = [versions EXCEPT ![d] = r] /\ Processed(w)
      /\ missed' = [x \in DOMAIN missed |-> MissedBy(x, d)]
      /\ UNCHANGED <<setup, hist, rebuild, rebuilds, queue, index>>
  BY <1>1 DEF RecordVersion
<1>5. /\ versions \in [Docs -> Nat] /\ versions' \in [Docs -> Nat] /\ versions'[d] = r
      /\ \A e \in Docs \ {d} : versions'[e] = versions[e]
  BY <1>4 DEF ProjectionInv, Types
<1>6. \A b \in Rebuilders : ~HoldsRebuildLock(b)
  BY <1>2 DEF ProjectionInv, LocksInv
<1>7. Idle \in HandlerCalls /\ Idle.pc = "idle" /\ Idle.pos = 0
  BY <1>1 DEF Idle, HandlerCalls
<1>8. worker' \in [Workers -> HandlerCalls] /\ worker'[w] = Idle /\ \A v \in Workers \ {w} : worker'[v] = worker[v]
  BY <1>4, <1>7 DEF Processed, ProjectionInv, Types
<1>9. /\ missed' \in [Rebuilders \cup {"live"} -> SUBSET Docs] /\ missed'["live"] = missed["live"] \ {d}
      /\ \A b \in Rebuilders : rebuild[b].pc = "waiting" => missed'[b] = missed[b] \cup {d}
  <2>1. missed \in [Rebuilders \cup {"live"} -> SUBSET Docs]
    BY DEF ProjectionInv, Types
  <2>2. \A x \in Rebuilders \cup {"live"} : missed'[x] = MissedBy(x, d) /\ MissedBy(x, d) \in SUBSET Docs
    BY <1>4, <2>1 DEF MissedBy
  <2>3. missed' \in [Rebuilders \cup {"live"} -> SUBSET Docs]
    BY <1>4, <2>1, <2>2
  <2> QED BY <2>2, <2>3 DEF MissedBy
<1>10. Types'
  BY <1>4, <1>5, <1>8, <1>9 DEF ProjectionInv, Types
<1>11. \A v \in Workers \ {w} : /\ Busy(v)' <=> Busy(v)
                                /\ Locked(v)' <=> Locked(v)
                                /\ Succeeded(v)' <=> Succeeded(v)
  BY <1>8 DEF Busy, Locked, Succeeded
<1>12. ~Busy(w)' /\ ~Locked(w)' /\ ~Succeeded(w)'
  BY <1>7, <1>8 DEF Busy, Locked, Succeeded
<1>13. LocksInv'
  <2>1. ~setup'.postgres => /\ \A b \in Rebuilders : rebuild'[b].pc = "idle"
                            /\ \A u, v \in Workers : worker'[u].pc # "idle" /\ worker'[v].pc # "idle" => u = v
    BY <1>4, <1>7, <1>8 DEF ProjectionInv, LocksInv
  <2>2. \A u, v \in Workers : Locked(u)' /\ Locked(v)' /\ worker'[u].doc = worker'[v].doc => u = v
    BY <1>8, <1>11, <1>12 DEF ProjectionInv, LocksInv
  <2>3. \A b \in Rebuilders : ~HoldsRebuildLock(b)'
    BY <1>4, <1>6 DEF HoldsRebuildLock
  <2> QED BY <2>1, <2>2, <2>3 DEF LocksInv
<1>14. TasksInv'
  <2> SUFFICES ASSUME NEW i \in 1 .. Len(queue) PROVE TaskOK(i)'
    BY <1>4 DEF TasksInv
  <2>1. TaskOK(i) /\ queue[i] \in Tasks
    BY DEF ProjectionInv, TasksInv, Types
  <2>2. queue[i].op \in Kinds => versions'[queue[i].doc] = versions[queue[i].doc]
    <3>1. queue[i].op \in Kinds => queue[i].doc \in Docs
      BY <2>1, TaskFields
    <3>2. queue[i].op \in Kinds => queue[i].doc # d
      BY <1>1, <1>2 DEF CallOK
    <3> QED BY <1>5, <3>1, <3>2
  <2>3. queue[i].op # "swap"
    BY <1>2, <2>1 DEF TaskOK
  <2> QED BY <1>4, <2>1, <2>2, <2>3 DEF TaskOK
<1>15. CallsInv'
  <2>1. CallOK(w)'
    <3>1. Len(queue') \in Nat
      BY <1>10 DEF Types
    <3> QED BY <1>7, <1>8, <1>12, <3>1 DEF CallOK
  <2>2. ASSUME NEW v \in Workers \ {w} PROVE CallOK(v)'
    <3>1. CallOK(v) /\ worker'[v] = worker[v] /\ Command(v)' = Command(v) /\ worker[v].doc \in Docs
      BY <1>4, <1>8 DEF ProjectionInv, CallsInv, Command, Types, HandlerCalls
    <3>2. Locked(v) => worker[v].doc # d
      BY <1>1, <1>2 DEF ProjectionInv, LocksInv
    <3>3. Locked(v) => versions'[worker[v].doc] = versions[worker[v].doc]
      BY <1>5, <3>1, <3>2
    <3> QED BY <1>4, <1>11, <3>1, <3>3 DEF CallOK, Effect
  <2> QED BY <2>1, <2>2 DEF CallsInv
<1>16. RebuildsInv'
  <2> SUFFICES ASSUME NEW b \in Rebuilders PROVE RebuildOK(b)'
    BY DEF RebuildsInv
  <2>1. RebuildOK(b) /\ ~HoldsRebuildLock(b) /\ ~HoldsRebuildLock(b)' /\ rebuild'[b] = rebuild[b]
    BY <1>4, <1>6 DEF ProjectionInv, RebuildsInv, HoldsRebuildLock
  <2>2. ASSUME rebuild[b].pc # "idle", NEW e \in Docs
        PROVE  Earlier(rebuild[b].snap[e], hist'[e]) /\ (e \notin missed'[b] => versions'[e] <= Len(rebuild[b].snap[e]))
    <3>1. Earlier(rebuild[b].snap[e], hist[e]) /\ (e \notin missed[b] => versions[e] <= Len(rebuild[b].snap[e]))
      BY <2>1, <2>2 DEF RebuildOK
    <3>2. missed'[b] = missed[b] \cup {d}
      BY <1>9, <2>1, <2>2 DEF HoldsRebuildLock
    <3> QED BY <1>4, <1>5, <3>1, <3>2 DEF Earlier
  <2> QED BY <1>4, <2>1, <2>2 DEF RebuildOK, HoldsRebuildLock, ReadsPages
<1>17. LiveInv'
  <2>1. \A e \in Docs : versions'[e] <= Len(hist'[e])
    BY <1>3, <1>4, <1>5 DEF ProjectionInv, LiveInv
  <2>2. ASSUME NEW e \in Docs \ missed'["live"]
        PROVE  \E q \in Nat : versions'[e] <= q /\ q <= Len(hist'[e]) /\ index'["live"][e] = Effect(hist'[e], q)
    <3>1. CASE e = d
      BY <1>3, <1>4, <1>5, <3>1 DEF Effect
    <3>2. CASE e # d
      <4>1. PICK q \in Nat : versions[e] <= q /\ q <= Len(hist[e]) /\ index["live"][e] = Effect(hist[e], q)
        BY <1>9, <3>2 DEF ProjectionInv, LiveInv
      <4> QED BY <1>4, <1>5, <3>2, <4>1 DEF Effect
    <3> QED BY <3>1, <3>2
  <2> QED BY <2>1, <2>2 DEF LiveInv
<1>18. JobsInv'
  <2>1. \A e \in Docs : versions[e] <= versions'[e]
    BY <1>3, <1>5
  <2> QED BY <1>1, <1>4, <1>5, <2>1, ProcessedJobs
<1> QED BY <1>10, <1>13, <1>14, <1>15, <1>16, <1>17, <1>18 DEF ProjectionInv

LEMMA WriteUserStep ==
    ASSUME ProjectionInv, UNCHANGED setup, NEW d \in Docs, NEW kind \in Kinds, WriteUser(d, kind)
    PROVE  ProjectionInv'
<1>1. /\ hist' = [hist EXCEPT ![d] = Append(hist[d], kind)] /\ worker' = Outdated(worker)
      /\ UNCHANGED <<setup, jobs, versions, rebuild, rebuilds, queue, index, missed>>
  BY DEF WriteUser
<1>2. /\ hist \in [Docs -> Seq(Kinds)] /\ hist' \in [Docs -> Seq(Kinds)]
      /\ hist'[d] = Append(hist[d], kind) /\ \A e \in Docs \ {d} : hist'[e] = hist[e]
  <2>1. hist \in [Docs -> Seq(Kinds)]
    BY DEF ProjectionInv, Types
  <2>2. hist[d] \in Seq(Kinds)
    BY <2>1
  <2>3. Append(hist[d], kind) \in Seq(Kinds)
    BY <2>2
  <2> QED BY <1>1, <2>1, <2>3
<1>3. ASSUME NEW e \in Docs
      PROVE  Len(hist[e]) \in Nat /\ Len(hist'[e]) \in Nat /\ Len(hist[e]) <= Len(hist'[e])
             /\ \A i \in 1 .. Len(hist[e]) : hist'[e][i] = hist[e][i]
  <2>1. CASE e = d
    <3>1. hist[d] \in Seq(Kinds)
      BY <1>2
    <3> QED BY <1>2, <2>1, <3>1
  <2>2. CASE e # d
    BY <1>2, <2>2
  <2> QED BY <2>1, <2>2
<1>4. /\ worker' \in [Workers -> HandlerCalls]
      /\ \A w \in Workers : \A x \in {"pc", "doc", "rev", "pos"} : worker'[w][x] = worker[w][x]
  <2>1. setup.postgres \in BOOLEAN
    BY SetupOK DEF ProjectionInv, Types
  <2>2. ASSUME NEW w \in Workers, NEW f \in BOOLEAN
        PROVE  LET x == [worker[w] EXCEPT !.fresh = f]
               IN  /\ x \in HandlerCalls /\ x.pc = worker[w].pc /\ x.doc = worker[w].doc
                   /\ x.rev = worker[w].rev /\ x.pos = worker[w].pos
    <3>1. worker[w] \in HandlerCalls
      BY DEF ProjectionInv, Types
    <3> QED BY <3>1 DEF HandlerCalls
  <2>3. ASSUME NEW w \in Workers
        PROVE  /\ worker'[w] \in HandlerCalls /\ worker'[w].pc = worker[w].pc /\ worker'[w].doc = worker[w].doc
               /\ worker'[w].rev = worker[w].rev /\ worker'[w].pos = worker[w].pos
    <3>1. PICK f \in BOOLEAN : f = (setup.postgres \/ worker[w].pc = "idle")
      OBVIOUS
    <3>2. worker'[w] = [worker[w] EXCEPT !.fresh = f]
      BY <1>1, <3>1, Zenon DEF Outdated
    <3> QED BY <2>2, <3>2
  <2>4. worker' \in [Workers -> HandlerCalls]
    BY <1>1, <2>3 DEF Outdated
  <2> QED BY <2>3, <2>4
<1>5. \A w \in Workers : /\ Busy(w)' <=> Busy(w)
                         /\ Locked(w)' <=> Locked(w)
                         /\ Succeeded(w)' <=> Succeeded(w)
  BY <1>4 DEF Busy, Locked, Succeeded
<1>6. ASSUME NEW e \in Docs, NEW r \in Nat, r <= Len(hist[e]) PROVE Effect(hist'[e], r) = Effect(hist[e], r)
  <2>1. CASE r = 0
    BY <1>3, <2>1 DEF Effect
  <2>2. CASE r # 0
    <3>1. r \in 1 .. Len(hist[e]) /\ r \in 1 .. Len(hist'[e])
      BY <1>3, <1>6, <2>2
    <3> QED BY <1>3, <3>1 DEF Effect
  <2> QED BY <2>1, <2>2
<1>7. ASSUME NEW e \in Docs, NEW h \in Seq(Kinds), Earlier(h, hist[e]) PROVE Earlier(h, hist'[e])
  <2>1. Len(h) \in Nat /\ Len(h) <= Len(hist'[e])
    BY <1>3, <1>7 DEF Earlier
  <2>2. ASSUME NEW i \in 1 .. Len(h) PROVE h[i] = hist'[e][i]
    <3>1. Len(h) <= Len(hist[e]) /\ h[i] = hist[e][i]
      BY <1>7 DEF Earlier
    <3>2. i \in 1 .. Len(hist[e])
      BY <1>3, <2>1, <3>1
    <3> QED BY <1>3, <3>1, <3>2
  <2> QED BY <2>1, <2>2 DEF Earlier
<1>8. Types'
  <2>1. setup.revisions <= MaxRevision /\ setup.revisions \in Nat
    BY SetupOK DEF ProjectionInv, Types
  <2>2. \A e \in Docs : Len(hist[e]) <= MaxRevision
    BY DEF ProjectionInv, Types
  <2>3. hist[d] \in Seq(Kinds) /\ Len(hist'[d]) = Len(hist[d]) + 1
    BY <1>2
  <2>4. Len(hist'[d]) <= MaxRevision
    BY <1>3, <2>1, <2>3 DEF WriteUser
  <2>5. \A e \in Docs : Len(hist'[e]) <= MaxRevision
    BY <1>2, <2>2, <2>4
  <2> QED BY <1>1, <1>2, <1>4, <2>5 DEF ProjectionInv, Types
<1>9. LocksInv'
  <2>1. ~setup'.postgres => /\ \A b \in Rebuilders : rebuild'[b].pc = "idle"
                            /\ \A u, v \in Workers : worker'[u].pc # "idle" /\ worker'[v].pc # "idle" => u = v
    BY <1>1, <1>4 DEF ProjectionInv, LocksInv
  <2>2. \A u, v \in Workers : Locked(u)' /\ Locked(v)' /\ worker'[u].doc = worker'[v].doc => u = v
    BY <1>4, <1>5 DEF ProjectionInv, LocksInv
  <2>3. \A b \in Rebuilders : HoldsRebuildLock(b)' => /\ \A v \in Workers : ~Busy(v)'
                                                      /\ \A c \in Rebuilders : HoldsRebuildLock(c)' => c = b
    BY <1>1, <1>5 DEF ProjectionInv, LocksInv, HoldsRebuildLock
  <2> QED BY <2>1, <2>2, <2>3 DEF LocksInv
<1>10. TasksInv'
  <2> SUFFICES ASSUME NEW i \in 1 .. Len(queue) PROVE TaskOK(i)'
    BY <1>1 DEF TasksInv
  <2>1. TaskOK(i) /\ queue[i] \in Tasks
    BY DEF ProjectionInv, TasksInv, Types
  <2>2. queue[i].op \in Kinds => /\ queue[i].rev <= Len(hist'[queue[i].doc])
                                 /\ hist'[queue[i].doc][queue[i].rev] = queue[i].op
    <3> SUFFICES ASSUME queue[i].op \in Kinds
                 PROVE  /\ queue[i].rev <= Len(hist'[queue[i].doc])
                        /\ hist'[queue[i].doc][queue[i].rev] = queue[i].op
      OBVIOUS
    <3>1. PICK e \in Docs, r \in Revisions : e = queue[i].doc /\ r = queue[i].rev
      BY <2>1, TaskFields
    <3>2. r <= Len(hist[e]) /\ hist[e][r] = queue[i].op
      BY <2>1, <3>1 DEF TaskOK
    <3>3. r \in 1 .. Len(hist[e])
      BY <1>3, <3>2
    <3>4. r <= Len(hist'[e]) /\ hist'[e][r] = queue[i].op
      BY <1>3, <3>2, <3>3
    <3> QED BY <3>1, <3>4
  <2>3. ASSUME queue[i].op = "swap", NEW e \in Docs PROVE Earlier(queue[i].snap[e], hist'[e])
    <3>1. queue[i].snap \in [Docs -> Seq(Kinds)]
      BY <2>1, <2>3, TaskFields
    <3>2. queue[i].snap[e] \in Seq(Kinds) /\ Earlier(queue[i].snap[e], hist[e])
      BY <2>1, <2>3, <3>1 DEF TaskOK
    <3> QED BY <1>7, <3>2
  <2>4. queue[i].op \in Kinds => versions'[queue[i].doc] < queue[i].rev
    BY <1>1, <2>1 DEF TaskOK
  <2>5. queue[i].op \in {"page", "swap"} => i = 1
    BY <2>1 DEF TaskOK
  <2>6. queue[i].op = "swap" =>
          /\ \A w \in Workers : ~Succeeded(w)'
          /\ \A e \in Docs : /\ index'["temporary"][e] = Shown(queue[i].snap[e])
                             /\ e \notin queue[i].missed => versions'[e] <= Len(queue[i].snap[e])
    BY <1>1, <1>5, <2>1 DEF TaskOK
  <2> QED BY <1>1, <2>2, <2>3, <2>4, <2>5, <2>6 DEF TaskOK
<1>11. CallsInv'
  <2> SUFFICES ASSUME NEW w \in Workers PROVE CallOK(w)'
    BY DEF CallsInv
  <2>1. /\ CallOK(w) /\ worker'[w].pc = worker[w].pc /\ worker'[w].doc = worker[w].doc
        /\ worker'[w].rev = worker[w].rev /\ worker'[w].pos = worker[w].pos
        /\ worker[w].doc \in Docs /\ worker[w].rev \in Revisions /\ worker[w].pos \in Nat
    BY <1>4 DEF ProjectionInv, CallsInv, Types, HandlerCalls
  <2>2. worker[w].pc # "idle" => /\ worker[w].rev <= Len(hist'[worker[w].doc])
                                 /\ Command(w)' = Command(w)
                                 /\ Effect(hist'[worker[w].doc], worker[w].rev) = Effect(hist[worker[w].doc], worker[w].rev)
    <3> SUFFICES ASSUME worker[w].pc # "idle"
                 PROVE  /\ worker[w].rev <= Len(hist'[worker[w].doc])
                        /\ Command(w)' = Command(w)
                        /\ Effect(hist'[worker[w].doc], worker[w].rev) = Effect(hist[worker[w].doc], worker[w].rev)
      OBVIOUS
    <3>1. worker[w].rev \in 1 .. Len(hist[worker[w].doc])
      BY <1>3, <2>1 DEF CallOK
    <3>2. hist'[worker[w].doc][worker[w].rev] = hist[worker[w].doc][worker[w].rev]
      BY <1>3, <2>1, <3>1
    <3>3. Command(w)' = Command(w)
      BY <2>1, <3>2 DEF Command
    <3>4. worker[w].rev <= Len(hist'[worker[w].doc])
      BY <1>3, <2>1, <3>1
    <3>5. Effect(hist'[worker[w].doc], worker[w].rev) = Effect(hist[worker[w].doc], worker[w].rev)
      BY <2>1, <3>1, <3>2, <3>4 DEF Effect
    <3> QED BY <3>3, <3>4, <3>5
  <2>3. Succeeded(w) \/ worker[w].pos > 0 => worker[w].pc # "idle"
    BY <2>1 DEF Succeeded, CallOK
  <2>4. worker'[w].pos > 0 => queue'[worker'[w].pos] = Command(w)'
    BY <1>1, <2>1, <2>2, <2>3 DEF CallOK
  <2>5. Succeeded(w)' => index'["live"][worker'[w].doc] = Effect(hist'[worker'[w].doc], worker'[w].rev)
    <3>1. Effect(hist'[worker'[w].doc], worker'[w].rev) = Effect(hist'[worker[w].doc], worker[w].rev)
      BY <2>1, Zenon DEF Effect
    <3> QED BY <1>1, <1>5, <2>1, <2>2, <2>3, <3>1 DEF CallOK
  <2> QED BY <1>1, <1>5, <2>1, <2>2, <2>4, <2>5 DEF CallOK
<1>12. RebuildsInv'
  <2> SUFFICES ASSUME NEW b \in Rebuilders PROVE RebuildOK(b)'
    BY DEF RebuildsInv
  <2>1. RebuildOK(b) /\ rebuild[b] \in Rebuilding
    BY DEF ProjectionInv, RebuildsInv, Types
  <2>2. rebuild[b].pc # "idle" => \A e \in Docs : Earlier(rebuild[b].snap[e], hist'[e])
    BY <1>7, <2>1 DEF RebuildOK, Rebuilding
  <2> QED BY <1>1, <2>1, <2>2 DEF RebuildOK, HoldsRebuildLock, ReadsPages, Copied, Paged
<1>13. LiveInv'
  <2>1. ASSUME NEW e \in Docs PROVE versions'[e] <= Len(hist'[e])
    <3>1. versions[e] \in Nat /\ versions[e] <= Len(hist[e])
      BY DEF ProjectionInv, LiveInv, Types
    <3> QED BY <1>1, <1>3, <3>1
  <2>2. ASSUME NEW e \in Docs \ missed'["live"]
        PROVE  \E q \in Nat : versions'[e] <= q /\ q <= Len(hist'[e]) /\ index'["live"][e] = Effect(hist'[e], q)
    <3>1. PICK q \in Nat : versions[e] <= q /\ q <= Len(hist[e]) /\ index["live"][e] = Effect(hist[e], q)
      BY <1>1 DEF ProjectionInv, LiveInv
    <3>2. q <= Len(hist'[e])
      BY <1>2, <1>3, <3>1
    <3>3. Effect(hist'[e], q) = Effect(hist[e], q)
      BY <1>6, <3>1
    <3> QED BY <1>1, <3>1, <3>2, <3>3
  <2> QED BY <2>1, <2>2 DEF LiveInv
<1>14. JobsInv'
  BY <1>1 DEF ProjectionInv, JobsInv
<1> QED BY <1>8, <1>9, <1>10, <1>11, <1>12, <1>13, <1>14 DEF ProjectionInv

\* A set of users has a first one and a last one.
LEMMA FirstDoc ==
    ASSUME NEW S \in SUBSET Docs, S # {}
    PROVE  \E x \in S : \A y \in S : x <= y
<1> DEFINE R == {ss \in Nat \X Nat : ss[1] < ss[2]}
<1>1. IsWellFoundedOn(R, Nat)
  BY NatLessThanWellFounded, Zenon DEF OpToRel
<1> HIDE DEF R
<1>2. PICK x \in S : \A y \in S : ~(<<y, x>> \in R)
  <2>1. S \subseteq Nat
    OBVIOUS
  <2> QED BY <1>1, <2>1, WFMin, Zenon
<1>3. ASSUME NEW y \in S PROVE x <= y
  <2>1. <<y, x>> \notin R
    BY <1>2
  <2> QED BY <2>1 DEF R
<1> QED BY <1>3

LEMMA LastDoc ==
    ASSUME NEW S \in SUBSET Docs, S # {}
    PROVE  /\ Max(S) \in S
           /\ \A y \in S : y <= Max(S)
<1> DEFINE T == {d \in Docs : NumDocs + 1 - d \in S}
<1>1. T \in SUBSET Docs /\ T # {}
  <2>1. PICK x \in S : TRUE
    OBVIOUS
  <2>2. NumDocs + 1 - x \in Docs /\ NumDocs + 1 - (NumDocs + 1 - x) = x
    OBVIOUS
  <2> QED BY <2>2
<1>2. PICK x \in T : \A y \in T : x <= y
  BY <1>1, FirstDoc
<1>3. NumDocs + 1 - x \in S
  OBVIOUS
<1>4. ASSUME NEW y \in S PROVE y <= NumDocs + 1 - x
  <2>1. NumDocs + 1 - y \in Docs /\ NumDocs + 1 - (NumDocs + 1 - y) = y
    OBVIOUS
  <2>2. x <= NumDocs + 1 - y
    BY <1>2, <2>1
  <2> QED BY <2>2
<1>5. \E z \in S : \A y \in S : z >= y
  <2>1. \A y \in S : NumDocs + 1 - x >= y
    BY <1>4
  <2> QED BY <1>3, <2>1
<1>6. Max(S) \in S /\ \A y \in S : Max(S) >= y
  BY <1>5 DEF Max
<1> QED BY <1>6

\* A rebuild has a page to copy as long as a row is left, and a page leaves out no row before its last.
LEMMA Pages ==
    ASSUME NEW b \in Rebuilders, NEW s \in [Docs -> Seq(Kinds)], rebuild[b].snap = s
    PROVE  /\ NextPage(b) \subseteq {d \in Docs : d > rebuild[b].last /\ Shown(s[d]) # 0}
           /\ NextPage(b) = {} => \A d \in Docs : d > rebuild[b].last => Shown(s[d]) = 0
           /\ \A m \in NextPage(b) : \A d \in Docs :
                 rebuild[b].last < d /\ d <= m /\ Shown(s[d]) # 0 => d \in NextPage(b)
<1> DEFINE rows == {d \in Docs : d > rebuild[b].last /\ Shown(s[d]) # 0}
           Before(d) == {e \in rows : e < d}
<1>1. NextPage(b) = {d \in rows : Cardinality(Before(d)) < BatchSize}
  BY DEF NextPage
<1>2. rows \in SUBSET Docs /\ IsFiniteSet(Docs)
  <2>1. IsFiniteSet(1 .. NumDocs)
    BY FS_Interval
  <2> QED BY <2>1
<1>3. ASSUME NextPage(b) = {}, NEW d \in Docs, d > rebuild[b].last PROVE Shown(s[d]) = 0
  <2> SUFFICES ASSUME Shown(s[d]) # 0 PROVE FALSE
    OBVIOUS
  <2>1. d \in rows
    BY <1>3
  <2>2. PICK x \in rows : \A y \in rows : x <= y
    BY <1>2, <2>1, FirstDoc
  <2>3. Before(x) = {}
    BY <2>2
  <2>4. Cardinality(Before(x)) = 0
    BY <2>3, FS_EmptySet
  <2> HIDE DEF rows, Before
  <2>5. BatchSize > 0 /\ x \in rows
    BY <2>2
  <2>6. Cardinality(Before(x)) < BatchSize
    BY <2>4, <2>5
  <2> QED BY <1>1, <1>3, <2>5, <2>6
<1>4. ASSUME NEW m \in NextPage(b), NEW d \in Docs, rebuild[b].last < d, d <= m, Shown(s[d]) # 0
      PROVE  d \in NextPage(b)
  <2>1. d \in rows /\ m \in rows /\ Cardinality(Before(m)) < BatchSize
    BY <1>1, <1>4
  <2>2. Before(d) \subseteq Before(m) /\ Before(m) \subseteq Docs
    BY <1>2, <1>4, <2>1
  <2>3. IsFiniteSet(Before(m)) /\ IsFiniteSet(Before(d)) /\ Cardinality(Before(d)) <= Cardinality(Before(m))
    BY <1>2, <2>2, FS_Subset
  <2>4. Cardinality(Before(m)) \in Nat /\ Cardinality(Before(d)) \in Nat
    BY <2>3, FS_CardinalityType
  <2> HIDE DEF rows, Before
  <2>5. Cardinality(Before(d)) < BatchSize
    BY <2>1, <2>3, <2>4
  <2> QED BY <1>1, <2>1, <2>5
<1> QED BY <1>1, <1>3, <1>4

\* A rebuild begins or ends, and nothing else changes but what it missed.
LEMMA RebuildCallStep ==
    ASSUME ProjectionInv, NEW b \in Rebuilders, NEW p \in Rebuilding, rebuild' = [rebuild EXCEPT ![b] = p],
           missed' = [missed EXCEPT ![b] = {}], setup.postgres \/ p.pc = "idle",
           UNCHANGED <<setup, hist, jobs, versions, worker, queue, index>>, rebuilds' \in 0 .. MaxRebuilds,
           ~HoldsRebuildLock(b)', RebuildOK(b)'
    PROVE  ProjectionInv'
<1>1. /\ rebuild' \in [Rebuilders -> Rebuilding] /\ rebuild'[b] = p
      /\ \A c \in Rebuilders \ {b} : rebuild'[c] = rebuild[c]
  BY DEF ProjectionInv, Types
<1>2. /\ missed' \in [Rebuilders \cup {"live"} -> SUBSET Docs] /\ missed'["live"] = missed["live"]
      /\ \A c \in Rebuilders \ {b} : missed'[c] = missed[c]
  BY DEF ProjectionInv, Types
<1>3. Types'
  BY <1>1, <1>2 DEF ProjectionInv, Types
<1>4. \A c \in Rebuilders \ {b} : HoldsRebuildLock(c)' <=> HoldsRebuildLock(c)
  BY <1>1 DEF HoldsRebuildLock
<1>5. \A w \in Workers : /\ Busy(w)' <=> Busy(w)
                         /\ Locked(w)' <=> Locked(w)
                         /\ Succeeded(w)' <=> Succeeded(w)
  BY DEF Busy, Locked, Succeeded
<1>6. LocksInv'
  <2>1. ~setup'.postgres => /\ \A c \in Rebuilders : rebuild'[c].pc = "idle"
                            /\ \A u, v \in Workers : worker'[u].pc # "idle" /\ worker'[v].pc # "idle" => u = v
    BY <1>1 DEF ProjectionInv, LocksInv
  <2>2. \A u, v \in Workers : Locked(u)' /\ Locked(v)' /\ worker'[u].doc = worker'[v].doc => u = v
    BY <1>5 DEF ProjectionInv, LocksInv
  <2>3. \A c \in Rebuilders : HoldsRebuildLock(c)' => /\ \A v \in Workers : ~Busy(v)'
                                                      /\ \A x \in Rebuilders : HoldsRebuildLock(x)' => x = c
    BY <1>4, <1>5 DEF ProjectionInv, LocksInv
  <2> QED BY <2>1, <2>2, <2>3 DEF LocksInv
<1>7. TasksInv'
  BY <1>5 DEF ProjectionInv, TasksInv, TaskOK
<1>8. CallsInv'
  BY <1>5 DEF ProjectionInv, CallsInv, CallOK, Command
<1>9. RebuildsInv'
  <2> SUFFICES ASSUME NEW c \in Rebuilders \ {b} PROVE RebuildOK(c)'
    BY DEF RebuildsInv
  <2>1. RebuildOK(c) /\ rebuild'[c] = rebuild[c] /\ missed'[c] = missed[c]
    BY <1>1, <1>2 DEF ProjectionInv, RebuildsInv
  <2> QED BY <2>1, <1>4 DEF RebuildOK, ReadsPages, Copied, Paged
<1>10. LiveInv' /\ JobsInv'
  BY <1>2 DEF ProjectionInv, LiveInv, JobsInv
<1> QED BY <1>3, <1>6, <1>7, <1>8, <1>9, <1>10 DEF ProjectionInv

\* A rebuild that holds its lock posts a task.
LEMMA RebuildPostStep ==
    ASSUME ProjectionInv, NEW b \in Rebuilders, NEW p \in Rebuilding, rebuild' = [rebuild EXCEPT ![b] = p],
           NEW t \in Tasks, queue' = Append(queue, t), t.op \notin Kinds, rebuild[b].pc # "idle",
           UNCHANGED <<setup, hist, jobs, versions, worker, rebuilds, index, missed>>, \A w \in Workers : ~Busy(w),
           \A c \in Rebuilders \ {b} : ~HoldsRebuildLock(c), TaskOK(Len(queue))', RebuildOK(b)'
    PROVE  ProjectionInv'
<1>1. /\ rebuild' \in [Rebuilders -> Rebuilding] /\ rebuild'[b] = p
      /\ \A c \in Rebuilders \ {b} : rebuild'[c] = rebuild[c]
  BY DEF ProjectionInv, Types
<1>2. /\ queue' \in Seq(Tasks) /\ Len(queue') = Len(queue) + 1 /\ Len(queue) \in Nat
      /\ \A i \in 1 .. Len(queue) : queue'[i] = queue[i]
      /\ queue'[Len(queue) + 1] = t
  BY Accepted DEF ProjectionInv, Types
<1>3. Types'
  BY <1>1, <1>2 DEF ProjectionInv, Types
<1>4. \A w \in Workers : ~Busy(w)' /\ ~Locked(w)' /\ ~Locked(w) /\ ~Succeeded(w)' /\ ~Succeeded(w)
  BY DEF Busy, Locked, Succeeded
<1>5. \A c \in Rebuilders \ {b} : ~HoldsRebuildLock(c)'
  BY <1>1 DEF HoldsRebuildLock
<1>6. LocksInv'
  BY <1>1, <1>4, <1>5 DEF ProjectionInv, LocksInv
<1>7. TasksInv'
  <2> SUFFICES ASSUME NEW i \in 1 .. Len(queue') PROVE TaskOK(i)'
    BY DEF TasksInv
  <2>1. CASE i \in 1 .. Len(queue)
    <3>1. TaskOK(i) /\ queue'[i] = queue[i]
      BY <1>2, <2>1 DEF ProjectionInv, TasksInv
    <3> QED BY <1>4, <3>1 DEF TaskOK
  <2>2. CASE i = Len(queue) + 1
    <3>1. i = Len(queue')
      BY <1>2, <2>2
    <3> QED BY <3>1 DEF TaskOK
  <2> QED BY <1>2, <2>1, <2>2
<1>8. CallsInv'
  <2> SUFFICES ASSUME NEW w \in Workers PROVE CallOK(w)'
    BY DEF CallsInv
  <2>1. CallOK(w) /\ worker[w].pc \notin {"wait", "record"} /\ worker[w].pos = 0
    BY DEF ProjectionInv, CallsInv, CallOK, Busy
  <2> QED BY <1>2, <1>4, <2>1 DEF CallOK
<1>9. RebuildsInv'
  <2> SUFFICES ASSUME NEW c \in Rebuilders \ {b} PROVE RebuildOK(c)'
    BY DEF RebuildsInv
  <2>1. RebuildOK(c) /\ rebuild'[c] = rebuild[c] /\ ~HoldsRebuildLock(c)
    BY <1>1 DEF ProjectionInv, RebuildsInv
  <2> QED BY <1>5, <2>1 DEF RebuildOK, HoldsRebuildLock, ReadsPages
<1>10. LiveInv' /\ JobsInv'
  BY DEF ProjectionInv, LiveInv, JobsInv
<1> QED BY <1>3, <1>6, <1>7, <1>8, <1>9, <1>10 DEF ProjectionInv

LEMMA BeginRebuildStep ==
    ASSUME ProjectionInv, UNCHANGED setup, NEW b \in Rebuilders, BeginRebuild(b)
    PROVE  ProjectionInv'
<1>1. PICK h \in [Docs -> Seq(Kinds)] : h = hist
  BY DEF ProjectionInv, Types
<1>2. PICK p : p = [Resting EXCEPT !.pc = "waiting", !.snap = h]
  OBVIOUS
<1>3. p \in Rebuilding /\ p.pc = "waiting" /\ p.snap = h /\ p.last = 0 /\ p.pos = 0
  <2>1. p = [pc |-> "waiting", snap |-> h, last |-> 0, pos |-> 0]
    BY <1>2 DEF Resting
  <2> QED BY <2>1 DEF Rebuilding
<1>4. /\ rebuild' = [rebuild EXCEPT ![b] = p] /\ missed' = [missed EXCEPT ![b] = {}]
      /\ UNCHANGED <<setup, hist, jobs, versions, worker, queue, index>>
  BY <1>1, <1>2 DEF BeginRebuild
<1>5. setup.postgres /\ rebuilds' \in 0 .. MaxRebuilds
  <2>1. setup \in Setups /\ rebuilds < setup.rebuilds
    BY DEF ProjectionInv, Types, BeginRebuild
  <2>2. PICK s \in Setups : s = setup
    BY <2>1
  <2>3. rebuilds \in Nat
    BY DEF ProjectionInv, Types
  <2> QED BY <2>1, <2>2, <2>3, SetupOK DEF BeginRebuild
<1>6. rebuild'[b] = p /\ ~HoldsRebuildLock(b)'
  BY <1>3, <1>4 DEF ProjectionInv, Types, HoldsRebuildLock
<1>7. RebuildOK(b)'
  <2>1. ASSUME NEW e \in Docs PROVE Earlier(h[e], hist'[e]) /\ versions'[e] <= Len(h[e])
    BY <1>1, <1>4 DEF Earlier, ProjectionInv, LiveInv, Types
  <2> QED BY <1>3, <1>6, <2>1 DEF RebuildOK, ReadsPages
<1> QED BY <1>3, <1>4, <1>5, <1>6, <1>7, RebuildCallStep

LEMMA EndRebuildStep ==
    ASSUME ProjectionInv, UNCHANGED setup, NEW b \in Rebuilders, EndRebuild(b)
    PROVE  ProjectionInv'
<1>1. Resting \in Rebuilding /\ Resting.pc = "idle" /\ Resting.pos = 0
  BY DEF Resting, Rebuilding
<1>2. /\ rebuild' = [rebuild EXCEPT ![b] = Resting] /\ missed' = [missed EXCEPT ![b] = {}]
      /\ UNCHANGED <<setup, hist, jobs, versions, worker, rebuilds, queue, index>>
  BY DEF EndRebuild
<1>3. rebuild'[b] = Resting /\ ~HoldsRebuildLock(b)'
  BY <1>1, <1>2 DEF ProjectionInv, Types, HoldsRebuildLock
<1>4. RebuildOK(b)'
  BY <1>1, <1>3 DEF RebuildOK, ReadsPages
<1> QED BY <1>1, <1>2, <1>3, <1>4, RebuildCallStep DEF ProjectionInv, Types

LEMMA GrantRebuildLockStep ==
    ASSUME ProjectionInv, UNCHANGED setup, NEW b \in Rebuilders, GrantRebuildLock(b)
    PROVE  ProjectionInv'
<1>1. rebuild[b] \in Rebuilding /\ rebuild[b].pc = "waiting" /\ RebuildOK(b) /\ Len(queue) \in Nat
  BY DEF GrantRebuildLock, ProjectionInv, RebuildsInv, Types
<1>2. EmptyTemporary \in Tasks /\ EmptyTemporary.op = "empty" /\ "empty" \notin Kinds
  BY DEF EmptyTemporary, Tasks
<1>3. PICK n \in Nat : n = Len(queue) + 1
  BY <1>1
<1>4. PICK p : p = [rebuild[b] EXCEPT !.pc = "granted", !.pos = n]
  OBVIOUS
<1>5. p \in Rebuilding /\ p.pc = "granted" /\ p.pos = n /\ p.snap = rebuild[b].snap /\ p.last = rebuild[b].last
  BY <1>1, <1>4 DEF Rebuilding
<1>6. /\ rebuild' = [rebuild EXCEPT ![b] = p] /\ queue' = Append(queue, EmptyTemporary)
      /\ UNCHANGED <<setup, hist, jobs, versions, worker, rebuilds, index, missed>>
  BY <1>3, <1>4 DEF GrantRebuildLock, Post
<1>7. setup.postgres
  BY <1>1 DEF ProjectionInv, LocksInv
<1>8. \A w \in Workers : ~Busy(w)
  BY <1>7 DEF GrantRebuildLock, SharesRebuildLock, Busy
<1>9. rebuild'[b] = p
  BY <1>6 DEF ProjectionInv, Types
<1>10. Len(queue') = n /\ queue'[n] = EmptyTemporary
  BY <1>2, <1>3, <1>6, Accepted DEF ProjectionInv, Types
<1>11. TaskOK(Len(queue))'
  BY <1>2, <1>10 DEF TaskOK
<1>12. RebuildOK(b)'
  <2>1. HoldsRebuildLock(b)' /\ ~ReadsPages(b)'
    BY <1>3, <1>5, <1>9 DEF HoldsRebuildLock, ReadsPages
  <2>2. \A e \in Docs : /\ Earlier(p.snap[e], hist'[e])
                        /\ e \notin missed'[b] => versions'[e] <= Len(p.snap[e])
    BY <1>1, <1>5, <1>6 DEF RebuildOK
  <2>3. p.last = 0
    BY <1>1, <1>5 DEF RebuildOK
  <2> QED BY <1>5, <1>9, <1>10, <2>1, <2>2, <2>3 DEF RebuildOK
<1> QED BY <1>1, <1>2, <1>5, <1>6, <1>8, <1>11, <1>12, RebuildPostStep DEF GrantRebuildLock

\* A rebuild whose tasks have all been done is alone with Meilisearch.
LEMMA RebuildAlone ==
    ASSUME ProjectionInv, NEW b \in Rebuilders, HoldsRebuildLock(b), rebuild[b].pos = 0
    PROVE  /\ rebuild[b] \in Rebuilding /\ RebuildOK(b) /\ Len(queue) = 0 /\ rebuild[b].pc # "idle"
           /\ \A w \in Workers : ~Busy(w)
           /\ \A c \in Rebuilders \ {b} : ~HoldsRebuildLock(c)
BY DEF ProjectionInv, LocksInv, RebuildsInv, RebuildOK, Types, HoldsRebuildLock

\* A row of a snapshot is shown in a revision that the row has.
LEMMA ShownRevision ==
    ASSUME ProjectionInv, NEW b \in Rebuilders, rebuild[b].pc # "idle", NEW d \in Docs
    PROVE  Shown(rebuild[b].snap[d]) \in 0 .. MaxRevision
<1>1. PICK h \in Seq(Kinds) : h = rebuild[b].snap[d]
  <2>1. rebuild[b] \in Rebuilding
    BY DEF ProjectionInv, Types
  <2>2. rebuild[b].snap \in [Docs -> Seq(Kinds)]
    BY <2>1 DEF Rebuilding
  <2> QED BY <2>2
<1>2. Earlier(h, hist[d])
  BY <1>1 DEF ProjectionInv, RebuildsInv, RebuildOK
<1>3. Len(hist[d]) \in Nat /\ Len(hist[d]) <= MaxRevision
  <2>1. hist[d] \in Seq(Kinds)
    BY DEF ProjectionInv, Types
  <2> QED BY <2>1 DEF ProjectionInv, Types
<1>4. Len(h) \in 0 .. MaxRevision
  BY <1>2, <1>3 DEF Earlier
<1> QED BY <1>1, <1>4 DEF Shown

LEMMA UpsertPageStep ==
    ASSUME ProjectionInv, UNCHANGED setup, NEW b \in Rebuilders, UpsertPage(b)
    PROVE  ProjectionInv'
<1>1. HoldsRebuildLock(b) /\ rebuild[b].pos = 0 /\ ReadsPages(b)
  BY DEF UpsertPage, ReadsPages, HoldsRebuildLock
<1>2. /\ rebuild[b] \in Rebuilding /\ RebuildOK(b) /\ Len(queue) = 0 /\ rebuild[b].pc # "idle"
      /\ \A w \in Workers : ~Busy(w)
      /\ \A c \in Rebuilders \ {b} : ~HoldsRebuildLock(c)
  BY <1>1, RebuildAlone
<1>3. PICK s \in [Docs -> Seq(Kinds)] : s = rebuild[b].snap
  BY <1>2 DEF Rebuilding
<1>4. PICK page : page = NextPage(b)
  OBVIOUS
<1>5. /\ page \subseteq {d \in Docs : d > rebuild[b].last /\ Shown(s[d]) # 0}
      /\ \A m \in page : \A d \in Docs : rebuild[b].last < d /\ d <= m /\ Shown(s[d]) # 0 => d \in page
  BY <1>3, <1>4, Pages
<1>6. page # {} /\ page \in SUBSET Docs
  BY <1>4, <1>5 DEF UpsertPage
<1>7. PICK m \in page : m = Max(page) /\ \A d \in page : d <= m
  BY <1>6, LastDoc
<1>8. PICK rows : rows = [d \in page |-> Shown(s[d])]
  OBVIOUS
<1>9. rows \in Rows /\ DOMAIN rows = page /\ \A d \in page : rows[d] = Shown(s[d])
  <2>1. \A d \in page : Shown(s[d]) \in Revisions
    BY <1>2, <1>3, <1>5, <1>6, ShownRevision
  <2>2. rows \in [page -> Revisions]
    BY <1>8, <2>1
  <2> QED BY <1>6, <1>8, <2>2 DEF Rows
<1>10. PICK t : t = [op |-> "page", rows |-> rows]
  OBVIOUS
<1>11. t \in Tasks /\ t.op = "page" /\ t.rows = rows
  BY <1>9, <1>10 DEF Tasks
<1>12. PICK p : p = [rebuild[b] EXCEPT !.pc = "paging", !.last = m, !.pos = 1]
  OBVIOUS
<1>13. p \in Rebuilding /\ p.pc = "paging" /\ p.last = m /\ p.pos = 1 /\ p.snap = s
  <2>1. m \in 0 .. NumDocs
    BY <1>6
  <2> QED BY <1>2, <1>3, <1>12, <2>1 DEF Rebuilding
<1>14. /\ rebuild' = [rebuild EXCEPT ![b] = p] /\ queue' = Append(queue, t)
       /\ UNCHANGED <<setup, hist, jobs, versions, worker, rebuilds, index, missed>>
  <2>1. /\ queue' = Append(queue, [op |-> "page", rows |-> [d \in NextPage(b) |-> Shown(rebuild[b].snap[d])]])
        /\ rebuild' = [rebuild EXCEPT ![b].pc = "paging", ![b].last = Max(NextPage(b)), ![b].pos = Len(queue) + 1]
        /\ UNCHANGED <<setup, hist, jobs, versions, worker, rebuilds, index, missed>>
    BY DEF UpsertPage
  <2>2. queue' = Append(queue, t)
    BY <1>3, <1>4, <1>8, <1>10, <2>1
  <2>3. Len(queue) + 1 = 1
    BY <1>2
  <2>4. rebuild' = [rebuild EXCEPT ![b].pc = "paging", ![b].last = m, ![b].pos = 1]
    BY <1>4, <1>7, <2>1, <2>3
  <2>5. rebuild' = [rebuild EXCEPT ![b] = p]
    BY <1>12, <2>4
  <2> QED BY <2>1, <2>2, <2>5
<1>15. rebuild'[b] = p /\ Len(queue') = 1 /\ queue'[1] = t
  BY <1>2, <1>11, <1>14, Accepted DEF ProjectionInv, Types
<1>16. TaskOK(Len(queue))'
  BY <1>11, <1>15 DEF TaskOK
<1>17. \A d \in Docs : index["temporary"][d] = IF d <= rebuild[b].last THEN Shown(s[d]) ELSE 0
  BY <1>1, <1>2, <1>3 DEF RebuildOK, Copied
<1>18. ASSUME NEW d \in Docs PROVE Paged(t, d)' = Copied(b, d)'
  <2>1. Copied(b, d)' = IF d <= m THEN Shown(s[d]) ELSE 0
    BY <1>13, <1>15 DEF Copied
  <2>2. Paged(t, d)' = IF d \in page THEN Shown(s[d]) ELSE index["temporary"][d]
    BY <1>9, <1>11, <1>14 DEF Paged
  <2>3. rebuild[b].last \in Nat /\ rebuild[b].last < m
    BY <1>2, <1>5, <1>7 DEF Rebuilding
  <2>4. CASE d \in page
    BY <1>7, <2>1, <2>2, <2>4
  <2>5. CASE d \notin page /\ d <= rebuild[b].last
    BY <1>6, <1>17, <2>1, <2>2, <2>3, <2>5
  <2>6. CASE d \notin page /\ ~(d <= rebuild[b].last)
    <3>1. d <= m => Shown(s[d]) = 0
      BY <1>5, <2>3, <2>6
    <3> QED BY <1>17, <2>1, <2>2, <2>6, <3>1
  <2> QED BY <2>4, <2>5, <2>6
<1>19. RebuildOK(b)'
  <2>1. HoldsRebuildLock(b)' /\ ~ReadsPages(b)'
    BY <1>13, <1>15 DEF HoldsRebuildLock, ReadsPages
  <2>2. \A e \in Docs : /\ Earlier(s[e], hist'[e])
                        /\ e \notin missed'[b] => versions'[e] <= Len(s[e])
    BY <1>2, <1>3, <1>14 DEF RebuildOK
  <2> QED BY <1>11, <1>13, <1>15, <1>18, <2>1, <2>2 DEF RebuildOK
<1> QED BY <1>2, <1>11, <1>13, <1>14, <1>16, <1>19, RebuildPostStep

LEMMA PostSwapStep ==
    ASSUME ProjectionInv, UNCHANGED setup, NEW b \in Rebuilders, PostSwap(b)
    PROVE  ProjectionInv'
<1>1. HoldsRebuildLock(b) /\ rebuild[b].pos = 0 /\ ReadsPages(b) /\ NextPage(b) = {}
  BY DEF PostSwap, ReadsPages, HoldsRebuildLock
<1>2. /\ rebuild[b] \in Rebuilding /\ RebuildOK(b) /\ Len(queue) = 0 /\ rebuild[b].pc # "idle"
      /\ \A w \in Workers : ~Busy(w)
      /\ \A c \in Rebuilders \ {b} : ~HoldsRebuildLock(c)
  BY <1>1, RebuildAlone
<1>3. PICK s \in [Docs -> Seq(Kinds)] : s = rebuild[b].snap
  BY <1>2 DEF Rebuilding
<1>4. PICK g \in SUBSET Docs : g = missed[b]
  BY DEF ProjectionInv, Types
<1>5. PICK t : t = [op |-> "swap", snap |-> s, missed |-> g]
  OBVIOUS
<1>6. t \in Tasks /\ t.op = "swap" /\ t.snap = s /\ t.missed = g
  BY <1>5 DEF Tasks
<1>7. PICK p : p = [rebuild[b] EXCEPT !.pc = "swapping", !.pos = 1]
  OBVIOUS
<1>8. p \in Rebuilding /\ p.pc = "swapping" /\ p.pos = 1 /\ p.snap = s
  BY <1>2, <1>3, <1>7 DEF Rebuilding
<1>9. /\ rebuild' = [rebuild EXCEPT ![b] = p] /\ queue' = Append(queue, t)
      /\ UNCHANGED <<setup, hist, jobs, versions, worker, rebuilds, index, missed>>
  <2>1. /\ queue' = Append(queue, [op |-> "swap", snap |-> rebuild[b].snap, missed |-> missed[b]])
        /\ rebuild' = [rebuild EXCEPT ![b].pc = "swapping", ![b].pos = Len(queue) + 1]
        /\ UNCHANGED <<setup, hist, jobs, versions, worker, rebuilds, index, missed>>
    BY DEF PostSwap, Post
  <2>2. Len(queue) + 1 = 1
    BY <1>2
  <2>3. rebuild' = [rebuild EXCEPT ![b].pc = "swapping", ![b].pos = 1]
    BY <2>1, <2>2
  <2>4. rebuild' = [rebuild EXCEPT ![b] = p]
    BY <1>7, <2>3
  <2>5. queue' = Append(queue, t)
    BY <1>3, <1>4, <1>5, <2>1
  <2> QED BY <2>1, <2>4, <2>5
<1>10. rebuild'[b] = p /\ Len(queue') = 1 /\ queue'[1] = t
  BY <1>2, <1>6, <1>9, Accepted DEF ProjectionInv, Types
<1>11. \A d \in Docs : index["temporary"][d] = Shown(s[d])
  <2>1. \A d \in Docs : d > rebuild[b].last => Shown(s[d]) = 0
    BY <1>1, <1>3, Pages
  <2>2. \A d \in Docs : index["temporary"][d] = IF d <= rebuild[b].last THEN Shown(s[d]) ELSE 0
    BY <1>1, <1>2, <1>3 DEF RebuildOK, Copied
  <2>3. rebuild[b].last \in Nat
    BY <1>2 DEF Rebuilding
  <2> QED BY <2>1, <2>2, <2>3
<1>12. \A d \in Docs : /\ Earlier(s[d], hist[d])
                       /\ d \notin g => versions[d] <= Len(s[d])
  BY <1>2, <1>3, <1>4 DEF RebuildOK
<1>13. TaskOK(Len(queue))'
  <2>1. \A w \in Workers : ~Succeeded(w)'
    BY <1>2, <1>9 DEF Busy, Succeeded
  <2> QED BY <1>6, <1>9, <1>10, <1>11, <1>12, <2>1 DEF TaskOK
<1>14. RebuildOK(b)'
  <2>1. HoldsRebuildLock(b)' /\ ~ReadsPages(b)'
    BY <1>8, <1>10 DEF HoldsRebuildLock, ReadsPages
  <2> QED BY <1>4, <1>8, <1>9, <1>10, <1>12, <2>1 DEF RebuildOK
<1> QED BY <1>2, <1>6, <1>8, <1>9, <1>13, <1>14, RebuildPostStep

LEMMA DropTemporaryStep ==
    ASSUME ProjectionInv, UNCHANGED setup, NEW b \in Rebuilders, DropTemporary(b)
    PROVE  ProjectionInv'
<1>1. HoldsRebuildLock(b) /\ rebuild[b].pos = 0
  BY DEF DropTemporary, HoldsRebuildLock
<1>2. /\ rebuild[b] \in Rebuilding /\ RebuildOK(b) /\ Len(queue) = 0 /\ rebuild[b].pc # "idle"
      /\ \A w \in Workers : ~Busy(w)
      /\ \A c \in Rebuilders \ {b} : ~HoldsRebuildLock(c)
  BY <1>1, RebuildAlone
<1>3. EmptyTemporary \in Tasks /\ EmptyTemporary.op = "empty" /\ "empty" \notin Kinds
  BY DEF EmptyTemporary, Tasks
<1>4. PICK p : p = [rebuild[b] EXCEPT !.pc = "dropping", !.pos = 1]
  OBVIOUS
<1>5. p \in Rebuilding /\ p.pc = "dropping" /\ p.pos = 1 /\ p.snap = rebuild[b].snap
  BY <1>2, <1>4 DEF Rebuilding
<1>6. /\ rebuild' = [rebuild EXCEPT ![b] = p] /\ queue' = Append(queue, EmptyTemporary)
      /\ UNCHANGED <<setup, hist, jobs, versions, worker, rebuilds, index, missed>>
  <2>1. /\ queue' = Append(queue, EmptyTemporary)
        /\ rebuild' = [rebuild EXCEPT ![b].pc = "dropping", ![b].pos = Len(queue) + 1]
        /\ UNCHANGED <<setup, hist, jobs, versions, worker, rebuilds, index, missed>>
    BY DEF DropTemporary, Post
  <2>2. Len(queue) + 1 = 1
    BY <1>2
  <2>3. rebuild' = [rebuild EXCEPT ![b].pc = "dropping", ![b].pos = 1]
    BY <2>1, <2>2
  <2>4. rebuild' = [rebuild EXCEPT ![b] = p]
    BY <1>4, <2>3
  <2> QED BY <2>1, <2>4
<1>7. rebuild'[b] = p /\ Len(queue') = 1 /\ queue'[1] = EmptyTemporary
  BY <1>2, <1>3, <1>6, Accepted DEF ProjectionInv, Types
<1>8. TaskOK(Len(queue))'
  BY <1>3, <1>7 DEF TaskOK
<1>9. RebuildOK(b)'
  <2>1. HoldsRebuildLock(b)' /\ ~ReadsPages(b)'
    BY <1>5, <1>7 DEF HoldsRebuildLock, ReadsPages
  <2>2. \A e \in Docs : /\ Earlier(p.snap[e], hist'[e])
                        /\ e \notin missed'[b] => versions'[e] <= Len(p.snap[e])
    BY <1>2, <1>5, <1>6 DEF RebuildOK
  <2> QED BY <1>5, <1>7, <2>1, <2>2 DEF RebuildOK
<1> QED BY <1>2, <1>3, <1>5, <1>6, <1>8, <1>9, RebuildPostStep

\* What a task that succeeds does to the two indexes.
LEMMA AppliedTask ==
    ASSUME index \in Indexes, NEW t \in Tasks, index' = Applied(t)
    PROVE  /\ index' \in Indexes
           /\ t.op \in Kinds => /\ index'["live"][t.doc] = IF t.op = "upsert" THEN t.rev ELSE 0
                                /\ \A d \in Docs : d # t.doc => index'["live"][d] = index["live"][d]
           /\ t.op \in {"empty", "page"} => index'["live"] = index["live"]
           /\ t.op = "empty" => \A d \in Docs : index'["temporary"][d] = 0
           /\ t.op = "page" => \A d \in Docs : index'["temporary"][d] = Paged(t, d)
           /\ t.op = "swap" => index'["live"] = index["temporary"]
<1>1. index["live"] \in [Docs -> 0 .. MaxRevision] /\ index["temporary"] \in [Docs -> 0 .. MaxRevision]
  BY DEF Indexes
<1>2. CASE t.op \in Kinds
  <2>1. PICK e \in Docs, r \in 0 .. MaxRevision : e = t.doc /\ r = IF t.op = "upsert" THEN t.rev ELSE 0
    BY <1>2, TaskFields
  <2>2. index' = [index EXCEPT !["live"][e] = r]
    BY <1>2, <2>1 DEF Applied
  <2>3. index' = [index EXCEPT !["live"] = [index["live"] EXCEPT ![e] = r]]
    BY <2>2
  <2>4. PICK f \in [Docs -> 0 .. MaxRevision] : f = [index["live"] EXCEPT ![e] = r]
    BY <1>1, <2>1
  <2>5. f[e] = r /\ \A d \in Docs \ {e} : f[d] = index["live"][d]
    BY <1>1, <2>4
  <2>6. index' \in Indexes /\ index'["live"] = f
    BY <2>3, <2>4 DEF Indexes
  <2> QED BY <1>2, <2>1, <2>5, <2>6
<1>3. CASE t.op = "empty"
  <2>1. index' = [index EXCEPT !["temporary"] = [d \in Docs |-> 0]]
    BY <1>3 DEF Applied
  <2>2. PICK f \in [Docs -> 0 .. MaxRevision] : f = [d \in Docs |-> 0]
    <3>1. 0 \in 0 .. MaxRevision
      OBVIOUS
    <3>2. [d \in Docs |-> 0] \in [Docs -> 0 .. MaxRevision]
      BY <3>1
    <3> QED BY <3>2
  <2>3. index' \in Indexes /\ index'["temporary"] = f /\ index'["live"] = index["live"]
    BY <2>1, <2>2 DEF Indexes
  <2> QED BY <1>3, <2>2, <2>3
<1>4. CASE t.op = "page"
  <2>1. \A d \in Docs : Paged(t, d) \in 0 .. MaxRevision
    BY <1>1, <1>4, TaskFields DEF Paged, Rows
  <2>2. PICK f \in [Docs -> 0 .. MaxRevision] : f = [d \in Docs |-> Paged(t, d)]
    BY <2>1
  <2>3. f = [d \in Docs |-> IF d \in DOMAIN t.rows THEN t.rows[d] ELSE index["temporary"][d]]
    BY <2>2 DEF Paged
  <2>4. index' = [index EXCEPT !["temporary"] = [d \in Docs |-> IF d \in DOMAIN t.rows THEN t.rows[d] ELSE @[d]]]
    BY <1>4 DEF Applied
  <2>5. index' = [index EXCEPT !["temporary"] = f]
    BY <2>3, <2>4, Zenon
  <2>6. index' \in Indexes /\ index'["temporary"] = f /\ index'["live"] = index["live"]
    BY <2>2, <2>5 DEF Indexes
  <2> QED BY <1>4, <2>2, <2>6
<1>5. CASE t.op = "swap"
  <2>1. index' = [i \in {"live", "temporary"} |-> index[IF i = "live" THEN "temporary" ELSE "live"]]
    BY <1>5 DEF Applied
  <2>2. index' \in Indexes /\ index'["live"] = index["temporary"]
    BY <1>1, <2>1 DEF Indexes
  <2> QED BY <1>5, <2>2
<1> QED BY <1>2, <1>3, <1>4, <1>5, TaskFields

\* The task at the head has been done.  What is left are the other tasks, none a page or a swap, and
\* whoever waits does so one place nearer.
LEMMA TakenTasks ==
    ASSUME ProjectionInv, queue # <<>>, queue' = Tail(queue), UNCHANGED <<hist, versions>>
    PROVE  /\ queue' \in Seq(Tasks) /\ Len(queue') = Len(queue) - 1 /\ Len(queue) \in Nat /\ Len(queue) >= 1
           /\ \A i \in 1 .. Len(queue') : queue'[i] = queue[i + 1]
           /\ Head(queue) = queue[1] /\ Head(queue) \in Tasks /\ TaskOK(1)
           /\ TasksInv'
<1>1. /\ queue' \in Seq(Tasks) /\ Len(queue') = Len(queue) - 1 /\ Len(queue) \in Nat /\ Len(queue) >= 1
      /\ \A i \in 1 .. Len(queue') : queue'[i] = queue[i + 1]
      /\ Head(queue) = queue[1] /\ Head(queue) \in Tasks
  BY Taken DEF ProjectionInv, Types
<1>2. TaskOK(1)
  BY <1>1 DEF ProjectionInv, TasksInv
<1>3. ASSUME NEW i \in 1 .. Len(queue') PROVE TaskOK(i)'
  <2>1. i + 1 \in 1 .. Len(queue) /\ queue'[i] = queue[i + 1] /\ i + 1 # 1
    BY <1>1
  <2>2. TaskOK(i + 1)
    BY <2>1 DEF ProjectionInv, TasksInv
  <2> QED BY <2>1, <2>2 DEF TaskOK
<1> QED BY <1>1, <1>2, <1>3 DEF TasksInv

\* A handler call goes on while the queue does.
LEMMA CallGoesOn ==
    ASSUME ProjectionInv, queue # <<>>, queue' = Tail(queue), UNCHANGED <<hist, versions>>, NEW w \in Workers,
           NEW p \in HandlerCalls, worker'[w] = p, p.pc = worker[w].pc, p.doc = worker[w].doc,
           p.rev = worker[w].rev, p.pos = IF worker[w].pos = 0 THEN 0 ELSE worker[w].pos - 1,
           Succeeded(w)' => index'["live"][worker[w].doc] = Effect(hist[worker[w].doc], worker[w].rev)
    PROVE  CallOK(w)'
<1>1. /\ Len(queue') = Len(queue) - 1 /\ Len(queue) \in Nat /\ Len(queue) >= 1
      /\ \A i \in 1 .. Len(queue') : queue'[i] = queue[i + 1]
  BY TakenTasks
<1>2. CallOK(w) /\ worker[w].pos \in Nat /\ Command(w)' = Command(w)
  BY DEF ProjectionInv, CallsInv, Types, HandlerCalls, Command
<1>3. Locked(w)' <=> Locked(w)
  BY DEF Locked
<1>4. p.pos <= Len(queue') /\ (p.pos > 0 => queue'[p.pos] = Command(w))
  <2>1. worker[w].pos <= Len(queue) /\ (worker[w].pos > 0 => queue[worker[w].pos] = Command(w))
    BY <1>2 DEF CallOK
  <2>2. CASE worker[w].pos = 0
    BY <1>1, <2>2
  <2>3. CASE worker[w].pos # 0
    <3>1. p.pos = worker[w].pos - 1 /\ p.pos + 1 = worker[w].pos /\ p.pos \in Nat
      BY <1>2, <2>3
    <3>2. p.pos <= Len(queue') /\ (p.pos > 0 => p.pos \in 1 .. Len(queue'))
      BY <1>1, <2>1, <3>1
    <3> QED BY <1>1, <1>2, <2>1, <2>3, <3>1, <3>2
  <2> QED BY <2>2, <2>3
<1>5. ASSUME worker[w].pc \in {"wait", "record"}, NEW i \in 1 .. Len(queue'), i > p.pos, queue'[i].op \in Kinds
      PROVE  queue'[i].doc # worker[w].doc
  <2>1. i + 1 \in 1 .. Len(queue) /\ queue'[i] = queue[i + 1] /\ i + 1 > worker[w].pos
    BY <1>1, <1>2, <1>5
  <2> QED BY <1>2, <1>5, <2>1 DEF CallOK
<1>6. worker[w].pc # "wait" => p.pos = 0
  BY <1>2 DEF CallOK
<1>7. worker[w].pc # "idle" => worker[w].rev <= Len(hist[worker[w].doc])
  BY <1>2 DEF CallOK
<1>8. Locked(w) => versions[worker[w].doc] < worker[w].rev
  BY <1>2 DEF CallOK
<1> QED BY <1>2, <1>3, <1>4, <1>5, <1>6, <1>7, <1>8 DEF CallOK

\* A rebuild goes on while the queue does.
LEMMA RebuildGoesOn ==
    ASSUME ProjectionInv, queue # <<>>, queue' = Tail(queue), UNCHANGED <<hist, versions>>, NEW b \in Rebuilders,
           NEW p \in Rebuilding, rebuild'[b] = p, p.pc = rebuild[b].pc, p.snap = rebuild[b].snap,
           p.last = rebuild[b].last, p.pos = IF rebuild[b].pos = 0 THEN 0 ELSE rebuild[b].pos - 1,
           missed'[b] = missed[b],
           ReadsPages(b)' => \A d \in Docs : index'["temporary"][d] = Copied(b, d)
    PROVE  RebuildOK(b)'
<1>1. /\ Len(queue') = Len(queue) - 1 /\ Len(queue) \in Nat /\ Len(queue) >= 1
      /\ \A i \in 1 .. Len(queue') : queue'[i] = queue[i + 1]
  BY TakenTasks
<1>2. RebuildOK(b) /\ rebuild[b] \in Rebuilding /\ rebuild[b].pos \in Nat
  BY DEF ProjectionInv, RebuildsInv, Types, Rebuilding
<1>3. HoldsRebuildLock(b)' <=> HoldsRebuildLock(b)
  BY DEF HoldsRebuildLock
<1>4. p.pos = IF HoldsRebuildLock(b) THEN Len(queue') ELSE 0
  BY <1>1, <1>2 DEF RebuildOK
<1>5. p.pos > 0 => /\ HoldsRebuildLock(b) /\ rebuild[b].pos = Len(queue) /\ Len(queue) > 1
                   /\ queue'[p.pos] = queue[rebuild[b].pos]
  BY <1>1, <1>2, <1>4 DEF RebuildOK
<1>6. rebuild[b].pc = "granted" /\ p.pos > 0 => queue'[p.pos] = EmptyTemporary
  BY <1>1, <1>2, <1>5 DEF RebuildOK
<1>7. ~(rebuild[b].pc = "paging" /\ p.pos > 0)
  <2> SUFFICES ASSUME rebuild[b].pc = "paging", p.pos > 0 PROVE FALSE
    OBVIOUS
  <2>1. queue[Len(queue)].op = "page" /\ TaskOK(Len(queue))
    BY <1>1, <1>2, <1>5 DEF RebuildOK, ProjectionInv, TasksInv
  <2>2. Len(queue) = 1
    BY <2>1 DEF TaskOK
  <2> QED BY <1>1, <1>5, <2>2
<1>8. \A d \in Docs : Copied(b, d)' = Copied(b, d)
  BY DEF Copied
<1>9. rebuild[b].pc # "idle" =>
        \A d \in Docs : /\ Earlier(p.snap[d], hist'[d])
                        /\ d \notin missed'[b] => versions'[d] <= Len(p.snap[d])
  BY <1>2 DEF RebuildOK
<1>10. rebuild[b].pc \in {"waiting", "granted"} => p.last = 0
  BY <1>2 DEF RebuildOK
<1> QED BY <1>3, <1>4, <1>6, <1>7, <1>8, <1>9, <1>10 DEF RebuildOK

LEMMA RunTaskStep ==
    ASSUME ProjectionInv, UNCHANGED setup, RunTask
    PROVE  ProjectionInv'
<1>1. /\ queue # <<>> /\ queue' = Tail(queue) /\ index' = Applied(Head(queue))
      /\ UNCHANGED <<setup, hist, jobs, versions, rebuilds>>
  BY DEF RunTask
<1>2. PICK t \in Tasks : t = queue[1] /\ t = Head(queue)
  BY <1>1, TakenTasks
<1>3. /\ queue' \in Seq(Tasks) /\ Len(queue') = Len(queue) - 1 /\ Len(queue) \in Nat /\ Len(queue) >= 1
      /\ TaskOK(1) /\ TasksInv'
  BY <1>1, TakenTasks
<1>4. /\ index' \in Indexes
      /\ t.op \in Kinds => /\ index'["live"][t.doc] = IF t.op = "upsert" THEN t.rev ELSE 0
                           /\ \A d \in Docs : d # t.doc => index'["live"][d] = index["live"][d]
      /\ t.op \in {"empty", "page"} => index'["live"] = index["live"]
      /\ t.op = "empty" => \A d \in Docs : index'["temporary"][d] = 0
      /\ t.op = "page" => \A d \in Docs : index'["temporary"][d] = Paged(t, d)
      /\ t.op = "swap" => index'["live"] = index["temporary"]
  BY <1>1, <1>2, AppliedTask DEF ProjectionInv, Types
<1>5. /\ missed' \in [Rebuilders \cup {"live"} -> SUBSET Docs]
      /\ missed'["live"] = IF t.op = "swap" THEN t.missed ELSE missed["live"]
      /\ \A b \in Rebuilders : missed'[b] = missed[b]
  <2>1. missed \in [Rebuilders \cup {"live"} -> SUBSET Docs] /\ "live" \notin Rebuilders
    BY DEF ProjectionInv, Types
  <2>2. t.op = "swap" => t.missed \in SUBSET Docs
    BY TaskFields
  <2>3. missed' = IF t.op = "swap" THEN [missed EXCEPT !["live"] = t.missed] ELSE missed
    BY <1>2 DEF RunTask
  <2> QED BY <2>1, <2>2, <2>3
<1>6. ASSUME NEW w \in Workers
      PROVE  /\ worker'[w] \in HandlerCalls /\ worker'[w].pc = worker[w].pc /\ worker'[w].doc = worker[w].doc
             /\ worker'[w].rev = worker[w].rev
             /\ worker'[w].pos = IF worker[w].pos = 0 THEN 0 ELSE worker[w].pos - 1
  <2>1. worker[w] \in HandlerCalls
    BY DEF ProjectionInv, Types
  <2>2. PICK n \in Nat : n = IF worker[w].pos = 0 THEN 0 ELSE worker[w].pos - 1
    BY <2>1 DEF HandlerCalls
  <2>3. worker'[w] = [worker[w] EXCEPT !.pos = n]
    BY <2>2 DEF RunTask
  <2> QED BY <2>1, <2>2, <2>3 DEF HandlerCalls
<1>7. ASSUME NEW b \in Rebuilders
      PROVE  /\ rebuild'[b] \in Rebuilding /\ rebuild'[b].pc = rebuild[b].pc /\ rebuild'[b].snap = rebuild[b].snap
             /\ rebuild'[b].last = rebuild[b].last
             /\ rebuild'[b].pos = IF rebuild[b].pos = 0 THEN 0 ELSE rebuild[b].pos - 1
  <2>1. rebuild[b] \in Rebuilding
    BY DEF ProjectionInv, Types
  <2>2. PICK n \in Nat : n = IF rebuild[b].pos = 0 THEN 0 ELSE rebuild[b].pos - 1
    BY <2>1 DEF Rebuilding
  <2>3. rebuild'[b] = [rebuild[b] EXCEPT !.pos = n]
    BY <2>2 DEF RunTask
  <2> QED BY <2>1, <2>2, <2>3 DEF Rebuilding
<1>8. worker' \in [Workers -> HandlerCalls] /\ rebuild' \in [Rebuilders -> Rebuilding]
  BY <1>6, <1>7 DEF RunTask
<1>9. Types'
  BY <1>1, <1>3, <1>4, <1>5, <1>8 DEF ProjectionInv, Types
<1>10. LocksInv'
  <2>1. /\ \A w \in Workers : (Busy(w)' <=> Busy(w)) /\ (Locked(w)' <=> Locked(w))
        /\ \A b \in Rebuilders : HoldsRebuildLock(b)' <=> HoldsRebuildLock(b)
    BY <1>6, <1>7 DEF Busy, Locked, HoldsRebuildLock
  <2> QED BY <1>1, <1>6, <1>7, <2>1 DEF ProjectionInv, LocksInv
<1>11. ASSUME NEW w \in Workers, Succeeded(w)'
       PROVE  index'["live"][worker[w].doc] = Effect(hist[worker[w].doc], worker[w].rev)
  <2>1. CallOK(w) /\ worker[w].doc \in Docs /\ worker[w].rev \in Revisions /\ worker[w].pos \in Nat
    BY DEF ProjectionInv, CallsInv, Types, HandlerCalls
  <2>2. Succeeded(w) \/ (worker[w].pc = "wait" /\ worker[w].pos = 1)
    BY <1>6, <1>11, <2>1 DEF Succeeded
  <2>3. CASE Succeeded(w)
    <3>1. worker[w].pos = 0 /\ worker[w].pc \in {"wait", "record"}
      BY <2>1, <2>3 DEF Succeeded, CallOK
    <3>2. t.op # "swap"
      BY <1>2, <1>3, <2>3 DEF TaskOK
    <3>3. t.op \in Kinds => t.doc # worker[w].doc
      BY <1>2, <1>3, <2>1, <3>1 DEF CallOK
    <3>4. index'["live"][worker[w].doc] = index["live"][worker[w].doc]
      BY <1>4, <2>1, <3>2, <3>3, TaskFields
    <3> QED BY <2>1, <2>3, <3>4 DEF CallOK
  <2>4. CASE worker[w].pc = "wait" /\ worker[w].pos = 1
    <3>1. t.op = hist[worker[w].doc][worker[w].rev] /\ t.doc = worker[w].doc /\ t.rev = worker[w].rev
      BY <1>2, <2>1, <2>4 DEF CallOK, Command
    <3>2. worker[w].rev \in 1 .. Len(hist[worker[w].doc]) /\ hist[worker[w].doc] \in Seq(Kinds)
      BY <2>1, <2>4 DEF CallOK, ProjectionInv, Types
    <3>3. t.op \in Kinds
      BY <3>1, <3>2
    <3> QED BY <1>4, <3>1, <3>2, <3>3 DEF Effect
  <2> QED BY <2>2, <2>3, <2>4
<1>12. CallsInv'
  BY <1>1, <1>6, <1>11, CallGoesOn DEF CallsInv
<1>13. ASSUME NEW b \in Rebuilders, ReadsPages(b)', NEW d \in Docs PROVE index'["temporary"][d] = Copied(b, d)
  <2>1. RebuildOK(b) /\ rebuild[b] \in Rebuilding /\ rebuild[b].pos \in Nat /\ rebuild[b].last \in Nat
    BY DEF ProjectionInv, RebuildsInv, Types, Rebuilding
  <2>2. rebuild[b].pc \in {"granted", "paging"} /\ rebuild[b].pos \in {0, 1}
    BY <1>7, <1>13, <2>1 DEF ReadsPages
  <2>3. rebuild[b].pos = Len(queue)
    BY <2>1, <2>2 DEF RebuildOK, HoldsRebuildLock
  <2>4. rebuild[b].pos = 1
    BY <1>3, <2>2, <2>3
  <2>5. CASE rebuild[b].pc = "granted"
    <3>1. t = EmptyTemporary /\ rebuild[b].last = 0
      BY <1>2, <2>1, <2>4, <2>5 DEF RebuildOK
    <3> QED BY <1>4, <3>1 DEF Copied, EmptyTemporary
  <2>6. CASE rebuild[b].pc = "paging"
    <3>1. t.op = "page" /\ Paged(t, d) = Copied(b, d)
      BY <1>2, <2>1, <2>4, <2>6 DEF RebuildOK
    <3> QED BY <1>4, <3>1
  <2> QED BY <2>2, <2>5, <2>6
<1>14. RebuildsInv'
  BY <1>1, <1>5, <1>7, <1>13, RebuildGoesOn DEF RebuildsInv
<1>15. ASSUME NEW d \in Docs \ missed'["live"]
       PROVE  \E q \in Nat : versions[d] <= q /\ q <= Len(hist[d]) /\ index'["live"][d] = Effect(hist[d], q)
  <2>1. CASE t.op = "swap"
    <3>1. PICK h \in Seq(Kinds) : h = t.snap[d]
      BY <2>1, TaskFields
    <3>2. index["temporary"][d] = Shown(h) /\ Earlier(h, hist[d]) /\ versions[d] <= Len(h)
      BY <1>2, <1>3, <1>5, <2>1, <3>1 DEF TaskOK
    <3>3. Len(h) \in Nat /\ Len(h) <= Len(hist[d]) /\ hist[d] \in Seq(Kinds) /\ Len(hist[d]) \in Nat
      <4>1. hist[d] \in Seq(Kinds)
        BY DEF ProjectionInv, Types
      <4> QED BY <3>2, <4>1 DEF Earlier
    <3>4. Shown(h) = Effect(hist[d], Len(h))
      BY <3>2, <3>3 DEF Shown, Last, Earlier, Effect
    <3> QED BY <1>4, <2>1, <3>2, <3>3, <3>4
  <2>2. CASE t.op \in Kinds /\ d = t.doc
    <3>1. t.rev \in Revisions /\ versions[d] < t.rev /\ t.rev <= Len(hist[d]) /\ hist[d][t.rev] = t.op
      BY <1>2, <1>3, <2>2, TaskFields DEF TaskOK
    <3>2. index'["live"][d] = Effect(hist[d], t.rev) /\ t.rev \in Nat /\ versions[d] <= t.rev
      <4>1. hist[d] \in Seq(Kinds) /\ versions[d] \in Nat
        BY DEF ProjectionInv, Types
      <4> QED BY <1>4, <2>2, <3>1, <4>1 DEF Effect
    <3> QED BY <3>1, <3>2
  <2>3. CASE ~(t.op = "swap") /\ ~(t.op \in Kinds /\ d = t.doc)
    <3>1. index'["live"][d] = index["live"][d] /\ d \notin missed["live"]
      BY <1>4, <1>5, <2>3, TaskFields
    <3> QED BY <3>1 DEF ProjectionInv, LiveInv
  <2> QED BY <2>1, <2>2, <2>3
<1>16. LiveInv'
  BY <1>1, <1>15 DEF ProjectionInv, LiveInv
<1>17. JobsInv'
  BY <1>1 DEF ProjectionInv, JobsInv
<1> QED BY <1>3, <1>9, <1>10, <1>12, <1>14, <1>16, <1>17 DEF ProjectionInv

LEMMA FailTaskStep ==
    ASSUME ProjectionInv, UNCHANGED setup, FailTask
    PROVE  ProjectionInv'
<1>1. queue # <<>> /\ queue' = Tail(queue) /\ UNCHANGED <<setup, hist, jobs, versions, rebuilds, index, missed>>
  BY DEF FailTask
<1>2. /\ queue' \in Seq(Tasks) /\ Len(queue') = Len(queue) - 1 /\ Len(queue) \in Nat /\ Len(queue) >= 1 /\ TasksInv'
  BY <1>1, TakenTasks
<1>3. /\ Idle \in HandlerCalls /\ Idle.pc = "idle" /\ Idle.pos = 0
      /\ Resting \in Rebuilding /\ Resting.pc = "idle" /\ Resting.pos = 0
  <2>1. 1 \in Docs /\ 1 \in Revisions
    OBVIOUS
  <2> QED BY <2>1 DEF Idle, HandlerCalls, Resting, Rebuilding
<1>4. ASSUME NEW w \in Workers
      PROVE  \/ worker'[w] = Idle
             \/ /\ worker'[w] \in HandlerCalls /\ worker'[w].pc = worker[w].pc /\ worker'[w].doc = worker[w].doc
                /\ worker'[w].rev = worker[w].rev /\ worker[w].pos # 1
                /\ worker'[w].pos = IF worker[w].pos = 0 THEN 0 ELSE worker[w].pos - 1
  <2>1. worker[w] \in HandlerCalls
    BY DEF ProjectionInv, Types
  <2>2. PICK n \in Nat : n = IF worker[w].pos = 0 THEN 0 ELSE worker[w].pos - 1
    BY <2>1 DEF HandlerCalls
  <2>3. worker'[w] = IF worker[w].pos = 1 THEN Idle ELSE [worker[w] EXCEPT !.pos = n]
    BY <2>2 DEF FailTask
  <2> QED BY <2>1, <2>2, <2>3 DEF HandlerCalls
<1>5. ASSUME NEW b \in Rebuilders
      PROVE  \/ rebuild'[b] = Resting
             \/ /\ rebuild'[b] \in Rebuilding /\ rebuild'[b].pc = rebuild[b].pc
                /\ rebuild'[b].snap = rebuild[b].snap /\ rebuild'[b].last = rebuild[b].last /\ rebuild[b].pos # 1
                /\ rebuild'[b].pos = IF rebuild[b].pos = 0 THEN 0 ELSE rebuild[b].pos - 1
  <2>1. rebuild[b] \in Rebuilding
    BY DEF ProjectionInv, Types
  <2>2. PICK n \in Nat : n = IF rebuild[b].pos = 0 THEN 0 ELSE rebuild[b].pos - 1
    BY <2>1 DEF Rebuilding
  <2>3. rebuild'[b] = IF rebuild[b].pos = 1 THEN Resting ELSE [rebuild[b] EXCEPT !.pos = n]
    BY <2>2 DEF FailTask
  <2> QED BY <2>1, <2>2, <2>3 DEF Rebuilding
<1>6. worker' \in [Workers -> HandlerCalls] /\ rebuild' \in [Rebuilders -> Rebuilding]
  <2>1. /\ \A w \in Workers : worker'[w] \in HandlerCalls
        /\ \A b \in Rebuilders : rebuild'[b] \in Rebuilding
    BY <1>3, <1>4, <1>5
  <2>2. worker' = [w \in Workers |-> worker'[w]] /\ rebuild' = [b \in Rebuilders |-> rebuild'[b]]
    BY DEF FailTask
  <2> QED BY <2>1, <2>2
<1>7. Types'
  BY <1>1, <1>2, <1>6 DEF ProjectionInv, Types
<1>8. /\ \A w \in Workers : /\ Busy(w)' => Busy(w)
                            /\ Locked(w)' => Locked(w) /\ worker'[w].doc = worker[w].doc
                            /\ worker'[w].pc # "idle" => worker[w].pc # "idle"
      /\ \A b \in Rebuilders : /\ HoldsRebuildLock(b)' => HoldsRebuildLock(b)
                               /\ rebuild'[b].pc # "idle" => rebuild[b].pc # "idle"
  BY <1>3, <1>4, <1>5 DEF Busy, Locked, HoldsRebuildLock
<1>9. LocksInv'
  BY <1>1, <1>8 DEF ProjectionInv, LocksInv
<1>10. ASSUME NEW w \in Workers PROVE CallOK(w)'
  <2>1. CASE worker'[w] = Idle
    BY <1>2, <1>3, <2>1 DEF CallOK, Locked, Succeeded
  <2>2. CASE worker'[w] # Idle
    <3>1. /\ worker'[w] \in HandlerCalls /\ worker'[w].pc = worker[w].pc /\ worker'[w].doc = worker[w].doc
          /\ worker'[w].rev = worker[w].rev /\ worker[w].pos # 1
          /\ worker'[w].pos = IF worker[w].pos = 0 THEN 0 ELSE worker[w].pos - 1
      BY <1>4, <2>2
    <3>2. CallOK(w) /\ worker[w].pos \in Nat
      BY DEF ProjectionInv, CallsInv, Types, HandlerCalls
    <3>3. Succeeded(w)' => Succeeded(w)
      BY <3>1, <3>2 DEF Succeeded
    <3>4. Succeeded(w)' => index'["live"][worker[w].doc] = Effect(hist[worker[w].doc], worker[w].rev)
      BY <1>1, <3>2, <3>3 DEF CallOK
    <3> QED BY <1>1, <3>1, <3>4, CallGoesOn
  <2> QED BY <2>1, <2>2
<1>11. ASSUME NEW b \in Rebuilders PROVE RebuildOK(b)'
  <2>1. CASE rebuild'[b] = Resting
    BY <1>3, <2>1 DEF RebuildOK, HoldsRebuildLock, ReadsPages
  <2>2. CASE rebuild'[b] # Resting
    <3>1. /\ rebuild'[b] \in Rebuilding /\ rebuild'[b].pc = rebuild[b].pc
          /\ rebuild'[b].snap = rebuild[b].snap /\ rebuild'[b].last = rebuild[b].last /\ rebuild[b].pos # 1
          /\ rebuild'[b].pos = IF rebuild[b].pos = 0 THEN 0 ELSE rebuild[b].pos - 1
      BY <1>5, <2>2
    <3>2. RebuildOK(b) /\ rebuild[b].pos \in Nat
      BY DEF ProjectionInv, RebuildsInv, Types, Rebuilding
    <3>3. ~ReadsPages(b)'
      <4>1. rebuild[b].pc \in {"granted", "paging"} => rebuild[b].pos = Len(queue)
        BY <3>2 DEF RebuildOK, HoldsRebuildLock
      <4> QED BY <1>2, <3>1, <3>2, <4>1 DEF ReadsPages
    <3> QED BY <1>1, <3>1, <3>3, RebuildGoesOn
  <2> QED BY <2>1, <2>2
<1>12. CallsInv' /\ RebuildsInv'
  BY <1>10, <1>11 DEF CallsInv, RebuildsInv
<1>13. LiveInv' /\ JobsInv'
  BY <1>1 DEF ProjectionInv, LiveInv, JobsInv
<1> QED BY <1>2, <1>7, <1>9, <1>12, <1>13 DEF ProjectionInv

LEMMA ProjectionStutters == ProjectionInv /\ UNCHANGED projection => ProjectionInv'
<1> SUFFICES ASSUME ProjectionInv, UNCHANGED projection PROVE ProjectionInv'
  OBVIOUS
<1> USE DEF projection
<1>1. Types' /\ JobsInv' /\ LiveInv'
  BY DEF ProjectionInv, Types, JobsInv, LiveInv
<1>2. LocksInv'
  BY DEF ProjectionInv, LocksInv, Locked, Busy, HoldsRebuildLock
<1>3. TasksInv'
  BY DEF ProjectionInv, TasksInv, TaskOK, Succeeded
<1>4. CallsInv'
  BY DEF ProjectionInv, CallsInv, CallOK, Locked, Succeeded, Command
<1>5. RebuildsInv'
  BY DEF ProjectionInv, RebuildsInv, RebuildOK, HoldsRebuildLock, ReadsPages, Copied, Paged
<1> QED BY <1>1, <1>2, <1>3, <1>4, <1>5 DEF ProjectionInv

LEMMA ProjectionStep == ProjectionInv /\ [ProjectionNext]_projection => ProjectionInv'
<1> SUFFICES ASSUME ProjectionInv, [ProjectionNext]_projection PROVE ProjectionInv'
  OBVIOUS
<1>1. CASE UNCHANGED projection
  BY <1>1, ProjectionStutters
<1>2. CASE ProjectionNext
  <2>1. UNCHANGED setup
    BY <1>2 DEF ProjectionNext
  <2>2. ASSUME NEW d \in Docs, NEW kind \in Kinds, WriteUser(d, kind) PROVE ProjectionInv'
    BY <2>1, <2>2, WriteUserStep
  <2>3. ASSUME NEW w \in Workers, WorkerStep(w) PROVE ProjectionInv'
    BY <2>1, <2>3, ClaimStep, ShareRebuildLockStep, LockDocumentStep, PostCommandStep, TaskSucceededStep,
       RecordVersionStep, AbandonStep DEF WorkerStep
  <2>4. ASSUME NEW b \in Rebuilders, RebuildStep(b) PROVE ProjectionInv'
    BY <2>1, <2>4, BeginRebuildStep, GrantRebuildLockStep, UpsertPageStep, PostSwapStep, DropTemporaryStep,
       EndRebuildStep DEF RebuildStep
  <2> QED BY <1>2, <2>1, <2>2, <2>3, <2>4, RunTaskStep, FailTaskStep DEF ProjectionNext
<1> QED BY <1>1, <1>2

\* The invariant that the properties of the projection follow from: what is accepted is newer than
\* what is recorded, a document's lock keeps a user's commands apart until one is recorded, and the
\* rebuild lock keeps a swap apart from the calls it would undo.
THEOREM ProjectionInvariant == ProjectionSpec => []ProjectionInv
BY ProjectionInitInv, ProjectionStep, PTL DEF ProjectionSpec

\* Every state of the projection is of its types: revisions, deliveries and rebuilds stay within
\* their bounds, and whoever waits for a task waits for one that was accepted.
THEOREM ProjectionTypes == ProjectionSpec => []ProjectionTypeOK
<1>1. ASSUME ProjectionInv PROVE ProjectionTypeOK
  <2>1. ASSUME NEW d \in Docs PROVE hist[d] \in Seq(Kinds) /\ Len(hist[d]) <= MaxRevision /\ Len(hist[d]) \in Nat
    <3>1. hist[d] \in Seq(Kinds)
      BY <1>1 DEF ProjectionInv, Types
    <3> QED BY <1>1, <3>1 DEF ProjectionInv, Types
  <2>2. versions \in [Docs -> 0 .. MaxRevision]
    <3>1. \A d \in Docs : versions[d] \in Nat /\ versions[d] <= Len(hist[d])
      BY <1>1 DEF ProjectionInv, Types, LiveInv
    <3>2. \A d \in Docs : versions[d] \in 0 .. MaxRevision
      BY <2>1, <3>1
    <3> QED BY <1>1, <3>2 DEF ProjectionInv, Types
  <2>3. ASSUME NEW w \in Workers
        PROVE  /\ worker[w].pc \in {"idle", "begin", "document", "post", "wait", "record"}
               /\ worker[w].doc \in Docs /\ worker[w].rev \in Revisions
               /\ worker[w].fresh \in BOOLEAN /\ worker[w].pos \in 0 .. Len(queue)
    <3>1. worker[w] \in HandlerCalls /\ worker[w].pos <= Len(queue) /\ Len(queue) \in Nat
      BY <1>1 DEF ProjectionInv, Types, CallsInv, CallOK
    <3> QED BY <3>1 DEF HandlerCalls
  <2>4. ASSUME NEW b \in Rebuilders
        PROVE  /\ rebuild[b].pc \in {"idle", "waiting", "granted", "paging", "swapping", "dropping"}
               /\ rebuild[b].last \in 0 .. NumDocs /\ rebuild[b].pos \in 0 .. Len(queue)
    <3>1. rebuild[b] \in Rebuilding /\ Len(queue) \in Nat
      BY <1>1 DEF ProjectionInv, Types
    <3>2. rebuild[b].pos \in {0, Len(queue)}
      BY <1>1 DEF ProjectionInv, RebuildsInv, RebuildOK
    <3> QED BY <3>1, <3>2 DEF Rebuilding
  <2>5. /\ setup \in Setups /\ DOMAIN hist = Docs /\ rebuilds \in 0 .. MaxRebuilds
        /\ index \in [{"live", "temporary"} -> [Docs -> 0 .. MaxRevision]]
        /\ missed \in [Rebuilders \cup {"live"} -> SUBSET Docs]
        /\ jobs \in [Docs -> [Revisions -> [attempts : 0 .. MaxAttempts, processed : BOOLEAN]]]
    BY <1>1 DEF ProjectionInv, Types, Indexes, JobsInv
  <2> QED BY <2>1, <2>2, <2>3, <2>4, <2>5 DEF ProjectionTypeOK
<1> QED BY <1>1, ProjectionInvariant, PTL

\* Whatever order the index commands are delivered in, however often they are retried, and with
\* whatever rebuilds in between, the live index never shows a user in a revision older than the one
\* recorded for it, and so never a deleted user again, those excepted that the live rebuild missed.
THEOREM NothingSuperseded == ProjectionSpec => []NoSupersededHit
<1>1. ASSUME ProjectionInv PROVE NoSupersededHit
  <2> SUFFICES ASSUME NEW d \in Docs \ missed["live"], index["live"][d] # 0
               PROVE  index["live"][d] >= versions[d]
    BY DEF NoSupersededHit
  <2>1. PICK r \in Nat : versions[d] <= r /\ index["live"][d] = Effect(hist[d], r)
    BY <1>1 DEF ProjectionInv, LiveInv
  <2>2. Effect(hist[d], r) \in {0, r} /\ versions[d] \in Nat
    BY <1>1 DEF Effect, ProjectionInv, Types
  <2> QED BY <2>1, <2>2
<1> QED BY <1>1, ProjectionInvariant, PTL

\* When every command has been processed and nothing is on its way, the live index shows exactly
\* what the users table has, those excepted that the live rebuild missed.
THEOREM ConvergesAtRest == ProjectionSpec => []ConvergesWhenQuiet
<1>1. ASSUME ProjectionInv PROVE ConvergesWhenQuiet
  <2> SUFFICES ASSUME \A d \in Docs : \A r \in 1 .. Len(hist[d]) : jobs[d][r].processed,
                      NEW d \in Docs \ missed["live"]
               PROVE  index["live"][d] = Shown(hist[d])
    BY DEF ConvergesWhenQuiet
  <2>1. hist[d] \in Seq(Kinds) /\ versions[d] \in Nat /\ Len(hist[d]) <= MaxRevision /\ versions[d] <= Len(hist[d])
    BY <1>1 DEF ProjectionInv, Types, LiveInv
  <2>2. Len(hist[d]) \in Nat
    BY <2>1
  <2>3. Len(hist[d]) > 0 => Len(hist[d]) <= versions[d]
    <3> SUFFICES ASSUME Len(hist[d]) > 0 PROVE Len(hist[d]) <= versions[d]
      OBVIOUS
    <3>1. PICK n : n = Len(hist[d])
      OBVIOUS
    <3>2. n \in Revisions /\ n \in 1 .. Len(hist[d])
      BY <2>1, <2>2, <3>1
    <3> QED BY <1>1, <3>1, <3>2 DEF ProjectionInv, JobsInv
  <2>4. versions[d] = Len(hist[d])
    BY <2>1, <2>2, <2>3
  <2>5. PICK r \in Nat : versions[d] <= r /\ r <= Len(hist[d]) /\ index["live"][d] = Effect(hist[d], r)
    BY <1>1 DEF ProjectionInv, LiveInv
  <2>6. r = Len(hist[d])
    BY <2>2, <2>4, <2>5
  <2>7. Effect(hist[d], Len(hist[d])) = Shown(hist[d])
    BY <2>1, <2>2 DEF Effect, Shown, Last
  <2> QED BY <2>5, <2>6, <2>7
<1> QED BY <1>1, ProjectionInvariant, PTL
=============================================================================
