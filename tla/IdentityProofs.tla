--------------------------- MODULE IdentityProofs ---------------------------
(***************************************************************************)
(* For any number of requests at a time, accounts, names and tokens: the   *)
(* tables keep their types and usernames stay unique, a verified address   *)
(* was proven, no token is consumed twice, a session of the table stays    *)
(* with its account, an account that only a provider can sign in keeps a   *)
(* connection, and the limiter's windows hold no more than their limit.    *)
(***************************************************************************)
EXTENDS Identity, FiniteSetTheorems, SequenceTheorems, TLAPS

(***************************************************************************)
(* The inductive invariant                                                 *)
(***************************************************************************)
\* The slots whose tokens are consumed, by the statement that clears them.
Consumable == {"verify_email", "change_email"}

SlotToken(u, p) == users[u].slots[p].token

\* Where a token that can still be consumed is kept.
Slots == {[place |-> <<"slot", u, p>>, token |-> SlotToken(u, p)] : u \in DOMAIN users, p \in Consumable}
States == {[place |-> <<"state", s>>, token |-> s] : s \in DOMAIN states}
Signups == {[place |-> <<"signup", id>>, token |-> signups[id].token] : id \in DOMAIN signups}
Kept == Slots \cup States \cup Signups

\* A token is kept at one place, and nowhere once it was consumed.
TokensApart ==
    /\ used \in Seq(1 .. issued)
    /\ \A k \in Kept : k.token \in 0 .. issued /\ (k.token # 0 => k.token \notin Range(used))
    /\ \A k, l \in Kept : k.token = l.token /\ k.token # 0 => k.place = l.place

\* A letter with the token of a verification goes to the account's address, unless that one was proven
\* since; one with the token of a change goes to the address that is to be.
LetterSound(l) ==
    /\ l \in [purpose : Purposes, user : Names, at : Nat, to : Names, token : 1 .. issued]
    /\ \A u \in DOMAIN users :
          /\ SlotToken(u, "verify_email") = l.token => users[u].name \in {l.to} \cup proven
          /\ SlotToken(u, "change_email") = l.token => users[u].pending = l.to

LettersSound == \A l \in letters : LetterSound(l)

\* An identity belongs to an account that exists.
LinksTyped == links \subseteq [user : DOMAIN users, identity : Providers \X Identities]

\* What a request has found out, where it still uses it.
Operations == (UNION {s.ops : s \in Setups}) \cup {None}
Mail == [purpose : Purposes, user : Names, at : Nat, to : Names, token : Nat] \cup {None}
Places ==
    {"idle", "bearer", "start", "actor", "store", "send", "password", "clear", "session", "insert", "change", "list", "delete", "purge",
     "write", "login", "link"}
Requests ==
    [op : Operations, pc : Places, name : Names \cup {None}, token : {0}, user : Nat, row : Nat, provider : Providers \cup {None},
     letter : Mail, listed : SUBSET Nat]

RequestSound(r) ==
    /\ r \in Requests
    /\ r.pc \in {"store", "write", "clear", "session", "insert"} => r.name \in Names
    /\ r.pc = "store" => r.op \in {"resend_verification", "forgot_password", "request_magic_link"}
    /\ r.pc \in {"clear", "session"} => r.user \in DOMAIN users
    /\ r.pc = "insert" => r.row \in DOMAIN users
    /\ r.pc = "send" => LetterSound(r.letter)
    /\ r.pc \in {"link", "login"} => r.provider \in Providers

RequestsSound == request \in [Clients -> Requests] /\ \A c \in Clients : RequestSound(request[c])

Tables ==
    /\ TypeOK /\ users \in Seq(Rows) /\ LinksTyped
    /\ \A s \in DOMAIN states : states[s].username \in Names \cup {None}

IInv ==
    /\ Tables /\ TokensApart /\ TokenUsedOnce /\ LettersSound /\ RequestsSound
    /\ AddressProven /\ ExternalOnlyKeepsConnection

(***************************************************************************)
(* Facts                                                                   *)
(***************************************************************************)
\* The bounds are numbers, and an installation asks for names that exist.
LEMMA ConstantsTyped ==
    /\ MaxTokens \in Nat /\ MaxNow \in Nat /\ MagicTtl \in Nat /\ None \notin Names
    /\ \A s \in Setups : s.names \subseteq Names /\ s.requests \in Nat /\ s.until \in 0 .. MaxNow
    /\ \A s \in Setups : s.durable \in BOOLEAN /\ s.redis \in BOOLEAN
BY AccountsAssumption

\* The one element that a query takes is one of those it found.
LEMMA TheIn == ASSUME NEW S, S # {} PROVE The(S) \in S
BY DEF The

\* The row of an account, and that no other has its name.
LEMMA RowTyped ==
    ASSUME Tables, NEW u \in DOMAIN users
    PROVE  users[u] \in Rows /\ \A v \in DOMAIN users : users[v].name = users[u].name => v = u
<1>1. users[u] \in Rows /\ Named(users[u].name) = {u}
  BY DEF Tables, TypeOK
<1> QED
  BY <1>1 DEF Named

\* A token that a statement stores, or takes away without consuming it, leaves the others apart.
LEMMA KeptStep ==
    ASSUME TokensApart, TokenUsedOnce, issued \in Nat, issued' \in {issued, issued + 1}, UNCHANGED used, NEW fresh,
           \A k \in Kept' : \/ k.token = 0
                            \/ k \in Kept
                            \/ k.token = issued + 1 /\ issued' = issued + 1 /\ k.place = fresh
    PROVE  TokensApart' /\ TokenUsedOnce'
<1>1. used' \in Seq(1 .. issued')
  BY SMT DEF TokensApart
<1>2. Range(used) \subseteq 1 .. issued /\ Range(used)' = Range(used)
  BY DEF TokensApart, Range
<1>3. \A k \in Kept' : k.token \in 0 .. issued' /\ (k.token # 0 => k.token \notin Range(used)')
  BY <1>2 DEF TokensApart
<1>4. \A k, l \in Kept' : k.token = l.token /\ k.token # 0 => k.place = l.place
  BY DEF TokensApart
<1> QED
  BY <1>1, <1>3, <1>4 DEF TokensApart, TokenUsedOnce

\* A token that is consumed was not consumed before, and is kept nowhere any longer.
LEMMA ConsumedStep ==
    ASSUME TokensApart, TokenUsedOnce, issued \in Nat, UNCHANGED issued, NEW taken \in Kept, taken.token # 0, Consumed(taken.token),
           \A k \in Kept' : k.token = 0 \/ (k \in Kept /\ k.place # taken.place)
    PROVE  TokensApart' /\ TokenUsedOnce'
<1> DEFINE t == taken.token
<1>1. t \in 1 .. issued /\ t \notin Range(used) /\ used \in Seq(1 .. issued)
  BY DEF TokensApart
<1> HIDE DEF t
<1>2. used' = Append(used, t)
  BY DEF Consumed, t
<1>3. used' \in Seq(1 .. issued) /\ Len(used') = Len(used) + 1 /\ DOMAIN used' = 1 .. Len(used) + 1
      /\ \A i \in 1 .. Len(used) : used'[i] = used[i]
  BY <1>1, <1>2
<1>4. used'[Len(used) + 1] = t
  BY <1>1, <1>2
<1>5. \A x \in Range(used)' : x \in Range(used) \/ x = t
  <2> SUFFICES ASSUME NEW i \in DOMAIN used' PROVE used'[i] \in Range(used) \/ used'[i] = t
    BY DEF Range
  <2>1. CASE i = Len(used) + 1
    BY <2>1, <1>4
  <2>2. CASE i \in 1 .. Len(used)
    BY <2>2, <1>1, <1>3 DEF Range
  <2> QED
    BY <1>1, <1>3, <2>1, <2>2
<1>6. \A k \in Kept' : k.token # 0 => k.token # t
  <2> SUFFICES ASSUME NEW k \in Kept', k.token # 0, k.token = t PROVE FALSE
    OBVIOUS
  <2>1. k \in Kept /\ k.place # taken.place /\ k.token = taken.token
    BY DEF t
  <2> QED
    BY <2>1 DEF TokensApart
<1>7. TokensApart'
  <2>1. \A k \in Kept' : k.token \in 0 .. issued /\ (k.token # 0 => k.token \notin Range(used)')
    BY <1>5, <1>6 DEF TokensApart
  <2>2. \A k, l \in Kept' : k.token = l.token /\ k.token # 0 => k.place = l.place
    BY DEF TokensApart
  <2> QED
    BY <1>3, <2>1, <2>2 DEF TokensApart
<1>8. TokenUsedOnce'
  <2> SUFFICES ASSUME NEW i \in DOMAIN used', NEW j \in DOMAIN used', used'[i] = used'[j] PROVE i = j
    BY DEF TokenUsedOnce
  <2> DEFINE m == Len(used)
  <2>0. m \in Nat /\ DOMAIN used = 1 .. m /\ DOMAIN used' = 1 .. m + 1 /\ used'[m + 1] = t
        /\ \A n \in 1 .. m : used'[n] = used[n]
    BY <1>1, <1>3, <1>4
  <2>1. \A n \in 1 .. m : used'[n] # t
    BY <1>1, <2>0 DEF Range
  <2> HIDE DEF m
  <2>2. (i \in 1 .. m \/ i = m + 1) /\ (j \in 1 .. m \/ j = m + 1)
    BY <2>0
  <2>3. CASE i \in 1 .. m /\ j \in 1 .. m
    BY <2>0, <2>3 DEF TokenUsedOnce
  <2> QED
    BY <2>0, <2>1, <2>2, <2>3
<1> QED
  BY <1>7, <1>8

\* How the addresses of an account may change: a token of its slots is gone, new or the one it was,
\* and then its address, or the one that is to be, is as before or was proven.
AddressKept(u) ==
    /\ \/ SlotToken(u, "verify_email")' \in {0, issued + 1}
       \/ /\ u \in DOMAIN users /\ SlotToken(u, "verify_email")' = SlotToken(u, "verify_email")
          /\ users'[u].name \in {users[u].name} \cup proven'
    /\ \/ SlotToken(u, "change_email")' \in {0, issued + 1}
       \/ /\ u \in DOMAIN users /\ SlotToken(u, "change_email")' = SlotToken(u, "change_email")
          /\ users'[u].pending = users[u].pending

AddressesKept ==
    /\ proven \subseteq proven' /\ issued \in Nat /\ issued' \in {issued, issued + 1}
    /\ DOMAIN users \subseteq DOMAIN users' /\ \A u \in DOMAIN users' : AddressKept(u)

\* Then what was written in earlier letters still holds.
LEMMA LetterKept == ASSUME AddressesKept, NEW l, LetterSound(l) PROVE LetterSound(l)'
<1>1. l \in [purpose : Purposes, user : Names, at : Nat, to : Names, token : 1 .. issued']
  BY DEF LetterSound, AddressesKept
<1> SUFFICES ASSUME NEW u \in DOMAIN users'
             PROVE  /\ SlotToken(u, "verify_email")' = l.token => users'[u].name \in {l.to} \cup proven'
                    /\ SlotToken(u, "change_email")' = l.token => users'[u].pending = l.to
  BY <1>1 DEF LetterSound
<1>2. l.token \in 1 .. issued
  BY DEF LetterSound
<1>3. l.token # 0 /\ l.token # issued + 1 /\ AddressKept(u)
  BY <1>2 DEF AddressesKept
<1> QED
  BY <1>3 DEF AddressKept, LetterSound, AddressesKept

\* A request that goes on leaves the others as they are.
LEMMA RequestsStep ==
    ASSUME RequestsSound, AddressesKept, NEW c \in Clients, NEW r, request' = [request EXCEPT ![c] = r], RequestSound(r)'
    PROVE  RequestsSound'
<1>1. request' \in [Clients -> Requests]
  BY DEF RequestsSound, RequestSound
<1> SUFFICES ASSUME NEW d \in Clients PROVE RequestSound(request[d])'
  BY <1>1 DEF RequestsSound
<1>2. CASE d = c
  <2>1. request'[d] = r
    BY <1>2 DEF RequestsSound
  <2> QED
    BY <2>1 DEF RequestSound, LetterSound, SlotToken
<1>3. CASE d # c
  <2>1. request'[d] = request[d] /\ RequestSound(request[d])
    BY <1>3 DEF RequestsSound
  <2>2. request[d].pc = "send" => LetterSound(request[d].letter)'
    BY <2>1, LetterKept DEF RequestSound
  <2> QED
    BY <2>1, <2>2 DEF RequestSound, LetterSound, SlotToken, AddressesKept
<1> QED
  BY <1>2, <1>3

(***************************************************************************)
(* The tables                                                              *)
(***************************************************************************)
OneLinkEach == \A k, l \in links : k.identity = l.identity \/ (k.user = l.user /\ k.identity[1] = l.identity[1]) => k = l

\* What each table may gain without losing its types.
LEMMA TablesStep ==
    ASSUME Tables, AddressesKept, UNCHANGED setup, now' \in 0 .. MaxNow, begun' \in 0 .. setup.requests, issued' <= MaxTokens,
           users' \in Seq(Rows), \A u \in DOMAIN users' : Named(users[u].name)' = {u}, LettersSound', LinksTyped', OneLinkEach',
           \A t \in DOMAIN sessions' : \/ t \in DOMAIN sessions /\ sessions'[t] = sessions[t]
                                       \/ t = issued' /\ t > 0 /\ sessions'[t] \in [user : DOMAIN users', name : Names],
           \A s \in DOMAIN states' : \/ s \in DOMAIN states /\ states'[s] = states[s]
                                     \/ /\ s = issued' /\ s > 0 /\ states'[s].provider \in Providers
                                        /\ states'[s].flow \in {"login", "link"} /\ states'[s].username \in Names \cup {None},
           DOMAIN signups' \subseteq Providers \X Identities
    PROVE  Tables'
<1>1. setup' \in Setups /\ now' \in 0 .. MaxNow /\ issued' \in 0 .. MaxTokens /\ begun' \in 0 .. setup'.requests
  BY ConstantsTyped DEF AddressesKept, Tables, TypeOK
<1>2. \A u \in DOMAIN users' : users'[u] \in Rows
  OBVIOUS
<1>3. \A t \in DOMAIN sessions' : t \in 1 .. issued' /\ sessions'[t] \in [user : DOMAIN users', name : Names]
  <2> SUFFICES ASSUME NEW t \in DOMAIN sessions', t \in DOMAIN sessions, sessions'[t] = sessions[t]
               PROVE  t \in 1 .. issued' /\ sessions'[t] \in [user : DOMAIN users', name : Names]
    BY DEF AddressesKept
  <2> QED
    BY DEF AddressesKept, Tables, TypeOK
<1>4. \A l \in letters' : l.purpose \in Purposes /\ l.token \in 1 .. issued' /\ {l.user, l.to} \subseteq Names
  BY DEF LettersSound, LetterSound
<1>5. \A s \in DOMAIN states' : s \in 1 .. issued' /\ states'[s].provider \in Providers /\ states'[s].flow \in {"login", "link"}
  BY DEF AddressesKept, Tables, TypeOK
<1>6. \A s \in DOMAIN states' : states'[s].username \in Names \cup {None}
  BY DEF AddressesKept, Tables, TypeOK
<1>7. TypeOK'
  BY <1>1, <1>2, <1>3, <1>4, <1>5 DEF TypeOK, OneLinkEach
<1> QED
  BY <1>6, <1>7 DEF Tables

\* The tables besides those of the accounts.
Quiet == UNCHANGED <<setup, now, begun, sessions, states, signups, links>>

\* One row changes, under a name that no other has.
LEMMA RowChanged ==
    ASSUME Tables, NEW u \in DOMAIN users, NEW row \in Rows, users' = [users EXCEPT ![u] = row], Named(row.name) \subseteq {u}
    PROVE  /\ users' \in Seq(Rows) /\ DOMAIN users' = DOMAIN users
           /\ \A v \in DOMAIN users : users'[v] = IF v = u THEN row ELSE users[v]
           /\ \A v \in DOMAIN users' : Named(users[v].name)' = {v}
<1>1. users \in Seq(Rows) /\ u \in 1 .. Len(users)
  BY DEF Tables
<1>2. users' \in Seq(Rows) /\ DOMAIN users' = DOMAIN users
  BY <1>1, ExceptSeq
<1>3. \A v \in DOMAIN users : users'[v] = IF v = u THEN row ELSE users[v]
  OBVIOUS
<1>4. ASSUME NEW v \in DOMAIN users', NEW w \in DOMAIN users', users'[w].name = users'[v].name PROVE w = v
  <2>1. CASE v = u \/ w = u
    BY <1>2, <1>3, <1>4, <2>1 DEF Named
  <2>2. CASE v # u /\ w # u
    BY <1>2, <1>3, <1>4, <2>2, RowTyped
  <2> QED
    BY <2>1, <2>2
<1> QED
  BY <1>2, <1>3, <1>4 DEF Named

\* A new account has a name that none has had.
LEMMA RowAdded ==
    ASSUME Tables, NEW row \in Rows, users' = Append(users, row), Named(row.name) = {}
    PROVE  /\ users' \in Seq(Rows) /\ Len(users) \in Nat /\ DOMAIN users = 1 .. Len(users) /\ DOMAIN users' = 1 .. Len(users) + 1
           /\ \A v \in DOMAIN users : users'[v] = users[v]
           /\ users'[Len(users) + 1] = row
           /\ \A v \in DOMAIN users' : Named(users[v].name)' = {v}
<1>1. users \in Seq(Rows) /\ Len(users) \in Nat /\ DOMAIN users = 1 .. Len(users)
  BY DEF Tables
<1>2. users' \in Seq(Rows) /\ DOMAIN users' = 1 .. Len(users) + 1 /\ users'[Len(users) + 1] = row
      /\ \A v \in 1 .. Len(users) : users'[v] = users[v]
  BY <1>1
<1>3. DOMAIN users' = DOMAIN users \cup {Len(users) + 1} /\ Len(users) + 1 \notin DOMAIN users
  BY <1>1, <1>2
<1>4. ASSUME NEW v \in DOMAIN users', NEW w \in DOMAIN users', users'[w].name = users'[v].name PROVE w = v
  <2>1. CASE v \in DOMAIN users /\ w \in DOMAIN users
    BY <1>1, <1>2, <1>4, <2>1, RowTyped
  <2>2. CASE v = Len(users) + 1 \/ w = Len(users) + 1
    BY <1>1, <1>2, <1>3, <1>4, <2>2 DEF Named
  <2> QED
    BY <1>3, <2>1, <2>2
<1> QED
  BY <1>1, <1>2, <1>4 DEF Named

(***************************************************************************)
(* One account changes                                                     *)
(***************************************************************************)
\* The tokens of an account are among those that were issued.
LEMMA SlotIssued ==
    ASSUME TokensApart, NEW u \in DOMAIN users, NEW p \in Consumable
    PROVE  SlotToken(u, p) \in 0 .. issued /\ [place |-> <<"slot", u, p>>, token |-> SlotToken(u, p)] \in Kept
<1> DEFINE k == [place |-> <<"slot", u, p>>, token |-> SlotToken(u, p)]
<1>1. k \in Kept
  BY DEF Kept, Slots
<1> QED
  BY <1>1 DEF TokensApart

\* What is kept after one row has changed.
LEMMA KeptOfRow ==
    ASSUME UNCHANGED <<states, signups>>, NEW u \in DOMAIN users, NEW row, DOMAIN users' = DOMAIN users,
           \A v \in DOMAIN users : users'[v] = IF v = u THEN row ELSE users[v], NEW k \in Kept'
    PROVE  \/ k \in Kept /\ \A p \in Consumable : k.place # <<"slot", u, p>>
           \/ \E p \in Consumable : k = [place |-> <<"slot", u, p>>, token |-> row.slots[p].token]
<1>1. CASE k \in States' \cup Signups'
  <2>1. k \in Kept /\ k.place[1] \in {"state", "signup"}
    BY <1>1 DEF States, Signups, Kept
  <2>2. \A p \in Consumable : <<"slot", u, p>>[1] = "slot"
    OBVIOUS
  <2> QED
    BY <2>1, <2>2
<1>2. CASE k \in Slots'
  <2>1. PICK v \in DOMAIN users', p \in Consumable : k = [place |-> <<"slot", v, p>>, token |-> SlotToken(v, p)']
    BY <1>2 DEF Slots
  <2>2. CASE v = u
    BY <2>1, <2>2 DEF SlotToken
  <2>3. CASE v # u
    <3>1. k \in Kept
      BY <2>1, <2>3 DEF SlotToken, Kept, Slots
    <3> QED
      BY <3>1, <2>1, <2>3
  <2> QED
    BY <2>2, <2>3
<1> QED
  BY <1>1, <1>2 DEF Kept

\* At most one slot of the row has the token of this step, the others their own or none.
OneToken(u, row, q) ==
    \A p \in Consumable : \/ row.slots[p].token \in {0, SlotToken(u, p)}
                          \/ p = q /\ row.slots[p].token = issued + 1 /\ issued' = issued + 1

\* A statement that stores at most one token in a row leaves the tokens apart.
LEMMA RowTokens ==
    ASSUME TokensApart, TokenUsedOnce, issued \in Nat, issued' \in {issued, issued + 1}, UNCHANGED <<states, signups, used>>,
           NEW u \in DOMAIN users, NEW row, DOMAIN users' = DOMAIN users, NEW q,
           \A v \in DOMAIN users : users'[v] = IF v = u THEN row ELSE users[v],
           OneToken(u, row, q)
    PROVE  TokensApart' /\ TokenUsedOnce'
<1>1. ASSUME NEW k \in Kept'
      PROVE  \/ k.token = 0
             \/ k \in Kept
             \/ k.token = issued + 1 /\ issued' = issued + 1 /\ k.place = <<"slot", u, q>>
  <2> SUFFICES ASSUME NEW p \in Consumable, k = [place |-> <<"slot", u, p>>, token |-> row.slots[p].token],
                      row.slots[p].token = SlotToken(u, p)
               PROVE  k \in Kept
    BY KeptOfRow DEF OneToken
  <2> QED
    BY SlotIssued
<1> QED
  BY <1>1, KeptStep

\* A statement that consumes the token of a slot clears it.
LEMMA RowConsumed ==
    ASSUME TokensApart, TokenUsedOnce, issued \in Nat, UNCHANGED <<issued, states, signups>>,
           NEW u \in DOMAIN users, NEW row, DOMAIN users' = DOMAIN users, NEW q \in Consumable,
           \A v \in DOMAIN users : users'[v] = IF v = u THEN row ELSE users[v],
           row.slots[q].token = 0, \A p \in Consumable : p # q => row.slots[p].token = SlotToken(u, p),
           SlotToken(u, q) # 0, Consumed(SlotToken(u, q))
    PROVE  TokensApart' /\ TokenUsedOnce'
<1> DEFINE taken == [place |-> <<"slot", u, q>>, token |-> SlotToken(u, q)]
<1>1. taken \in Kept /\ taken.token # 0 /\ Consumed(taken.token) /\ taken.place = <<"slot", u, q>>
  BY SlotIssued
<1> HIDE DEF taken
<1>2. ASSUME NEW k \in Kept' PROVE k.token = 0 \/ (k \in Kept /\ k.place # taken.place)
  <2> SUFFICES ASSUME NEW p \in Consumable, k = [place |-> <<"slot", u, p>>, token |-> row.slots[p].token]
               PROVE  k.token = 0 \/ (k \in Kept /\ k.place # taken.place)
    BY KeptOfRow, <1>1
  <2>1. CASE p = q
    BY <2>1
  <2>2. CASE p # q
    BY <2>2, <1>1, SlotIssued
  <2> QED
    BY <2>1, <2>2
<1> QED
  BY <1>1, <1>2, ConsumedStep

\* The facts about the accounts after one row has changed.
LEMMA RowKept ==
    ASSUME IInv, UNCHANGED links, NEW u \in DOMAIN users, NEW row \in Rows, users' = [users EXCEPT ![u] = row],
           Named(row.name) \subseteq {u}, row.external <=> users[u].external,
           proven \subseteq proven', row.verified => row.name \in proven', issued' \in {issued, issued + 1}, AddressKept(u)
    PROVE  /\ AddressesKept /\ AddressProven' /\ ExternalOnlyKeepsConnection' /\ LinksTyped' /\ OneLinkEach'
           /\ DOMAIN users' = DOMAIN users /\ \A v \in DOMAIN users : users'[v] = IF v = u THEN row ELSE users[v]
<1>1. /\ users' \in Seq(Rows) /\ DOMAIN users' = DOMAIN users
      /\ \A v \in DOMAIN users : users'[v] = IF v = u THEN row ELSE users[v]
  BY RowChanged DEF IInv
<1>2. AddressesKept
  <2>1. \A v \in DOMAIN users' : AddressKept(v)
    BY <1>1 DEF AddressKept, SlotToken
  <2> QED
    BY <1>1, <2>1 DEF AddressesKept, IInv, Tables, TypeOK
<1>3. AddressProven'
  BY <1>1 DEF AddressProven, IInv
<1>4. ExternalOnlyKeepsConnection'
  BY <1>1 DEF ExternalOnlyKeepsConnection, IInv, LinksOf
<1>5. LinksTyped' /\ OneLinkEach'
  BY <1>1 DEF LinksTyped, OneLinkEach, IInv, Tables, TypeOK
<1> QED
  BY <1>1, <1>2, <1>3, <1>4, <1>5

LEMMA RowStep ==
    ASSUME IInv, Quiet, NEW c \in Clients, NEW r, request' = [request EXCEPT ![c] = r], RequestSound(r)',
           NEW u \in DOMAIN users, NEW row \in Rows, users' = [users EXCEPT ![u] = row],
           Named(row.name) \subseteq {u}, row.external <=> users[u].external,
           proven \subseteq proven', row.verified => row.name \in proven', issued' \in {issued, issued + 1}, AddressKept(u),
           issued' <= MaxTokens, LettersSound', TokensApart', TokenUsedOnce'
    PROVE  IInv'
<1>1. AddressesKept /\ AddressProven' /\ ExternalOnlyKeepsConnection' /\ LinksTyped' /\ OneLinkEach'
  BY RowKept DEF Quiet
<1>2. users' \in Seq(Rows) /\ \A v \in DOMAIN users' : Named(users[v].name)' = {v}
  BY RowChanged DEF IInv
<1>3. DOMAIN signups' \subseteq Providers \X Identities /\ now' \in 0 .. MaxNow /\ begun' \in 0 .. setup.requests
  BY DEF Quiet, IInv, Tables, TypeOK
<1>4. Tables'
  BY <1>1, <1>2, <1>3, TablesStep DEF Quiet, IInv
<1>5. RequestsSound'
  BY <1>1, RequestsStep DEF IInv
<1> QED
  BY <1>1, <1>4, <1>5 DEF IInv

(***************************************************************************)
(* An account is added                                                     *)
(***************************************************************************)
\* What is kept after a row was added, with at most the token of a verification.
LEMMA KeptOfAdded ==
    ASSUME Tables, NEW row \in Rows, users' = Append(users, row), Named(row.name) = {}, row.slots["change_email"].token = 0,
           UNCHANGED states, NEW k \in Kept'
    PROVE  \/ k \in Kept \cup Signups' \/ k.token = 0
           \/ k = [place |-> <<"slot", Len(users) + 1, "verify_email">>, token |-> row.slots["verify_email"].token]
<1>1. /\ Len(users) \in Nat /\ DOMAIN users = 1 .. Len(users) /\ DOMAIN users' = 1 .. Len(users) + 1
      /\ \A v \in DOMAIN users : users'[v] = users[v]
      /\ users'[Len(users) + 1] = row
  BY RowAdded
<1>2. CASE k \in States'
  BY <1>2 DEF States, Kept
<1>3. CASE k \in Slots'
  <2>1. PICK v \in DOMAIN users', p \in Consumable : k = [place |-> <<"slot", v, p>>, token |-> SlotToken(v, p)']
    BY <1>3 DEF Slots
  <2>2. CASE v = Len(users) + 1
    BY <1>1, <2>1, <2>2 DEF SlotToken, Consumable
  <2>3. CASE v \in DOMAIN users
    <3>1. SlotToken(v, p)' = SlotToken(v, p)
      BY <1>1, <2>3 DEF SlotToken
    <3> QED
      BY <2>1, <2>3, <3>1 DEF Kept, Slots
  <2> QED
    BY <1>1, <2>2, <2>3
<1> QED
  BY <1>2, <1>3 DEF Kept

LEMMA AddedKept ==
    ASSUME IInv, NEW row \in Rows, users' = Append(users, row), Named(row.name) = {}, proven \subseteq proven',
           row.verified => row.name \in proven', issued' \in {issued, issued + 1},
           row.slots["verify_email"].token \in {0, issued + 1}, row.slots["change_email"].token = 0,
           links \subseteq links', row.external => \E l \in links' : l.user = Len(users) + 1
    PROVE  AddressesKept /\ AddressProven' /\ ExternalOnlyKeepsConnection'
<1>1. /\ Len(users) \in Nat /\ DOMAIN users = 1 .. Len(users) /\ DOMAIN users' = 1 .. Len(users) + 1
      /\ \A v \in DOMAIN users : users'[v] = users[v]
      /\ users'[Len(users) + 1] = row
  BY RowAdded DEF IInv
<1>2. DOMAIN users' = DOMAIN users \cup {Len(users) + 1}
  BY <1>1
<1>3. AddressesKept
  <2>1. ASSUME NEW v \in DOMAIN users' PROVE AddressKept(v)
    <3>1. CASE v \in DOMAIN users
      BY <1>1, <3>1 DEF AddressKept, SlotToken
    <3>2. CASE v = Len(users) + 1
      <4>1. users'[v] = row
        BY <1>1, <3>2
      <4> QED
        BY <4>1 DEF AddressKept, SlotToken
    <3> QED
      BY <1>2, <3>1, <3>2
  <2> QED
    BY <1>2, <2>1 DEF AddressesKept, IInv, Tables, TypeOK
<1>4. AddressProven'
  BY <1>1, <1>2 DEF AddressProven, IInv
<1>5. ExternalOnlyKeepsConnection'
  BY <1>1, <1>2 DEF ExternalOnlyKeepsConnection, IInv, LinksOf
<1> QED
  BY <1>3, <1>4, <1>5

LEMMA AddedStep ==
    ASSUME IInv, UNCHANGED <<setup, now, begun, sessions, states>>, NEW c \in Clients, NEW r, request' = [request EXCEPT ![c] = r],
           RequestSound(r)', NEW row \in Rows, users' = Append(users, row), Named(row.name) = {}, proven \subseteq proven',
           row.verified => row.name \in proven', issued' \in {issued, issued + 1}, issued' <= MaxTokens,
           row.slots["verify_email"].token \in {0, issued + 1}, row.slots["change_email"].token = 0,
           links \subseteq links', row.external => \E l \in links' : l.user = Len(users) + 1,
           LinksTyped', OneLinkEach', DOMAIN signups' \subseteq DOMAIN signups, LettersSound', TokensApart', TokenUsedOnce'
    PROVE  IInv'
<1>1. AddressesKept /\ AddressProven' /\ ExternalOnlyKeepsConnection'
  BY AddedKept
<1>2. users' \in Seq(Rows) /\ \A v \in DOMAIN users' : Named(users[v].name)' = {v}
  BY RowAdded DEF IInv
<1>3. DOMAIN signups' \subseteq Providers \X Identities /\ now' \in 0 .. MaxNow /\ begun' \in 0 .. setup.requests
  BY DEF IInv, Tables, TypeOK
<1>4. Tables'
  BY <1>1, <1>2, <1>3, TablesStep DEF IInv
<1>5. RequestsSound'
  BY <1>1, RequestsStep DEF IInv
<1> QED
  BY <1>1, <1>4, <1>5 DEF IInv

(***************************************************************************)
(* The accounts stay as they are                                           *)
(***************************************************************************)
LEMMA StillKept ==
    ASSUME IInv, UNCHANGED <<users, letters, proven>>, issued' \in {issued, issued + 1}
    PROVE  AddressesKept /\ AddressProven' /\ LettersSound'
<1>1. AddressesKept
  BY DEF AddressesKept, AddressKept, SlotToken, IInv, Tables, TypeOK
<1>2. LettersSound'
  BY <1>1, LetterKept DEF LettersSound, IInv
<1>3. AddressProven'
  BY DEF AddressProven, IInv
<1> QED
  BY <1>1, <1>2, <1>3

LEMMA StillStep ==
    ASSUME IInv, UNCHANGED <<setup, users, letters, proven>>, issued' \in {issued, issued + 1}, issued' <= MaxTokens,
           now' \in 0 .. MaxNow, begun' \in 0 .. setup.requests, RequestsSound',
           \A t \in DOMAIN sessions' : \/ t \in DOMAIN sessions /\ sessions'[t] = sessions[t]
                                       \/ t = issued' /\ t > 0 /\ sessions'[t] \in [user : DOMAIN users, name : Names],
           \A s \in DOMAIN states' : \/ s \in DOMAIN states /\ states'[s] = states[s]
                                     \/ /\ s = issued' /\ s > 0 /\ states'[s].provider \in Providers
                                        /\ states'[s].flow \in {"login", "link"} /\ states'[s].username \in Names \cup {None},
           DOMAIN signups' \subseteq Providers \X Identities,
           LinksTyped', OneLinkEach', ExternalOnlyKeepsConnection', TokensApart', TokenUsedOnce'
    PROVE  IInv'
<1>1. AddressesKept /\ AddressProven' /\ LettersSound'
  BY StillKept
<1>2. users' \in Seq(Rows) /\ \A v \in DOMAIN users' : Named(users[v].name)' = {v}
  BY DEF IInv, Tables, TypeOK, Named
<1>3. Tables'
  BY <1>1, <1>2, TablesStep DEF IInv
<1> QED
  BY <1>1, <1>3 DEF IInv

\* Only the requests, and what the limiter keeps, change.
LEMMA RequestStep ==
    ASSUME IInv, UNCHANGED <<setup, now, users, sessions, letters, issued, proven, used, states, signups, links>>,
           begun' \in 0 .. setup.requests, NEW c \in Clients, NEW r, request' = [request EXCEPT ![c] = r], RequestSound(r)
    PROVE  IInv'
<1>1. AddressesKept
  BY StillKept DEF IInv, Tables, TypeOK
<1>2. RequestSound(r)'
  BY DEF RequestSound, LetterSound, SlotToken
<1>3. RequestsSound'
  BY <1>1, <1>2, RequestsStep DEF IInv
<1>4. TokensApart' /\ TokenUsedOnce'
  BY DEF TokensApart, TokenUsedOnce, Kept, Slots, States, Signups, SlotToken, IInv
<1>5. LinksTyped' /\ OneLinkEach' /\ ExternalOnlyKeepsConnection'
  BY DEF LinksTyped, OneLinkEach, ExternalOnlyKeepsConnection, LinksOf, IInv, Tables, TypeOK
<1>6. DOMAIN signups' \subseteq Providers \X Identities /\ now' \in 0 .. MaxNow /\ issued' \in {issued, issued + 1} /\ issued' <= MaxTokens
  BY ConstantsTyped DEF IInv, Tables, TypeOK
<1> QED
  BY <1>3, <1>4, <1>5, <1>6, StillStep

(***************************************************************************)
(* Steps of a request that only read                                       *)
(***************************************************************************)
LEMMA IdleSound == RequestSound(Idle)
<1>1. Idle \in Requests /\ Idle.pc = "idle"
  <2>1. None \in Operations /\ None \in Mail
    BY DEF Operations, Mail
  <2> QED
    BY <2>1 DEF Requests, Places, Idle
<1> QED
  BY <1>1 DEF RequestSound

\* The request of a client, and what is known of it.
LEMMA RequestTyped ==
    ASSUME IInv, NEW c \in Clients
    PROVE  request \in [Clients -> Requests] /\ request[c] \in Requests /\ RequestSound(request[c])
BY DEF IInv, RequestsSound

\* The tables of a step that only reads.
Reads == UNCHANGED <<setup, now, users, sessions, letters, issued, proven, used, states, signups, links>>

LEMMA EndStep == ASSUME IInv, Reads, begun' \in 0 .. setup.requests, NEW c \in Clients, End(c) PROVE IInv'
<1>1. PICK r : r = Idle
  OBVIOUS
<1> QED
  BY <1>1, IdleSound, RequestStep DEF End, Set, Reads

LEMMA BegunKept == ASSUME IInv, UNCHANGED begun PROVE begun' \in 0 .. setup.requests
BY DEF IInv, Tables, TypeOK

LEMMA FoundSound ==
    ASSUME IInv, NEW c \in Clients, NEW u \in DOMAIN users, NEW pc \in {"store", "password", "session", "change", "list", "clear"},
           pc = "store" => request[c].op \in {"resend_verification", "forgot_password", "request_magic_link"},
           NEW r, r = [request[c] EXCEPT !.pc = pc, !.name = users[u].name, !.user = u]
    PROVE  RequestSound(r)
<1>1. users[u] \in Rows /\ u \in Nat
  BY RowTyped DEF IInv, Tables
<1>2. users[u].name \in Names
  BY <1>1 DEF Rows
<1>3. r \in Requests /\ r.op = request[c].op /\ r.pc = pc /\ r.name = users[u].name /\ r.user = u
  BY <1>1, <1>2, RequestTyped DEF Requests, Places
<1> QED
  BY <1>2, <1>3 DEF RequestSound

LEMMA FoundStep ==
    ASSUME IInv, Reads, UNCHANGED begun, NEW c \in Clients, NEW u \in DOMAIN users,
           NEW pc \in {"store", "password", "session", "change", "list", "clear"},
           pc = "store" => request[c].op \in {"resend_verification", "forgot_password", "request_magic_link"}, Found(c, u, pc)
    PROVE  IInv'
<1>1. PICK r : r = [request[c] EXCEPT !.pc = pc, !.name = users[u].name, !.user = u]
  OBVIOUS
<1>2. RequestSound(r) /\ request' = [request EXCEPT ![c] = r]
  BY <1>1, FoundSound DEF Found, Set
<1> QED
  BY <1>2, BegunKept, RequestStep DEF Reads

LEMMA FindUserStep ==
    ASSUME IInv, NEW c \in Clients, NEW name, NEW verify \in BOOLEAN, NEW pc \in {"store", "password", "session", "change", "list", "clear"},
           pc = "store" => request[c].op \in {"resend_verification", "forgot_password", "request_magic_link"},
           FindUser(c, name, verify, pc), UNCHANGED external
    PROVE  IInv'
<1>1. Reads /\ UNCHANGED begun
  BY DEF FindUser, Still, Issued, Rest, external, Reads
<1>2. CASE End(c)
  BY <1>1, <1>2, BegunKept, EndStep
<1>3. CASE ~End(c)
  <2>1. PICK u \in DOMAIN users : Found(c, u, pc)
    BY <1>3, TheIn DEF FindUser, Live, Named
  <2> QED
    BY <1>1, <2>1, FoundStep
<1> QED
  BY <1>2, <1>3

LEMMA BeginStep == ASSUME IInv, NEW c \in Clients, Begin(c), UNCHANGED external PROVE IInv'
<1>1. begun' \in 0 .. setup.requests /\ Reads
  BY ConstantsTyped DEF Begin, IInv, Tables, TypeOK, Still, Issued, external, Reads
<1>2. CASE End(c)
  BY <1>1, <1>2, EndStep
<1>3. CASE ~End(c)
  <2>1. PICK op, r : op \in setup.ops
           /\ r = [Idle EXCEPT !.op = op, !.pc = IF op \in BearerOperations THEN "bearer" ELSE "start"]
           /\ request' = [request EXCEPT ![c] = r]
    BY <1>3 DEF Begin, Set, End, Admit
  <2>2. op \in Operations
    BY <2>1 DEF IInv, Tables, TypeOK, Operations
  <2>3. Idle \in Requests
    BY IdleSound DEF RequestSound
  <2>4. r \in Requests /\ r.pc \in {"bearer", "start"}
    BY <2>1, <2>2, <2>3 DEF Requests, Places
  <2>5. RequestSound(r)
    BY <2>4 DEF RequestSound
  <2> QED
    BY <1>1, <2>1, <2>5, RequestStep DEF Reads
<1> QED
  BY <1>2, <1>3

LEMMA BearerStep == ASSUME IInv, NEW c \in Clients, Bearer(c), UNCHANGED external PROVE IInv'
<1>1. Reads /\ UNCHANGED begun
  BY DEF Bearer, Still, Issued, Rest, external, Reads
<1>2. CASE End(c)
  BY <1>1, <1>2, BegunKept, EndStep
<1>3. CASE ~End(c)
  <2>1. PICK t, r : t \in DOMAIN sessions
           /\ r = [request[c] EXCEPT !.pc = "actor", !.name = sessions[t].name] /\ request' = [request EXCEPT ![c] = r]
    BY <1>3 DEF Bearer, Set
  <2>2. sessions[t].name \in Names
    BY <2>1 DEF IInv, Tables, TypeOK
  <2>3. r \in Requests /\ r.pc = "actor"
    BY <2>1, <2>2, RequestTyped DEF Requests, Places
  <2>4. RequestSound(r)
    BY <2>3 DEF RequestSound
  <2> QED
    BY <1>1, <2>1, <2>4, BegunKept, RequestStep DEF Reads
<1> QED
  BY <1>2, <1>3

LEMMA AskingStep ==
    ASSUME IInv, NEW c \in Clients, UNCHANGED external,
           AskForToken(c) \/ ResendVerification(c) \/ ChangePassword(c) \/ Login(c) \/ AskForChange(c) \/ LeaveCheck(c)
    PROVE  IInv'
<1>1. CASE AskForToken(c)
  <2>1. PICK n \in setup.names : FindUser(c, n, FALSE, "store")
    BY <1>1 DEF AskForToken
  <2>2. request[c].op \in {"resend_verification", "forgot_password", "request_magic_link"}
    BY <1>1 DEF AskForToken, At
  <2> QED
    BY <2>1, <2>2, FindUserStep
<1>2. CASE ResendVerification(c)
  <2>1. CASE End(c) /\ Still /\ Issued /\ Rest
    BY <2>1, BegunKept, EndStep DEF Still, Issued, Rest, external, Reads
  <2>2. CASE ~(End(c) /\ Still /\ Issued /\ Rest)
    <3>1. PICK n : n = request[c].name /\ FindUser(c, n, FALSE, "store")
      BY <1>2, <2>2 DEF ResendVerification
    <3>2. request[c].op \in {"resend_verification", "forgot_password", "request_magic_link"}
      BY <1>2 DEF ResendVerification, At
    <3> QED
      BY <3>1, <3>2, FindUserStep
  <2> QED
    BY <2>1, <2>2
<1>3. CASE ChangePassword(c) \/ AskForChange(c)
  <2>1. PICK n, pc : n = request[c].name /\ pc \in {"password", "change"} /\ FindUser(c, n, TRUE, pc)
    BY <1>3 DEF ChangePassword, AskForChange
  <2> QED
    BY <2>1, FindUserStep
<1>4. CASE Login(c)
  <2>1. PICK n \in setup.names : FindUser(c, n, TRUE, "session")
    BY <1>4 DEF Login
  <2> QED
    BY <2>1, FindUserStep
<1>5. CASE LeaveCheck(c)
  <2>1. CASE End(c) /\ Still /\ Issued /\ Rest
    BY <2>1, BegunKept, EndStep DEF Still, Issued, Rest, external, Reads
  <2>2. CASE ~(End(c) /\ Still /\ Issued /\ Rest)
    <3>1. PICK n : n = request[c].name /\ FindUser(c, n, TRUE, "list")
      BY <1>5, <2>2 DEF LeaveCheck
    <3> QED
      BY <3>1, FindUserStep
  <2> QED
    BY <2>1, <2>2
<1> QED
  BY <1>1, <1>2, <1>3, <1>4, <1>5

LEMMA FindByTokenStep ==
    ASSUME IInv, NEW c \in Clients, UNCHANGED external, FindByResetToken(c) \/ FindByMagicLink(c)
    PROVE  IInv'
<1>1. Reads /\ UNCHANGED begun
  BY DEF FindByResetToken, FindByMagicLink, Still, Issued, Rest, external, Reads
<1>2. CASE End(c)
  BY <1>1, <1>2, BegunKept, EndStep
<1>3. CASE ~End(c)
  <2>1. PICK u \in DOMAIN users, pc \in {"password", "clear"} : Found(c, u, pc)
    <3>1. CASE FindByResetToken(c)
      BY <1>3, <3>1, TheIn DEF FindByResetToken, Holding
    <3>2. CASE FindByMagicLink(c)
      BY <1>3, <3>2, TheIn DEF FindByMagicLink, Holding
    <3> QED
      BY <3>1, <3>2
  <2> QED
    BY <1>1, <2>1, FoundStep
<1> QED
  BY <1>2, <1>3

LEMMA CreateSessionStep == ASSUME IInv, NEW c \in Clients, CreateSession(c), UNCHANGED external PROVE IInv'
<1>1. Reads /\ UNCHANGED begun
  BY DEF CreateSession, Still, Issued, Rest, external, Reads
<1>2. CASE End(c)
  BY <1>1, <1>2, BegunKept, EndStep
<1>3. CASE ~End(c)
  <2>1. request[c].user \in DOMAIN users /\ request[c].name \in Names
    BY RequestTyped DEF CreateSession, RequestSound
  <2>2. PICK u, r : u \in DOMAIN users /\ r = [request[c] EXCEPT !.pc = "insert", !.row = u] /\ request' = [request EXCEPT ![c] = r]
    BY <1>3, <2>1, TheIn DEF CreateSession, Set, Live, Named
  <2>3. u \in Nat
    BY <2>2 DEF IInv, Tables
  <2>4. r \in Requests /\ r.pc = "insert" /\ r.row = u /\ r.name = request[c].name
    BY <2>2, <2>3, RequestTyped DEF Requests, Places
  <2>5. RequestSound(r)
    BY <2>1, <2>2, <2>4 DEF RequestSound
  <2> QED
    BY <1>1, <2>2, <2>5, BegunKept, RequestStep DEF Reads
<1> QED
  BY <1>2, <1>3

LEMMA ListAndAdminStep == ASSUME IInv, NEW c \in Clients, UNCHANGED external, LeaveList(c) \/ AdminStart(c) PROVE IInv'
<1>1. Reads /\ UNCHANGED begun
  BY DEF LeaveList, AdminStart, Still, Issued, Rest, external, Reads
<1>2. CASE End(c)
  BY <1>1, <1>2, BegunKept, EndStep
<1>3. CASE LeaveList(c)
  <2>1. PICK r, S : S = SessionsOf(request[c].name) /\ r = [request[c] EXCEPT !.pc = "delete", !.listed = S] /\ request' = [request EXCEPT ![c] = r]
    BY <1>3 DEF LeaveList, Set
  <2>2. S \subseteq Nat
    BY <2>1 DEF SessionsOf, IInv, Tables, TypeOK
  <2>3. r \in Requests /\ r.pc = "delete"
    BY <2>1, <2>2, RequestTyped DEF Requests, Places
  <2>4. RequestSound(r)
    BY <2>3 DEF RequestSound
  <2> QED
    BY <1>1, <2>1, <2>4, BegunKept, RequestStep DEF Reads
<1>4. CASE AdminStart(c) /\ ~End(c)
  <2>1. PICK n, r : n \in setup.names /\ r = [request[c] EXCEPT !.pc = "write", !.name = n] /\ request' = [request EXCEPT ![c] = r]
    BY <1>4 DEF AdminStart, Set
  <2>2. n \in Names
    BY <2>1, ConstantsTyped DEF IInv, Tables, TypeOK
  <2>3. r \in Requests /\ r.pc = "write" /\ r.name = n
    BY <2>1, <2>2, RequestTyped DEF Requests, Places
  <2>4. RequestSound(r)
    BY <2>2, <2>3 DEF RequestSound
  <2> QED
    BY <1>1, <2>1, <2>4, BegunKept, RequestStep DEF Reads
<1> QED
  BY <1>2, <1>3, <1>4

(***************************************************************************)
(* Steps that change a row                                                 *)
(***************************************************************************)
SlotTypes == [token : 0 .. MaxTokens, at : 0 .. MaxNow + MagicTtl]

\* The columns of a row that the statements leave alone.
SameKind(x, y) == y.name = x.name /\ (y.external <=> x.external) /\ y.pending = x.pending

LEMMA RowFields ==
    ASSUME NEW x \in Rows
    PROVE  /\ x.name \in Names /\ x.deleted \in BOOLEAN /\ x.verified \in BOOLEAN /\ x.external \in BOOLEAN
           /\ x.pending \in Names \cup {None} /\ x.slots \in [Purposes -> SlotTypes]
           /\ \A p \in Purposes : x.slots[p].token \in 0 .. MaxTokens
BY DEF Rows, SlotTypes

LEMMA BlankTyped == Blank \in SlotTypes /\ Blank.token = 0
BY ConstantsTyped DEF Blank, SlotTypes

LEMMA PurposesApart ==
    /\ Consumable \subseteq Purposes /\ "verify_email" \in Consumable /\ "change_email" \in Consumable
    /\ "reset_password" \in Purposes \ Consumable /\ "magic_link" \in Purposes \ Consumable
BY DEF Purposes, Consumable

LEMMA SlotSet ==
    ASSUME NEW x \in Rows, NEW p \in Purposes, NEW s \in SlotTypes, NEW y, y = [x EXCEPT !.slots[p] = s]
    PROVE  /\ y \in Rows /\ SameKind(x, y) /\ (y.verified <=> x.verified)
           /\ y.slots[p] = s /\ \A q \in Purposes : q # p => y.slots[q] = x.slots[q]
<1>1. x.slots \in [Purposes -> SlotTypes]
  BY DEF Rows, SlotTypes
<1> DEFINE f == [x.slots EXCEPT ![p] = s]
<1>2. f \in [Purposes -> SlotTypes] /\ \A q \in Purposes : f[q] = IF q = p THEN s ELSE x.slots[q]
  BY <1>1
<1>3. y = [x EXCEPT !.slots = f]
  OBVIOUS
<1> HIDE DEF f
<1> QED
  BY <1>2, <1>3 DEF Rows, SlotTypes, SameKind

LEMMA FlagsSet ==
    ASSUME NEW x \in Rows, NEW password \in {"chosen", "random"}, NEW deleted \in BOOLEAN, NEW verified \in BOOLEAN,
           NEW y, y = [x EXCEPT !.password = password, !.deleted = deleted, !.verified = verified]
    PROVE  y \in Rows /\ SameKind(x, y) /\ y.slots = x.slots /\ (y.verified <=> verified)
BY DEF Rows, SameKind

\* A row keeps its name and the address it is to move to; its tokens stay or are gone.
LEMMA PlainStep ==
    ASSUME IInv, Quiet, UNCHANGED <<letters, issued, used>>, NEW c \in Clients, NEW r, request' = [request EXCEPT ![c] = r],
           RequestSound(r), NEW u \in DOMAIN users, NEW row \in Rows, users' = [users EXCEPT ![u] = row], SameKind(users[u], row),
           \A p \in Consumable : row.slots[p].token \in {0, SlotToken(u, p)},
           proven \subseteq proven', row.verified => row.name \in proven'
    PROVE  IInv'
<1>1. Named(row.name) \subseteq {u}
  BY RowTyped DEF Named, SameKind, IInv
<1>2. /\ DOMAIN users' = DOMAIN users /\ \A v \in DOMAIN users : users'[v] = IF v = u THEN row ELSE users[v]
  BY <1>1, RowChanged DEF IInv
<1>3. AddressKept(u)
  BY <1>2 DEF AddressKept, SlotToken, SameKind, Consumable
<1>4. AddressesKept
  BY <1>1, <1>3, RowKept DEF SameKind, Quiet
<1>5. LettersSound'
  BY <1>4, LetterKept DEF LettersSound, IInv
<1>6. RequestSound(r)'
  <2>1. r.pc = "send" => LetterSound(r.letter)'
    BY <1>4, LetterKept DEF RequestSound
  <2> QED
    BY <1>2, <2>1 DEF RequestSound, LetterSound, SlotToken
<1>7. issued \in Nat /\ issued' \in {issued, issued + 1} /\ issued' <= MaxTokens
  BY ConstantsTyped DEF IInv, Tables, TypeOK
<1>8. TokensApart' /\ TokenUsedOnce'
  <2>1. PICK q : OneToken(u, row, q)
    BY DEF OneToken
  <2> QED
    BY <1>2, <1>7, <2>1, RowTokens DEF IInv, Quiet
<1> QED
  BY <1>1, <1>3, <1>5, <1>6, <1>7, <1>8, RowStep DEF SameKind

\* No row changes.
LEMMA NoRowStep ==
    ASSUME IInv, Quiet, UNCHANGED <<letters, issued, used, users, proven>>, NEW c \in Clients, NEW r,
           request' = [request EXCEPT ![c] = r], RequestSound(r)
    PROVE  IInv'
BY BegunKept, RequestStep DEF Quiet

LEMMA GoSound ==
    ASSUME IInv, NEW c \in Clients, NEW pc \in Places, pc \in {"store", "insert", "write", "send", "link", "login"} => FALSE,
           pc \in {"session", "clear"} => request[c].pc \in {"session", "clear"}, NEW r, r = [request[c] EXCEPT !.pc = pc]
    PROVE  RequestSound(r)
<1>1. r \in Requests /\ r.op = request[c].op /\ r.pc = pc /\ r.name = request[c].name /\ r.user = request[c].user
  BY RequestTyped DEF Requests
<1> QED
  BY <1>1, RequestTyped DEF RequestSound

\* The statements that clear a token of the other two slots.
LEMMA ClearStep == ASSUME IInv, NEW c \in Clients, ResetPassword(c) \/ ClearMagicLink(c), UNCHANGED external PROVE IInv'
<1>1. Quiet /\ UNCHANGED <<letters, issued, used, proven>>
  BY DEF ResetPassword, ClearMagicLink, Issued, Rest, external, Quiet
<1>2. PICK r : RequestSound(r) /\ request' = [request EXCEPT ![c] = r]
  <2>1. CASE ResetPassword(c)
    BY <2>1, IdleSound DEF ResetPassword, End, Set
  <2>2. CASE ClearMagicLink(c)
    <3>1. PICK r : r = [request[c] EXCEPT !.pc = "session"]
      OBVIOUS
    <3>2. RequestSound(r)
      BY <2>2, <3>1, GoSound DEF ClearMagicLink, Places
    <3> QED
      BY <2>2, <3>1, <3>2 DEF ClearMagicLink, Go, Set
  <2> QED
    BY <2>1, <2>2
<1>3. CASE users' = users
  BY <1>1, <1>2, <1>3, NoRowStep
<1>4. CASE users' # users
  <2>1. PICK u, row :
           /\ u \in DOMAIN users
           /\ row \in Rows /\ SameKind(users[u], row) /\ (row.verified <=> users[u].verified)
           /\ \A q \in Consumable : row.slots[q] = users[u].slots[q]
           /\ users' = [users EXCEPT ![u] = row]
    <3>1. CASE ResetPassword(c)
      <4>1. PICK u \in DOMAIN users : users' = [users EXCEPT ![u] = [@ EXCEPT !.password = "chosen", !.slots["reset_password"] = Blank]]
        BY <1>4, <3>1, TheIn DEF ResetPassword, Live, Named
      <4>2. PICK x, row : x = [users[u] EXCEPT !.password = "chosen"] /\ row = [x EXCEPT !.slots["reset_password"] = Blank]
        OBVIOUS
      <4>3. users[u] \in Rows
        BY RowTyped DEF IInv
      <4>4. row = [users[u] EXCEPT !.password = "chosen", !.slots["reset_password"] = Blank]
        BY <4>2, <4>3 DEF Rows
      <4>5. x \in Rows /\ SameKind(users[u], x) /\ x.slots = users[u].slots /\ (x.verified <=> users[u].verified)
        BY <4>2, <4>3 DEF Rows, SameKind
      <4>6. row \in Rows /\ SameKind(x, row) /\ (row.verified <=> x.verified) /\ \A q \in Consumable : row.slots[q] = x.slots[q]
        <5>1. "reset_password" \in Purposes /\ Blank \in SlotTypes /\ x \in Rows
          BY <4>5, BlankTyped, PurposesApart
        <5>2. row = [x EXCEPT !.slots["reset_password"] = Blank]
          BY <4>2
        <5>3. row \in Rows
          BY <5>1, <5>2, SlotSet
        <5>4. SameKind(x, row) /\ (row.verified <=> x.verified)
          BY <5>1, <5>2, SlotSet
        <5>5. \A q \in Purposes : q # "reset_password" => row.slots[q] = x.slots[q]
          BY <5>1, <5>2, SlotSet
        <5> QED
          BY <5>3, <5>4, <5>5, PurposesApart
      <4>7. SameKind(users[u], row)
        BY <4>5, <4>6 DEF SameKind
      <4>8. users' = [users EXCEPT ![u] = row]
        BY <4>1, <4>4
      <4> QED
        BY <4>5, <4>6, <4>7, <4>8
    <3>2. CASE ClearMagicLink(c)
      <4>1. PICK u \in DOMAIN users : users' = [users EXCEPT ![u].slots["magic_link"] = Blank]
        BY <1>4, <3>2, TheIn DEF ClearMagicLink, Live, Named, WithToken, Blank
      <4>2. PICK row : row = [users[u] EXCEPT !.slots["magic_link"] = Blank]
        OBVIOUS
      <4>3. users[u] \in Rows
        BY RowTyped DEF IInv
      <4>4. row \in Rows /\ SameKind(users[u], row) /\ (row.verified <=> users[u].verified)
            /\ \A q \in Consumable : row.slots[q] = users[u].slots[q]
        BY <4>2, <4>3, SlotSet, BlankTyped, PurposesApart
      <4> QED
        BY <4>1, <4>2, <4>4
    <3> QED
      BY <3>1, <3>2
  <2>5. SameKind(users[u], row) /\ \A q \in Consumable : row.slots[q].token \in {0, SlotToken(u, q)}
    BY <2>1 DEF SlotToken
  <2>6. proven \subseteq proven' /\ (row.verified => row.name \in proven')
    BY <1>1, <2>1 DEF SameKind, IInv, AddressProven
  <2> QED
    BY <1>1, <1>2, <2>1, <2>5, <2>6, PlainStep
<1> QED
  BY <1>3, <1>4

\* An account is marked deleted.
LEMMA DeletedStep ==
    ASSUME IInv, Quiet, UNCHANGED <<letters, issued, used, proven>>, NEW c \in Clients, NEW r, request' = [request EXCEPT ![c] = r],
           RequestSound(r), NEW n, users' = users \/ users' = Deleted(n)
    PROVE  IInv'
<1>1. CASE users' = users
  BY <1>1, NoRowStep
<1>2. CASE users' # users
  <2>1. PICK u \in DOMAIN users : users' = [users EXCEPT ![u].deleted = TRUE]
    BY <1>2, TheIn DEF Deleted, Live, Named
  <2>2. PICK row : row = [users[u] EXCEPT !.deleted = TRUE]
    OBVIOUS
  <2>3. users[u] \in Rows
    BY RowTyped DEF IInv
  <2>4. row \in Rows /\ SameKind(users[u], row) /\ row.slots = users[u].slots /\ (row.verified <=> users[u].verified)
    BY <2>2, <2>3 DEF Rows, SameKind
  <2>5. \A p \in Consumable : row.slots[p].token \in {0, SlotToken(u, p)}
    BY <2>4 DEF SlotToken
  <2>6. proven \subseteq proven' /\ (row.verified => row.name \in proven')
    BY <2>4 DEF SameKind, IInv, AddressProven
  <2>7. users' = [users EXCEPT ![u] = row]
    BY <2>1, <2>2
  <2> QED
    BY <2>4, <2>5, <2>6, <2>7, PlainStep
<1> QED
  BY <1>1, <1>2

LEMMA DeleteStep == ASSUME IInv, NEW c \in Clients, LeaveDelete(c) \/ DeleteManagedUser(c), UNCHANGED external PROVE IInv'
<1>1. Quiet /\ UNCHANGED <<letters, issued, used, proven>>
  BY DEF LeaveDelete, DeleteManagedUser, Issued, Rest, external, Quiet
<1>2. CASE End(c)
  <2>1. PICK r : r = Idle
    OBVIOUS
  <2>2. PICK n : users' = users \/ users' = Deleted(n)
    BY DEF LeaveDelete, DeleteManagedUser
  <2> QED
    BY <1>1, <1>2, <2>1, <2>2, IdleSound, DeletedStep DEF End, Set
<1>3. CASE LeaveDelete(c) /\ ~End(c)
  <2>1. PICK r : r = [request[c] EXCEPT !.pc = "purge"]
    OBVIOUS
  <2>2. RequestSound(r)
    BY <2>1, GoSound DEF Places
  <2>3. PICK n : users' = Deleted(n)
    BY <1>3 DEF LeaveDelete
  <2>4. request' = [request EXCEPT ![c] = r]
    BY <1>3, <2>1 DEF LeaveDelete, Go, Set
  <2> QED
    BY <1>1, <2>2, <2>3, <2>4, DeletedStep
<1> QED
  BY <1>2, <1>3 DEF DeleteManagedUser

LEMMA UpdateStep == ASSUME IInv, NEW c \in Clients, UpdateManagedUser(c), UNCHANGED external PROVE IInv'
<1>1. Quiet /\ UNCHANGED <<letters, issued, used>>
  BY DEF UpdateManagedUser, Issued, Rest, external, Quiet
<1>2. PICK r : r = Idle /\ RequestSound(r) /\ request' = [request EXCEPT ![c] = r]
  BY IdleSound DEF UpdateManagedUser, End, Set
<1>3. CASE UNCHANGED <<users, proven>>
  BY <1>1, <1>2, <1>3, NoRowStep
<1>4. CASE ~UNCHANGED <<users, proven>>
  <2>1. PICK verified \in BOOLEAN, u \in DOMAIN users :
           /\ users' = [users EXCEPT ![u].verified = verified] /\ users[u].name = request[c].name
           /\ proven' = IF verified THEN proven \cup {request[c].name} ELSE proven
    BY <1>4, TheIn DEF UpdateManagedUser, Updated, Vouched, Live, Named
  <2>2. PICK row : row = [users[u] EXCEPT !.verified = verified]
    OBVIOUS
  <2>3. users[u] \in Rows
    BY RowTyped DEF IInv
  <2>4. row \in Rows /\ SameKind(users[u], row) /\ row.slots = users[u].slots /\ (row.verified <=> verified)
    BY <2>2, <2>3 DEF Rows, SameKind
  <2>5. \A p \in Consumable : row.slots[p].token \in {0, SlotToken(u, p)}
    BY <2>4 DEF SlotToken
  <2>6. proven \subseteq proven' /\ (row.verified => row.name \in proven')
    BY <2>1, <2>4 DEF SameKind
  <2>7. users' = [users EXCEPT ![u] = row]
    BY <2>1, <2>2
  <2> QED
    BY <1>1, <1>2, <2>4, <2>5, <2>6, <2>7, PlainStep
<1> QED
  BY <1>3, <1>4

\* A new row.
LEMMA NewUserTyped ==
    ASSUME NEW n \in Names, NEW password \in {"chosen", "random"}
    PROVE  /\ NewUser(n, password) \in Rows /\ NewUser(n, password).name = n
           /\ NewUser(n, password).verified = FALSE /\ NewUser(n, password).external = FALSE
           /\ \A p \in Purposes : NewUser(n, password).slots[p] = Blank
<1> DEFINE f == [p \in Purposes |-> Blank]
<1>1. f \in [Purposes -> SlotTypes] /\ \A p \in Purposes : f[p] = Blank
  BY BlankTyped
<1>2. NewUser(n, password) = [name |-> n, password |-> password, deleted |-> FALSE, verified |-> FALSE, external |-> FALSE,
                             pending |-> None, slots |-> f]
  BY DEF NewUser
<1> HIDE DEF f
<1> QED
  BY <1>1, <1>2 DEF Rows, SlotTypes

\* A row that brings at most the token of a verification.
LEMMA AddedTokens ==
    ASSUME IInv, NEW row \in Rows, users' = Append(users, row), Named(row.name) = {}, row.slots["change_email"].token = 0,
           row.slots["verify_email"].token = 0 \/ (row.slots["verify_email"].token = issued + 1 /\ issued' = issued + 1),
           issued' \in {issued, issued + 1}, UNCHANGED <<states, signups, used>>
    PROVE  TokensApart' /\ TokenUsedOnce'
<1>1. PICK fresh : fresh = <<"slot", Len(users) + 1, "verify_email">>
  OBVIOUS
<1>2. ASSUME NEW k \in Kept'
      PROVE  k.token = 0 \/ k \in Kept \/ (k.token = issued + 1 /\ issued' = issued + 1 /\ k.place = fresh)
  <2>1. Signups' = Signups /\ Signups \subseteq Kept
    BY DEF Signups, Kept
  <2>2. CASE k = [place |-> <<"slot", Len(users) + 1, "verify_email">>, token |-> row.slots["verify_email"].token]
    BY <1>1, <2>2
  <2>3. k \in Kept \cup Signups' \/ k.token = 0
           \/ k = [place |-> <<"slot", Len(users) + 1, "verify_email">>, token |-> row.slots["verify_email"].token]
    BY KeptOfAdded DEF IInv
  <2> QED
    BY <2>1, <2>2, <2>3
<1>3. issued \in Nat
  BY DEF IInv, Tables, TypeOK
<1> QED
  BY <1>2, <1>3, KeptStep DEF IInv

LEMMA CreateStep == ASSUME IInv, NEW c \in Clients, CreateManagedUser(c), UNCHANGED external PROVE IInv'
<1>1. Quiet /\ UNCHANGED <<letters, issued, used>>
  BY DEF CreateManagedUser, Issued, Rest, external, Quiet
<1>2. PICK r : r = Idle /\ RequestSound(r) /\ request' = [request EXCEPT ![c] = r]
  BY IdleSound DEF CreateManagedUser, End, Set
<1>3. request[c].name \in Names
  BY RequestTyped DEF CreateManagedUser, At, RequestSound
<1>4. PICK n \in Names, verified \in BOOLEAN :
         \/ UNCHANGED <<users, proven>>
         \/ /\ proven' = IF verified THEN proven \cup {n} ELSE proven
            /\ \/ Named(n) = {} /\ users' = Append(users, [NewUser(n, "chosen") EXCEPT !.verified = verified])
               \/ Named(n) # {} /\ users' = Revived(The(Named(n)), "chosen", verified)
  BY <1>3 DEF CreateManagedUser, Vouched, Added
<1>5. CASE UNCHANGED <<users, proven>>
  BY <1>1, <1>2, <1>5, NoRowStep
<1>6. issued \in Nat /\ issued' \in {issued, issued + 1} /\ issued' <= MaxTokens
  BY <1>1, ConstantsTyped DEF IInv, Tables, TypeOK
<1>7. ASSUME proven' = IF verified THEN proven \cup {n} ELSE proven, Named(n) = {},
             users' = Append(users, [NewUser(n, "chosen") EXCEPT !.verified = verified]) PROVE IInv'
  <2>1. PICK row : row = [NewUser(n, "chosen") EXCEPT !.verified = verified]
    OBVIOUS
  <2>2. PICK x \in Rows : x = NewUser(n, "chosen") /\ x.name = n /\ ~x.external /\ \A p \in Purposes : x.slots[p] = Blank
    BY NewUserTyped
  <2>3. row \in Rows /\ row.name = n /\ (row.verified <=> verified) /\ ~row.external /\ row.slots = x.slots
    BY <2>1, <2>2 DEF Rows
  <2>4. row.slots["verify_email"].token = 0 /\ row.slots["change_email"].token = 0
    BY <2>2, <2>3, BlankTyped, PurposesApart
  <2>5. proven \subseteq proven' /\ (row.verified => row.name \in proven')
    BY <1>7, <2>3
  <2>6. users' = Append(users, row) /\ Named(row.name) = {} /\ links \subseteq links' /\ row.slots["verify_email"].token \in {0, issued + 1}
    BY <1>1, <1>7, <2>1, <2>3, <2>4 DEF Quiet
  <2>7. TokensApart' /\ TokenUsedOnce'
    BY <1>1, <1>6, <2>3, <2>4, <2>6, AddedTokens DEF Quiet
  <2>8. AddressesKept
    BY <1>6, <2>3, <2>4, <2>5, <2>6, AddedKept
  <2>9. LettersSound'
    BY <1>1, <2>8, LetterKept DEF LettersSound, IInv
  <2>10. RequestSound(r)'
    BY <1>2 DEF RequestSound, Idle, Requests
  <2>11. DOMAIN users \subseteq DOMAIN users'
    BY <2>8 DEF AddressesKept
  <2>12. LinksTyped' /\ OneLinkEach'
    BY <1>1, <2>11 DEF Quiet, LinksTyped, OneLinkEach, IInv, Tables, TypeOK
  <2>13. UNCHANGED <<setup, now, begun, sessions, states>> /\ DOMAIN signups' \subseteq DOMAIN signups
    BY <1>1 DEF Quiet
  <2> QED
    BY <1>2, <1>6, <2>3, <2>4, <2>5, <2>6, <2>7, <2>9, <2>10, <2>12, <2>13, AddedStep
<1>8. ASSUME proven' = IF verified THEN proven \cup {n} ELSE proven, Named(n) # {}, users' = Revived(The(Named(n)), "chosen", verified)
      PROVE  IInv'
  <2>1. PICK u \in DOMAIN users : users' = Revived(u, "chosen", verified) /\ users[u].name = n
    BY <1>8, TheIn DEF Named
  <2>2. PICK f : f = [p \in Purposes |-> IF p = "change_email" THEN users[u].slots[p] ELSE Blank]
    OBVIOUS
  <2>3. PICK row : row = [users[u] EXCEPT !.password = "chosen", !.verified = verified, !.deleted = FALSE, !.slots = f]
    OBVIOUS
  <2>4. users[u] \in Rows
    BY RowTyped DEF IInv
  <2>5. f \in [Purposes -> SlotTypes] /\ \A p \in Consumable : f[p].token \in {0, SlotToken(u, p)}
    BY <2>2, <2>4, RowFields, BlankTyped, PurposesApart DEF SlotToken
  <2>6. row \in Rows /\ SameKind(users[u], row) /\ row.slots = f /\ (row.verified <=> verified)
    BY <2>3, <2>4, <2>5 DEF Rows, SlotTypes, SameKind
  <2>7. proven \subseteq proven' /\ (row.verified => row.name \in proven')
    BY <1>8, <2>1, <2>6 DEF SameKind
  <2>8. users' = [users EXCEPT ![u] = row]
    BY <2>1, <2>2, <2>3, <2>4 DEF Revived, Rows
  <2> QED
    BY <1>1, <1>2, <2>5, <2>6, <2>7, <2>8, PlainStep
<1> QED
  BY <1>4, <1>5, <1>7, <1>8

(***************************************************************************)
(* Tokens that come back                                                   *)
(***************************************************************************)
\* The address that a consumed token proves is the account's from then on.
LEMMA ConsumingStep ==
    ASSUME IInv, Quiet, UNCHANGED <<letters, issued>>, NEW c \in Clients, NEW r, request' = [request EXCEPT ![c] = r], r = Idle,
           NEW u \in DOMAIN users, NEW row \in Rows, users' = [users EXCEPT ![u] = row], Named(row.name) \subseteq {u},
           row.external <=> users[u].external, NEW q \in Consumable,
           row.slots[q].token = 0, \A p \in Consumable : p # q => row.slots[p].token = SlotToken(u, p),
           SlotToken(u, q) # 0, Consumed(SlotToken(u, q)), proven \subseteq proven', row.name \in proven',
           q # "change_email" => row.pending = users[u].pending
    PROVE  IInv'
<1>1. /\ DOMAIN users' = DOMAIN users /\ \A v \in DOMAIN users : users'[v] = IF v = u THEN row ELSE users[v]
  BY RowChanged DEF IInv
<1>2. users'[u] = row
  BY <1>1
<1>3. AddressKept(u)
  BY <1>2 DEF AddressKept, SlotToken, Consumable
<1>4. issued \in Nat /\ issued' \in {issued, issued + 1} /\ issued' <= MaxTokens
  BY ConstantsTyped DEF IInv, Tables, TypeOK
<1>5. AddressesKept
  BY <1>3, <1>4, RowKept DEF Quiet
<1>6. LettersSound'
  BY <1>5, LetterKept DEF LettersSound, IInv
<1>7. RequestSound(r)'
  BY IdleSound DEF RequestSound, Idle
<1>8. TokensApart' /\ TokenUsedOnce'
  BY <1>1, <1>4, RowConsumed DEF IInv, Quiet
<1> QED
  BY <1>3, <1>4, <1>6, <1>7, <1>8, RowStep

\* A token that a client has was in a letter that the account's slot vouches for.
LEMMA MailedSound ==
    ASSUME IInv, NEW p, NEW t \in Mailed(p)
    PROVE  t # 0 /\ \E l \in letters : LetterSound(l) /\ l.token = t /\ l.to \in AddressesOf(t)
<1>1. PICK l \in letters : l.token = t
  BY DEF Mailed
<1>2. LetterSound(l)
  BY DEF IInv, LettersSound
<1>3. l.token \in 1 .. issued
  BY <1>2 DEF LetterSound
<1> QED
  BY <1>1, <1>2, <1>3 DEF AddressesOf

LEMMA VerifyStep == ASSUME IInv, NEW c \in Clients, VerifyEmail(c), UNCHANGED external PROVE IInv'
<1>1. Quiet /\ UNCHANGED <<letters, issued>>
  BY DEF VerifyEmail, Issued, Rest, external, Quiet
<1>2. PICK r : r = Idle /\ RequestSound(r) /\ request' = [request EXCEPT ![c] = r]
  BY IdleSound DEF VerifyEmail, End, Set
<1>3. PICK t \in Mailed("verify_email") : VerifyManagedEmail(c, t)
  BY DEF VerifyEmail
<1>4. CASE UNCHANGED <<users, proven, used>>
  BY <1>1, <1>2, <1>4, NoRowStep
<1>5. CASE ~UNCHANGED <<users, proven, used>>
  <2>1. PICK u \in DOMAIN users : /\ users' = Verified(u) /\ SlotToken(u, "verify_email") = t
                                  /\ proven' = proven \cup AddressesOf(t) /\ Consumed(t)
    BY <1>3, <1>5, TheIn DEF VerifyManagedEmail, Within, Holding, SlotToken
  <2>2. PICK x, row : x = [users[u] EXCEPT !.verified = TRUE] /\ row = [users[u] EXCEPT !.verified = TRUE, !.slots["verify_email"] = Blank]
    OBVIOUS
  <2>3. users[u] \in Rows
    BY RowTyped DEF IInv
  <2>4. x \in Rows /\ SameKind(users[u], x) /\ x.slots = users[u].slots /\ row = [x EXCEPT !.slots["verify_email"] = Blank]
    BY <2>2, <2>3 DEF Rows, SameKind
  <2>5. "verify_email" \in Purposes /\ Blank \in SlotTypes
    BY BlankTyped, PurposesApart
  <2>6. row \in Rows
    BY <2>4, <2>5, SlotSet
  <2>7. SameKind(x, row)
    BY <2>4, <2>5, SlotSet
  <2>8. row.slots["verify_email"] = Blank
    BY <2>4, <2>5 DEF Rows
  <2>9. \A q \in Purposes : q # "verify_email" => row.slots[q] = x.slots[q]
    BY <2>4, <2>5, SlotSet
  <2>10. row.slots["verify_email"].token = 0 /\ \A p \in Consumable : p # "verify_email" => row.slots[p].token = SlotToken(u, p)
    <3>1. x.slots = users[u].slots
      BY <2>4
    <3>2. row.slots["verify_email"].token = 0
      BY <2>8, BlankTyped
    <3>3. \A p \in Consumable : p # "verify_email" => row.slots[p].token = SlotToken(u, p)
      BY <2>9, <3>1, PurposesApart DEF SlotToken
    <3> QED
      BY <3>2, <3>3
  <2>11. row.name = users[u].name /\ (row.external <=> users[u].external) /\ row.pending = users[u].pending
    BY <2>4, <2>7 DEF SameKind
  <2>12. Named(row.name) \subseteq {u}
    BY <2>11, RowTyped DEF Named, IInv
  <2>13. t # 0 /\ row.name \in proven'
    <3>1. PICK l \in letters : LetterSound(l) /\ l.token = t /\ l.to \in AddressesOf(t)
      BY MailedSound
    <3>2. users[u].name \in {l.to} \cup proven
      BY <2>1, <3>1 DEF LetterSound
    <3> QED
      BY <2>1, <2>11, <3>1, <3>2, MailedSound
  <2>14. users' = [users EXCEPT ![u] = row]
    BY <2>1, <2>2 DEF Verified
  <2> QED
    BY <1>1, <1>2, <2>1, <2>6, <2>10, <2>11, <2>12, <2>13, <2>14, PurposesApart, ConsumingStep
<1> QED
  BY <1>4, <1>5

LEMMA ConfirmStep == ASSUME IInv, NEW c \in Clients, ConfirmEmailChange(c), UNCHANGED external PROVE IInv'
<1>1. Quiet /\ UNCHANGED <<letters, issued>>
  BY DEF ConfirmEmailChange, Issued, Rest, external, Quiet
<1>2. PICK r : r = Idle /\ RequestSound(r) /\ request' = [request EXCEPT ![c] = r]
  BY IdleSound DEF ConfirmEmailChange, End, Set
<1>3. PICK t \in Mailed("change_email") : ConfirmManagedChange(c, t)
  BY DEF ConfirmEmailChange
<1>4. CASE UNCHANGED <<users, proven, used>>
  BY <1>1, <1>2, <1>4, NoRowStep
<1>5. CASE ~UNCHANGED <<users, proven, used>>
  <2>1. PICK u \in DOMAIN users : /\ users' = Moved(u) /\ SlotToken(u, "change_email") = t /\ users[u].pending # None
                                  /\ Named(users[u].pending) \ {u} = {}
                                  /\ proven' = proven \cup AddressesOf(t) /\ Consumed(t)
    BY <1>3, <1>5, TheIn DEF ConfirmManagedChange, Within, Holding, SlotToken
  <2>2. PICK x, row : /\ x = [users[u] EXCEPT !.name = users[u].pending, !.pending = None, !.verified = TRUE]
                      /\ row = [users[u] EXCEPT !.name = users[u].pending, !.pending = None, !.verified = TRUE, !.slots["change_email"] = Blank]
    OBVIOUS
  <2>3. users[u] \in Rows /\ users[u].pending \in Names
    BY <2>1, RowTyped, RowFields DEF IInv
  <2>4. /\ x \in Rows /\ x.slots = users[u].slots /\ x.name = users[u].pending /\ (x.external <=> users[u].external)
        /\ row = [x EXCEPT !.slots["change_email"] = Blank]
    BY <2>2, <2>3 DEF Rows
  <2>5. "change_email" \in Purposes /\ Blank \in SlotTypes
    BY BlankTyped, PurposesApart
  <2>6. row \in Rows
    BY <2>4, <2>5, SlotSet
  <2>7. SameKind(x, row)
    BY <2>4, <2>5, SlotSet
  <2>8. row.slots["change_email"] = Blank
    BY <2>4, <2>5 DEF Rows
  <2>9. \A q \in Purposes : q # "change_email" => row.slots[q] = x.slots[q]
    BY <2>4, <2>5, SlotSet
  <2>10. row.slots["change_email"].token = 0 /\ \A p \in Consumable : p # "change_email" => row.slots[p].token = SlotToken(u, p)
    <3>1. x.slots = users[u].slots
      BY <2>4
    <3>2. row.slots["change_email"].token = 0
      BY <2>8, BlankTyped
    <3>3. \A p \in Consumable : p # "change_email" => row.slots[p].token = SlotToken(u, p)
      BY <2>9, <3>1, PurposesApart DEF SlotToken
    <3> QED
      BY <3>2, <3>3
  <2>11. row.name = users[u].pending /\ (row.external <=> users[u].external)
    BY <2>4, <2>7 DEF SameKind
  <2>12. Named(row.name) \subseteq {u}
    BY <2>1, <2>11
  <2>13. t # 0 /\ row.name \in proven'
    <3>1. PICK l \in letters : LetterSound(l) /\ l.token = t /\ l.to \in AddressesOf(t)
      BY MailedSound
    <3>2. users[u].pending = l.to
      BY <2>1, <3>1 DEF LetterSound
    <3> QED
      BY <2>1, <2>11, <3>1, <3>2, MailedSound
  <2>14. users' = [users EXCEPT ![u] = row]
    BY <2>1, <2>2 DEF Moved
  <2> QED
    BY <1>1, <1>2, <2>1, <2>6, <2>10, <2>11, <2>12, <2>13, <2>14, PurposesApart, ConsumingStep
<1> QED
  BY <1>4, <1>5

(***************************************************************************)
(* Tokens that are issued                                                  *)
(***************************************************************************)
\* A letter with the token of this step.
FreshMail == [purpose : Purposes, user : Names, at : Nat, to : Names, token : {issued + 1}]

LEMMA FreshLetter ==
    ASSUME issued \in Nat, issued' = issued + 1, NEW l \in FreshMail,
           \A v \in DOMAIN users' : /\ SlotToken(v, "verify_email")' = issued + 1 => users'[v].name = l.to
                                    /\ SlotToken(v, "change_email")' = issued + 1 => users'[v].pending = l.to
    PROVE  LetterSound(l)'
<1>1. l.token = issued + 1 /\ l \in [purpose : Purposes, user : Names, at : Nat, to : Names, token : 1 .. issued']
  BY DEF FreshMail
<1> QED
  BY <1>1 DEF LetterSound

\* The request that is to send it, or that has come to its end.
Sends(c, l, r) == r = Idle \/ r = [request[c] EXCEPT !.pc = "send", !.letter = l]

LEMMA SenderSound ==
    ASSUME IInv, NEW c \in Clients, NEW l \in FreshMail, LetterSound(l)', NEW r, Sends(c, l, r)
    PROVE  RequestSound(r)'
<1>1. CASE r = Idle
  <2>1. r \in Requests /\ r.pc = "idle"
    BY <1>1, IdleSound DEF RequestSound, Idle
  <2> QED
    BY <2>1 DEF RequestSound
<1>2. CASE r = [request[c] EXCEPT !.pc = "send", !.letter = l]
  <2>1. issued \in Nat
    BY DEF IInv, Tables, TypeOK
  <2>2. l \in Mail
    BY <2>1 DEF FreshMail, Mail
  <2>3. r \in Requests /\ r.pc = "send" /\ r.letter = l
    BY <1>2, <2>2, RequestTyped DEF Requests, Places
  <2>4. LetterSound(r.letter)'
    BY <2>3 DEF LetterSound, SlotToken
  <2> QED
    BY <2>3, <2>4 DEF RequestSound
<1> QED
  BY <1>1, <1>2 DEF Sends

\* The row with the token of this step in slot q, and the letter that has it.
NewToken(u, row, q) ==
    /\ \A p \in Consumable : p = q => row.slots[p].token = issued + 1
    /\ \A p \in Consumable : p # q => row.slots[p].token = SlotToken(u, p)
Stores(u, row, q, l) ==
    /\ NewToken(u, row, q) /\ row.name = users[u].name /\ (row.external <=> users[u].external) /\ (row.verified <=> users[u].verified)
    /\ q # "change_email" => row.pending = users[u].pending
    /\ q = "verify_email" => l.to = row.name
    /\ q = "change_email" => l.to = row.pending

\* The token goes into a slot of an account.
LEMMA StoringStep ==
    ASSUME IInv, Quiet, UNCHANGED <<used, proven>>, issued' = issued + 1, issued' <= MaxTokens, NEW c \in Clients, NEW u \in DOMAIN users,
           NEW row \in Rows, users' = [users EXCEPT ![u] = row], NEW q \in Purposes, NEW l \in FreshMail, Stores(u, row, q, l),
           letters' \subseteq letters \cup {l}, NEW r, request' = [request EXCEPT ![c] = r], Sends(c, l, r)
    PROVE  IInv'
<1>0. /\ row.name = users[u].name /\ (row.external <=> users[u].external) /\ (row.verified <=> users[u].verified)
      /\ q # "change_email" => row.pending = users[u].pending
      /\ q = "verify_email" => l.to = row.name
      /\ q = "change_email" => l.to = row.pending
      /\ NewToken(u, row, q)
  BY DEF Stores
<1>1. Named(row.name) \subseteq {u}
  BY <1>0, RowTyped DEF Named, IInv
<1>2. DOMAIN users' = DOMAIN users /\ \A v \in DOMAIN users : users'[v] = IF v = u THEN row ELSE users[v]
  BY <1>1, RowChanged DEF IInv
<1>3. issued \in Nat /\ issued' \in {issued, issued + 1}
  BY DEF IInv, Tables, TypeOK
<1>4. users'[u] = row
  BY <1>2
<1>5. AddressKept(u)
  BY <1>0, <1>4 DEF AddressKept, SlotToken, Consumable, NewToken
<1>6. proven \subseteq proven' /\ (row.verified => row.name \in proven')
  BY <1>0 DEF IInv, AddressProven
<1>7. AddressesKept
  BY <1>0, <1>1, <1>3, <1>5, <1>6, RowKept DEF Quiet
<1>8. LetterSound(l)'
  <2>1. ASSUME NEW v \in DOMAIN users'
        PROVE  /\ SlotToken(v, "verify_email")' = issued + 1 => users'[v].name = l.to
               /\ SlotToken(v, "change_email")' = issued + 1 => users'[v].pending = l.to
    <3>1. CASE v # u
      <4>1. \A p \in Consumable : SlotToken(v, p)' = SlotToken(v, p)
        BY <1>2, <3>1 DEF SlotToken
      <4>2. \A p \in Consumable : SlotToken(v, p) \in 0 .. issued
        BY <1>2, SlotIssued DEF IInv
      <4> QED
        BY <1>3, <4>1, <4>2, PurposesApart
    <3>2. CASE v = u
      <4>1. \A p \in Consumable : SlotToken(u, p) \in 0 .. issued
        BY SlotIssued DEF IInv
      <4>2. \A p \in Consumable : SlotToken(u, p)' = row.slots[p].token
        BY <1>4 DEF SlotToken
      <4>3. \A p \in Consumable : SlotToken(u, p)' = issued + 1 => p = q
        BY <1>0, <1>3, <4>1, <4>2 DEF NewToken
      <4> QED
        BY <1>0, <1>4, <3>2, <4>3, PurposesApart
    <3> QED
      BY <3>1, <3>2
  <2> QED
    BY <1>3, <2>1, FreshLetter
<1>9. LettersSound'
  BY <1>7, <1>8, LetterKept DEF LettersSound, IInv
<1>10. RequestSound(r)'
  BY <1>8, SenderSound
<1>11. TokensApart' /\ TokenUsedOnce'
  <2>1. OneToken(u, row, q)
    BY <1>0 DEF OneToken, NewToken
  <2>2. TokensApart /\ TokenUsedOnce /\ UNCHANGED <<states, signups, used>>
    BY DEF IInv, Quiet
  <2> QED
    BY <1>2, <1>3, <2>1, <2>2, RowTokens
<1> QED
  BY <1>0, <1>1, <1>3, <1>5, <1>6, <1>9, <1>10, <1>11, RowStep

\* No account takes the token, but the letter may go out.
LEMMA UnstoredStep ==
    ASSUME IInv, Quiet, UNCHANGED <<users, letters, used, proven>>, issued' = issued + 1, issued' <= MaxTokens, NEW c \in Clients,
           NEW l \in FreshMail, NEW r, request' = [request EXCEPT ![c] = r], Sends(c, l, r)
    PROVE  IInv'
<1>1. issued \in Nat /\ issued' \in {issued, issued + 1}
  BY DEF IInv, Tables, TypeOK
<1>2. AddressesKept
  BY <1>1, StillKept
<1>3. LetterSound(l)'
  <2>1. \A v \in DOMAIN users', p \in Consumable : SlotToken(v, p)' # issued + 1
    <3>1. \A v \in DOMAIN users, p \in Consumable : SlotToken(v, p) \in 0 .. issued
      BY SlotIssued DEF IInv
    <3> QED
      BY <1>1, <3>1 DEF SlotToken
  <2> QED
    BY <1>1, <2>1, PurposesApart, FreshLetter
<1>4. RequestsSound'
  BY <1>2, <1>3, SenderSound, RequestsStep DEF IInv
<1>5. TokensApart' /\ TokenUsedOnce'
  <2>1. PICK fresh : fresh = 0
    OBVIOUS
  <2>2. Kept' = Kept
    BY DEF Kept, Slots, States, Signups, SlotToken, Quiet
  <2> QED
    BY <1>1, <2>2, KeptStep DEF IInv
<1>6. LinksTyped' /\ OneLinkEach' /\ ExternalOnlyKeepsConnection'
  BY DEF Quiet, LinksTyped, OneLinkEach, ExternalOnlyKeepsConnection, LinksOf, IInv, Tables, TypeOK
<1>7. DOMAIN signups' \subseteq Providers \X Identities /\ now' \in 0 .. MaxNow /\ begun' \in 0 .. setup.requests
  BY DEF Quiet, IInv, Tables, TypeOK
<1> QED
  BY <1>1, <1>4, <1>5, <1>6, <1>7, StillStep DEF Quiet

\* Where the sent time of a token lies.
LEMMA TimesTyped ==
    ASSUME IInv, NEW p, NEW at, at = SentAt(p) \/ at = now
    PROVE  at \in Nat /\ at \in 0 .. MaxNow + MagicTtl
<1>1. now \in 0 .. MaxNow /\ MaxNow \in Nat /\ MagicTtl \in Nat
  BY ConstantsTyped DEF IInv, Tables, TypeOK
<1>2. at = now \/ at = now + MagicTtl
  BY DEF SentAt
<1> QED
  BY <1>1, <1>2

LEMMA IssueTyped == ASSUME IInv, Issue PROVE issued \in Nat /\ issued' = issued + 1 /\ issued' <= MaxTokens /\ issued + 1 \in 0 .. MaxTokens
BY ConstantsTyped DEF IInv, Tables, TypeOK, Issue, Token

LEMMA LetterTyped ==
    ASSUME NEW p \in Purposes, NEW n \in Names, NEW at \in Nat, NEW to \in Names, NEW l, l = Letter(p, n, at, to, Token)
    PROVE  l \in FreshMail /\ l.to = to
BY DEF Letter, FreshMail, Token

\* The token of the step in the slot of its purpose.
LEMMA StoreRowStep ==
    ASSUME IInv, Quiet, UNCHANGED <<used, proven>>, Issue, NEW c \in Clients, NEW u \in DOMAIN users, NEW p \in Purposes,
           p # "change_email", NEW at \in 0 .. MaxNow + MagicTtl, users' = WithToken(u, p, Token, at),
           NEW l \in FreshMail, l.to = users[u].name, letters' \subseteq letters \cup {l}, NEW r, request' = [request EXCEPT ![c] = r],
           Sends(c, l, r)
    PROVE  IInv'
<1>1. issued \in Nat /\ issued' = issued + 1 /\ issued' <= MaxTokens /\ issued + 1 \in 0 .. MaxTokens
  BY IssueTyped
<1>2. PICK s \in SlotTypes : s = [token |-> issued + 1, at |-> at] /\ s.token = issued + 1
  <2>1. PICK s : s = [token |-> issued + 1, at |-> at]
    OBVIOUS
  <2>2. s \in SlotTypes /\ s.token = issued + 1
    BY <1>1, <2>1 DEF SlotTypes
  <2> QED
    BY <2>1, <2>2
<1>3. PICK row : row = [users[u] EXCEPT !.slots[p] = s]
  OBVIOUS
<1>4. users[u] \in Rows
  BY RowTyped DEF IInv
<1>5. row \in Rows
  BY <1>3, <1>4, SlotSet
<1>6. SameKind(users[u], row) /\ (row.verified <=> users[u].verified)
  BY <1>3, <1>4, SlotSet
<1>7. row.slots[p] = s /\ \A q \in Purposes : q # p => row.slots[q] = users[u].slots[q]
  <2>1. row.slots[p] = s
    BY <1>3, <1>4 DEF Rows
  <2>2. \A q \in Purposes : q # p => row.slots[q] = users[u].slots[q]
    BY <1>3, <1>4, SlotSet
  <2> QED
    BY <2>1, <2>2
<1>8. NewToken(u, row, p)
  BY <1>2, <1>7, PurposesApart DEF SlotToken, NewToken
<1>9. row.name = users[u].name /\ (row.external <=> users[u].external) /\ row.pending = users[u].pending
  BY <1>6 DEF SameKind
<1>10. users' = [users EXCEPT ![u] = row]
  BY <1>2, <1>3 DEF WithToken, Token
<1>11. Stores(u, row, p, l)
  BY <1>6, <1>8, <1>9 DEF Stores
<1> QED
  BY <1>1, <1>5, <1>10, <1>11, StoringStep

LEMMA StoreStep == ASSUME IInv, NEW c \in Clients, Store(c), UNCHANGED external PROVE IInv'
<1>1. Quiet /\ UNCHANGED <<used, proven>> /\ Issue
  BY DEF Store, Rest, external, Quiet
<1>2. issued \in Nat /\ issued' = issued + 1 /\ issued' <= MaxTokens
  BY <1>1, IssueTyped
<1>3. PICK p, n, at, l : p = PurposeOf(request[c].op) /\ n = request[c].name /\ at = SentAt(p) /\ l = Letter(p, n, at, n, Token)
  OBVIOUS
<1>4. p \in Purposes /\ p # "change_email" /\ n \in Names
  <2>1. request[c].op \in {"resend_verification", "forgot_password", "request_magic_link"} /\ request[c].name \in Names
    BY RequestTyped DEF Store, RequestSound
  <2> QED
    BY <1>3, <2>1 DEF PurposeOf, Purposes
<1>5. at \in Nat /\ at \in 0 .. MaxNow + MagicTtl
  BY <1>3, TimesTyped
<1>6. l \in FreshMail /\ l.to = n
  BY <1>3, <1>4, <1>5, LetterTyped
<1>7. CASE setup.durable /\ StoreWithMail(c, p, n, at) /\ End(c)
  <2>1. PICK r : Sends(c, l, r) /\ request' = [request EXCEPT ![c] = r]
    BY <1>7 DEF End, Set, Sends
  <2>2. CASE Takes(p, n) = {}
    BY <1>1, <1>2, <1>6, <1>7, <2>1, <2>2, UnstoredStep DEF StoreWithMail
  <2>3. CASE Takes(p, n) # {}
    <3>1. PICK u \in DOMAIN users : users' = WithToken(u, p, Token, at) /\ users[u].name = n
      BY <1>7, <2>3, TheIn DEF StoreWithMail, Takes, Live, Named
    <3>2. letters' \subseteq letters \cup {l}
      BY <1>3, <1>7, <2>3 DEF StoreWithMail, Enqueued
    <3> QED
      BY <1>1, <1>4, <1>5, <1>6, <2>1, <3>1, <3>2, StoreRowStep
  <2> QED
    BY <2>2, <2>3
<1>8. CASE ~setup.durable /\ StoreToken(p, n, at) /\ UNCHANGED letters /\ Set(c, [request[c] EXCEPT !.pc = "send", !.letter = l])
  <2>1. PICK r : Sends(c, l, r) /\ request' = [request EXCEPT ![c] = r]
    BY <1>8 DEF Set, Sends
  <2>2. CASE Live(n) = {}
    BY <1>1, <1>2, <1>6, <1>8, <2>1, <2>2, UnstoredStep DEF StoreToken
  <2>3. CASE Live(n) # {}
    <3>1. PICK u \in DOMAIN users : users' = WithToken(u, p, Token, at) /\ users[u].name = n
      BY <1>8, <2>3, TheIn DEF StoreToken, Live, Named
    <3>2. letters' \subseteq letters \cup {l}
      BY <1>8
    <3> QED
      BY <1>1, <1>4, <1>5, <1>6, <2>1, <3>1, <3>2, StoreRowStep
  <2> QED
    BY <2>2, <2>3
<1> QED
  BY <1>3, <1>7, <1>8 DEF Store

LEMMA SendStep == ASSUME IInv, NEW c \in Clients, Send(c), UNCHANGED external PROVE IInv'
<1>1. Quiet /\ UNCHANGED <<used, proven, users, issued>>
  BY DEF Send, Issued, Rest, external, Quiet
<1>2. issued \in Nat /\ issued' \in {issued, issued + 1} /\ issued' <= MaxTokens
  BY <1>1, ConstantsTyped DEF IInv, Tables, TypeOK
<1>3. AddressesKept
  BY <1>1, <1>2 DEF AddressesKept, AddressKept, SlotToken
<1>4. LetterSound(request[c].letter)
  BY RequestTyped DEF Send, RequestSound
<1>5. \A l \in letters' : LetterSound(l)
  BY <1>4 DEF Send, IInv, LettersSound
<1>6. LettersSound'
  BY <1>3, <1>5, LetterKept DEF LettersSound
<1>7. RequestsSound'
  <2>1. PICK r : r = Idle /\ request' = [request EXCEPT ![c] = r]
    BY DEF Send, End, Set
  <2>2. RequestSound(r)'
    BY <2>1, IdleSound DEF RequestSound, Idle
  <2> QED
    BY <1>3, <2>1, <2>2, RequestsStep DEF IInv
<1>8. TokensApart' /\ TokenUsedOnce'
  BY <1>1 DEF Quiet, TokensApart, TokenUsedOnce, Kept, Slots, States, Signups, SlotToken, IInv
<1>9. LinksTyped' /\ OneLinkEach' /\ ExternalOnlyKeepsConnection' /\ AddressProven'
  BY <1>1 DEF Quiet, LinksTyped, OneLinkEach, ExternalOnlyKeepsConnection, AddressProven, LinksOf, IInv, Tables, TypeOK
<1>10. users' \in Seq(Rows) /\ \A v \in DOMAIN users' : Named(users[v].name)' = {v}
  BY <1>1 DEF IInv, Tables, TypeOK, Named
<1>11. DOMAIN signups' \subseteq Providers \X Identities /\ now' \in 0 .. MaxNow /\ begun' \in 0 .. setup.requests
  BY <1>1 DEF Quiet, IInv, Tables, TypeOK
<1>12. Tables'
  BY <1>1, <1>2, <1>3, <1>6, <1>9, <1>10, <1>11, TablesStep DEF Quiet, IInv
<1> QED
  BY <1>6, <1>7, <1>8, <1>9, <1>12 DEF IInv

\* An account registers, with the token of its verification.
LEMMA RegisteringStep ==
    ASSUME IInv, Quiet, UNCHANGED <<used, proven>>, Issue, NEW c \in Clients, NEW n \in Names, Named(n) = {},
           users' = Registered(n, Token), NEW l \in FreshMail, l.to = n, letters' \subseteq letters \cup {l},
           NEW r, request' = [request EXCEPT ![c] = r], Sends(c, l, r)
    PROVE  IInv'
<1>1. issued \in Nat /\ issued' = issued + 1 /\ issued' <= MaxTokens /\ issued + 1 \in 0 .. MaxTokens
  BY IssueTyped
<1>2. PICK s \in SlotTypes : s = [token |-> issued + 1, at |-> now] /\ s.token = issued + 1
  <2>1. PICK s : s = [token |-> issued + 1, at |-> now]
    OBVIOUS
  <2>2. now \in 0 .. MaxNow + MagicTtl
    BY TimesTyped
  <2>3. s \in SlotTypes /\ s.token = issued + 1
    BY <1>1, <2>1, <2>2 DEF SlotTypes
  <2> QED
    BY <2>1, <2>3
<1>3. PICK x \in Rows : x = NewUser(n, "chosen") /\ x.name = n /\ ~x.external /\ ~x.verified /\ \A p \in Purposes : x.slots[p] = Blank
  BY NewUserTyped
<1>4. PICK row : row = [x EXCEPT !.slots["verify_email"] = s]
  OBVIOUS
<1>5. "verify_email" \in Purposes /\ "change_email" \in Purposes
  BY DEF Purposes
<1>6. row \in Rows
  BY <1>4, <1>5, SlotSet
<1>7. SameKind(x, row) /\ (row.verified <=> x.verified)
  BY <1>4, <1>5, SlotSet
<1>8. row.slots["verify_email"].token = issued + 1
  <2>1. row.slots["verify_email"] = s
    BY <1>4, <1>5 DEF Rows
  <2> QED
    BY <1>2, <2>1
<1>9. row.slots["change_email"].token = 0
  <2>1. row.slots["change_email"] = x.slots["change_email"]
    BY <1>4, <1>5 DEF Rows
  <2> QED
    BY <1>3, <1>5, <2>1, BlankTyped
<1>10. row.name = n /\ ~row.external /\ ~row.verified
  BY <1>3, <1>7 DEF SameKind
<1>11. users' = Append(users, row) /\ Named(row.name) = {}
  BY <1>2, <1>3, <1>4, <1>10 DEF Registered, Added, Token
<1>12. links \subseteq links' /\ proven \subseteq proven'
       /\ UNCHANGED <<setup, now, begun, sessions, states, signups, links>> /\ DOMAIN signups' \subseteq DOMAIN signups
  BY DEF Quiet
<1>13. issued' \in {issued, issued + 1} /\ row.slots["verify_email"].token \in {0, issued + 1}
  BY <1>1, <1>8
<1>14. AddressesKept
  BY <1>6, <1>9, <1>10, <1>11, <1>12, <1>13, AddedKept
<1>15. TokensApart' /\ TokenUsedOnce'
  BY <1>1, <1>6, <1>8, <1>9, <1>11, <1>12, <1>13, AddedTokens
<1>16. LetterSound(l)'
  <2>1. /\ Len(users) \in Nat /\ DOMAIN users = 1 .. Len(users) /\ DOMAIN users' = 1 .. Len(users) + 1
        /\ \A v \in DOMAIN users : users'[v] = users[v]
        /\ users'[Len(users) + 1] = row
    BY <1>6, <1>11, RowAdded DEF IInv
  <2>2. ASSUME NEW v \in DOMAIN users'
        PROVE  /\ SlotToken(v, "verify_email")' = issued + 1 => users'[v].name = l.to
               /\ SlotToken(v, "change_email")' = issued + 1 => users'[v].pending = l.to
    <3>1. CASE v \in DOMAIN users
      <4>1. \A p \in Consumable : SlotToken(v, p)' = SlotToken(v, p)
        BY <2>1, <3>1 DEF SlotToken
      <4>2. \A p \in Consumable : SlotToken(v, p) \in 0 .. issued
        BY <3>1, SlotIssued DEF IInv
      <4> QED
        BY <1>1, <4>1, <4>2, PurposesApart
    <3>2. CASE v = Len(users) + 1
      <4>1. users'[v] = row
        BY <2>1, <3>2
      <4>2. SlotToken(v, "change_email")' = 0
        BY <4>1, <1>9 DEF SlotToken
      <4> QED
        BY <1>1, <1>10, <4>1, <4>2
    <3> QED
      BY <2>1, <3>1, <3>2
  <2> QED
    BY <1>1, <2>2, FreshLetter
<1>17. LettersSound'
  BY <1>14, <1>16, LetterKept DEF LettersSound, IInv
<1>18. RequestSound(r)'
  BY <1>16, SenderSound
<1>19. LinksTyped' /\ OneLinkEach'
  BY <1>12, <1>14 DEF AddressesKept, LinksTyped, OneLinkEach, IInv, Tables, TypeOK
<1> QED
  BY <1>1, <1>6, <1>9, <1>10, <1>11, <1>12, <1>13, <1>15, <1>17, <1>18, <1>19, AddedStep

LEMMA RegisterStep == ASSUME IInv, NEW c \in Clients, Register(c), UNCHANGED external PROVE IInv'
<1>1. Quiet /\ UNCHANGED <<used, proven>>
  BY DEF Register, Rest, external, Quiet
<1>2. PICK n \in setup.names : RegisterManagedUser(c, n)
  BY DEF Register
<1>3. n \in Names
  BY ConstantsTyped DEF IInv, Tables, TypeOK
<1>4. CASE Named(n) # {}
  <2>1. PICK r : r = Idle /\ RequestSound(r) /\ request' = [request EXCEPT ![c] = r]
    BY <1>2, <1>4, IdleSound DEF RegisterManagedUser, End, Set
  <2>2. UNCHANGED <<issued, users, letters>>
    BY <1>2, <1>4 DEF RegisterManagedUser, Issued
  <2> QED
    BY <1>1, <2>1, <2>2, NoRowStep
<1>5. CASE Named(n) = {}
  <2>1. PICK l, at : at = now /\ l = Letter("verify_email", n, at, n, Token)
    OBVIOUS
  <2>2. at \in Nat
    BY <2>1, TimesTyped
  <2>3. l \in FreshMail /\ l.to = n
    BY <1>3, <2>1, <2>2, LetterTyped DEF Purposes
  <2>4. Issue /\ users' = Registered(n, Token) /\ letters' \subseteq letters \cup {l}
    BY <1>2, <1>5, <2>1 DEF RegisterManagedUser, Enqueued
  <2>5. PICK r : Sends(c, l, r) /\ request' = [request EXCEPT ![c] = r]
    BY <1>2, <1>5, <2>1 DEF RegisterManagedUser, End, Set, Sends
  <2> QED
    BY <1>1, <1>3, <1>5, <2>3, <2>4, <2>5, RegisteringStep
<1> QED
  BY <1>4, <1>5

LEMMA ChangeStep == ASSUME IInv, NEW c \in Clients, RequestEmailChange(c), UNCHANGED external PROVE IInv'
<1>1. Quiet /\ UNCHANGED <<used, proven>>
  BY DEF RequestEmailChange, Rest, external, Quiet
<1>2. PICK n, l, at :
         /\ n \in setup.names /\ at = now /\ l = Letter("change_email", request[c].name, at, n, Token)
         /\ \/ End(c) /\ Issued /\ UNCHANGED <<users, letters>>
            \/ /\ Live(request[c].name) # {} /\ Issue /\ users' = Pending(The(Live(request[c].name)), n, Token)
               /\ letters' \subseteq letters \cup {l}
               /\ \E r : Sends(c, l, r) /\ request' = [request EXCEPT ![c] = r]
  BY DEF RequestEmailChange, Enqueued, End, Set, Sends
<1>3. n \in Names
  BY <1>2, ConstantsTyped DEF IInv, Tables, TypeOK
<1>4. CASE End(c) /\ Issued /\ UNCHANGED <<users, letters>>
  <2>1. PICK r : r = Idle /\ RequestSound(r) /\ request' = [request EXCEPT ![c] = r]
    BY <1>4, IdleSound DEF End, Set
  <2> QED
    BY <1>1, <1>4, <2>1, NoRowStep DEF Issued
<1>5. ASSUME Live(request[c].name) # {}, Issue, users' = Pending(The(Live(request[c].name)), n, Token), letters' \subseteq letters \cup {l},
             NEW r, Sends(c, l, r), request' = [request EXCEPT ![c] = r]
      PROVE  IInv'
  <2>1. PICK u \in DOMAIN users : users' = Pending(u, n, Token) /\ users[u].name = request[c].name
    BY <1>5, TheIn DEF Live, Named
  <2>2. issued \in Nat /\ issued' = issued + 1 /\ issued' <= MaxTokens /\ issued + 1 \in 0 .. MaxTokens
    BY <1>5, IssueTyped
  <2>3. users[u] \in Rows /\ users[u].name \in Names
    BY RowTyped, RowFields DEF IInv
  <2>4. at \in Nat /\ at \in 0 .. MaxNow + MagicTtl
    BY <1>2, TimesTyped
  <2>5. l \in FreshMail /\ l.to = n
    BY <1>2, <1>3, <2>1, <2>3, <2>4, LetterTyped DEF Purposes
  <2>6. PICK s \in SlotTypes : s = [token |-> issued + 1, at |-> at] /\ s.token = issued + 1
    <3>1. PICK s : s = [token |-> issued + 1, at |-> at]
      OBVIOUS
    <3>2. s \in SlotTypes /\ s.token = issued + 1
      BY <2>2, <2>4, <3>1 DEF SlotTypes
    <3> QED
      BY <3>1, <3>2
  <2>7. PICK x, row : x = [users[u] EXCEPT !.pending = n] /\ row = [users[u] EXCEPT !.pending = n, !.slots["change_email"] = s]
    OBVIOUS
  <2>8. /\ x \in Rows /\ x.slots = users[u].slots /\ x.name = users[u].name /\ x.pending = n
        /\ (x.external <=> users[u].external) /\ (x.verified <=> users[u].verified)
        /\ row = [x EXCEPT !.slots["change_email"] = s]
    BY <1>3, <2>3, <2>7 DEF Rows
  <2>9. "change_email" \in Purposes
    BY DEF Purposes
  <2>10. row \in Rows
    BY <2>8, <2>9, SlotSet
  <2>11. SameKind(x, row) /\ (row.verified <=> x.verified)
    BY <2>8, <2>9, SlotSet
  <2>12. row.slots["change_email"] = s
    BY <2>8, <2>9 DEF Rows
  <2>13. \A q \in Purposes : q # "change_email" => row.slots[q] = x.slots[q]
    BY <2>8, <2>9, SlotSet
  <2>14. NewToken(u, row, "change_email")
    <3>1. x.slots = users[u].slots
      BY <2>8
    <3> QED
      BY <2>6, <2>12, <2>13, <3>1, PurposesApart DEF SlotToken, NewToken
  <2>15. Stores(u, row, "change_email", l)
    <3>1. /\ row.name = users[u].name /\ row.pending = n /\ (row.external <=> users[u].external)
          /\ (row.verified <=> users[u].verified)
      BY <2>8, <2>11 DEF SameKind
    <3> QED
      BY <2>5, <2>14, <3>1 DEF Stores
  <2>16. users' = [users EXCEPT ![u] = row]
    BY <1>2, <2>1, <2>6, <2>7 DEF Pending, Token
  <2> QED
    BY <1>1, <1>5, <2>2, <2>5, <2>9, <2>10, <2>15, <2>16, StoringStep
<1> QED
  BY <1>2, <1>4, <1>5

(***************************************************************************)
(* Sessions, the clock, and external sign-in                               *)
(***************************************************************************)
\* The accounts, states and signups keep their tokens, and no token is consumed.
LEMMA SameKept ==
    ASSUME IInv, UNCHANGED <<users, states, signups, used>>, issued' \in {issued, issued + 1}
    PROVE  TokensApart' /\ TokenUsedOnce'
<1>1. PICK fresh : fresh = 0
  OBVIOUS
<1>2. Kept' = Kept /\ issued \in Nat
  BY DEF Kept, Slots, States, Signups, SlotToken, IInv, Tables, TypeOK
<1> QED
  BY <1>2, KeptStep DEF IInv

LEMMA SameLinks ==
    ASSUME IInv, UNCHANGED <<users, links>>
    PROVE  LinksTyped' /\ OneLinkEach' /\ ExternalOnlyKeepsConnection'
BY DEF LinksTyped, OneLinkEach, ExternalOnlyKeepsConnection, LinksOf, IInv, Tables, TypeOK

\* What the other tables have at least.
LEMMA BoundsTyped ==
    ASSUME IInv
    PROVE  /\ now \in 0 .. MaxNow /\ begun \in 0 .. setup.requests /\ issued \in Nat /\ issued <= MaxTokens
           /\ DOMAIN signups \subseteq Providers \X Identities
BY ConstantsTyped DEF IInv, Tables, TypeOK

\* The request of a step that leaves the accounts and the letters.
LEMMA StillRequests ==
    ASSUME IInv, UNCHANGED <<users, letters, proven>>, issued' \in {issued, issued + 1}, NEW c \in Clients, NEW r,
           request' = [request EXCEPT ![c] = r], RequestSound(r)
    PROVE  RequestsSound'
<1>1. AddressesKept
  BY StillKept
<1>2. RequestSound(r)'
  <2>1. r.pc = "send" => LetterSound(r.letter)'
    BY <1>1, LetterKept DEF RequestSound
  <2> QED
    BY <2>1 DEF RequestSound, LetterSound, SlotToken
<1> QED
  BY <1>1, <1>2, RequestsStep DEF IInv

LEMMA SessionStep == ASSUME IInv, NEW c \in Clients, InsertSession(c) \/ LeavePurge(c), UNCHANGED external PROVE IInv'
<1>1. UNCHANGED <<setup, now, begun, users, letters, proven, used, states, signups, links>>
  BY DEF InsertSession, LeavePurge, Rest, external
<1>2. issued' \in {issued, issued + 1} /\ issued' <= MaxTokens
  BY IssueTyped, BoundsTyped DEF InsertSession, LeavePurge, Issued
<1>3. PICK r : RequestSound(r) /\ request' = [request EXCEPT ![c] = r]
  <2>1. CASE End(c)
    BY <2>1, IdleSound DEF End, Set
  <2>2. CASE LeavePurge(c) /\ ~End(c)
    <3>1. PICK r, S : S = request[c].listed \ {The(request[c].listed)} /\ r = [request[c] EXCEPT !.listed = S]
                      /\ request' = [request EXCEPT ![c] = r]
      BY <2>2 DEF LeavePurge, Set
    <3>2. r \in Requests /\ r.pc = "purge"
      BY <2>2, <3>1, RequestTyped DEF Requests, Places, LeavePurge
    <3>3. RequestSound(r)
      BY <3>2 DEF RequestSound
    <3> QED
      BY <3>1, <3>3
  <2> QED
    BY <2>1, <2>2 DEF InsertSession
<1>4. RequestsSound'
  BY <1>1, <1>2, <1>3, StillRequests
<1>5. \A t \in DOMAIN sessions' : \/ t \in DOMAIN sessions /\ sessions'[t] = sessions[t]
                                  \/ t = issued' /\ t > 0 /\ sessions'[t] \in [user : DOMAIN users, name : Names]
  <2>1. CASE InsertSession(c)
    <3>1. request[c].row \in DOMAIN users /\ request[c].name \in Names
      BY <2>1, RequestTyped DEF InsertSession, RequestSound
    <3>2. issued \in Nat /\ issued' = issued + 1
      BY <2>1, IssueTyped DEF InsertSession
    <3> QED
      BY <2>1, <3>1, <3>2 DEF InsertSession, Token
  <2>2. CASE LeavePurge(c)
    BY <2>2 DEF LeavePurge, Without
  <2> QED
    BY <2>1, <2>2
<1> QED
  BY <1>1, <1>2, <1>4, <1>5, SameKept, SameLinks, BoundsTyped, StillStep

LEMMA TickStep == ASSUME IInv, Tick, UNCHANGED external PROVE IInv'
<1>1. UNCHANGED <<setup, begun, users, sessions, letters, proven, used, states, signups, links, issued, request>>
  BY DEF Tick, external, history
<1>2. issued' \in {issued, issued + 1} /\ issued' <= MaxTokens
  BY <1>1, BoundsTyped
<1>3. now' \in 0 .. MaxNow
  <2>1. setup.until \in 0 .. MaxNow
    BY ConstantsTyped DEF IInv, Tables, TypeOK
  <2> QED
    BY <2>1, BoundsTyped, ConstantsTyped DEF Tick
<1>4. RequestsSound'
  BY <1>1 DEF IInv, RequestsSound, RequestSound, LetterSound, SlotToken
<1> QED
  BY <1>1, <1>2, <1>3, <1>4, SameKept, SameLinks, BoundsTyped, StillStep

\* States and signups that are gone, whatever the reason.
LEMMA FewerKept ==
    ASSUME IInv, UNCHANGED <<users, issued, used>>, DOMAIN states' \subseteq DOMAIN states, DOMAIN signups' \subseteq DOMAIN signups,
           \A id \in DOMAIN signups' : signups'[id] = signups[id]
    PROVE  Kept' \subseteq Kept /\ TokensApart' /\ TokenUsedOnce'
<1>1. PICK fresh : fresh = 0
  OBVIOUS
<1>2. Slots' = Slots
  BY DEF Slots, SlotToken
<1>3. States' \subseteq States
  BY DEF States
<1>4. Signups' \subseteq Signups
  BY DEF Signups
<1>5. Kept' \subseteq Kept /\ issued \in Nat
  BY <1>2, <1>3, <1>4, BoundsTyped DEF Kept
<1> QED
  BY <1>5, KeptStep DEF IInv

LEMMA CleanupStep == ASSUME IInv, Cleanup PROVE IInv'
<1>1. UNCHANGED <<setup, now, begun, users, sessions, letters, proven, used, links, issued, request>>
  BY DEF Cleanup, history
<1>2. issued' \in {issued, issued + 1} /\ issued' <= MaxTokens
  BY <1>1, BoundsTyped
<1>3. RequestsSound'
  BY <1>1 DEF IInv, RequestsSound, RequestSound, LetterSound, SlotToken
<1>4. /\ DOMAIN states' \subseteq DOMAIN states /\ \A s \in DOMAIN states' : states'[s] = states[s]
      /\ DOMAIN signups' \subseteq DOMAIN signups /\ \A id \in DOMAIN signups' : signups'[id] = signups[id]
  BY DEF Cleanup
<1>5. TokensApart' /\ TokenUsedOnce'
  BY <1>1, <1>4, FewerKept
<1> QED
  BY <1>1, <1>2, <1>3, <1>4, <1>5, SameLinks, BoundsTyped, StillStep

LEMMA AuthorizeStep == ASSUME IInv, NEW c \in Clients, Authorize(c) \/ LinkAuthorize(c) PROVE IInv'
<1>1. PICK flow \in {"login", "link"}, username \in Names \cup {None} : CreateAuthorizeUrl(c, flow, username)
  BY RequestTyped DEF Authorize, LinkAuthorize, Requests
<1>2. UNCHANGED <<setup, now, begun, users, sessions, letters, proven, used, signups, links>>
  BY <1>1 DEF CreateAuthorizeUrl, Other, NoUse, Rest
<1>3. issued \in Nat /\ issued' = issued + 1 /\ issued' <= MaxTokens /\ issued' \in {issued, issued + 1}
  BY <1>1, IssueTyped DEF CreateAuthorizeUrl
<1>4. PICK x, t : /\ states' = Put(states, t, x) /\ t = issued + 1 /\ x.provider \in Providers /\ x.flow = flow /\ x.username = username
  BY <1>1 DEF CreateAuthorizeUrl, Token
<1>5. DOMAIN states' = DOMAIN states \cup {t} /\ states'[t] = x /\ \A s \in DOMAIN states : s # t => states'[s] = states[s]
  BY <1>4 DEF Put
<1>6. RequestsSound'
  <2>1. PICK r : r = Idle /\ RequestSound(r) /\ request' = [request EXCEPT ![c] = r]
    BY <1>1, IdleSound DEF CreateAuthorizeUrl, End, Set
  <2> QED
    BY <1>2, <1>3, <2>1, StillRequests
<1>7. TokensApart' /\ TokenUsedOnce'
  <2>1. PICK fresh : fresh = <<"state", t>>
    OBVIOUS
  <2>2. Slots' = Slots /\ Signups' = Signups
    BY <1>2 DEF Slots, SlotToken, Signups
  <2>3. ASSUME NEW k \in States' PROVE k \in States \/ (k.token = issued + 1 /\ k.place = fresh)
    BY <1>4, <1>5, <2>1 DEF States
  <2>4. \A k \in Kept' : k \in Kept \/ (k.token = issued + 1 /\ issued' = issued + 1 /\ k.place = fresh)
    BY <1>3, <2>2, <2>3 DEF Kept
  <2> QED
    BY <1>2, <1>3, <2>4, KeptStep DEF IInv
<1>8. \A s \in DOMAIN states' : \/ s \in DOMAIN states /\ states'[s] = states[s]
                                \/ /\ s = issued' /\ s > 0 /\ states'[s].provider \in Providers
                                   /\ states'[s].flow \in {"login", "link"} /\ states'[s].username \in Names \cup {None}
  BY <1>3, <1>4, <1>5
<1> QED
  BY <1>2, <1>3, <1>6, <1>7, <1>8, SameLinks, BoundsTyped, StillStep

LEMMA TakeStateStep == ASSUME IInv, NEW c \in Clients, TakeState(c) PROVE IInv'
<1>1. UNCHANGED <<setup, now, begun, users, sessions, letters, proven, issued, signups, links>>
  BY DEF TakeState, Other, Issued, Rest
<1>2. PICK s \in DOMAIN states, p \in Providers :
         IF states[s].expires <= now THEN End(c) /\ NoUse /\ UNCHANGED states
         ELSE /\ states' = Drop(states, s) /\ Consumed(s)
              /\ IF states[s].provider # p THEN End(c)
                 ELSE Set(c, [request[c] EXCEPT !.pc = states[s].flow, !.provider = p, !.name = states[s].username])
  BY DEF TakeState
<1>3. issued' \in {issued, issued + 1} /\ issued' <= MaxTokens /\ issued \in Nat
  BY <1>1, BoundsTyped
<1>4. RequestsSound'
  <2>1. CASE End(c)
    <3>1. PICK r : r = Idle /\ RequestSound(r) /\ request' = [request EXCEPT ![c] = r]
      BY <2>1, IdleSound DEF End, Set
    <3> QED
      BY <1>1, <1>3, <3>1, StillRequests
  <2>2. CASE ~End(c)
    <3>1. PICK r : /\ r = [request[c] EXCEPT !.pc = states[s].flow, !.provider = p, !.name = states[s].username]
                   /\ request' = [request EXCEPT ![c] = r]
      BY <1>2, <2>2 DEF Set
    <3>2. states[s].flow \in {"login", "link"} /\ states[s].username \in Names \cup {None}
      BY DEF IInv, Tables, TypeOK
    <3>3. r \in Requests /\ r.pc \in {"login", "link"} /\ r.provider = p
      BY <3>1, <3>2, RequestTyped DEF Requests, Places
    <3>4. RequestSound(r)
      BY <3>3 DEF RequestSound
    <3> QED
      BY <1>1, <1>3, <3>1, <3>4, StillRequests
  <2> QED
    BY <2>1, <2>2
<1>5. CASE NoUse /\ UNCHANGED states
  BY <1>1, <1>3, <1>4, <1>5, SameKept, SameLinks, BoundsTyped, StillStep DEF NoUse
<1>6. CASE states' = Drop(states, s) /\ Consumed(s)
  <2>1. DOMAIN states' = DOMAIN states \ {s} /\ \A t \in DOMAIN states' : states'[t] = states[t]
    BY <1>6 DEF Drop
  <2>2. PICK taken : taken = [place |-> <<"state", s>>, token |-> s]
    OBVIOUS
  <2>3. taken \in Kept /\ taken.token = s /\ taken.place = <<"state", s>>
    BY <2>2 DEF Kept, States
  <2>4. s # 0
    BY DEF IInv, Tables, TypeOK
  <2>5. ASSUME NEW k \in Kept' PROVE k \in Kept /\ k.place # taken.place
    <3>1. Slots' = Slots /\ Signups' = Signups
      BY <1>1 DEF Slots, SlotToken, Signups
    <3>2. CASE k \in States'
      <4>1. PICK t \in DOMAIN states' : k = [place |-> <<"state", t>>, token |-> t]
        BY <3>2 DEF States
      <4>2. t \in DOMAIN states /\ t # s
        BY <2>1
      <4>3. k \in Kept
        BY <4>1, <4>2 DEF Kept, States
      <4> QED
        BY <2>3, <4>1, <4>2, <4>3
    <3>3. CASE k \in Slots
      <4>1. k.place[1] = "slot"
        BY <3>3 DEF Slots
      <4> QED
        BY <2>3, <3>3, <4>1 DEF Kept
    <3>4. CASE k \in Signups
      <4>1. k.place[1] = "signup"
        BY <3>4 DEF Signups
      <4> QED
        BY <2>3, <3>4, <4>1 DEF Kept
    <3> QED
      BY <3>1, <3>2, <3>3, <3>4 DEF Kept
  <2>6. TokensApart' /\ TokenUsedOnce'
    BY <1>1, <1>3, <1>6, <2>3, <2>4, <2>5, ConsumedStep DEF IInv
  <2> QED
    BY <1>1, <1>3, <1>4, <2>1, <2>6, SameLinks, BoundsTyped, StillStep
<1> QED
  BY <1>2, <1>5, <1>6

LEMMA ExchangeFailsStep == ASSUME IInv, NEW c \in Clients, ExchangeFails(c) PROVE IInv'
BY BegunKept, EndStep DEF ExchangeFails, Other, NoUse, Issued, external, Rest, Reads

\* The connections change and nothing else.
LEMMA LinksStep ==
    ASSUME IInv, UNCHANGED <<setup, now, begun, users, sessions, letters, proven, used, issued, states, signups>>, NEW c \in Clients, End(c),
           LinksTyped', OneLinkEach', ExternalOnlyKeepsConnection'
    PROVE  IInv'
<1>1. issued' \in {issued, issued + 1} /\ issued' <= MaxTokens
  BY BoundsTyped
<1>2. PICK r : r = Idle /\ RequestSound(r) /\ request' = [request EXCEPT ![c] = r]
  BY IdleSound DEF End, Set
<1>3. RequestsSound'
  BY <1>1, <1>2, StillRequests
<1> QED
  BY <1>1, <1>3, SameKept, BoundsTyped, StillStep

LEMMA LinkStep == ASSUME IInv, NEW c \in Clients, LinkConnection(c) PROVE IInv'
<1>1. UNCHANGED <<setup, now, begun, users, sessions, letters, proven, used, issued, states, signups>> /\ End(c)
  BY DEF LinkConnection, Other, NoUse, Issued, Rest
<1>2. CASE links' = links
  BY <1>1, <1>2, SameLinks, LinksStep
<1>3. CASE links' # links
  <2>1. PICK i, u, p :
           /\ i \in Identities /\ p = request[c].provider /\ u = The(Live(request[c].name)) /\ Live(request[c].name) # {}
           /\ Owners(<<p, i>>) \in {{}, {u}}
           /\ links' = {l \in links : l.user # u \/ l.identity[1] # p} \cup {[user |-> u, identity |-> <<p, i>>]}
    BY <1>3 DEF LinkConnection
  <2>2. u \in DOMAIN users
    BY <2>1, TheIn DEF Live, Named
  <2>3. p \in Providers
    BY <2>1, RequestTyped DEF LinkConnection, At, RequestSound
  <2>4. PICK new : new = [user |-> u, identity |-> <<p, i>>]
    OBVIOUS
  <2>5. new.user = u /\ new.identity = <<p, i>> /\ new.identity[1] = p /\ new \in [user : DOMAIN users, identity : Providers \X Identities]
    BY <2>1, <2>2, <2>3, <2>4
  <2>6. \A l \in links' : l = new \/ (l \in links /\ (l.user # u \/ l.identity[1] # p))
    BY <2>1, <2>4
  <2>7. \A l \in links : l.identity = <<p, i>> => l.user = u
    BY <2>1 DEF Owners
  <2>8. LinksTyped'
    BY <1>1, <2>5, <2>6 DEF LinksTyped, IInv, Tables
  <2>9. OneLinkEach /\ ExternalOnlyKeepsConnection
    BY DEF OneLinkEach, IInv, Tables, TypeOK
  <2>10. OneLinkEach'
    <3> SUFFICES ASSUME NEW k \in links', NEW l \in links', k.identity = l.identity \/ (k.user = l.user /\ k.identity[1] = l.identity[1])
                 PROVE  k = l
      BY DEF OneLinkEach
    <3>1. CASE k = new /\ l # new
      BY <2>5, <2>6, <2>7, <3>1
    <3>2. CASE l = new /\ k # new
      BY <2>5, <2>6, <2>7, <3>2
    <3>3. CASE k # new /\ l # new
      BY <2>6, <2>9, <3>3 DEF OneLinkEach
    <3> QED
      BY <3>1, <3>2, <3>3
  <2>11. ExternalOnlyKeepsConnection'
    <3> SUFFICES ASSUME NEW v \in DOMAIN users, users[v].external PROVE \E l \in links' : l.user = v
      BY <1>1 DEF ExternalOnlyKeepsConnection, LinksOf
    <3>1. CASE v = u
      <4>1. new \in links'
        BY <2>1, <2>4
      <4> QED
        BY <2>5, <3>1, <4>1
    <3>2. CASE v # u
      <4>1. PICK l \in links : l.user = v
        BY <2>9 DEF ExternalOnlyKeepsConnection, LinksOf
      <4> QED
        BY <2>1, <3>2, <4>1
    <3> QED
      BY <3>1, <3>2
  <2> QED
    BY <1>1, <2>8, <2>10, <2>11, LinksStep
<1> QED
  BY <1>2, <1>3

\* A set without two different elements counts at most one.
LEMMA TwoElements == ASSUME NEW S, ~(Cardinality(S) <= 1) PROVE \E x, y \in S : x # y
<1> SUFFICES ASSUME \A x, y \in S : x = y PROVE Cardinality(S) <= 1
  OBVIOUS
<1>1. CASE S = {}
  <2>1. Cardinality({}) = 0
    BY FS_EmptySet
  <2> QED
    BY <1>1, <2>1
<1>2. CASE S # {}
  <2>1. PICK x \in S : S = {x}
    BY <1>2
  <2>2. Cardinality({x}) = 1
    BY FS_Singleton
  <2> QED
    BY <2>1, <2>2
<1> QED
  BY <1>1, <1>2

LEMMA UnlinkStep == ASSUME IInv, NEW c \in Clients, Unlink(c) PROVE IInv'
<1>1. UNCHANGED <<setup, now, begun, users, sessions, letters, proven, used, issued, states, signups>> /\ End(c)
  BY DEF Unlink, Other, NoUse, Issued, Rest
<1>2. CASE links' = links
  BY <1>1, <1>2, SameLinks, LinksStep
<1>3. CASE links' # links
  <2>1. PICK p, u :
           /\ p \in Providers /\ ~(users[u].external /\ Cardinality(LinksOf(u)) <= 1)
           /\ links' = links \ {l \in LinksOf(u) : l.identity[1] = p}
    BY <1>3 DEF Unlink
  <2>2. LinksTyped' /\ OneLinkEach'
    BY <1>1, <2>1 DEF LinksTyped, OneLinkEach, IInv, Tables, TypeOK
  <2>3. ExternalOnlyKeepsConnection'
    <3> SUFFICES ASSUME NEW v \in DOMAIN users, users[v].external PROVE \E l \in links' : l.user = v
      BY <1>1 DEF ExternalOnlyKeepsConnection, LinksOf
    <3>1. CASE v # u
      <4>1. PICK l \in links : l.user = v
        BY DEF IInv, ExternalOnlyKeepsConnection, LinksOf
      <4> QED
        BY <2>1, <3>1, <4>1 DEF LinksOf
    <3>2. CASE v = u
      <4>1. PICK k \in LinksOf(u), l \in LinksOf(u) : k # l
        BY <2>1, <3>2, TwoElements
      <4>2. k \in links /\ l \in links /\ k.user = u /\ l.user = u
        BY DEF LinksOf
      <4>3. k.identity[1] # l.identity[1]
        BY <4>1, <4>2 DEF IInv, Tables, TypeOK
      <4> QED
        BY <2>1, <3>2, <4>2, <4>3
    <3> QED
      BY <3>1, <3>2
  <2> QED
    BY <1>1, <2>2, <2>3, LinksStep
<1> QED
  BY <1>2, <1>3

LEMMA FindConnectionStep == ASSUME IInv, NEW c \in Clients, FindConnection(c) PROVE IInv'
<1>1. UNCHANGED <<setup, now, begun, users, sessions, letters, proven, used, states, links>>
  BY DEF FindConnection, Other, NoUse, Rest
<1>2. PICK p : p = request[c].provider /\ p \in Providers
  BY RequestTyped DEF FindConnection, At, RequestSound
<1>3. PICK i \in Identities :
         \/ \E u \in DOMAIN users : Found(c, u, "session") /\ UNCHANGED <<issued, signups>>
         \/ Issue /\ End(c) /\ signups' = Put(signups, <<p, i>>, [token |-> Token, expires |-> now + SignupTtl])
  <2>1. PICK i \in Identities :
           IF {u \in Owners(<<p, i>>) : ~users[u].deleted} # {}
           THEN Found(c, The({u \in Owners(<<p, i>>) : ~users[u].deleted}), "session") /\ UNCHANGED <<issued, signups>>
           ELSE Issue /\ End(c) /\ signups' = Put(signups, <<p, i>>, [token |-> Token, expires |-> now + SignupTtl])
    BY <1>2 DEF FindConnection, Issued
  <2>2. Owners(<<p, i>>) \subseteq DOMAIN users
    BY DEF Owners, IInv, Tables, LinksTyped
  <2> QED
    BY <2>1, <2>2, TheIn
<1>4. CASE \E u \in DOMAIN users : Found(c, u, "session") /\ UNCHANGED <<issued, signups>>
  BY <1>1, <1>4, FoundStep DEF Reads
<1>5. ASSUME Issue, End(c), signups' = Put(signups, <<p, i>>, [token |-> Token, expires |-> now + SignupTtl]) PROVE IInv'
  <2>1. issued \in Nat /\ issued' = issued + 1 /\ issued' <= MaxTokens /\ issued' \in {issued, issued + 1}
    BY <1>5, IssueTyped
  <2>2. PICK id, x : id = <<p, i>> /\ id \in Providers \X Identities /\ x.token = issued + 1 /\ signups' = Put(signups, id, x)
    BY <1>2, <1>5 DEF Token
  <2>3. DOMAIN signups' = DOMAIN signups \cup {id} /\ signups'[id] = x /\ \A j \in DOMAIN signups : j # id => signups'[j] = signups[j]
    BY <2>2 DEF Put
  <2>4. RequestsSound'
    <3>1. PICK r : r = Idle /\ RequestSound(r) /\ request' = [request EXCEPT ![c] = r]
      BY <1>5, IdleSound DEF End, Set
    <3> QED
      BY <1>1, <2>1, <3>1, StillRequests
  <2>5. TokensApart' /\ TokenUsedOnce'
    <3>1. PICK fresh : fresh = <<"signup", id>>
      OBVIOUS
    <3>2. Slots' = Slots /\ States' = States
      BY <1>1 DEF Slots, SlotToken, States
    <3>3. ASSUME NEW k \in Signups' PROVE k \in Signups \/ (k.token = issued + 1 /\ k.place = fresh)
      BY <2>2, <2>3, <3>1 DEF Signups
    <3>4. \A k \in Kept' : k \in Kept \/ (k.token = issued + 1 /\ issued' = issued + 1 /\ k.place = fresh)
      BY <2>1, <3>2, <3>3 DEF Kept
    <3> QED
      BY <1>1, <2>1, <3>4, KeptStep DEF IInv
  <2>6. DOMAIN signups' \subseteq Providers \X Identities
    BY <2>2, <2>3, BoundsTyped
  <2> QED
    BY <1>1, <2>1, <2>4, <2>5, <2>6, SameLinks, BoundsTyped, StillStep
<1> QED
  BY <1>3, <1>4, <1>5

\* A signup has a token.
SignupsIssued == \A id \in DOMAIN signups : signups[id].token # 0

\* The signup that is completed gives up its token; the new row brings none.
LEMMA CompletedTokens ==
    ASSUME IInv, SignupsIssued, UNCHANGED <<issued, states>>, NEW id \in DOMAIN signups, signups' = Drop(signups, id),
           Consumed(signups[id].token), NEW row \in Rows, users' = Append(users, row), Named(row.name) = {},
           row.slots["verify_email"].token = 0, row.slots["change_email"].token = 0
    PROVE  TokensApart' /\ TokenUsedOnce'
<1>1. DOMAIN signups' = DOMAIN signups \ {id} /\ \A j \in DOMAIN signups' : signups'[j] = signups[j]
  BY DEF Drop
<1>2. PICK taken : taken = [place |-> <<"signup", id>>, token |-> signups[id].token]
  OBVIOUS
<1>3. taken \in Kept /\ taken.token = signups[id].token /\ taken.place = <<"signup", id>> /\ taken.token # 0 /\ Consumed(taken.token)
  BY <1>2 DEF Kept, Signups, SignupsIssued
<1>4. ASSUME NEW k \in Kept' PROVE k.token = 0 \/ (k \in Kept /\ k.place # taken.place)
  <2>1. CASE k \in Signups'
    <3>1. PICK j \in DOMAIN signups' : k = [place |-> <<"signup", j>>, token |-> signups'[j].token]
      BY <2>1 DEF Signups
    <3>2. j \in DOMAIN signups /\ j # id /\ signups'[j] = signups[j]
      BY <1>1
    <3>3. k \in Kept
      BY <3>1, <3>2 DEF Kept, Signups
    <3> QED
      BY <1>3, <3>1, <3>2, <3>3
  <2>2. CASE k \in Slots' \cup States'
    <3>1. k.place[1] \in {"slot", "state"}
      BY <2>2 DEF Slots, States
    <3>2. k.place # taken.place
      BY <1>3, <3>1
    <3>3. k \notin Signups'
      BY <3>1 DEF Signups
    <3>4. \/ k \in Kept \cup Signups' \/ k.token = 0
          \/ k = [place |-> <<"slot", Len(users) + 1, "verify_email">>, token |-> row.slots["verify_email"].token]
      BY KeptOfAdded DEF IInv
    <3> QED
      BY <3>2, <3>3, <3>4
  <2> QED
    BY <2>1, <2>2 DEF Kept
<1> QED
  BY <1>3, <1>4, ConsumedStep, BoundsTyped DEF IInv

\* The new account has the connection that it was made for.
LEMMA CompletedLinks ==
    ASSUME IInv, NEW id \in Providers \X Identities, Owners(id) = {}, NEW row \in Rows, users' = Append(users, row), Named(row.name) = {},
           NEW new, new = [user |-> Len(users) + 1, identity |-> id], links' = links \cup {new}
    PROVE  LinksTyped' /\ OneLinkEach' /\ links \subseteq links' /\ \E l \in links' : l.user = Len(users) + 1
<1>1. /\ Len(users) \in Nat /\ DOMAIN users = 1 .. Len(users) /\ DOMAIN users' = 1 .. Len(users) + 1
  BY RowAdded DEF IInv
<1>2. Len(users) + 1 \in DOMAIN users' /\ Len(users) + 1 \notin DOMAIN users /\ DOMAIN users \subseteq DOMAIN users'
  BY <1>1
<1>3. new.user = Len(users) + 1 /\ new.identity = id /\ new \in [user : DOMAIN users', identity : Providers \X Identities]
  BY <1>2
<1>4. LinksTyped /\ OneLinkEach
  BY DEF IInv, Tables, TypeOK, OneLinkEach
<1>5. \A l \in links : l.user # new.user /\ l.identity # new.identity
  BY <1>2, <1>3, <1>4 DEF LinksTyped, Owners
<1>6. LinksTyped'
  BY <1>2, <1>3, <1>4 DEF LinksTyped
<1>7. OneLinkEach'
  BY <1>4, <1>5 DEF OneLinkEach
<1> QED
  BY <1>3, <1>6, <1>7

LEMMA CompletingStep ==
    ASSUME IInv, SignupsIssued, UNCHANGED <<setup, now, begun, sessions, states, letters, proven, issued>>, NEW c \in Clients,
           NEW n \in Names, Named(n) = {}, NEW id \in DOMAIN signups, Owners(id) = {}, signups' = Drop(signups, id), Consumed(signups[id].token),
           users' = Append(users, [NewUser(n, "random") EXCEPT !.external = TRUE]),
           links' = links \cup {[user |-> Len(users) + 1, identity |-> id]},
           Set(c, [request[c] EXCEPT !.pc = "session", !.name = n, !.user = Len(users) + 1])
    PROVE  IInv'
<1>1. PICK row : row = [NewUser(n, "random") EXCEPT !.external = TRUE]
  OBVIOUS
<1>2. PICK x \in Rows : x = NewUser(n, "random") /\ x.name = n /\ ~x.verified /\ \A p \in Purposes : x.slots[p] = Blank
  BY NewUserTyped
<1>3. row \in Rows /\ row.name = n /\ ~row.verified /\ row.slots = x.slots
  BY <1>1, <1>2 DEF Rows
<1>4. row.slots["verify_email"].token = 0 /\ row.slots["change_email"].token = 0
  BY <1>2, <1>3, BlankTyped, PurposesApart
<1>5. users' = Append(users, row) /\ Named(row.name) = {} /\ row.slots["verify_email"].token \in {0, issued + 1}
  BY <1>1, <1>3, <1>4
<1>6. TokensApart' /\ TokenUsedOnce'
  BY <1>3, <1>4, <1>5, CompletedTokens
<1>7. PICK new : new = [user |-> Len(users) + 1, identity |-> id] /\ links' = links \cup {new}
  OBVIOUS
<1>8. LinksTyped' /\ OneLinkEach' /\ links \subseteq links' /\ \E l \in links' : l.user = Len(users) + 1
  BY <1>3, <1>5, <1>7, CompletedLinks, BoundsTyped
<1>9. issued' \in {issued, issued + 1} /\ issued' <= MaxTokens /\ proven \subseteq proven' /\ (row.verified => row.name \in proven')
  BY <1>3, BoundsTyped
<1>10. AddressesKept
  BY <1>3, <1>4, <1>5, <1>8, <1>9, AddedKept
<1>11. LettersSound'
  BY <1>10, LetterKept DEF LettersSound, IInv
<1>12. PICK r, m : /\ m = Len(users) + 1 /\ r = [request[c] EXCEPT !.pc = "session", !.name = n, !.user = m]
                   /\ request' = [request EXCEPT ![c] = r]
  BY DEF Set
<1>13. m \in Nat /\ m \in DOMAIN users'
  <2>1. Len(users) \in Nat /\ DOMAIN users' = 1 .. Len(users) + 1
    BY <1>3, <1>5, RowAdded DEF IInv
  <2> QED
    BY <1>12, <2>1
<1>14. r \in Requests /\ r.pc = "session" /\ r.name = n /\ r.user = m
  BY <1>12, <1>13, RequestTyped DEF Requests, Places
<1>15. RequestSound(r)'
  <2>1. r.pc \notin {"store", "insert", "send", "link", "login"} /\ r.pc # "clear"
    BY <1>14
  <2> QED
    BY <1>13, <1>14, <2>1 DEF RequestSound
<1>16. DOMAIN signups' \subseteq DOMAIN signups
  BY DEF Drop
<1> QED
  BY <1>3, <1>4, <1>5, <1>6, <1>8, <1>9, <1>11, <1>12, <1>15, <1>16, AddedStep

LEMMA CompleteSignupStep == ASSUME IInv, SignupsIssued, NEW c \in Clients, CompleteSignup(c) PROVE IInv'
<1>1. UNCHANGED <<setup, now, begun, sessions, states, letters, proven, issued>>
  BY DEF CompleteSignup, Issued, Rest
<1>2. PICK n, t, found :
         /\ n \in setup.names /\ t \in {signups[id].token : id \in DOMAIN signups} \cup Range(used)
         /\ found = {id \in DOMAIN signups : signups[id].token = t /\ signups[id].expires > now}
         /\ \/ End(c) /\ NoUse /\ UNCHANGED <<users, signups, links>>
            \/ /\ found # {} /\ Named(n) = {} /\ Owners(The(found)) = {}
               /\ users' = Added([NewUser(n, "random") EXCEPT !.external = TRUE])
               /\ links' = links \cup {[user |-> Len(users) + 1, identity |-> The(found)]}
               /\ signups' = Drop(signups, The(found)) /\ Consumed(t)
               /\ Set(c, [request[c] EXCEPT !.pc = "session", !.name = n, !.user = Len(users) + 1])
  BY DEF CompleteSignup
<1>3. CASE End(c) /\ NoUse /\ UNCHANGED <<users, signups, links>>
  BY <1>1, <1>3, BegunKept, EndStep DEF NoUse, Reads
<1>4. CASE ~(End(c) /\ NoUse /\ UNCHANGED <<users, signups, links>>)
  <2>1. PICK id : id = The(found) /\ id \in DOMAIN signups /\ signups[id].token = t
    BY <1>2, <1>4, TheIn
  <2>2. n \in Names
    BY <1>2, ConstantsTyped DEF IInv, Tables, TypeOK
  <2> QED
    BY <1>1, <1>2, <1>4, <2>1, <2>2, CompletingStep DEF Added
<1> QED
  BY <1>3, <1>4

(***************************************************************************)
(* The theorems                                                            *)
(***************************************************************************)
\* Only a sign-in that finds nobody makes a signup.
LEMMA SignupsStep == ASSUME IInv, SignupsIssued, [Next]_vars PROVE SignupsIssued'
<1>1. ASSUME NEW id, NEW x, signups' = Put(signups, id, x), x.token # 0 PROVE SignupsIssued'
  BY <1>1 DEF Put, SignupsIssued
<1>2. ASSUME NEW id, signups' = Drop(signups, id) PROVE SignupsIssued'
  BY <1>2 DEF Drop, SignupsIssued
<1>3. CASE UNCHANGED signups
  BY <1>3 DEF SignupsIssued
<1>4. CASE Cleanup
  BY <1>4 DEF Cleanup, SignupsIssued
<1>5. ASSUME NEW c \in Clients, FindConnection(c) PROVE SignupsIssued'
  <2>1. CASE UNCHANGED signups
    BY <1>3, <2>1
  <2>2. CASE ~UNCHANGED signups
    <3>1. PICK id, x : signups' = Put(signups, id, x) /\ x.token = issued + 1
      BY <1>5, <2>2 DEF FindConnection, Token
    <3>2. issued \in Nat
      BY BoundsTyped
    <3> QED
      BY <1>1, <3>1, <3>2
  <2> QED
    BY <2>1, <2>2
<1>6. ASSUME NEW c \in Clients, CompleteSignup(c) PROVE SignupsIssued'
  <2>1. UNCHANGED signups \/ \E id : signups' = Drop(signups, id)
    BY <1>6 DEF CompleteSignup
  <2> QED
    BY <1>2, <1>3, <2>1
<1>7. ASSUME NEW c \in Clients, ExternalStep(c) PROVE SignupsIssued'
  BY <1>3, <1>5, <1>6, <1>7 DEF ExternalStep, Authorize, LinkAuthorize, CreateAuthorizeUrl, TakeState, ExchangeFails, LinkConnection, Unlink,
                                external
<1> QED
  BY <1>3, <1>4, <1>7 DEF Next, vars, external

LEMMA AccountStepKeeps == ASSUME IInv, NEW c \in Clients, AccountStep(c), UNCHANGED external PROVE IInv'
BY BeginStep, BearerStep, AskingStep, FindByTokenStep, CreateSessionStep, ListAndAdminStep, ClearStep, DeleteStep, UpdateStep, CreateStep,
   VerifyStep, ConfirmStep, StoreStep, SendStep, RegisterStep, ChangeStep, SessionStep
   DEF AccountStep

LEMMA ExternalStepKeeps == ASSUME IInv, SignupsIssued, NEW c \in Clients, ExternalStep(c) PROVE IInv'
BY AuthorizeStep, TakeStateStep, ExchangeFailsStep, LinkStep, FindConnectionStep, CompleteSignupStep, UnlinkStep DEF ExternalStep

LEMMA NextKeeps == ASSUME IInv, SignupsIssued, [Next]_vars PROVE IInv'
<1>1. CASE Next
  BY <1>1, AccountStepKeeps, ExternalStepKeeps, TickStep, CleanupStep DEF Next
<1>2. CASE UNCHANGED vars
  <2>1. Reads /\ UNCHANGED <<begun, request>>
    BY <1>2 DEF vars, history, external, Reads
  <2>2. RequestsSound'
    BY <2>1 DEF Reads, IInv, RequestsSound, RequestSound, LetterSound, SlotToken
  <2>3. issued' \in {issued, issued + 1} /\ issued' <= MaxTokens
    BY <2>1, BoundsTyped DEF Reads
  <2> QED
    BY <2>1, <2>2, <2>3, SameKept, SameLinks, BoundsTyped, StillStep DEF Reads
<1> QED
  BY <1>1, <1>2

\* The accounts that an installation begins with are verified, and hold no token.
LEMMA InitKeeps == ASSUME Init PROVE IInv /\ SignupsIssued
<1> DEFINE A == setup.accounts
           row(i) == [NewUser(A[i], "chosen") EXCEPT !.verified = TRUE]
<1>1. A \in Seq(Names) /\ Len(A) <= MaxTokens /\ (\A i, j \in DOMAIN A : A[i] = A[j] => i = j) /\ setup \in Setups
  BY AccountsAssumption DEF Init
<1>2. Len(A) \in Nat /\ DOMAIN A = 1 .. Len(A) /\ \A i \in DOMAIN A : A[i] \in Names
  BY <1>1
<1>3. ASSUME NEW i \in DOMAIN A PROVE row(i) \in Rows /\ row(i).name = A[i] /\ ~row(i).external /\ \A p \in Purposes : row(i).slots[p] = Blank
  <2>1. PICK x \in Rows : x = NewUser(A[i], "chosen") /\ x.name = A[i] /\ (~x.external) /\ \A p \in Purposes : x.slots[p] = Blank
    BY <1>2, NewUserTyped
  <2>2. row(i) = [x EXCEPT !.verified = TRUE]
    BY <2>1
  <2> HIDE DEF row
  <2> QED
    BY <2>1, <2>2 DEF Rows
<1>4. users = [i \in DOMAIN A |-> row(i)]
  BY DEF Init
<1> HIDE DEF A, row
<1>5. users \in Seq(Rows) /\ DOMAIN users = DOMAIN A /\ \A u \in DOMAIN users : users[u] = row(u)
  BY <1>2, <1>3, <1>4
<1>6. \A u \in DOMAIN users : Named(users[u].name) = {u}
  BY <1>1, <1>3, <1>5 DEF Named
<1>7. \A t \in DOMAIN sessions : t \in 1 .. issued /\ sessions[t] \in [user : DOMAIN users, name : Names]
  BY <1>2, <1>5 DEF Init, A
<1>8. DOMAIN states = {} /\ DOMAIN signups = {} /\ links = {} /\ letters = {} /\ used = << >> /\ now = 0 /\ begun = 0 /\ issued = Len(A)
  BY DEF Init, A
<1>9. TypeOK
  BY <1>1, <1>2, <1>5, <1>6, <1>7, <1>8, <1>3, ConstantsTyped DEF TypeOK
<1>10. Tables
  BY <1>5, <1>8, <1>9 DEF Tables, LinksTyped
<1>11. \A k \in Kept : k.token = 0
  BY <1>3, <1>5, <1>8, BlankTyped, PurposesApart DEF Kept, Slots, States, Signups, SlotToken
<1>12. TokensApart /\ TokenUsedOnce
  BY <1>2, <1>8, <1>11 DEF TokensApart, TokenUsedOnce
<1>13. RequestsSound
  <2>1. request = [d \in Clients |-> Idle] /\ Idle \in Requests
    BY IdleSound DEF Init, RequestSound
  <2> QED
    BY <2>1, IdleSound DEF RequestsSound
<1>14. AddressProven /\ ExternalOnlyKeepsConnection
  <2>1. proven = Range(A)
    BY DEF Init, A
  <2>2. \A u \in DOMAIN users : users[u].name \in proven /\ ~users[u].external
    BY <1>3, <1>5, <2>1 DEF Range
  <2> QED
    BY <2>2 DEF AddressProven, ExternalOnlyKeepsConnection
<1> QED
  BY <1>8, <1>10, <1>12, <1>13, <1>14 DEF IInv, LettersSound, SignupsIssued

LEMMA Inductive == Spec => [](IInv /\ SignupsIssued)
<1>1. Init => IInv /\ SignupsIssued
  BY InitKeeps
<1>2. IInv /\ SignupsIssued /\ [Next]_vars => (IInv /\ SignupsIssued)'
  BY NextKeeps, SignupsStep
<1> QED
  BY <1>1, <1>2, PTL DEF Spec

\* The tables keep their types: no two accounts have the same username, also where one is revived,
\* registered, moved or made by a signup while another request does the same (the unique indexes and
\* the statements that look before they write).
THEOREM TypeCorrect == Spec => []TypeOK
<1>1. IInv => TypeOK
  BY DEF IInv, Tables
<1> QED
  BY <1>1, Inductive, PTL

\* A verified address was proven by a token that was mailed to it, or by an administrator
\* (verify_managed_email, confirm_email_change, create_managed_user).
THEOREM Proven == Spec => []AddressProven
<1>1. IInv => AddressProven
  BY DEF IInv
<1> QED
  BY <1>1, Inductive, PTL

\* No verification, change of address, state or signup is consumed twice, by any number of requests
\* with the same token (verify_managed_email, confirm_managed_change, take_state, complete_oauth_signup).
THEOREM UsedOnce == Spec => []TokenUsedOnce
<1>1. IInv => TokenUsedOnce
  BY DEF IInv
<1> QED
  BY <1>1, Inductive, PTL

\* A session of the table authenticates the account it was opened for, whatever the accounts' names
\* have become (current_user, find_by_token).
THEOREM StaysWithAccount == Spec => []SessionStaysWithAccount
<1>1. ASSUME IInv PROVE SessionStaysWithAccount
  <2> SUFFICES ASSUME ~setup.redis, NEW t \in DOMAIN sessions, Authenticates(t) PROVE Live(sessions[t].name) = {sessions[t].user}
    BY DEF SessionStaysWithAccount
  <2>1. PICK u \in DOMAIN users : u = sessions[t].user
    BY <1>1 DEF IInv, Tables, TypeOK
  <2>2. users[u].name = sessions[t].name /\ ~users[u].deleted
    BY <2>1 DEF Authenticates, SessionName, SessionFound
  <2>3. Named(users[u].name) = {u}
    BY <1>1 DEF IInv, Tables, TypeOK
  <2> QED
    BY <2>1, <2>2, <2>3 DEF Live
<1> QED
  BY <1>1, Inductive, PTL

\* An account that was made by an external signup keeps a connection (link_connection, which replaces
\* one, and unlink_connection, which counts them).
THEOREM KeepsConnection == Spec => []ExternalOnlyKeepsConnection
<1>1. IInv => ExternalOnlyKeepsConnection
  BY DEF IInv
<1> QED
  BY <1>1, Inductive, PTL

(***************************************************************************)
(* The limiter                                                             *)
(***************************************************************************)
Keys == {<<op, ResolveAddress(a.peer, a.forwarded)>> : op \in UNION {s.ops : s \in Setups}, a \in Addresses}

\* Times that were recorded until at, in that order.
InOrder(times, at) ==
    /\ times \in Seq(Nat)
    /\ \A i \in 1 .. Len(times) : times[i] <= at
    /\ \A i, j \in 1 .. Len(times) : i <= j => times[i] <= times[j]

\* The requests of key among those that were let through, as a window w sees them at the time at; and
\* that the times have each of them.
Seen(passed, key, at, w) == {j \in 1 .. Len(passed) : passed[j].key = key /\ at - passed[j].at < w}
Covers(times, passed, key, at, w) ==
    \E f \in [1 .. Len(times) -> Nat] : \A j \in Seen(passed, key, at, w) :
        \E n \in 1 .. Len(times) : f[n] = j /\ times[n] = passed[j].at

\* What the limiter has recorded for one client.
Window(times, passed, key, at, limit) ==
    /\ InOrder(times, at) /\ Len(times) <= limit.max
    /\ Covers(times, passed, key, at, limit.window)

Bounded(passed, limit) ==
    \A i \in 1 .. Len(passed) :
        Cardinality({j \in 1 .. i : passed[j].key = passed[i].key /\ passed[i].at - passed[j].at < limit.window}) <= limit.max

\* The limiter has the requests that it let through within the window, as many as the limit at most;
\* so each found, when it was let through, a window with room for it.
Windows ==
    setup.limit # None =>
        /\ DOMAIN hits \subseteq Keys
        /\ \A k \in Keys : Window(HitsOf(k), admitted, k, now, setup.limit)
        /\ admitted \in Seq([key : Keys, at : Nat])
        /\ Bounded(admitted, setup.limit)

LEMMA LimitTyped ==
    ASSUME setup \in Setups, setup.limit # None
    PROVE  /\ setup.limit.max \in Nat \ {0} /\ setup.limit.window \in Nat \ {0} /\ setup.limit.redis \in BOOLEAN
           /\ Second \in Nat \ {0}
BY AccountsAssumption, RateLimitsAssumption

LEMMA SuffixTimes ==
    ASSUME NEW times \in Seq(Nat), NEW d \in 0 .. Len(times)
    PROVE  /\ SubSeq(times, d + 1, Len(times)) \in Seq(Nat)
           /\ Len(SubSeq(times, d + 1, Len(times))) = Len(times) - d
           /\ \A i \in 1 .. Len(times) - d : SubSeq(times, d + 1, Len(times))[i] = times[i + d]
<1>1. Len(times) \in Nat /\ d + 1 \in 1 .. Len(times) + 1 /\ Len(times) \in d .. Len(times) /\ Len(times) - (d + 1) + 1 = Len(times) - d
  OBVIOUS
<1>2. ASSUME NEW i \in 1 .. Len(times) - d PROVE SubSeq(times, d + 1, Len(times))[i] = times[i + d]
  OBVIOUS
<1>3. Len(SubSeq(times, d + 1, Len(times))) = Len(times) - d
  OBVIOUS
<1>4. SubSeq(times, d + 1, Len(times)) \in Seq(Nat)
  BY <1>1, SubSeqProperties
<1> QED
  BY <1>2, <1>3, <1>4

\* The first n numbers are n.
LEMMA FirstNumbers ==
    ASSUME NEW n \in Nat
    PROVE  IsFiniteSet(1 .. n) /\ Cardinality(1 .. n) = n
  BY FS_Interval

\* What is forgotten is in front, and is too old.
LEMMA RecentTimes ==
    ASSUME NEW times \in Seq(Nat), NEW at \in Nat, NEW w \in Nat,
           \A i, j \in 1 .. Len(times) : i <= j => times[i] <= times[j]
    PROVE  \E d \in 0 .. Len(times) :
              /\ Recent(times, at, w) \in Seq(Nat) /\ Len(Recent(times, at, w)) = Len(times) - d
              /\ \A i \in 1 .. Len(times) - d : Recent(times, at, w)[i] = times[i + d]
              /\ \A i \in 1 .. Len(times) : at - times[i] < w => i > d
              /\ Len(times) > 0 /\ at - times[1] >= w => d > 0
<1> DEFINE old == {i \in DOMAIN times : at - times[i] >= w}
<1>1. DOMAIN times = 1 .. Len(times) /\ Len(times) \in Nat /\ \A i \in 1 .. Len(times) : times[i] \in Nat
  OBVIOUS
<1>2. /\ IsFiniteSet(old) /\ Cardinality(old) \in Nat /\ Cardinality(old) <= Len(times)
  <2>1. old \subseteq 1 .. Len(times)
    BY <1>1
  <2>2. IsFiniteSet(1 .. Len(times)) /\ Cardinality(1 .. Len(times)) = Len(times)
    <3>1. Len(times) \in Nat
      BY <1>1
    <3> HIDE DEF old
    <3> QED
      BY <3>1, FirstNumbers
  <2> QED
    BY <2>1, <2>2, FS_Subset, FS_CardinalityType
<1>3. ASSUME NEW i \in 1 .. Len(times), at - times[i] < w PROVE i > Cardinality(old)
  <2>1. old \subseteq 1 .. i - 1
    <3> SUFFICES ASSUME NEW j \in old, j >= i PROVE FALSE
      BY <1>1
    <3>1. times[i] <= times[j] /\ times[j] \in Nat /\ times[i] \in Nat /\ at - times[j] >= w
      BY <1>1
    <3> QED
      BY <1>3, <3>1
  <2>2. IsFiniteSet(1 .. i - 1) /\ Cardinality(1 .. i - 1) = i - 1
    BY FS_Interval
  <2>3. Cardinality(old) <= i - 1
    BY <2>1, <2>2, FS_Subset
  <2> HIDE DEF old
  <2> QED
    BY <1>2, <2>3
<1>4. Len(times) > 0 /\ at - times[1] >= w => Cardinality(old) > 0
  <2> SUFFICES ASSUME Len(times) > 0, at - times[1] >= w PROVE Cardinality(old) > 0
    OBVIOUS
  <2>1. 1 \in old
    BY <1>1
  <2>2. Cardinality(old) # 0
    BY <1>2, <2>1, FS_EmptySet
  <2> HIDE DEF old
  <2> QED
    BY <1>2, <2>2
<1>5. PICK d \in 0 .. Len(times) : d = Cardinality(old)
  <2> HIDE DEF old
  <2> QED
    BY <1>1, <1>2
<1>6. Recent(times, at, w) = SubSeq(times, d + 1, Len(times))
  BY <1>5 DEF Recent
<1>7. /\ Recent(times, at, w) \in Seq(Nat) /\ Len(Recent(times, at, w)) = Len(times) - d
      /\ \A i \in 1 .. Len(times) - d : Recent(times, at, w)[i] = times[i + d]
  <2> HIDE DEF old
  <2> QED
    BY <1>5, <1>6, SuffixTimes
<1> HIDE DEF old
<1> QED
  BY <1>3, <1>4, <1>5, <1>7

LEMMA RecentInOrder ==
    ASSUME NEW at \in Nat, NEW w \in Nat, NEW times, InOrder(times, at)
    PROVE  InOrder(Recent(times, at, w), at) /\ Len(Recent(times, at, w)) \in 0 .. Len(times)
<1>1. /\ times \in Seq(Nat) /\ Len(times) \in Nat
      /\ \A i \in 1 .. Len(times) : times[i] \in Nat /\ times[i] <= at
      /\ \A i, j \in 1 .. Len(times) : i <= j => times[i] <= times[j]
  BY DEF InOrder
<1>2. PICK d \in 0 .. Len(times) :
         /\ Recent(times, at, w) \in Seq(Nat) /\ Len(Recent(times, at, w)) = Len(times) - d
         /\ \A i \in 1 .. Len(times) - d : Recent(times, at, w)[i] = times[i + d]
  <2>1. times \in Seq(Nat) /\ \A i, j \in 1 .. Len(times) : i <= j => times[i] <= times[j]
    BY <1>1
  <2>2. PICK d \in 0 .. Len(times) :
              /\ Recent(times, at, w) \in Seq(Nat) /\ Len(Recent(times, at, w)) = Len(times) - d
              /\ \A i \in 1 .. Len(times) - d : Recent(times, at, w)[i] = times[i + d]
              /\ \A i \in 1 .. Len(times) : at - times[i] < w => i > d
              /\ Len(times) > 0 /\ at - times[1] >= w => d > 0
    BY <2>1, RecentTimes
  <2> QED
    BY <2>2
<1>3. \A i \in 1 .. Len(times) - d : i + d \in 1 .. Len(times)
  BY <1>1
<1>4. PICK r : r = Recent(times, at, w)
  OBVIOUS
<1>5. /\ r \in Seq(Nat) /\ Len(r) = Len(times) - d /\ Len(r) \in 0 .. Len(times)
      /\ \A i \in 1 .. Len(r) : i + d \in 1 .. Len(times) /\ r[i] = times[i + d]
  <2>1. r \in Seq(Nat) /\ Len(r) = Len(times) - d /\ \A i \in 1 .. Len(times) - d : r[i] = times[i + d]
    BY <1>2, <1>4
  <2>2. Len(r) \in 0 .. Len(times)
    BY <1>1, <2>1
  <2> QED
    BY <1>3, <2>1, <2>2
<1>6. ASSUME NEW i \in 1 .. Len(r), NEW j \in 1 .. Len(r), i <= j PROVE r[i] <= r[j]
  <2>1. i + d \in 1 .. Len(times) /\ j + d \in 1 .. Len(times) /\ i + d <= j + d
    BY <1>5, <1>6
  <2>2. times[i + d] <= times[j + d]
    BY <1>1, <2>1
  <2> QED
    BY <1>5, <2>2
<1> QED
  BY <1>1, <1>4, <1>5, <1>6 DEF InOrder

\* Forgetting what is too old leaves what the window sees.
LEMMA RecentCovers ==
    ASSUME NEW at \in Nat, NEW w \in Nat, NEW times, InOrder(times, at), NEW passed, NEW key, Covers(times, passed, key, at, w)
    PROVE  Covers(Recent(times, at, w), passed, key, at, w)
<1>1. PICK d \in 0 .. Len(times) :
         /\ Len(Recent(times, at, w)) = Len(times) - d
         /\ \A i \in 1 .. Len(times) - d : Recent(times, at, w)[i] = times[i + d]
         /\ \A i \in 1 .. Len(times) : at - times[i] < w => i > d
  <2>1. times \in Seq(Nat) /\ \A i, j \in 1 .. Len(times) : i <= j => times[i] <= times[j]
    BY DEF InOrder
  <2> QED
    BY <2>1, RecentTimes
<1>2. PICK r : r = Recent(times, at, w)
  OBVIOUS
<1>3. Len(times) \in Nat /\ Len(r) = Len(times) - d
  BY <1>1, <1>2 DEF InOrder
<1>4. PICK f \in [1 .. Len(times) -> Nat] :
         \A j \in Seen(passed, key, at, w) : \E n \in 1 .. Len(times) : f[n] = j /\ times[n] = passed[j].at
  BY DEF Covers
<1> DEFINE g == [n \in 1 .. Len(r) |-> f[n + d]]
<1>5. \A n \in 1 .. Len(r) : n + d \in 1 .. Len(times)
  BY <1>3
<1>6. g \in [1 .. Len(r) -> Nat]
  BY <1>5
<1>7. ASSUME NEW j \in Seen(passed, key, at, w) PROVE \E n \in 1 .. Len(r) : g[n] = j /\ r[n] = passed[j].at
  <2>1. PICK n \in 1 .. Len(times) : f[n] = j /\ times[n] = passed[j].at
    BY <1>4
  <2>2. n > d
    BY <1>1, <2>1 DEF Seen
  <2>3. n - d \in 1 .. Len(r) /\ (n - d) + d = n
    BY <1>3, <2>2
  <2>4. r[n - d] = times[n] /\ g[n - d] = f[n]
    BY <1>1, <1>2, <1>3, <2>3
  <2> QED
    BY <2>1, <2>3, <2>4
<1> QED
  BY <1>2, <1>6, <1>7 DEF Covers

\* A request that is let through is recorded, in its own window.
LEMMA AdmittedCovers ==
    ASSUME NEW at \in Nat, NEW w \in Nat, NEW times, InOrder(times, at), NEW passed \in Seq([key : Keys, at : Nat]), NEW key \in Keys,
           Covers(times, passed, key, at, w)
    PROVE  Covers(Append(times, at), Append(passed, [key |-> key, at |-> at]), key, at, w)
<1>1. PICK n : n = Len(passed) + 1 /\ n \in Nat
  OBVIOUS
<1>2. PICK kept : kept = Append(times, at)
  OBVIOUS
<1>3. PICK later : later = Append(passed, [key |-> key, at |-> at])
  OBVIOUS
<1>4. PICK l \in Nat : l = Len(times) /\ Len(kept) = l + 1 /\ kept[l + 1] = at /\ \A m \in 1 .. l : kept[m] = times[m]
  <2>1. times \in Seq(Nat) /\ Len(times) \in Nat
    BY DEF InOrder
  <2> QED
    BY <1>2, <2>1
<1>5. Len(later) = n /\ later[n] = [key |-> key, at |-> at] /\ \A j \in 1 .. Len(passed) : later[j] = passed[j]
  BY <1>1, <1>3
<1>6. PICK f \in [1 .. l -> Nat] :
         \A j \in Seen(passed, key, at, w) : \E m \in 1 .. l : f[m] = j /\ times[m] = passed[j].at
  BY <1>4 DEF Covers
<1> DEFINE g == [m \in 1 .. l + 1 |-> IF m = l + 1 THEN n ELSE f[m]]
<1>7. g \in [1 .. Len(kept) -> Nat]
  BY <1>1, <1>4
<1>8. ASSUME NEW j \in Seen(later, key, at, w) PROVE \E m \in 1 .. Len(kept) : g[m] = j /\ kept[m] = later[j].at
  <2>1. CASE j = n
    <3>1. l + 1 \in 1 .. Len(kept) /\ g[l + 1] = j /\ kept[l + 1] = later[j].at
      BY <1>4, <1>5, <2>1
    <3> QED
      BY <3>1
  <2>2. CASE j # n
    <3>1. j \in 1 .. Len(passed) /\ later[j] = passed[j]
      BY <1>1, <1>5, <2>2 DEF Seen
    <3>2. j \in Seen(passed, key, at, w)
      BY <3>1 DEF Seen
    <3>3. PICK m \in 1 .. l : f[m] = j /\ times[m] = passed[j].at
      BY <1>6, <3>2
    <3>4. m \in 1 .. Len(kept) /\ g[m] = f[m] /\ kept[m] = times[m]
      BY <1>4, <3>3
    <3> QED
      BY <3>1, <3>3, <3>4
  <2> QED
    BY <2>1, <2>2
<1> HIDE DEF g
<1> QED
  BY <1>2, <1>3, <1>7, <1>8 DEF Covers

\* The windows of others do not see it.
LEMMA OtherCovers ==
    ASSUME NEW at \in Nat, NEW w \in Nat, NEW times, NEW passed \in Seq([key : Keys, at : Nat]), NEW x \in [key : Keys, at : Nat],
           NEW key, key # x.key, Covers(times, passed, key, at, w)
    PROVE  Covers(times, Append(passed, x), key, at, w)
<1>1. PICK later : later = Append(passed, x)
  OBVIOUS
<1>2. Len(later) = Len(passed) + 1 /\ later[Len(passed) + 1] = x /\ \A j \in 1 .. Len(passed) : later[j] = passed[j]
  BY <1>1
<1>3. ASSUME NEW j \in Seen(later, key, at, w) PROVE j \in Seen(passed, key, at, w) /\ later[j] = passed[j]
  <2>1. j # Len(passed) + 1
    BY <1>2 DEF Seen
  <2>2. j \in 1 .. Len(passed)
    BY <1>2, <2>1 DEF Seen
  <2> QED
    BY <1>2, <2>2 DEF Seen
<1>4. PICK f \in [1 .. Len(times) -> Nat] :
         \A j \in Seen(passed, key, at, w) : \E m \in 1 .. Len(times) : f[m] = j /\ times[m] = passed[j].at
  BY DEF Covers
<1>5. \A j \in Seen(later, key, at, w) : \E m \in 1 .. Len(times) : f[m] = j /\ times[m] = later[j].at
  BY <1>3, <1>4
<1> QED
  BY <1>1, <1>4, <1>5 DEF Covers

\* A later window sees less.
LEMMA LaterCovers ==
    ASSUME NEW at \in Nat, NEW w \in Nat, NEW times, NEW passed \in Seq([key : Keys, at : Nat]), NEW key,
           Covers(times, passed, key, at, w)
    PROVE  Covers(times, passed, key, at + 1, w)
<1>1. ASSUME NEW j \in Seen(passed, key, at + 1, w) PROVE j \in Seen(passed, key, at, w)
  <2>1. j \in 1 .. Len(passed) /\ passed[j].key = key /\ (at + 1) - passed[j].at < w
    BY DEF Seen
  <2>2. passed[j].at \in Nat
    <3>1. passed[j] \in [key : Keys, at : Nat]
      BY <2>1, ElementOfSeq
    <3> QED
      BY <3>1
  <2>3. at - passed[j].at < w
    BY <2>1, <2>2
  <2> QED
    BY <2>1, <2>3 DEF Seen
<1> QED
  BY <1>1 DEF Covers

\* The times are as many as what the window sees, or more.
LEMMA CoveredBound ==
    ASSUME NEW times, Len(times) \in Nat, NEW passed, NEW key, NEW at, NEW w, Covers(times, passed, key, at, w)
    PROVE  Cardinality(Seen(passed, key, at, w)) \in Nat /\ Cardinality(Seen(passed, key, at, w)) <= Len(times)
<1>1. PICK f \in [1 .. Len(times) -> Nat] :
         \A j \in Seen(passed, key, at, w) : \E m \in 1 .. Len(times) : f[m] = j /\ times[m] = passed[j].at
  BY DEF Covers
<1> DEFINE T == {f[m] : m \in 1 .. Len(times)}
<1>2. f \in Surjection(1 .. Len(times), T)
  BY <1>1 DEF Surjection
<1>3. IsFiniteSet(1 .. Len(times)) /\ Cardinality(1 .. Len(times)) = Len(times)
  BY FS_Interval
<1>4. IsFiniteSet(T) /\ Cardinality(T) <= Len(times)
  BY <1>2, <1>3, FS_Surjection
<1>5. Seen(passed, key, at, w) \subseteq T
  BY <1>1
<1> HIDE DEF T
<1>6. IsFiniteSet(Seen(passed, key, at, w)) /\ Cardinality(Seen(passed, key, at, w)) <= Cardinality(T)
  BY <1>4, <1>5, FS_Subset
<1>7. Cardinality(Seen(passed, key, at, w)) \in Nat /\ Cardinality(T) \in Nat
  BY <1>4, <1>6, FS_CardinalityType
<1> QED
  BY <1>4, <1>6, <1>7

\* A request that is checked writes its own times; others' stay, or lose what is too old.
LEMMA SweptTimes ==
    ASSUME NEW key, NEW d, hits' = Swept(key, d), UNCHANGED <<setup, now>>
    PROVE  /\ DOMAIN hits' \subseteq DOMAIN hits \cup {key}
           /\ HitsOf(key)' = d.times
           /\ \A k : k # key => HitsOf(k)' = HitsOf(k) \/ HitsOf(k)' = Recent(HitsOf(k), now, setup.limit.window)
<1> DEFINE keep(k) == IF k = key THEN d.times ELSE IF setup.limit.redis THEN hits[k] ELSE Recent(hits[k], now, setup.limit.window)
           keys == {k \in DOMAIN hits \cup {key} : keep(k) # << >>}
<1>1. hits' = [k \in keys |-> keep(k)]
  BY DEF Swept
<1>2. DOMAIN hits' = keys /\ \A k \in keys : hits'[k] = keep(k)
  BY <1>1
<1>3. HitsOf(key)' = d.times
  <2>1. keep(key) = d.times /\ (key \in keys <=> d.times # << >>)
    OBVIOUS
  <2> HIDE DEF keep, keys
  <2> QED
    BY <1>2, <2>1 DEF HitsOf
<1>4. ASSUME NEW k, k # key PROVE HitsOf(k)' = HitsOf(k) \/ HitsOf(k)' = Recent(HitsOf(k), now, setup.limit.window)
  <2>1. CASE k \notin DOMAIN hits
    BY <1>2, <1>4, <2>1 DEF HitsOf
  <2>2. CASE k \in DOMAIN hits
    <3>1. HitsOf(k) = hits[k] /\ keep(k) \in {hits[k], Recent(hits[k], now, setup.limit.window)} /\ (k \in keys <=> keep(k) # << >>)
      BY <1>4, <2>2 DEF HitsOf
    <3> HIDE DEF keep, keys
    <3>2. HitsOf(k)' = keep(k)
      BY <1>2, <3>1 DEF HitsOf
    <3> QED
      BY <3>1, <3>2
  <2> QED
    BY <2>1, <2>2
<1> QED
  BY <1>2, <1>3, <1>4

LEMMA RecentWindow ==
    ASSUME NEW times, NEW passed, NEW key, NEW at \in Nat, NEW limit, limit.window \in Nat, limit.max \in Nat,
           Window(times, passed, key, at, limit)
    PROVE  Window(Recent(times, at, limit.window), passed, key, at, limit)
<1>1. InOrder(Recent(times, at, limit.window), at) /\ Len(Recent(times, at, limit.window)) \in 0 .. Len(times)
  BY RecentInOrder DEF Window
<1>2. Covers(Recent(times, at, limit.window), passed, key, at, limit.window)
  BY RecentCovers DEF Window
<1>3. Len(times) \in Nat /\ Len(times) <= limit.max
  BY DEF Window, InOrder
<1>4. Len(Recent(times, at, limit.window)) <= limit.max
  BY <1>1, <1>3
<1> QED
  BY <1>1, <1>2, <1>4 DEF Window

LEMMA LaterWindow ==
    ASSUME NEW times, NEW passed \in Seq([key : Keys, at : Nat]), NEW key, NEW at \in Nat, NEW limit, limit.window \in Nat,
           Window(times, passed, key, at, limit)
    PROVE  Window(times, passed, key, at + 1, limit)
<1>1. Covers(times, passed, key, at + 1, limit.window)
  BY LaterCovers DEF Window
<1>2. InOrder(times, at + 1)
  <2>1. /\ times \in Seq(Nat) /\ \A i \in 1 .. Len(times) : times[i] <= at /\ times[i] \in Nat
        /\ \A i, j \in 1 .. Len(times) : i <= j => times[i] <= times[j]
    BY DEF Window, InOrder
  <2>2. \A i \in 1 .. Len(times) : times[i] <= at + 1
    BY <2>1
  <2> QED
    BY <2>1, <2>2 DEF InOrder
<1> QED
  BY <1>1, <1>2 DEF Window

LEMMA OtherWindow ==
    ASSUME NEW times, NEW passed \in Seq([key : Keys, at : Nat]), NEW key, NEW at \in Nat, NEW limit, limit.window \in Nat,
           NEW x \in [key : Keys, at : Nat], key # x.key, Window(times, passed, key, at, limit)
    PROVE  Window(times, Append(passed, x), key, at, limit)
BY OtherCovers DEF Window

LEMMA AdmittedWindow ==
    ASSUME NEW times, NEW passed \in Seq([key : Keys, at : Nat]), NEW key \in Keys, NEW at \in Nat, NEW limit, limit.window \in Nat,
           limit.max \in Nat, Window(times, passed, key, at, limit), Len(times) < limit.max
    PROVE  Window(Append(times, at), Append(passed, [key |-> key, at |-> at]), key, at, limit)
<1>1. Covers(Append(times, at), Append(passed, [key |-> key, at |-> at]), key, at, limit.window)
  BY AdmittedCovers DEF Window
<1>2. /\ times \in Seq(Nat) /\ Len(times) \in Nat /\ \A i \in 1 .. Len(times) : times[i] <= at /\ times[i] \in Nat
      /\ \A i, j \in 1 .. Len(times) : i <= j => times[i] <= times[j]
  BY DEF Window, InOrder
<1>3. PICK t : t = Append(times, at)
  OBVIOUS
<1>4. t \in Seq(Nat) /\ Len(t) = Len(times) + 1 /\ t[Len(times) + 1] = at /\ \A i \in 1 .. Len(times) : t[i] = times[i]
  BY <1>2, <1>3
<1>5. \A i \in 1 .. Len(t) : t[i] <= at
  BY <1>2, <1>3, AppendProperties
<1>6. ASSUME NEW i \in 1 .. Len(t), NEW j \in 1 .. Len(t), i <= j PROVE t[i] <= t[j]
  <2>1. CASE j = Len(times) + 1
    BY <1>4, <1>5, <2>1
  <2>2. CASE j # Len(times) + 1
    <3>1. i \in 1 .. Len(times) /\ j \in 1 .. Len(times)
      BY <1>2, <1>4, <1>6, <2>2
    <3> QED
      BY <1>2, <1>4, <1>6, <3>1
  <2> QED
    BY <2>1, <2>2
<1>7. Len(t) <= limit.max
  BY <1>2, <1>4
<1>8. InOrder(t, at)
  BY <1>4, <1>5, <1>6 DEF InOrder
<1> QED
  BY <1>1, <1>3, <1>7, <1>8 DEF Window

LEMMA AdmittedBounded ==
    ASSUME NEW passed \in Seq([key : Keys, at : Nat]), NEW x \in [key : Keys, at : Nat], NEW limit, Bounded(passed, limit),
           Cardinality(Seen(Append(passed, x), x.key, x.at, limit.window)) <= limit.max
    PROVE  Bounded(Append(passed, x), limit)
<1>1. PICK later : later = Append(passed, x)
  OBVIOUS
<1>2. Len(passed) \in Nat /\ Len(later) = Len(passed) + 1 /\ later[Len(passed) + 1] = x /\ \A j \in 1 .. Len(passed) : later[j] = passed[j]
  BY <1>1
<1> DEFINE behind(p, i) == {j \in 1 .. i : p[j].key = p[i].key /\ p[i].at - p[j].at < limit.window}
<1>3. ASSUME NEW i \in 1 .. Len(later) PROVE Cardinality(behind(later, i)) <= limit.max
  <2>1. CASE i = Len(passed) + 1
    <3>1. behind(later, i) = Seen(later, x.key, x.at, limit.window)
      BY <1>2, <2>1 DEF Seen
    <3> HIDE DEF behind
    <3> QED
      BY <1>1, <3>1
  <2>2. CASE i # Len(passed) + 1
    <3>1. i \in 1 .. Len(passed) /\ 1 .. i \subseteq 1 .. Len(passed)
      BY <1>2, <2>2
    <3>2. behind(later, i) = behind(passed, i)
      BY <1>2, <3>1
    <3>3. Cardinality(behind(passed, i)) <= limit.max
      BY <3>1 DEF Bounded
    <3> HIDE DEF behind
    <3> QED
      BY <3>2, <3>3
  <2> QED
    BY <2>1, <2>2
<1> QED
  BY <1>1, <1>3 DEF Bounded

\* MemoryRateLimiter::check and the script in Redis.
LEMMA AdmitStep ==
    ASSUME Windows, setup \in Setups, now \in Nat, setup.limit # None, UNCHANGED <<setup, now>>,
           NEW key \in Keys, NEW d, d = Decision(HitsOf(key), now, setup.limit), hits' = Swept(key, d),
           admitted' = IF d.allowed THEN Append(admitted, [key |-> key, at |-> now]) ELSE admitted
    PROVE  Windows'
<1>1. PICK limit : limit = setup.limit /\ limit.max \in Nat \ {0} /\ limit.window \in Nat \ {0} /\ setup'.limit = limit
  BY LimitTyped
<1>2. /\ admitted \in Seq([key : Keys, at : Nat]) /\ Bounded(admitted, limit) /\ DOMAIN hits \subseteq Keys
      /\ \A k \in Keys : Window(HitsOf(k), admitted, k, now, limit)
  BY <1>1 DEF Windows
<1>3. \A k \in Keys : Window(Recent(HitsOf(k), now, limit.window), admitted, k, now, limit)
  BY <1>1, <1>2, RecentWindow
<1>4. /\ DOMAIN hits' \subseteq Keys /\ HitsOf(key)' = d.times
      /\ \A k \in Keys : k # key => HitsOf(k)' = HitsOf(k) \/ HitsOf(k)' = Recent(HitsOf(k), now, limit.window)
  BY <1>1, <1>2, SweptTimes
<1>5. \A k \in Keys : k # key => Window(HitsOf(k)', admitted, k, now, limit)
  BY <1>2, <1>3, <1>4
<1>6. PICK recent : recent = Recent(HitsOf(key), now, limit.window)
  OBVIOUS
<1>7. Window(recent, admitted, key, now, limit)
  BY <1>3, <1>6
<1>8. CASE Len(recent) >= limit.max
  <2>1. ~d.allowed /\ d.times = recent
    BY <1>1, <1>6, <1>8 DEF Decision
  <2>2. admitted' = admitted /\ \A k \in Keys : Window(HitsOf(k)', admitted, k, now, limit)
    BY <1>4, <1>5, <1>7, <2>1
  <2> QED
    BY <1>1, <1>2, <1>4, <2>2 DEF Windows
<1>9. CASE ~(Len(recent) >= limit.max)
  <2>1. d.allowed /\ d.times = Append(recent, now)
    BY <1>1, <1>6, <1>9 DEF Decision
  <2>2. PICK x \in [key : Keys, at : Nat] : x = [key |-> key, at |-> now] /\ x.key = key /\ x.at = now
    OBVIOUS
  <2>3. admitted' = Append(admitted, x) /\ admitted' \in Seq([key : Keys, at : Nat])
    BY <1>2, <2>1, <2>2, AppendProperties
  <2>4. recent \in Seq(Nat) /\ Len(recent) < limit.max
    BY <1>1, <1>7, <1>9 DEF Window, InOrder
  <2>5. Window(Append(recent, now), Append(admitted, x), key, now, limit)
    BY <1>1, <1>2, <1>7, <2>2, <2>4, AdmittedWindow
  <2>6. \A k \in Keys : k # key => Window(HitsOf(k)', Append(admitted, x), k, now, limit)
    BY <1>1, <1>2, <1>5, <2>2, OtherWindow
  <2>7. Bounded(Append(admitted, x), limit)
    <3>1. PICK t : t = Append(recent, now) /\ Len(t) \in Nat /\ Len(t) <= limit.max
      <4>1. Len(recent) \in Nat /\ Len(Append(recent, now)) = Len(recent) + 1
        BY <2>4, AppendProperties
      <4>2. Len(Append(recent, now)) \in Nat /\ Len(Append(recent, now)) <= limit.max
        BY <1>1, <2>4, <4>1
      <4> QED
        BY <4>2
    <3>2. Covers(t, Append(admitted, x), key, now, limit.window)
      BY <2>5, <3>1 DEF Window
    <3>3. /\ Cardinality(Seen(Append(admitted, x), key, now, limit.window)) \in Nat
          /\ Cardinality(Seen(Append(admitted, x), key, now, limit.window)) <= Len(t)
      BY <3>1, <3>2, CoveredBound
    <3>4. PICK n \in Nat : n = Cardinality(Seen(Append(admitted, x), key, now, limit.window)) /\ n <= Len(t)
      BY <3>3
    <3>5. n <= limit.max /\ n = Cardinality(Seen(Append(admitted, x), x.key, x.at, limit.window))
      BY <1>1, <2>2, <3>1, <3>4
    <3> QED
      BY <1>2, <2>2, <3>5, AdmittedBounded
  <2>8. \A k \in Keys : Window(HitsOf(k)', Append(admitted, x), k, now, limit)
    BY <1>4, <2>1, <2>5, <2>6
  <2> QED
    BY <1>1, <1>4, <2>3, <2>7, <2>8 DEF Windows
<1> QED
  BY <1>8, <1>9

\* Only a request that begins, and the clock, touch what the limiter looks at.
LEMMA WindowsStep == ASSUME IInv, Windows, [Next]_vars PROVE Windows'
<1>1. setup \in Setups /\ now \in Nat
  BY ConstantsTyped DEF IInv, Tables, TypeOK
<1>2. CASE UNCHANGED <<setup, now, hits, admitted>>
  BY <1>2 DEF Windows, HitsOf
<1>3. CASE Tick
  <2>1. now' = now + 1 /\ UNCHANGED <<setup, hits, admitted>>
    BY <1>3 DEF Tick, history
  <2>2. CASE setup.limit = None
    BY <2>1, <2>2 DEF Windows
  <2>3. CASE setup.limit # None
    <3>1. setup.limit.window \in Nat
      BY <1>1, <2>3, LimitTyped
    <3>2. admitted \in Seq([key : Keys, at : Nat]) /\ \A k \in Keys : Window(HitsOf(k), admitted, k, now, setup.limit)
      BY <2>3 DEF Windows
    <3>3. \A k \in Keys : Window(HitsOf(k), admitted, k, now + 1, setup.limit)
      BY <1>1, <3>1, <3>2, LaterWindow
    <3> QED
      BY <2>1, <3>3 DEF Windows, HitsOf
  <2> QED
    BY <2>2, <2>3
<1>4. ASSUME NEW c \in Clients, Begin(c) PROVE Windows'
  <2>1. UNCHANGED <<setup, now>>
    BY <1>4 DEF Begin
  <2>2. CASE UNCHANGED <<hits, admitted>>
    BY <1>2, <2>1, <2>2
  <2>3. CASE ~UNCHANGED <<hits, admitted>>
    <3>1. PICK op \in setup.ops, a \in Addresses : \E key, d :
             /\ setup.limit # None /\ key = <<op, ResolveAddress(a.peer, a.forwarded)>> /\ d = Decision(HitsOf(key), now, setup.limit)
             /\ hits' = Swept(key, d) /\ admitted' = IF d.allowed THEN Append(admitted, [key |-> key, at |-> now]) ELSE admitted
      BY <1>4, <2>3 DEF Begin, Admit, Limited
    <3>2. PICK key, d :
             /\ setup.limit # None /\ key = <<op, ResolveAddress(a.peer, a.forwarded)>> /\ d = Decision(HitsOf(key), now, setup.limit)
             /\ hits' = Swept(key, d) /\ admitted' = IF d.allowed THEN Append(admitted, [key |-> key, at |-> now]) ELSE admitted
      BY <3>1
    <3>3. key \in Keys
      BY <1>1, <3>2 DEF Keys
    <3> QED
      BY <1>1, <2>1, <3>2, <3>3, AdmitStep
  <2> QED
    BY <2>2, <2>3
<1>5. ASSUME NEW c \in Clients, AccountStep(c), ~Begin(c) PROVE UNCHANGED <<setup, now, hits, admitted>>
  BY <1>5 DEF AccountStep, Bearer, Store, Send, Register, AskForToken, ResendVerification, VerifyEmail, FindByResetToken, ResetPassword,
              ChangePassword, FindByMagicLink, ClearMagicLink, Login, CreateSession, InsertSession, AskForChange, RequestEmailChange,
              ConfirmEmailChange, LeaveCheck, LeaveList, LeaveDelete, LeavePurge, AdminStart, CreateManagedUser, UpdateManagedUser,
              DeleteManagedUser, FindUser, Rest
<1>6. ASSUME NEW c \in Clients, ExternalStep(c) PROVE UNCHANGED <<setup, now, hits, admitted>>
  BY <1>6 DEF ExternalStep, Authorize, LinkAuthorize, CreateAuthorizeUrl, TakeState, ExchangeFails, LinkConnection, FindConnection,
              CompleteSignup, Unlink, Rest
<1>7. CASE Cleanup
  BY <1>2, <1>7 DEF Cleanup, history
<1>8. CASE UNCHANGED vars
  BY <1>2, <1>8 DEF vars, history
<1> QED
  BY <1>2, <1>3, <1>4, <1>5, <1>6, <1>7, <1>8 DEF Next

LEMMA WindowsInit == ASSUME Init PROVE Windows
<1>1. hits = << >> /\ admitted = << >> /\ now = 0 /\ setup \in Setups
  BY DEF Init
<1>2. ASSUME setup.limit # None PROVE Windows
  <2>1. setup.limit.max \in Nat \ {0} /\ setup.limit.window \in Nat \ {0}
    BY <1>1, <1>2, LimitTyped
  <2>2. \A k \in Keys : HitsOf(k) = << >>
    BY <1>1 DEF HitsOf
  <2>3. InOrder(<< >>, 0) /\ Len(<< >>) <= setup.limit.max
    BY <2>1 DEF InOrder
  <2>4. \A k \in Keys : Covers(<< >>, << >>, k, 0, setup.limit.window)
    <3>1. [n \in 1 .. Len(<< >>) |-> 0] \in [1 .. Len(<< >>) -> Nat]
      OBVIOUS
    <3>2. \A k \in Keys : Seen(<< >>, k, 0, setup.limit.window) = {}
      BY DEF Seen
    <3> QED
      BY <3>1, <3>2 DEF Covers
  <2>5. Bounded(<< >>, setup.limit)
    BY DEF Bounded
  <2> QED
    BY <1>1, <2>2, <2>3, <2>4, <2>5 DEF Windows, Window
<1> QED
  BY <1>2 DEF Windows

LEMMA RoundedUp ==
    ASSUME NEW s \in Nat, s > 0, NEW n \in Int, NEW r \in Int, r = (n + s - 1) \div s
    PROVE  /\ s * r \in Int /\ s * r >= n
           /\ r < 1 => n <= s
           /\ r >= 1 => r \in Nat /\ s * r \in Nat
<1>1. PICK p \in Int : p = s * r /\ p <= n + s - 1 /\ n + s - 1 < p + s
  OBVIOUS
<1>2. ASSUME r < 1 PROVE n <= s
  <2>1. PICK j \in Nat : r = 0 - j
    BY <1>2
  <2>2. PICK k \in Nat : k = s * j
    OBVIOUS
  <2>3. p = 0 - k
    BY <1>1, <2>1, <2>2
  <2> QED
    BY <1>1, <2>2, <2>3
<1>3. ASSUME r >= 1 PROVE s * r \in Nat
  BY <1>3
<1> QED
  BY <1>1, <1>2, <1>3

\* The seconds that Redis tells, rounded up, are long enough.
LEMMA LongEnough ==
    ASSUME NEW n \in Int
    PROVE  \E q \in Nat : q = AtLeastOne(Seconds(n, TRUE)) /\ Second * q \in Nat /\ Second * q >= n
<1>1. Second \in Nat /\ Second > 0
  BY RateLimitsAssumption
<1>2. PICK r \in Int : r = (n + Second - 1) \div Second
  BY <1>1
<1>3. Seconds(n, TRUE) = r
  BY <1>2 DEF Seconds
<1>4. /\ Second * r \in Int /\ Second * r >= n
      /\ r < 1 => n <= Second
      /\ r >= 1 => r \in Nat /\ Second * r \in Nat
  BY <1>1, <1>2, RoundedUp
<1>5. CASE r < 1
  <2>1. AtLeastOne(Seconds(n, TRUE)) = 1
    BY <1>3, <1>5 DEF AtLeastOne
  <2>2. 1 \in Nat /\ Second * 1 \in Nat /\ Second * 1 >= n
    BY <1>1, <1>4, <1>5
  <2> QED
    BY <2>1, <2>2
<1>6. CASE ~(r < 1)
  <2>1. AtLeastOne(Seconds(n, TRUE)) = r
    BY <1>3, <1>6 DEF AtLeastOne
  <2>2. r >= 1
    BY <1>2, <1>6
  <2> QED
    BY <1>4, <2>1, <2>2
<1> QED
  BY <1>5, <1>6

\* Then the oldest of a full window is too old, and there is room.
LEMMA LaterAllowed ==
    ASSUME NEW limit, limit.max \in Nat \ {0}, limit.window \in Nat, NEW at \in Nat, NEW times, InOrder(times, at),
           Len(times) <= limit.max, Len(times) >= limit.max
    PROVE  Decision(times, at + Second * RetryAfter(times, at, limit.window, TRUE), limit).allowed
<1>1. /\ times \in Seq(Nat) /\ Len(times) \in Nat /\ Len(times) > 0 /\ times[1] \in Nat /\ Head(times) = times[1]
      /\ \A i, j \in 1 .. Len(times) : i <= j => times[i] <= times[j]
  BY DEF InOrder
<1>2. PICK n \in Int : n = Head(times) + limit.window - at
  BY <1>1
<1>3. RetryAfter(times, at, limit.window, TRUE) = AtLeastOne(Seconds(n, TRUE))
  BY <1>2 DEF RetryAfter
<1>4. PICK wait \in Nat : wait = Second * RetryAfter(times, at, limit.window, TRUE) /\ wait >= n
  BY <1>3, LongEnough
<1>5. PICK later \in Nat : later = at + wait
  OBVIOUS
<1>6. later - times[1] >= limit.window
  <2>1. wait >= n
    BY <1>4
  <2>2. n = times[1] + limit.window - at
    BY <1>1, <1>2
  <2> QED
    BY <1>1, <1>5, <2>1, <2>2
<1>7. PICK d \in 0 .. Len(times) :
         /\ Len(Recent(times, later, limit.window)) = Len(times) - d
         /\ Len(times) > 0 /\ later - times[1] >= limit.window => d > 0
  <2>1. times \in Seq(Nat) /\ \A i, j \in 1 .. Len(times) : i <= j => times[i] <= times[j]
    BY <1>1
  <2> QED
    BY <2>1, RecentTimes
<1>8. ~(Len(Recent(times, later, limit.window)) >= limit.max)
  BY <1>1, <1>6, <1>7
<1> QED
  BY <1>3, <1>4, <1>5, <1>8 DEF Decision

\* The limit holds in every window that ends with a request that was let through, whatever the requests
\* and the clock do, since the limiter's times cover what it let through; and whoever waits as long as
\* Redis says is let through, since the seconds are rounded up (MemoryRateLimiter::check, the script of
\* RedisRateLimiter).
THEOREM WindowsHold == Spec => []SlidingWindow
<1>1. Spec => []Windows
  <2>1. Spec => []IInv
    BY Inductive, PTL
  <2>2. Init => Windows
    BY WindowsInit
  <2>3. IInv /\ Windows /\ [Next]_vars => Windows'
    BY WindowsStep
  <2> QED
    BY <2>1, <2>2, <2>3, PTL DEF Spec
<1>2. IInv /\ Windows => SlidingWindow
  <2> SUFFICES ASSUME IInv, Windows, setup.limit # None PROVE SlidingWindow
    BY DEF SlidingWindow
  <2>1. setup \in Setups /\ now \in Nat
    BY ConstantsTyped DEF IInv, Tables, TypeOK
  <2>2. PICK limit : limit = setup.limit /\ limit.max \in Nat \ {0} /\ limit.window \in Nat \ {0}
    BY <2>1, LimitTyped
  <2>3. /\ admitted \in Seq([key : Keys, at : Nat]) /\ DOMAIN hits \subseteq Keys /\ Bounded(admitted, limit)
        /\ \A k \in Keys : Window(HitsOf(k), admitted, k, now, limit)
    BY <2>2 DEF Windows
  <2>4. DOMAIN admitted = 1 .. Len(admitted)
    BY <2>3
  <2>5. ASSUME NEW k \in DOMAIN hits, NEW recent, recent = Recent(hits[k], now, limit.window), Len(recent) >= limit.max
        PROVE  Decision(recent, now + Second * RetryAfter(recent, now, limit.window, TRUE), limit).allowed
    <3>1. Window(hits[k], admitted, k, now, limit)
      BY <2>3 DEF HitsOf
    <3>2. Window(recent, admitted, k, now, limit)
      BY <2>1, <2>2, <2>5, <3>1, RecentWindow
    <3> QED
      BY <2>1, <2>2, <2>5, <3>2, LaterAllowed DEF Window
  <2> QED
    BY <2>2, <2>3, <2>4, <2>5 DEF SlidingWindow, Bounded
<1>3. Spec => []IInv
  BY Inductive, PTL
<1> QED
  BY <1>1, <1>2, <1>3, PTL
=============================================================================
