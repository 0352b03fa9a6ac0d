--------------------------- MODULE AccountsProofs ---------------------------
(***************************************************************************)
(* Proofs of the invariants of Accounts and of SpendsOnlySigned, for all   *)
(* sets of accounts, packages and transactions.                            *)
(*                                                                         *)
(* Every operator on the state is shown to be a good step, Good(s, t, A):  *)
(* nonces and used identifiers only grow, only the accounts of A lose      *)
(* tokens, and the invariants on packages, delegates and indices are kept. *)
(* Good steps compose, and a transaction is a composition of them.         *)
(***************************************************************************)
EXTENDS Accounts, SequenceTheorems, TLAPS

\* Nonces and used identifiers only grow, accounts do not disappear.
Later(s, t) ==
  /\ DOMAIN s.acc \subseteq DOMAIN t.acc
  /\ \A a \in DOMAIN s.acc : t.acc[a].nonce >= s.acc[a].nonce
  /\ s.used \subseteq t.used

\* Only the accounts of A lose tokens.
OnlySpend(s, t, A) ==
  \A a \in DOMAIN s.acc \ A : t.acc[a].balance >= s.acc[a].balance

\* A transferred package is marked as used, and it is the only one of its key.
FaucetInv(s) ==
  \A p \in Package :
    /\ s.paid[p] <= 1
    /\ s.paid[p] > 0 => FaucetNonce(s, p)
    /\ \A q \in Package :
         s.paid[p] > 0 /\ s.paid[q] > 0 /\ FaucetKey(p) = FaucetKey(q) => p = q

DelegatesInv(s) ==
  \A a \in DOMAIN s.acc : CheckDuplicateDelegates(s.acc[a].delegates, a)

\* The elections of an account are those below its index, or all of them.
IndexInv(s) ==
  /\ \A e \in s.elections : e[1] \in DOMAIN s.acc
  /\ \A a \in DOMAIN s.acc :
       /\ s.acc[a].index <= MaxIndex + 1
       /\ \/ \A i \in Nat : <<a, i>> \in s.elections <=> i < s.acc[a].index
          \/ \A i \in 0 .. MaxIndex + 1 : <<a, i>> \in s.elections

StateInv(s) == FaucetInv(s) /\ DelegatesInv(s) /\ IndexInv(s)

Good(s, t, A) ==
  /\ IsState(t)
  /\ Later(s, t)
  /\ OnlySpend(s, t, A)
  /\ StateInv(s) => StateInv(t)

\* Spent(s, tx): the checks refuse the transaction from now on.
Spent(s, tx) ==
  IF tx.type = "CREATE_ACCOUNT" THEN Exists(s, tx.signer)
  ELSE IF tx.type = "COLLECT_FAUCET" THEN FaucetNonce(s, tx.pkg)
  ELSE Exists(s, tx.signer) /\ s.acc[tx.signer].nonce > tx.nonce

ReplayInv == \A tx \in Tx : done[tx] = 0 \/ (done[tx] = 1 /\ Spent(state, tx))

AccountsInv == TypeOK /\ StateInv(state) /\ ReplayInv

-----------------------------------------------------------------------------
(* Good steps *)

\* Nothing happens, or an error is reported.
LEMMA GoodFailed ==
  ASSUME NEW s, IsState(s), NEW A
  PROVE  Good(s, s, A) /\ Good(s, Failed(s), A) /\ Erred(Failed(s))
<1>1. /\ Failed(s).acc = s.acc /\ Failed(s).used = s.used
      /\ Failed(s).elections = s.elections /\ Failed(s).paid = s.paid
      /\ Failed(s).err = "error"
  BY DEF Failed, IsState
<1>2. IsState(Failed(s))
  <2>1. Failed(s) = [acc |-> s.acc, used |-> s.used, elections |-> s.elections,
                     paid |-> s.paid, err |-> "error"]
    BY DEF IsState, Failed
  <2> QED
    BY <1>1, <2>1 DEF IsState
<1>3. \A a \in DOMAIN s.acc : s.acc[a].nonce \in Nat /\ s.acc[a].balance \in Int
  BY AccountsAssumption DEF IsState, Account, UInt64
<1>4. Later(s, s) /\ OnlySpend(s, s, A)
  BY <1>3 DEF Later, OnlySpend
<1>5. Later(s, Failed(s)) /\ OnlySpend(s, Failed(s), A)
  BY <1>1, <1>3 DEF Later, OnlySpend
<1>6. StateInv(s) => StateInv(Failed(s))
  BY <1>1 DEF StateInv, FaucetInv, DelegatesInv, IndexInv, FaucetNonce
<1> QED
  BY <1>1, <1>2, <1>4, <1>5, <1>6 DEF Good, Erred

\* Good steps compose.
LEMMA GoodCompose ==
  ASSUME NEW s, NEW t, NEW u, NEW A, IsState(s), Good(s, t, A), Good(t, u, A)
  PROVE  Good(s, u, A)
<1>1. IsState(t) /\ IsState(u)
  BY DEF Good
<1>2. \A a \in DOMAIN s.acc :
        /\ s.acc[a].nonce \in Nat /\ s.acc[a].balance \in Int
        /\ a \in DOMAIN t.acc /\ a \in DOMAIN u.acc
  BY AccountsAssumption DEF IsState, Account, UInt64, Good, Later
<1>3. \A a \in DOMAIN t.acc : t.acc[a].nonce \in Nat /\ t.acc[a].balance \in Int
  BY <1>1, AccountsAssumption DEF IsState, Account, UInt64
<1>4. \A a \in DOMAIN u.acc : u.acc[a].nonce \in Nat /\ u.acc[a].balance \in Int
  BY <1>1, AccountsAssumption DEF IsState, Account, UInt64
<1>5. Later(s, u)
  BY <1>2, <1>3, <1>4 DEF Good, Later
<1>6. OnlySpend(s, u, A)
  BY <1>2, <1>3, <1>4 DEF Good, OnlySpend
<1> QED
  BY <1>1, <1>5, <1>6 DEF Good

\* What SetAccount writes.
LEMMA SetAccountEffect ==
  ASSUME NEW s, IsState(s), NEW a \in Address, NEW r \in Account
  PROVE  LET t == SetAccount(s, a, r)
         IN  /\ IsState(t)
             /\ DOMAIN t.acc = DOMAIN s.acc \cup {a}
             /\ t.acc[a] = r
             /\ \A x \in DOMAIN s.acc : x # a => t.acc[x] = s.acc[x]
             /\ t.used = s.used /\ t.elections = s.elections
             /\ t.paid = s.paid /\ t.err = s.err
<1> DEFINE t == SetAccount(s, a, r)
<1>1. /\ t.acc = [x \in DOMAIN s.acc \cup {a} |-> IF x = a THEN r ELSE s.acc[x]]
      /\ t.used = s.used /\ t.elections = s.elections
      /\ t.paid = s.paid /\ t.err = s.err
      /\ t = [acc |-> t.acc, used |-> t.used, elections |-> t.elections,
              paid |-> t.paid, err |-> t.err]
  BY DEF SetAccount, IsState
<1>2. DOMAIN t.acc = DOMAIN s.acc \cup {a}
  BY <1>1
<1>3. t.acc \in [DOMAIN t.acc -> Account]
  BY <1>1, <1>2 DEF IsState
<1>4. IsState(t)
  BY <1>1, <1>2, <1>3 DEF IsState
<1> QED
  BY <1>1, <1>2, <1>4

\* An existing account changes, but for its delegates and its index.
LEMMA SetAccountGood ==
  ASSUME NEW s, IsState(s), NEW a \in DOMAIN s.acc, NEW r \in Account, NEW A,
         r.nonce >= s.acc[a].nonce,
         a \in A \/ r.balance >= s.acc[a].balance,
         r.delegates = s.acc[a].delegates, r.index = s.acc[a].index
  PROVE  Good(s, SetAccount(s, a, r), A)
<1> DEFINE t == SetAccount(s, a, r)
<1>0. a \in Address
  BY DEF IsState
<1>1. /\ IsState(t)
      /\ DOMAIN t.acc = DOMAIN s.acc \cup {a}
      /\ t.acc[a] = r
      /\ \A x \in DOMAIN s.acc : x # a => t.acc[x] = s.acc[x]
      /\ t.used = s.used /\ t.elections = s.elections
      /\ t.paid = s.paid /\ t.err = s.err
  BY <1>0, SetAccountEffect, Zenon
<1>8. DOMAIN t.acc = DOMAIN s.acc
  BY <1>1
<1>2. \A x \in DOMAIN s.acc : s.acc[x].nonce \in Nat /\ s.acc[x].balance \in Int
  BY AccountsAssumption DEF IsState, Account, UInt64
<1> HIDE DEF t
<1>3. \A x \in DOMAIN s.acc : /\ t.acc[x].delegates = s.acc[x].delegates
                              /\ t.acc[x].index = s.acc[x].index
  BY <1>1
<1>4. Later(s, t)
  BY <1>1, <1>8, <1>2 DEF Later
<1>5. OnlySpend(s, t, A)
  BY <1>1, <1>8, <1>2 DEF OnlySpend
<1>6. StateInv(s) => StateInv(t)
  BY <1>1, <1>8, <1>3 DEF StateInv, FaucetInv, DelegatesInv, IndexInv, FaucetNonce
<1>7. Good(s, t, A)
  BY <1>1, <1>4, <1>5, <1>6 DEF Good
<1> QED
  BY <1>7 DEF t

-----------------------------------------------------------------------------
(* Balances and nonces *)

\* Another balance, another nonce.
LEMMA UpdateAccount ==
  ASSUME NEW r \in Account
  PROVE  /\ r.balance \in UInt64 /\ r.nonce \in Nat
         /\ \A b \in UInt64 : LET q == [r EXCEPT !.balance = b]
              IN  /\ q \in Account /\ q.balance = b /\ q.nonce = r.nonce
                  /\ q.index = r.index /\ q.delegates = r.delegates
         /\ \A n \in Nat : LET q == [r EXCEPT !.nonce = n]
              IN  /\ q \in Account /\ q.balance = r.balance /\ q.nonce = n
                  /\ q.index = r.index /\ q.delegates = r.delegates
BY DEF Account

\* A transfer takes tokens from its origin only.
LEMMA TransferGood ==
  ASSUME NEW s, IsState(s), NEW from \in Address, NEW to \in Address,
         NEW amount \in UInt64, NEW A, from \in A
  PROVE  Good(s, TransferBalance(s, from, to, amount), A)
<1>1. CASE Erred(s)
  BY <1>1, GoodFailed DEF TransferBalance
<1>2. CASE ~Erred(s) /\ ~(/\ Exists(s, from)
                          /\ Exists(s, to)
                          /\ CanTransfer(s.acc[from], s.acc[to], amount))
  BY <1>2, GoodFailed DEF TransferBalance
<1>3. CASE ~Erred(s) /\ /\ Exists(s, from)
                        /\ Exists(s, to)
                        /\ CanTransfer(s.acc[from], s.acc[to], amount)
  <2> DEFINE d == Debit(s.acc[from], amount)
             c == Credit(s.acc[to], amount)
             u == SetAccount(s, from, d)
  <2>1. s.acc[from] \in Account /\ s.acc[to] \in Account
    BY <1>3 DEF IsState, Exists
  <2>a. s.acc[from].balance \in UInt64 /\ s.acc[to].balance \in UInt64
    BY <2>1, UpdateAccount
  <2>b. U64 \in Nat \ {0}
    BY AccountsAssumption
  <2>c. /\ s.acc[from].balance - amount \in UInt64
        /\ (s.acc[to].balance + amount) % U64 \in UInt64
        /\ (s.acc[to].balance + amount) % U64 >= s.acc[to].balance
    BY <1>3, <2>a, <2>b DEF CanTransfer, UInt64
  <2>2. /\ d \in Account /\ d.nonce = s.acc[from].nonce /\ d.index = s.acc[from].index
        /\ d.delegates = s.acc[from].delegates
    BY <2>1, <2>c, UpdateAccount DEF Debit
  <2>3. /\ c \in Account /\ c.nonce = s.acc[to].nonce /\ c.index = s.acc[to].index
        /\ c.delegates = s.acc[to].delegates
        /\ c.balance >= s.acc[to].balance
    BY <2>1, <2>c, UpdateAccount DEF Credit
  <2>4. s.acc[from].nonce \in Nat /\ s.acc[to].nonce \in Nat
    BY <2>1 DEF Account
  <2> HIDE DEF d, c
  <2>5. Good(s, u, A)
    BY <1>3, <2>2, <2>4, SetAccountGood DEF Exists
  <2>6. /\ IsState(u) /\ to \in DOMAIN u.acc
        /\ u.acc[to] = (IF to = from THEN d ELSE s.acc[to])
    BY <1>3, <2>2, SetAccountEffect DEF Exists
  <2>7. /\ c.nonce >= u.acc[to].nonce
        /\ to \in A \/ c.balance >= u.acc[to].balance
        /\ c.delegates = u.acc[to].delegates /\ c.index = u.acc[to].index
    BY <2>2, <2>3, <2>4, <2>6
  <2> HIDE DEF u
  <2>8. Good(u, SetAccount(u, to, c), A)
    BY <2>3, <2>6, <2>7, SetAccountGood
  <2>9. TransferBalance(s, from, to, amount) = SetAccount(u, to, c)
    BY <1>3 DEF TransferBalance, u, d, c
  <2> QED
    BY <2>5, <2>8, <2>9, GoodCompose
<1> QED
  BY <1>1, <1>2, <1>3

\* Burning a cost is a transfer or nothing.
LEMMA BurnGood ==
  ASSUME NEW s, IsState(s), NEW from \in Address, NEW cost \in UInt64,
         NEW A, from \in A
  PROVE  Good(s, BurnTxCost(s, from, cost), A)
BY TransferGood, GoodFailed, AccountsAssumption DEF BurnTxCost

\* The nonce of an existing account grows by one.
LEMMA IncrementNonceGood ==
  ASSUME NEW s, IsState(s), NEW a \in DOMAIN s.acc, NEW A
  PROVE  /\ Good(s, IncrementNonce(s, a), A)
         /\ ~Erred(IncrementNonce(s, a)) =>
              IncrementNonce(s, a).acc[a].nonce > s.acc[a].nonce
<1> DEFINE r == [s.acc[a] EXCEPT !.nonce = @ + 1]
<1>1. CASE Erred(s)
  BY <1>1, GoodFailed DEF IncrementNonce
<1>2. CASE ~Erred(s)
  <2>1. s.acc[a] \in Account /\ a \in Address
    BY DEF IsState
  <2>2. /\ r \in Account /\ r.nonce = s.acc[a].nonce + 1 /\ r.index = s.acc[a].index
        /\ r.delegates = s.acc[a].delegates /\ r.balance = s.acc[a].balance
        /\ s.acc[a].nonce \in Nat /\ s.acc[a].balance \in Int
    <3>1. s.acc[a].nonce + 1 \in Nat /\ s.acc[a].balance \in Int
      BY <2>1, UpdateAccount, AccountsAssumption DEF UInt64
    <3> QED
      BY <2>1, <3>1, UpdateAccount
  <2> HIDE DEF r
  <2>3. Good(s, SetAccount(s, a, r), A)
    BY <2>2, SetAccountGood
  <2>4. SetAccount(s, a, r).acc[a] = r
    BY <2>1, <2>2, SetAccountEffect
  <2>5. IncrementNonce(s, a) = SetAccount(s, a, r)
    BY <1>2 DEF IncrementNonce, r
  <2> QED
    BY <2>2, <2>3, <2>4, <2>5
<1> QED
  BY <1>1, <1>2

\* Paying a fee takes it from the account and, if it succeeds, its nonce grows.
LEMMA PayGood ==
  ASSUME NEW s, IsState(s), NEW a \in Address, NEW type \in TxType,
         NEW cost \in UInt64, NEW A, a \in A
  PROVE  LET t == BurnTxCostIncrementNonce(s, a, type, cost)
         IN  /\ Good(s, t, A)
             /\ ~Erred(t) => /\ ~Erred(s)
                             /\ a \in DOMAIN s.acc /\ a \in DOMAIN t.acc
                             /\ t.acc[a].nonce > s.acc[a].nonce
<1> DEFINE c == TxCost(type, cost)
           u == BurnTxCost(s, a, c)
           t == BurnTxCostIncrementNonce(s, a, type, cost)
<1>1. CASE Erred(s)
  BY <1>1, GoodFailed DEF BurnTxCostIncrementNonce
<1>2. CASE ~Erred(s) /\ ~Exists(s, a)
  BY <1>2, GoodFailed DEF BurnTxCostIncrementNonce
<1>3. CASE ~Erred(s) /\ Exists(s, a)
  <2>1. c \in UInt64
    BY AccountsAssumption DEF TxCost
  <2>2. Good(s, u, A)
    BY <2>1, BurnGood
  <2>3. /\ IsState(u) /\ a \in DOMAIN s.acc /\ a \in DOMAIN u.acc
        /\ u.acc[a].nonce >= s.acc[a].nonce
    BY <1>3, <2>2 DEF Good, Later, Exists
  <2>4. t = IncrementNonce(u, a)
    BY <1>3 DEF BurnTxCostIncrementNonce
  <2> HIDE DEF u, t
  <2>5. Good(u, t, A) /\ (~Erred(t) => t.acc[a].nonce > u.acc[a].nonce)
    BY <2>3, <2>4, IncrementNonceGood
  <2>6. Good(s, t, A)
    BY <2>2, <2>5, GoodCompose
  <2>7. IsState(t) /\ a \in DOMAIN t.acc
    BY <2>6, <2>3 DEF Good, Later
  <2>8. /\ s.acc[a].nonce \in Nat /\ u.acc[a].nonce \in Nat
        /\ t.acc[a].nonce \in Nat
    BY <2>3, <2>7 DEF IsState, Account
  <2>9. ~Erred(t) => t.acc[a].nonce > s.acc[a].nonce
    BY <2>3, <2>5, <2>8
  <2> QED
    BY <1>3, <2>3, <2>6, <2>7, <2>9 DEF t
<1> QED
  BY <1>1, <1>2, <1>3

-----------------------------------------------------------------------------
(* Faucet packages *)

Shape(s) == s = [acc |-> s.acc, used |-> s.used, elections |-> s.elections,
                 paid |-> s.paid, err |-> s.err]

\* Payments touch neither the packages nor the elections.
Frame(s, t) ==
  Shape(t) /\ t.used = s.used /\ t.paid = s.paid /\ t.elections = s.elections

\* Writing an account leaves identifiers, elections and payments alone.
LEMMA SetAccountFrame ==
  ASSUME NEW s, Shape(s), NEW a, NEW r
  PROVE  Frame(s, SetAccount(s, a, r)) /\ Frame(s, Failed(s)) /\ Frame(s, s)
<1>1. SetAccount(s, a, r) =
        [acc |-> SetAccount(s, a, r).acc, used |-> s.used,
         elections |-> s.elections, paid |-> s.paid, err |-> s.err]
  BY DEF Shape, SetAccount
<1>2. Failed(s) =
        [acc |-> s.acc, used |-> s.used,
         elections |-> s.elections, paid |-> s.paid, err |-> "error"]
  BY DEF Shape, Failed
<1>3. Frame(s, SetAccount(s, a, r))
  BY <1>1 DEF Frame, Shape
<1>4. Frame(s, Failed(s))
  BY <1>2 DEF Frame, Shape
<1> QED
  BY <1>3, <1>4 DEF Frame

\* So does a transfer,
LEMMA TransferFrame ==
  ASSUME NEW s, Shape(s), NEW from, NEW to, NEW amount
  PROVE  Frame(s, TransferBalance(s, from, to, amount))
<1> DEFINE u == SetAccount(s, from, Debit(s.acc[from], amount))
           t == SetAccount(u, to, Credit(s.acc[to], amount))
<1>1. Frame(s, u) /\ Frame(s, Failed(s)) /\ Frame(s, s)
  BY SetAccountFrame
<1>2. Frame(u, t)
  BY <1>1, SetAccountFrame DEF Frame
<1>3. Frame(s, t)
  BY <1>1, <1>2 DEF Frame
<1> QED
  BY <1>1, <1>3 DEF TransferBalance

\* and so does paying a fee.
LEMMA PayFrame ==
  ASSUME NEW s, Shape(s), NEW a, NEW type, NEW cost
  PROVE  Frame(s, BurnTxCostIncrementNonce(s, a, type, cost))
<1> DEFINE u == BurnTxCost(s, a, TxCost(type, cost))
<1>1. Frame(s, u) /\ Frame(s, Failed(s)) /\ Frame(s, s)
  BY TransferFrame, SetAccountFrame DEF BurnTxCost
<1> HIDE DEF u
<1>2. Frame(u, IncrementNonce(u, a))
  BY <1>1, SetAccountFrame DEF Frame, IncrementNonce
<1>3. Frame(s, IncrementNonce(u, a))
  BY <1>1, <1>2 DEF Frame
<1> QED
  BY <1>1, <1>3 DEF BurnTxCostIncrementNonce, u

\* The fields of a package.
LEMMA PackageFields ==
  ASSUME NEW p \in Package
  PROVE  /\ p.issuer \in Address /\ p.to \in Address /\ p.amount \in UInt64
         /\ FaucetKey(p) \in Address \X Nat
BY AccountsAssumption DEF FaucetPackage, FaucetKey

\* An identifier is marked as used.
LEMMA ConsumeGood ==
  ASSUME NEW s, IsState(s), NEW p \in Package, NEW A
  PROVE  LET t == ConsumeFaucetPayload(s, p)
         IN  /\ Good(s, t, A) /\ Shape(t) /\ t.paid = s.paid /\ t.err = s.err
             /\ ~Erred(s) => t.used = s.used \cup {FaucetKey(p)}
<1> DEFINE t == ConsumeFaucetPayload(s, p)
<1>1. CASE Erred(s)
  BY <1>1, GoodFailed DEF ConsumeFaucetPayload, Shape, IsState
<1>2. CASE ~Erred(s)
  <2>1. t = [acc |-> s.acc, used |-> s.used \cup {FaucetKey(p)},
             elections |-> s.elections, paid |-> s.paid, err |-> s.err]
    BY <1>2 DEF ConsumeFaucetPayload, IsState
  <2> HIDE DEF t
  <2>2. /\ t.acc = s.acc /\ t.used = s.used \cup {FaucetKey(p)}
        /\ t.elections = s.elections /\ t.paid = s.paid /\ t.err = s.err
        /\ Shape(t)
    BY <2>1 DEF Shape
  <2>3. IsState(t)
    BY <2>2, PackageFields DEF IsState, Shape
  <2>4. Good(s, s, A)
    BY GoodFailed
  <2>5. Later(s, t) /\ OnlySpend(s, t, A)
    BY <2>2, <2>4 DEF Good, Later, OnlySpend
  <2>6. StateInv(s) => StateInv(t)
    BY <2>2 DEF StateInv, FaucetInv, DelegatesInv, IndexInv, FaucetNonce
  <2> QED
    BY <2>2, <2>3, <2>5, <2>6 DEF Good, t
<1> QED
  BY <1>1, <1>2

\* A package that was not used is transferred; its issuer pays it.
LEMMA TransferFaucetGood ==
  ASSUME NEW s, IsState(s), NEW p \in Package, ~FaucetNonce(s, p),
         NEW A, p.issuer \in A
  PROVE  LET t == TransferFaucet(s, p)
         IN  Good(s, t, A) /\ (~Erred(t) => ~Erred(s) /\ FaucetNonce(t, p))
<1> DEFINE u == ConsumeFaucetPayload(s, p)
           v == TransferBalance(u, p.issuer, p.to, p.amount)
           w == [v EXCEPT !.paid[p] = @ + 1]
           t == TransferFaucet(s, p)
<1>1. /\ Good(s, u, A) /\ Shape(u) /\ u.paid = s.paid /\ u.err = s.err
      /\ ~Erred(s) => u.used = s.used \cup {FaucetKey(p)}
  BY ConsumeGood
<1>2. IsState(u)
  BY <1>1 DEF Good
<1> HIDE DEF u
<1>3. Good(u, v, A) /\ Frame(u, v)
  BY <1>1, <1>2, PackageFields, TransferGood, TransferFrame
<1>4. Erred(s) => v = s
  BY <1>1 DEF TransferBalance, u, ConsumeFaucetPayload
<1>5. t = IF Erred(v) THEN v ELSE w
  BY DEF TransferFaucet, u
<1> HIDE DEF v, t
<1>6. Good(s, v, A)
  BY <1>1, <1>3, GoodCompose
<1>7. CASE Erred(v)
  BY <1>5, <1>6, <1>7 DEF t
<1>8. CASE ~Erred(v)
  <2>1. ~Erred(s) /\ v.used = s.used \cup {FaucetKey(p)} /\ v.paid = s.paid
    BY <1>1, <1>3, <1>4, <1>8 DEF Frame
  <2>2. IsState(v)
    BY <1>6 DEF Good
  <2>3. w = [acc |-> v.acc, used |-> v.used, elections |-> v.elections,
             paid |-> [v.paid EXCEPT ![p] = @ + 1], err |-> v.err]
    BY <2>2 DEF IsState
  <2>4. v.paid \in [Package -> Nat]
    BY <2>2 DEF IsState
  <2>5. /\ w.acc = v.acc /\ w.used = v.used /\ w.elections = v.elections
        /\ w.err = v.err /\ Shape(w)
        /\ w.paid = [v.paid EXCEPT ![p] = @ + 1]
    BY <2>3 DEF Shape
  <2> HIDE DEF w
  <2>6. w.paid \in [Package -> Nat]
    BY <2>4, <2>5
  <2>7. IsState(w)
    BY <2>2, <2>5, <2>6 DEF IsState, Shape
  <2>8. Later(s, w) /\ OnlySpend(s, w, A)
    BY <1>6, <2>5 DEF Good, Later, OnlySpend
  <2>9. ASSUME StateInv(s)
        PROVE  StateInv(w)
    <3>1. StateInv(v)
      BY <1>6, <2>9 DEF Good
    <3>2. DelegatesInv(w) /\ IndexInv(w)
      BY <2>5, <3>1 DEF StateInv, DelegatesInv, IndexInv
    <3>3. \A q \in Package : FaucetKey(q) = FaucetKey(p) => s.paid[q] = 0
      <4>1. \A q \in Package : s.paid[q] \in Nat
        BY DEF IsState
      <4> QED
        BY <4>1, <2>9 DEF StateInv, FaucetInv, FaucetNonce
    <3>4. /\ w.paid[p] = 1
          /\ \A q \in Package : q # p => w.paid[q] = s.paid[q]
      BY <2>1, <2>4, <2>5, <3>3
    <3>5. \A q \in Package : FaucetNonce(s, q) => FaucetNonce(w, q)
      BY <2>1, <2>5 DEF FaucetNonce
    <3>6. FaucetNonce(w, p)
      BY <2>1, <2>5 DEF FaucetNonce
    <3>7. FaucetInv(w)
      BY <2>9, <3>3, <3>4, <3>5, <3>6 DEF FaucetInv, StateInv
    <3> QED
      BY <3>2, <3>7 DEF StateInv
  <2>10. Good(s, w, A)
    BY <2>7, <2>8, <2>9 DEF Good
  <2>11. FaucetNonce(w, p)
    BY <2>1, <2>5 DEF FaucetNonce
  <2> QED
    BY <1>5, <1>8, <2>1, <2>10, <2>11 DEF t
<1> QED
  BY <1>7, <1>8

\* The accounts that a transaction may take tokens from.
Payers(tx) == {tx.signer} \cup (IF tx.pkg = Nil THEN {} ELSE {tx.pkg.issuer})

\* The fields of a transaction have their types.
LEMMA TxFields ==
  ASSUME NEW tx \in Tx
  PROVE  /\ tx.signer \in Address /\ tx.account \in Address
         /\ tx.type \in TxType /\ tx.value \in UInt64 /\ tx.nonce \in Nat
         /\ tx.uri \in URI /\ tx.delegates \in Seq(Address)
         /\ tx.pkg # Nil => tx.pkg \in Package
         /\ BaseCost[tx.type] \in UInt64 /\ 0 \in UInt64
         /\ tx.signer \in Payers(tx)
         /\ tx.pkg # Nil => tx.pkg.issuer \in Payers(tx)
<1>1. tx \in TxRecord /\ BaseCost \in [TxType -> UInt64] /\ U64 \in Nat \ {0}
  BY AccountsAssumption
<1>2. 0 \in UInt64
  BY <1>1 DEF UInt64
<1> QED
  BY <1>1, <1>2 DEF TxRecord, Payers

\* The package of a transaction is transferred before the fee is paid.
LEMMA CheckFaucetGood ==
  ASSUME NEW s, IsState(s), NEW tx \in Tx, NEW cost
  PROVE  LET t == CheckFaucetPackageAndTransfer(s, tx.pkg, cost, tx.signer)
         IN  Good(s, t, Payers(tx)) /\ (~Erred(t) => ~Erred(s))
<1>1. CASE Erred(s) \/ tx.pkg = Nil
  BY <1>1, GoodFailed DEF CheckFaucetPackageAndTransfer
<1>2. CASE ~Erred(s) /\ tx.pkg # Nil
  BY <1>2, GoodFailed, TransferFaucetGood, TxFields
     DEF CheckFaucetPackageAndTransfer, FaucetPackagePays
<1> QED
  BY <1>1, <1>2

\* A paid transaction advances the nonce of its signer.
LEMMA PayForTxGood ==
  ASSUME NEW s, IsState(s), NEW tx \in Tx, NEW cost \in UInt64
  PROVE  LET t == PayForTx(s, tx, cost)
         IN  /\ Good(s, t, Payers(tx))
             /\ ~Erred(t) /\ tx.signer \in DOMAIN s.acc =>
                  /\ ~Erred(s) /\ tx.signer \in DOMAIN t.acc
                  /\ t.acc[tx.signer].nonce > s.acc[tx.signer].nonce
<1> DEFINE u == CheckFaucetPackageAndTransfer(s, tx.pkg, cost, tx.signer)
           t == BurnTxCostIncrementNonce(u, tx.signer, tx.type, cost)
<1>1. Good(s, u, Payers(tx)) /\ (~Erred(u) => ~Erred(s))
  BY CheckFaucetGood
<1>2. IsState(u)
  BY <1>1 DEF Good
<1> HIDE DEF u
<1>3. /\ Good(u, t, Payers(tx))
      /\ ~Erred(t) => /\ ~Erred(u)
                      /\ tx.signer \in DOMAIN t.acc
                      /\ tx.signer \in DOMAIN u.acc
                      /\ t.acc[tx.signer].nonce > u.acc[tx.signer].nonce
  BY <1>2, TxFields, PayGood
<1>4. t = PayForTx(s, tx, cost)
  BY DEF PayForTx, u
<1> HIDE DEF t
<1>5. Good(s, t, Payers(tx))
  BY <1>1, <1>3, GoodCompose
<1>6. ASSUME ~Erred(t), tx.signer \in DOMAIN s.acc
      PROVE  /\ ~Erred(s) /\ tx.signer \in DOMAIN t.acc
             /\ t.acc[tx.signer].nonce > s.acc[tx.signer].nonce
  <2>1. u.acc[tx.signer].nonce >= s.acc[tx.signer].nonce
    BY <1>1, <1>6 DEF Good, Later
  <2>2. IsState(t)
    BY <1>3 DEF Good
  <2>3. /\ s.acc[tx.signer].nonce \in Nat /\ u.acc[tx.signer].nonce \in Nat
        /\ t.acc[tx.signer].nonce \in Nat
    BY <1>2, <1>3, <1>6, <2>2 DEF IsState, Account
  <2> QED
    BY <1>1, <1>3, <1>6, <2>1, <2>3
<1> QED
  BY <1>4, <1>5, <1>6

-----------------------------------------------------------------------------
(* The account itself *)

\* SetAccountInfoURI changes neither balances nor nonces.
LEMMA SetInfoGood ==
  ASSUME NEW s, IsState(s), NEW a \in Address, NEW uri \in URI, NEW A
  PROVE  LET t == SetAccountInfoURI(s, a, uri)
         IN  Good(s, t, A) /\ (~Erred(t) => ~Erred(s))
<1> DEFINE r == [s.acc[a] EXCEPT !.uri = uri]
           t == SetAccountInfoURI(s, a, uri)
<1>1. CASE Erred(s) \/ ~(Exists(s, a) /\ s.acc[a].uri # uri)
  BY <1>1, GoodFailed DEF SetAccountInfoURI
<1>2. CASE ~Erred(s) /\ Exists(s, a) /\ s.acc[a].uri # uri
  <2>1. s.acc[a] \in Account
    BY <1>2 DEF Exists, IsState
  <2>2. /\ r \in Account /\ r.nonce = s.acc[a].nonce /\ r.balance = s.acc[a].balance
        /\ r.delegates = s.acc[a].delegates /\ r.index = s.acc[a].index
    BY <2>1 DEF Account
  <2>3. s.acc[a].nonce \in Nat /\ s.acc[a].balance \in Int
    BY <2>1, AccountsAssumption DEF Account, UInt64
  <2> HIDE DEF r
  <2>4. Good(s, SetAccount(s, a, r), A)
    BY <1>2, <2>2, <2>3, SetAccountGood DEF Exists
  <2> QED
    BY <1>2, <2>4 DEF SetAccountInfoURI, r
<1> QED
  BY <1>1, <1>2

\* An account changes its delegates only, to a list without duplicates.
LEMMA NewDelegatesGood ==
  ASSUME NEW s, IsState(s), NEW a \in DOMAIN s.acc, NEW q \in Seq(Address), NEW A,
         DelegatesInv(s) => CheckDuplicateDelegates(q, a)
  PROVE  Good(s, SetAccount(s, a, [s.acc[a] EXCEPT !.delegates = q]), A)
<1> DEFINE r == [s.acc[a] EXCEPT !.delegates = q]
           t == SetAccount(s, a, r)
<1>1. s.acc[a] \in Account /\ a \in Address
  BY DEF IsState
<1>2. /\ r \in Account /\ r.nonce = s.acc[a].nonce /\ r.balance = s.acc[a].balance
      /\ r.delegates = q /\ r.index = s.acc[a].index
  BY <1>1 DEF Account
<1>3. \A x \in DOMAIN s.acc : s.acc[x].nonce \in Nat /\ s.acc[x].balance \in Int
  BY AccountsAssumption DEF IsState, Account, UInt64
<1> HIDE DEF r
<1>4. /\ IsState(t)
      /\ DOMAIN t.acc = DOMAIN s.acc \cup {a}
      /\ t.acc[a] = r
      /\ \A x \in DOMAIN s.acc : x # a => t.acc[x] = s.acc[x]
      /\ t.used = s.used /\ t.elections = s.elections
      /\ t.paid = s.paid /\ t.err = s.err
  BY <1>1, <1>2, SetAccountEffect, Zenon
<1> HIDE DEF t
<1>5. DOMAIN t.acc = DOMAIN s.acc
  BY <1>4
<1>6. Later(s, t) /\ OnlySpend(s, t, A)
  BY <1>2, <1>3, <1>4, <1>5 DEF Later, OnlySpend
<1>7. DelegatesInv(s) => DelegatesInv(t)
  BY <1>2, <1>4, <1>5 DEF DelegatesInv
<1>8. \A x \in DOMAIN s.acc : t.acc[x].index = s.acc[x].index
  BY <1>2, <1>4
<1>9. FaucetInv(s) => FaucetInv(t)
  BY <1>4 DEF FaucetInv, FaucetNonce
<1>10. IndexInv(s) => IndexInv(t)
  BY <1>4, <1>5, <1>8 DEF IndexInv
<1>11. Good(s, t, A)
  BY <1>4, <1>6, <1>7, <1>9, <1>10 DEF Good, StateInv
<1> QED
  BY <1>11 DEF t, r

\* Delegates are added at the end and removed from the end.
LEMMA SetDelegateGood ==
  ASSUME NEW s, IsState(s), NEW a \in Address, NEW q \in Seq(Address), NEW type,
         CheckDuplicateDelegates(q, a), NEW A
  PROVE  LET t == SetAccountDelegate(s, a, q, type)
         IN  Good(s, t, A) /\ (~Erred(t) => ~Erred(s))
<1> DEFINE d == s.acc[a].delegates
           t == SetAccountDelegate(s, a, q, type)
<1>1. CASE Erred(s) \/ ~Exists(s, a)
  BY <1>1, GoodFailed DEF SetAccountDelegate
<1>2. CASE ~Erred(s) /\ Exists(s, a) /\ type = "ADD_DELEGATE_FOR_ACCOUNT"
  <2>1. a \in DOMAIN s.acc /\ d \in Seq(Address)
    BY <1>2 DEF Exists, IsState, Account
  <2>2. CASE ~NoDuplicates(d \o q)
    BY <1>2, <2>2, GoodFailed DEF SetAccountDelegate
  <2>3. CASE NoDuplicates(d \o q)
    <3> HIDE DEF d
    <3>1. /\ d \o q \in Seq(Address)
          /\ DOMAIN (d \o q) = 1 .. Len(d) + Len(q)
          /\ \A i \in 1 .. Len(d) + Len(q) :
               (d \o q)[i] = IF i <= Len(d) THEN d[i] ELSE q[i - Len(d)]
      BY <2>1
    <3>2. /\ DOMAIN d = 1 .. Len(d) /\ DOMAIN q = 1 .. Len(q)
          /\ Len(d) \in Nat /\ Len(q) \in Nat
      BY <2>1
    <3>3. ASSUME DelegatesInv(s), NEW i \in DOMAIN (d \o q)
          PROVE  (d \o q)[i] # a
      <4>1. CASE i <= Len(d)
        BY <2>1, <3>1, <3>2, <3>3, <4>1 DEF DelegatesInv, CheckDuplicateDelegates, d
      <4>2. CASE i > Len(d)
        BY <3>1, <3>2, <3>3, <4>2 DEF CheckDuplicateDelegates
      <4> QED
        BY <3>1, <3>2, <3>3, <4>1, <4>2
    <3>4. DelegatesInv(s) => CheckDuplicateDelegates(d \o q, a)
      BY <2>3, <3>3 DEF CheckDuplicateDelegates
    <3>5. Good(s, SetAccount(s, a, [s.acc[a] EXCEPT !.delegates = d \o q]), A)
      BY <2>1, <3>1, <3>4, NewDelegatesGood
    <3> QED
      BY <1>2, <2>3, <3>5 DEF SetAccountDelegate, AddDelegates, d
  <2> QED
    BY <2>2, <2>3
<1>3. CASE ~Erred(s) /\ Exists(s, a) /\ type # "ADD_DELEGATE_FOR_ACCOUNT"
  <2>1. a \in DOMAIN s.acc /\ d \in Seq(Address)
    BY <1>3 DEF Exists, IsState, Account
  <2>2. CASE ~CanDelDelegates(s.acc[a], q)
    BY <1>3, <2>2, GoodFailed DEF SetAccountDelegate
  <2>3. CASE CanDelDelegates(s.acc[a], q)
    <3> DEFINE n == Len(d) - Len(q)
    <3>1. n \in 0 .. Len(d) /\ Len(d) \in Nat
      BY <2>1, <2>3 DEF CanDelDelegates
    <3> HIDE DEF d, n
    <3>2. /\ SubSeq(d, 1, n) \in Seq(Address)
          /\ Len(SubSeq(d, 1, n)) = n
          /\ \A i \in 1 .. n : SubSeq(d, 1, n)[i] = d[i]
      BY <2>1, <3>1
    <3>3. DOMAIN SubSeq(d, 1, n) = 1 .. n /\ 1 .. n \subseteq DOMAIN d
      BY <2>1, <3>1, <3>2
    <3>4. DelegatesInv(s) => CheckDuplicateDelegates(d, a)
      BY <2>1 DEF DelegatesInv, d
    <3>5. DelegatesInv(s) => CheckDuplicateDelegates(SubSeq(d, 1, n), a)
      BY <3>2, <3>3, <3>4 DEF CheckDuplicateDelegates, NoDuplicates
    <3>6. Good(s, SetAccount(s, a, [s.acc[a] EXCEPT !.delegates = SubSeq(d, 1, n)]), A)
      BY <2>1, <3>2, <3>5, NewDelegatesGood
    <3> QED
      BY <1>3, <2>3, <3>6 DEF SetAccountDelegate, DelDelegates, d, n
  <2> QED
    BY <2>2, <2>3
<1> QED
  BY <1>1, <1>2, <1>3

\* A new account has no elections and no duplicate delegates.
LEMMA CreateGood ==
  ASSUME NEW s, IsState(s), NEW a \in Address, ~Exists(s, a), NEW uri \in URI,
         NEW q \in Seq(Address), CheckDuplicateDelegates(q, a), NEW A
  PROVE  LET t == CreateAccount(s, a, uri, q, 0)
         IN  Good(s, t, A) /\ a \in DOMAIN t.acc /\ t.err = s.err
<1> DEFINE r == NewAccount(0, uri, q)
           t == SetAccount(s, a, r)
<1>1. U64 \in Nat \ {0} /\ MaxIndex \in Nat
  BY AccountsAssumption
<1>2. r \in Account /\ r.index = 0 /\ r.delegates = q
  BY <1>1 DEF NewAccount, Account, UInt64
<1>3. \A x \in DOMAIN s.acc : s.acc[x].nonce \in Nat /\ s.acc[x].balance \in Int
  BY AccountsAssumption DEF IsState, Account, UInt64
<1> HIDE DEF r
<1>4. /\ IsState(t)
      /\ DOMAIN t.acc = DOMAIN s.acc \cup {a}
      /\ t.acc[a] = r
      /\ \A x \in DOMAIN s.acc : x # a => t.acc[x] = s.acc[x]
      /\ t.used = s.used /\ t.elections = s.elections
      /\ t.paid = s.paid /\ t.err = s.err
  BY <1>2, SetAccountEffect, Zenon
<1> HIDE DEF t
<1>5. \A x \in DOMAIN s.acc : x # a /\ t.acc[x] = s.acc[x]
  BY <1>4 DEF Exists
<1>6. Later(s, t) /\ OnlySpend(s, t, A)
  BY <1>3, <1>4, <1>5 DEF Later, OnlySpend
<1>7. FaucetInv(s) => FaucetInv(t)
  BY <1>4 DEF FaucetInv, FaucetNonce
<1>8. DelegatesInv(s) => DelegatesInv(t)
  BY <1>2, <1>4, <1>5 DEF DelegatesInv
<1>9. ASSUME IndexInv(s)
      PROVE  IndexInv(t)
  <2>1. \A i \in Nat : <<a, i>> \notin s.elections
    BY <1>9 DEF IndexInv, Exists
  <2>2. \A e \in t.elections : e[1] \in DOMAIN t.acc
    BY <1>4, <1>9 DEF IndexInv
  <2>3. /\ t.acc[a].index <= MaxIndex + 1
        /\ \A i \in Nat : <<a, i>> \in t.elections <=> i < t.acc[a].index
    BY <1>1, <1>2, <1>4, <2>1
  <2> QED
    BY <1>4, <1>5, <1>9, <2>2, <2>3 DEF IndexInv
<1>10. Good(s, t, A)
  BY <1>4, <1>6, <1>7, <1>8, <1>9 DEF Good, StateInv
<1>11. t = CreateAccount(s, a, uri, q, 0)
  BY DEF t, r, CreateAccount
<1> QED
  BY <1>4, <1>10, <1>11

\* The election of the current index is added and the index advances.
LEMMA AddElectionGood ==
  ASSUME NEW s, IsState(s), NEW a \in DOMAIN s.acc, NEW A
  PROVE  LET t == IncrementAccountProcessIndex(
                    AddProcess(s, BuildNextProcessID(s, a)), a)
         IN  Good(s, t, A) /\ (~Erred(t) => ~Erred(s))
<1> DEFINE k == s.acc[a].index
           pid == <<a, k>>
           u == AddProcess(s, pid)
           r == [s.acc[a] EXCEPT !.index = NextIndex(k)]
           t == IncrementAccountProcessIndex(u, a)
<1>1. pid = BuildNextProcessID(s, a)
  BY DEF BuildNextProcessID
<1>2. CASE Erred(s) \/ pid \in s.elections
  <2>1. u = Failed(s) /\ Erred(u)
    BY <1>2, GoodFailed DEF AddProcess
  <2>2. t = u
    BY <2>1 DEF IncrementAccountProcessIndex
  <2> QED
    BY <1>1, <2>1, <2>2, GoodFailed
<1>3. CASE ~Erred(s) /\ pid \notin s.elections
  <2>1. s.acc[a] \in Account /\ a \in Address /\ MaxIndex \in Nat
    BY AccountsAssumption DEF IsState
  <2>2. k \in Nat /\ NextIndex(k) \in Nat
    BY <2>1 DEF Account, NextIndex
  <2>3. u = [acc |-> s.acc, used |-> s.used, elections |-> s.elections \cup {pid},
             paid |-> s.paid, err |-> s.err]
    BY <1>3 DEF AddProcess, IsState
  <2> HIDE DEF u
  <2>4. /\ u.acc = s.acc /\ u.used = s.used /\ u.elections = s.elections \cup {pid}
        /\ u.paid = s.paid /\ u.err = s.err /\ Shape(u)
    BY <2>3 DEF Shape
  <2>5. IsState(u)
    BY <2>1, <2>2, <2>4 DEF IsState, Shape
  <2>6. /\ r \in Account /\ r.nonce = s.acc[a].nonce /\ r.balance = s.acc[a].balance
        /\ r.delegates = s.acc[a].delegates /\ r.index = NextIndex(k)
    BY <2>1, <2>2 DEF Account
  <2>7. t = SetAccount(u, a, r)
    BY <1>3, <2>4 DEF IncrementAccountProcessIndex, Exists, Erred
  <2> HIDE DEF r, t, pid, k
  <2>8. /\ IsState(t)
        /\ DOMAIN t.acc = DOMAIN u.acc \cup {a}
        /\ t.acc[a] = r
        /\ \A x \in DOMAIN u.acc : x # a => t.acc[x] = u.acc[x]
        /\ t.used = u.used /\ t.elections = u.elections
        /\ t.paid = u.paid /\ t.err = u.err
    <3> DEFINE v == SetAccount(u, a, r)
    <3>1. /\ IsState(v)
          /\ DOMAIN v.acc = DOMAIN u.acc \cup {a}
          /\ v.acc[a] = r
          /\ \A x \in DOMAIN u.acc : x # a => v.acc[x] = u.acc[x]
          /\ v.used = u.used /\ v.elections = u.elections
          /\ v.paid = u.paid /\ v.err = u.err
      BY <2>1, <2>5, <2>6, SetAccountEffect, Zenon
    <3> HIDE DEF v
    <3>2. t = v
      BY <2>7 DEF v
    <3> QED
      BY <3>1, <3>2
  <2>9. /\ DOMAIN t.acc = DOMAIN s.acc
        /\ \A x \in DOMAIN s.acc : x # a => t.acc[x] = s.acc[x]
    BY <2>4, <2>8
  <2>10. \A x \in DOMAIN s.acc : s.acc[x].nonce \in Nat /\ s.acc[x].balance \in Int
    BY AccountsAssumption DEF IsState, Account, UInt64
  <2>11. Later(s, t) /\ OnlySpend(s, t, A)
    BY <2>4, <2>6, <2>8, <2>9, <2>10 DEF Later, OnlySpend
  <2>12. FaucetInv(s) => FaucetInv(t)
    BY <2>4, <2>8 DEF FaucetInv, FaucetNonce
  <2>13. DelegatesInv(s) => DelegatesInv(t)
    BY <2>6, <2>8, <2>9 DEF DelegatesInv
  <2>14. ASSUME IndexInv(s)
         PROVE  IndexInv(t)
    <3>1. t.elections = s.elections \cup {<<a, k>>}
      BY <2>4, <2>8 DEF pid
    <3>2. /\ k <= MaxIndex + 1
          /\ \A i \in Nat : <<a, i>> \in s.elections <=> i < k
      <4>1. k <= MaxIndex + 1 /\ k \in 0 .. MaxIndex + 1
        BY <2>1, <2>2, <2>14 DEF IndexInv, k
      <4>2. <<a, k>> \notin s.elections
        BY <1>3 DEF pid
      <4> QED
        BY <4>1, <4>2, <2>14 DEF IndexInv, k
    <3>3. \A e \in t.elections : e[1] \in DOMAIN t.acc
      BY <2>9, <2>14, <3>1 DEF IndexInv
    <3>4. \A i \in Nat : <<a, i>> \in t.elections <=> i < k + 1
      BY <2>2, <3>1, <3>2
    <3>5. /\ t.acc[a].index <= MaxIndex + 1
          /\ \/ \A i \in Nat : <<a, i>> \in t.elections <=> i < t.acc[a].index
             \/ \A i \in 0 .. MaxIndex + 1 : <<a, i>> \in t.elections
      BY <2>1, <2>2, <2>6, <2>8, <3>2, <3>4 DEF NextIndex
    <3>6. \A x \in DOMAIN s.acc : x # a =>
            \A i : <<x, i>> \in t.elections <=> <<x, i>> \in s.elections
      BY <3>1
    <3> QED
      BY <2>9, <2>14, <3>3, <3>5, <3>6 DEF IndexInv
  <2>15. Good(s, t, A)
    BY <2>8, <2>11, <2>12, <2>13, <2>14 DEF Good, StateInv
  <2> QED
    BY <1>1, <1>3, <2>15 DEF t, u
<1> QED
  BY <1>2, <1>3

-----------------------------------------------------------------------------
(* Transactions *)

\* What a delivered transaction does: it was not spent, and now it is.
Delivered(s, t, tx) ==
  /\ Good(s, t, Payers(tx))
  /\ ~Spent(s, tx)
  /\ ~Erred(t) => Spent(t, tx)

\* CreateAccount: the signer has an account from now on.
LEMMA CreateAccountDelivered ==
  ASSUME NEW s, IsState(s), NEW tx \in Tx, tx.type = "CREATE_ACCOUNT",
         CreateAccountTxCheck(s, tx)
  PROVE  Delivered(s, CreateAccountTx(s, tx), tx)
<1> DEFINE c == BaseCost[tx.type]
           u == CreateAccount(s, tx.signer, tx.uri, tx.delegates, 0)
           v == CheckFaucetPackageAndTransfer(u, tx.pkg, c, tx.signer)
           t == BurnTxCost(v, tx.signer, c)
<1>1. ~Exists(s, tx.signer) /\ CheckDuplicateDelegates(tx.delegates, tx.signer)
  BY DEF CreateAccountTxCheck
<1>2. Good(s, u, Payers(tx)) /\ tx.signer \in DOMAIN u.acc
  BY <1>1, TxFields, CreateGood
<1> HIDE DEF u
<1>3. IsState(u)
  BY <1>2 DEF Good
<1>4. Good(u, v, Payers(tx))
  BY <1>3, CheckFaucetGood
<1> HIDE DEF v
<1>5. IsState(v)
  BY <1>4 DEF Good
<1>6. Good(v, t, Payers(tx))
  BY <1>5, TxFields, BurnGood
<1>7. t = CreateAccountTx(s, tx)
  BY DEF CreateAccountTx, u, v
<1> HIDE DEF t
<1>8. Good(s, v, Payers(tx))
  BY <1>2, <1>4, GoodCompose
<1>9. Good(s, t, Payers(tx))
  BY <1>6, <1>8, GoodCompose
<1>10. tx.signer \in DOMAIN t.acc
  BY <1>2, <1>4, <1>6 DEF Good, Later
<1> QED
  BY <1>1, <1>7, <1>9, <1>10 DEF Delivered, Spent, Exists

\* A paid transaction advances the nonce that its check has compared.
LEMMA PaidSpent ==
  ASSUME NEW s, IsState(s), NEW u, NEW tx \in Tx,
         tx.type \notin {"CREATE_ACCOUNT", "COLLECT_FAUCET"},
         CheckAccountNonce(s, tx), Good(s, u, Payers(tx)),
         ~Erred(u) => /\ tx.signer \in DOMAIN u.acc
                      /\ u.acc[tx.signer].nonce > s.acc[tx.signer].nonce
  PROVE  /\ ~Spent(s, tx) /\ (~Erred(u) => Spent(u, tx))
         /\ tx.signer \in DOMAIN s.acc
<1>1. tx.signer \in DOMAIN s.acc /\ s.acc[tx.signer].nonce = tx.nonce
  BY DEF CheckAccountNonce, Exists
<1>2. tx.nonce \in Nat
  BY TxFields
<1> QED
  BY <1>1, <1>2 DEF Spent, Exists

\* What is spent stays spent.
LEMMA SpentStable ==
  ASSUME NEW s, NEW t, NEW tx \in Tx, IsState(s), IsState(t), Later(s, t),
         Spent(s, tx)
  PROVE  Spent(t, tx)
<1>1. \A a \in DOMAIN s.acc : /\ a \in DOMAIN t.acc /\ s.acc[a].nonce \in Nat
                              /\ t.acc[a].nonce \in Nat
  BY DEF Later, IsState, Account
<1>2. tx.nonce \in Nat
  BY TxFields
<1> QED
  BY <1>1, <1>2 DEF Spent, Exists, FaucetNonce, Later

\* SetAccountInfo: the payment comes first and advances the nonce.
LEMMA SetAccountInfoDelivered ==
  ASSUME NEW s, IsState(s), NEW tx \in Tx, tx.type = "SET_ACCOUNT_INFO_URI",
         CheckAccountNonce(s, tx)
  PROVE  Delivered(s, SetAccountInfoTx(s, tx), tx)
<1> DEFINE u == PayForTx(s, tx, BaseCost[tx.type])
           t == SetAccountInfoURI(u, tx.account, tx.uri)
<1>1. tx.signer \in DOMAIN s.acc
  BY DEF CheckAccountNonce, Exists
<1>2. /\ Good(s, u, Payers(tx))
      /\ ~Erred(u) => /\ tx.signer \in DOMAIN u.acc
                      /\ u.acc[tx.signer].nonce > s.acc[tx.signer].nonce
  BY <1>1, TxFields, PayForTxGood
<1>3. IsState(u)
  BY <1>2 DEF Good
<1>4. t = SetAccountInfoTx(s, tx)
  BY DEF SetAccountInfoTx
<1> HIDE DEF u
<1>5. Good(u, t, Payers(tx)) /\ (~Erred(t) => ~Erred(u))
  BY <1>3, TxFields, SetInfoGood
<1>6. ~Spent(s, tx) /\ (~Erred(u) => Spent(u, tx))
  BY <1>2, PaidSpent
<1> HIDE DEF t
<1>7. Good(s, t, Payers(tx))
  BY <1>2, <1>5, GoodCompose
<1>8. ~Erred(t) => Spent(t, tx)
  BY <1>3, <1>5, <1>6, SpentStable DEF Good
<1> QED
  BY <1>4, <1>6, <1>7, <1>8 DEF Delivered

\* AddDelegate and DelDelegate: as SetAccountInfo.
LEMMA SetAccountDelegateDelivered ==
  ASSUME NEW s, IsState(s), NEW tx \in Tx,
         tx.type \in {"ADD_DELEGATE_FOR_ACCOUNT", "DEL_DELEGATE_FOR_ACCOUNT"},
         CheckAccountNonce(s, tx), SetAccountDelegateTxCheck(s, tx)
  PROVE  Delivered(s, SetAccountDelegateTx(s, tx), tx)
<1> DEFINE u == PayForTx(s, tx, BaseCost[tx.type])
           t == SetAccountDelegate(u, tx.signer, tx.delegates, tx.type)
<1>1. /\ tx.type \notin {"CREATE_ACCOUNT", "COLLECT_FAUCET"}
      /\ tx.signer \in DOMAIN s.acc
      /\ CheckDuplicateDelegates(tx.delegates, tx.signer)
  BY DEF CheckAccountNonce, Exists, SetAccountDelegateTxCheck
<1>2. /\ Good(s, u, Payers(tx))
      /\ ~Erred(u) => /\ tx.signer \in DOMAIN u.acc
                      /\ u.acc[tx.signer].nonce > s.acc[tx.signer].nonce
  BY <1>1, TxFields, PayForTxGood
<1>3. IsState(u)
  BY <1>2 DEF Good
<1>4. t = SetAccountDelegateTx(s, tx)
  BY DEF SetAccountDelegateTx
<1> HIDE DEF u
<1>5. Good(u, t, Payers(tx)) /\ (~Erred(t) => ~Erred(u))
  BY <1>1, <1>3, TxFields, SetDelegateGood
<1>6. ~Spent(s, tx) /\ (~Erred(u) => Spent(u, tx))
  BY <1>1, <1>2, PaidSpent
<1> HIDE DEF t
<1>7. Good(s, t, Payers(tx))
  BY <1>2, <1>5, GoodCompose
<1>8. ~Erred(t) => Spent(t, tx)
  BY <1>3, <1>5, <1>6, SpentStable DEF Good
<1> QED
  BY <1>4, <1>6, <1>7, <1>8 DEF Delivered

\* SendTokens: the fee and the nonce come before the transfer.
LEMMA SendTokensDelivered ==
  ASSUME NEW s, IsState(s), NEW tx \in Tx, tx.type = "SEND_TOKENS",
         CheckAccountNonce(s, tx)
  PROVE  Delivered(s, SendTokensTx(s, tx), tx)
<1> DEFINE u == BurnTxCostIncrementNonce(s, tx.signer, tx.type, 0)
           t == TransferBalance(u, tx.signer, tx.account, tx.value)
<1>1. /\ Good(s, u, Payers(tx))
      /\ ~Erred(u) => /\ tx.signer \in DOMAIN u.acc
                      /\ u.acc[tx.signer].nonce > s.acc[tx.signer].nonce
  BY TxFields, PayGood
<1>2. IsState(u)
  BY <1>1 DEF Good
<1>3. t = SendTokensTx(s, tx)
  BY DEF SendTokensTx
<1> HIDE DEF u
<1>4. Good(u, t, Payers(tx))
  BY <1>2, TxFields, TransferGood
<1>5. ~Erred(t) => ~Erred(u)
  BY DEF TransferBalance
<1>6. ~Spent(s, tx) /\ (~Erred(u) => Spent(u, tx))
  BY <1>1, PaidSpent
<1> HIDE DEF t
<1>7. Good(s, t, Payers(tx))
  BY <1>1, <1>4, GoodCompose
<1>8. ~Erred(t) => Spent(t, tx)
  BY <1>2, <1>4, <1>5, <1>6, SpentStable DEF Good
<1> QED
  BY <1>3, <1>6, <1>7, <1>8 DEF Delivered

\* The fee leaves the identifier unused, the transfer then consumes it.
LEMMA CollectFaucetDelivered ==
  ASSUME NEW s, IsState(s), NEW tx \in Tx, tx.type = "COLLECT_FAUCET",
         CollectFaucetTxCheck(s, tx)
  PROVE  Delivered(s, CollectFaucetTx(s, tx), tx)
<1> DEFINE p == tx.pkg
           u == BurnTxCostIncrementNonce(s, p.issuer, tx.type, 0)
           t == TransferFaucet(u, p)
<1>1. /\ p \in Package /\ p.issuer \in Payers(tx) /\ ~FaucetNonce(s, p)
      /\ p.issuer \in Address
  BY TxFields, PackageFields DEF CollectFaucetTxCheck
<1>2. Good(s, u, Payers(tx))
  BY <1>1, TxFields, PayGood
<1>3. IsState(u) /\ Shape(s)
  BY <1>2 DEF Good, IsState, Shape
<1>4. Frame(s, u)
  BY <1>3, PayFrame
<1>5. ~FaucetNonce(u, p)
  BY <1>1, <1>4 DEF Frame, FaucetNonce
<1>6. t = CollectFaucetTx(s, tx)
  BY DEF CollectFaucetTx
<1> HIDE DEF u
<1>7. Good(u, t, Payers(tx)) /\ (~Erred(t) => FaucetNonce(t, p))
  BY <1>1, <1>3, <1>5, TransferFaucetGood
<1> HIDE DEF t
<1>8. Good(s, t, Payers(tx))
  BY <1>2, <1>7, GoodCompose
<1> QED
  BY <1>1, <1>6, <1>7, <1>8 DEF Delivered, Spent

\* NewProcess: the election is added first, the payment comes last.
LEMMA NewProcessDelivered ==
  ASSUME NEW s, IsState(s), NEW tx \in Tx, tx.type = "NEW_PROCESS",
         CheckAccountNonce(s, tx), NewProcessTxCheck(s, tx)
  PROVE  Delivered(s, NewProcessTx(s, tx), tx)
<1> DEFINE u == IncrementAccountProcessIndex(
                  AddProcess(s, BuildNextProcessID(s, tx.account)), tx.account)
           t == PayForTx(u, tx, tx.value)
<1>1. tx.signer \in DOMAIN s.acc /\ tx.account \in DOMAIN s.acc
  BY DEF CheckAccountNonce, NewProcessTxCheck, Exists
<1>2. Good(s, u, Payers(tx))
  BY <1>1, AddElectionGood
<1>3. IsState(u)
  BY <1>2 DEF Good
<1>4. t = NewProcessTx(s, tx)
  BY DEF NewProcessTx
<1> HIDE DEF u
<1>5. /\ tx.signer \in DOMAIN u.acc
      /\ u.acc[tx.signer].nonce >= s.acc[tx.signer].nonce
      /\ s.acc[tx.signer].nonce \in Nat /\ u.acc[tx.signer].nonce \in Nat
  BY <1>1, <1>2, <1>3 DEF Good, Later, IsState, Account
<1>6. /\ Good(u, t, Payers(tx))
      /\ ~Erred(t) => /\ tx.signer \in DOMAIN t.acc
                      /\ t.acc[tx.signer].nonce > u.acc[tx.signer].nonce
  BY <1>3, <1>5, TxFields, PayForTxGood
<1> HIDE DEF t
<1>7. Good(s, t, Payers(tx))
  BY <1>2, <1>6, GoodCompose
<1>8. tx.signer \in DOMAIN t.acc => t.acc[tx.signer].nonce \in Nat
  BY <1>7 DEF Good, IsState, Account
<1>9. ~Erred(t) => /\ tx.signer \in DOMAIN t.acc
                   /\ t.acc[tx.signer].nonce > s.acc[tx.signer].nonce
  BY <1>5, <1>6, <1>8
<1>10. ~Spent(s, tx) /\ (~Erred(t) => Spent(t, tx))
  BY <1>7, <1>9, PaidSpent
<1> QED
  BY <1>4, <1>7, <1>10 DEF Delivered

\* Every delivered transaction, before its error is reported.
LEMMA CheckTxDelivers ==
  ASSUME NEW tx \in Tx, IsState(state), CheckTx(tx)
  PROVE  \E t : Delivered(state, t, tx) /\ Deliver(tx, t)
<1>1. CASE CreateAccountAction(tx)
  <2>1. Delivered(state, CreateAccountTx(state, tx), tx)
    BY <1>1, CreateAccountDelivered DEF CreateAccountAction
  <2> QED
    BY <1>1, <2>1 DEF CreateAccountAction
<1>2. CASE SetAccountInfoAction(tx)
  <2>1. Delivered(state, SetAccountInfoTx(state, tx), tx)
    BY <1>2, SetAccountInfoDelivered DEF SetAccountInfoAction
  <2> QED
    BY <1>2, <2>1 DEF SetAccountInfoAction
<1>3. CASE SetAccountDelegateAction(tx)
  <2>1. Delivered(state, SetAccountDelegateTx(state, tx), tx)
    BY <1>3, SetAccountDelegateDelivered DEF SetAccountDelegateAction
  <2> QED
    BY <1>3, <2>1 DEF SetAccountDelegateAction
<1>4. CASE SendTokensAction(tx)
  <2>1. Delivered(state, SendTokensTx(state, tx), tx)
    BY <1>4, SendTokensDelivered DEF SendTokensAction
  <2> QED
    BY <1>4, <2>1 DEF SendTokensAction
<1>5. CASE CollectFaucetAction(tx)
  <2>1. Delivered(state, CollectFaucetTx(state, tx), tx)
    BY <1>5, CollectFaucetDelivered DEF CollectFaucetAction
  <2> QED
    BY <1>5, <2>1 DEF CollectFaucetAction
<1>6. CASE NewProcessAction(tx)
  <2>1. Delivered(state, NewProcessTx(state, tx), tx)
    BY <1>6, NewProcessDelivered DEF NewProcessAction
  <2> QED
    BY <1>6, <2>1 DEF NewProcessAction
<1> QED
  BY <1>1, <1>2, <1>3, <1>4, <1>5, <1>6 DEF CheckTx

\* Clearing the error leaves the rest of the state as it is.
LEMMA ClearGood ==
  ASSUME NEW s, NEW t, NEW A, Good(s, t, A), NEW u, u = [t EXCEPT !.err = "nil"]
  PROVE  Good(s, u, A) /\ u.err = "nil" /\ Later(t, u)
<1>1. IsState(t)
  BY DEF Good
<1>2. /\ u.acc = t.acc /\ u.used = t.used /\ u.elections = t.elections
      /\ u.paid = t.paid /\ u.err = "nil"
      /\ u = [acc |-> u.acc, used |-> u.used, elections |-> u.elections,
              paid |-> u.paid, err |-> u.err]
  BY <1>1 DEF IsState
<1>3. IsState(u)
  BY <1>1, <1>2 DEF IsState
<1>4. Later(t, u)
  BY <1>1, <1>2 DEF Later, IsState, Account
<1>5. Later(s, u) /\ OnlySpend(s, u, A)
  BY <1>2 DEF Good, Later, OnlySpend
<1>6. StateInv(t) => StateInv(u)
  BY <1>2 DEF StateInv, FaucetInv, FaucetNonce, DelegatesInv, IndexInv
<1> QED
  BY <1>2, <1>3, <1>4, <1>5, <1>6 DEF Good

-----------------------------------------------------------------------------
(* The inductive invariant *)

\* The genesis has no used package, no delegate and no election.
LEMMA InitInv == Init => AccountsInv
<1> SUFFICES ASSUME Init PROVE AccountsInv
  OBVIOUS
<1>1. /\ Burn \in Address /\ U64 \in Nat \ {0} /\ MaxIndex \in Nat
      /\ DOMAIN Allocation \subseteq Address
      /\ \A a \in DOMAIN Allocation : Allocation[a] \in UInt64
  BY AccountsAssumption
<1>2. state = InitChain /\ done = [tx \in Tx |-> 0]
  BY DEF Init
<1>3. /\ state.used = {} /\ state.elections = {} /\ state.err = "nil"
      /\ state.paid = [p \in Package |-> 0]
      /\ DOMAIN state.acc = DOMAIN Allocation \cup {Burn}
      /\ state = [acc |-> state.acc, used |-> state.used,
                  elections |-> state.elections, paid |-> state.paid,
                  err |-> state.err]
  BY <1>2 DEF InitChain
<1>4. \A b \in UInt64 : NewAccount(b, NoURI, <<>>) \in Account
  BY DEF NewAccount, Account
<1>5. 0 \in UInt64
  BY <1>1 DEF UInt64
<1>6. \A a \in DOMAIN state.acc : \E b \in UInt64 :
        state.acc[a] = NewAccount(b, NoURI, <<>>)
  <2> SUFFICES ASSUME NEW a \in DOMAIN state.acc
               PROVE  \E b \in UInt64 : state.acc[a] = NewAccount(b, NoURI, <<>>)
    OBVIOUS
  <2>1. state.acc[a] = NewAccount(IF a = Burn THEN 0 ELSE Allocation[a], NoURI, <<>>)
    BY <1>2, <1>3 DEF InitChain
  <2>2. (IF a = Burn THEN 0 ELSE Allocation[a]) \in UInt64
    BY <1>1, <1>3, <1>5
  <2> QED
    BY <2>1, <2>2
<1>7. state.acc \in [DOMAIN state.acc -> Account]
  <2>1. state.acc = [a \in DOMAIN state.acc |-> state.acc[a]]
    BY <1>2 DEF InitChain
  <2> QED
    BY <1>4, <1>6, <2>1
<1>8. IsState(state)
  BY <1>1, <1>3, <1>7 DEF IsState
<1>9. TypeOK
  BY <1>2, <1>3, <1>8 DEF TypeOK
<1>10. FaucetInv(state)
  BY <1>3 DEF FaucetInv
<1>11. \A a \in DOMAIN state.acc : state.acc[a].delegates = <<>> /\ state.acc[a].index = 0
  <2> SUFFICES ASSUME NEW a \in DOMAIN state.acc
               PROVE  state.acc[a].delegates = <<>> /\ state.acc[a].index = 0
    OBVIOUS
  <2>1. PICK b \in UInt64 : state.acc[a] = NewAccount(b, NoURI, <<>>)
    BY <1>6
  <2>2. /\ NewAccount(b, NoURI, <<>>).delegates = <<>>
        /\ NewAccount(b, NoURI, <<>>).index = 0
    BY DEF NewAccount
  <2> QED
    BY <2>1, <2>2, Zenon
<1>12. DelegatesInv(state)
  BY <1>11 DEF DelegatesInv, CheckDuplicateDelegates, NoDuplicates
<1>13. IndexInv(state)
  BY <1>1, <1>3, <1>11 DEF IndexInv
<1>14. ReplayInv
  BY <1>2 DEF ReplayInv
<1> QED
  BY <1>9, <1>10, <1>12, <1>13, <1>14 DEF AccountsInv, StateInv

\* A step of the accounts is a good step for the payers of its transaction.
LEMMA StepGood ==
  ASSUME NEW tx \in Tx, IsState(state), CheckTx(tx)
  PROVE  /\ Good(state, state', Payers(tx)) /\ state'.err = "nil"
         /\ ~Spent(state, tx)
         /\ \/ done' = done
            \/ done' = [done EXCEPT ![tx] = @ + 1] /\ Spent(state', tx)
<1>1. PICK t : Delivered(state, t, tx) /\ Deliver(tx, t)
  BY CheckTxDelivers
<1>2. Good(state, t, Payers(tx)) /\ ~Spent(state, tx) /\ (~Erred(t) => Spent(t, tx))
  BY <1>1 DEF Delivered
<1>3. state' = [t EXCEPT !.err = "nil"]
  BY <1>1 DEF Deliver
<1>4. Good(state, state', Payers(tx)) /\ state'.err = "nil" /\ Later(t, state')
  BY <1>2, <1>3, ClearGood
<1>5. IsState(t) /\ IsState(state')
  BY <1>2, <1>4 DEF Good
<1>6. Spent(t, tx) => Spent(state', tx)
  BY <1>4, <1>5, SpentStable
<1>7. done' = IF Erred(t) THEN done ELSE [done EXCEPT ![tx] = @ + 1]
  BY <1>1 DEF Deliver
<1> QED
  BY <1>2, <1>4, <1>6, <1>7

\* Every step preserves the invariant.
LEMMA NextInv == AccountsInv /\ [Next]_vars => AccountsInv'
<1> SUFFICES ASSUME AccountsInv, [Next]_vars PROVE AccountsInv'
  OBVIOUS
<1>1. /\ TypeOK /\ StateInv(state) /\ ReplayInv
      /\ IsState(state) /\ done \in [Tx -> Nat] /\ Burn \in DOMAIN state.acc
  BY DEF AccountsInv, TypeOK
<1>2. CASE Next
  <2>1. PICK tx \in Tx : CheckTx(tx)
    BY <1>2 DEF Next
  <2>2. /\ Good(state, state', Payers(tx)) /\ state'.err = "nil"
        /\ ~Spent(state, tx)
        /\ \/ done' = done
           \/ done' = [done EXCEPT ![tx] = @ + 1] /\ Spent(state', tx)
    BY <1>1, <2>1, StepGood
  <2>3. IsState(state') /\ Later(state, state') /\ StateInv(state')
    BY <1>1, <2>2 DEF Good
  <2>4. done' \in [Tx -> Nat]
    BY <1>1, <2>2
  <2>5. Burn \in DOMAIN state'.acc
    BY <1>1, <2>3 DEF Later
  <2>6. TypeOK'
    BY <2>2, <2>3, <2>4, <2>5 DEF TypeOK
  <2>7. ASSUME NEW y \in Tx
        PROVE  done'[y] = 0 \/ (done'[y] = 1 /\ Spent(state', y))
    <3>1. done[y] = 0 \/ (done[y] = 1 /\ Spent(state, y))
      BY <1>1 DEF ReplayInv
    <3>2. Spent(state, y) => Spent(state', y)
      BY <1>1, <2>3, SpentStable
    <3>3. CASE done' = done
      BY <3>1, <3>2, <3>3
    <3>4. CASE done' = [done EXCEPT ![tx] = @ + 1] /\ Spent(state', tx)
      <4>1. CASE y = tx
        <5>1. done[y] = 0
          BY <2>2, <3>1, <4>1
        <5> QED
          BY <1>1, <3>4, <4>1, <5>1
      <4>2. CASE y # tx
        BY <1>1, <3>1, <3>2, <3>4, <4>2
      <4> QED
        BY <4>1, <4>2
    <3> QED
      BY <2>2, <3>3, <3>4
  <2>8. ReplayInv'
    BY <2>7 DEF ReplayInv, Spent, Exists, FaucetNonce
  <2> QED
    BY <2>3, <2>6, <2>8 DEF AccountsInv, StateInv, FaucetInv, DelegatesInv,
       IndexInv, FaucetNonce
<1>3. CASE UNCHANGED vars
  BY <1>1, <1>3 DEF vars, AccountsInv, TypeOK, IsState, StateInv, FaucetInv,
     DelegatesInv, IndexInv, ReplayInv, Spent, Exists, FaucetNonce
<1> QED
  BY <1>2, <1>3

-----------------------------------------------------------------------------
(* The theorems *)

(***************************************************************************)
(* The inductive invariant holds: the state is typed, packages, delegates  *)
(* and election indices are consistent, and what succeeded is spent.       *)
(***************************************************************************)
THEOREM AccountsInvariant == Spec => []AccountsInv
BY InitInv, NextInv, PTL DEF Spec

(***************************************************************************)
(* Balances stay uint64 values and the burn account exists, whatever       *)
(* transactions are delivered and wherever they fail.                      *)
(***************************************************************************)
THEOREM AccountsTypes == Spec => []TypeOK
<1>1. AccountsInv => TypeOK
  BY DEF AccountsInv
<1> QED
  BY <1>1, AccountsInvariant, PTL

(***************************************************************************)
(* No signed transaction succeeds twice (checkAccountNonce, and the checks *)
(* that replace it for CreateAccount and CollectFaucet).                   *)
(***************************************************************************)
THEOREM NoTransactionIsReplayed == Spec => []NoReplay
<1>1. AccountsInv => NoReplay
  BY DEF AccountsInv, TypeOK, ReplayInv, NoReplay
<1> QED
  BY <1>1, AccountsInvariant, PTL

(***************************************************************************)
(* A faucet package, and a faucet identifier of an issuer, is paid once    *)
(* (ConsumeFaucetPayload).                                                 *)
(***************************************************************************)
THEOREM FaucetPackagesArePaidOnce == Spec => []FaucetPaidOnce
<1>1. AccountsInv => FaucetPaidOnce
  BY DEF AccountsInv, StateInv, FaucetInv, FaucetPaidOnce, FaucetKey
<1> QED
  BY <1>1, AccountsInvariant, PTL

(***************************************************************************)
(* The next election ID of an account is unused while it has an unused one *)
(* (BuildNextProcessID, IncrementAccountProcessIndex).                     *)
(***************************************************************************)
THEOREM NextElectionIdIsFree == Spec => []NextElectionIsFree
<1>1. AccountsInv => NextElectionIsFree
  <2> SUFFICES ASSUME AccountsInv, NEW a \in DOMAIN state.acc,
                      NEW i \in 0 .. MaxIndex + 1, <<a, i>> \notin state.elections
               PROVE  BuildNextProcessID(state, a) \notin state.elections
    BY DEF NextElectionIsFree
  <2>1. \A j \in Nat : <<a, j>> \in state.elections <=> j < state.acc[a].index
    BY DEF AccountsInv, StateInv, IndexInv
  <2>2. state.acc[a].index \in Nat
    BY DEF AccountsInv, TypeOK, IsState, Account
  <2> QED
    BY <2>1, <2>2 DEF BuildNextProcessID
<1> QED
  BY <1>1, AccountsInvariant, PTL

(***************************************************************************)
(* Lists of delegates have no duplicates and never hold the account itself *)
(* (CheckDuplicateDelegates, AddDelegate, DelDelegate).                    *)
(***************************************************************************)
THEOREM DelegatesStayDistinct == Spec => []DelegatesAreDistinct
<1>1. AccountsInv => DelegatesAreDistinct
  BY DEF AccountsInv, StateInv, DelegatesInv, CheckDuplicateDelegates,
     DelegatesAreDistinct, IsDelegate
<1> QED
  BY <1>1, AccountsInvariant, PTL

(***************************************************************************)
(* Only the signer of a transaction and the issuer of the faucet package   *)
(* it carries lose tokens by it (CheckTx).                                 *)
(***************************************************************************)
THEOREM OnlySignersSpend == Spec => SpendsOnlySigned
<1>1. ASSUME AccountsInv, NEW tx \in Tx, CheckTx(tx), NEW a \in DOMAIN state.acc,
             state'.acc[a].balance < state.acc[a].balance
      PROVE  a = tx.signer \/ (tx.pkg # Nil /\ a = tx.pkg.issuer)
  <2>1. IsState(state)
    BY <1>1 DEF AccountsInv, TypeOK
  <2>2. Good(state, state', Payers(tx))
    BY <1>1, <2>1, StepGood
  <2>3. IsState(state') /\ a \in DOMAIN state'.acc
    BY <2>2 DEF Good, Later
  <2>4. state.acc[a].balance \in Int /\ state'.acc[a].balance \in Int
    BY <2>1, <2>3 DEF IsState, Account, UInt64
  <2>5. a \in Payers(tx)
    BY <1>1, <2>2, <2>4 DEF Good, OnlySpend
  <2> QED
    BY <2>5 DEF Payers
<1>2. AccountsInv =>
        [\A tx \in Tx : CheckTx(tx) =>
           \A a \in DOMAIN state.acc :
             state'.acc[a].balance < state.acc[a].balance =>
               a = tx.signer \/ (tx.pkg # Nil /\ a = tx.pkg.issuer)]_vars
  BY <1>1
<1> QED
  BY <1>2, AccountsInvariant, PTL DEF SpendsOnlySigned
=============================================================================
