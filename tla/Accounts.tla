------------------------------ MODULE Accounts ------------------------------
(***************************************************************************)
(* Accounts of the vochain: balances, nonces, delegates, the election      *)
(* index, the faucet packages and the fees of the transactions on them.    *)
(*                                                                         *)
(* A behaviour is a sequence of delivered transactions, as CheckTx with    *)
(* forCommit executes them, in any order and each any number of times.  A  *)
(* transaction may fail after it has written something: the writes stay in *)
(* the open transaction of the state.  An operator on the state takes a    *)
(* state and returns the next one; err is the error that the Go function   *)
(* returns, and an operator does nothing on a state with an error.         *)
(***************************************************************************)
EXTENDS Integers, Sequences

CONSTANTS
  Address,      \* addresses, with and without account
  Burn,         \* BurnAddress, for which nobody can sign
  URI,          \* info URIs
  NoURI,        \* the empty info URI
  Package,      \* signed faucet packages
  Nil,          \* no package
  Tx,           \* signed transactions
  BaseCost,     \* the cost of every transaction type, from the genesis
  Allocation,   \* the balances of the genesis accounts
  U64,          \* modulus of uint64
  MaxIndex      \* 1<<22: above it the election index starts again

TxType == {"CREATE_ACCOUNT", "SET_ACCOUNT_INFO_URI", "ADD_DELEGATE_FOR_ACCOUNT",
           "DEL_DELEGATE_FOR_ACCOUNT", "SEND_TOKENS", "COLLECT_FAUCET",
           "NEW_PROCESS"}

UInt64 == 0 .. U64 - 1

Account == [balance : UInt64, nonce : Nat, uri : URI \cup {NoURI},
            delegates : Seq(Address), index : Nat]

FaucetPackage == [issuer : Address \ {Burn}, identifier : Nat, to : Address,
                  amount : UInt64]

(***************************************************************************)
(* account is the account of SetAccountInfo, the organization of           *)
(* NewProcess and the receiver of SendTokens; value is the amount of       *)
(* SendTokens and the price of the election of NewProcess.                 *)
(***************************************************************************)
TxRecord == [type : TxType, signer : Address \ {Burn}, nonce : Nat,
             pkg : Package \cup {Nil}, account : Address, uri : URI,
             delegates : Seq(Address), value : UInt64]

ASSUME AccountsAssumption ==
  /\ U64 \in Nat \ {0}
  /\ MaxIndex \in Nat
  /\ Burn \in Address
  /\ NoURI \notin URI
  /\ Nil \notin Package
  /\ Package \subseteq FaucetPackage
  /\ \A tx \in Tx : tx \in TxRecord
  /\ BaseCost \in [TxType -> UInt64]
  /\ DOMAIN Allocation \subseteq Address
  /\ \A a \in DOMAIN Allocation : Allocation[a] \in UInt64

\* The accounts, the used faucet identifiers, the elections, and the error.
IsState(s) ==
  /\ s = [acc |-> s.acc, used |-> s.used, elections |-> s.elections,
          paid |-> s.paid, err |-> s.err]
  /\ DOMAIN s.acc \subseteq Address
  /\ s.acc \in [DOMAIN s.acc -> Account]
  /\ s.used \subseteq Address \X Nat
  /\ s.elections \subseteq Address \X Nat
  /\ s.paid \in [Package -> Nat]
  /\ s.err \in {"nil", "error"}

VARIABLES
  state,   \* accounts, used faucet identifiers, elections, faucet payments
  done     \* history: how often each transaction has succeeded
vars == <<state, done>>

-----------------------------------------------------------------------------
(* Accounts and balances *)

\* The domain of acc is the set of existing accounts.
Exists(s, a) == a \in DOMAIN s.acc

AccountBalance(s, a) == IF Exists(s, a) THEN s.acc[a].balance ELSE 0

Erred(s) == s.err = "error"

Failed(s) == [s EXCEPT !.err = "error"]

SetAccount(s, a, account) ==
  [s EXCEPT !.acc = [x \in DOMAIN s.acc \cup {a} |->
                       IF x = a THEN account ELSE s.acc[x]]]

NewAccount(balance, uri, delegates) ==
  [balance |-> balance, nonce |-> 0, uri |-> uri, delegates |-> delegates,
   index |-> 0]

CreateAccount(s, a, uri, delegates, balance) ==
  SetAccount(s, a, NewAccount(balance, uri, delegates))

\* The conditions of Account.Transfer; the sum wraps around.
CanTransfer(from, to, amount) ==
  /\ amount # 0
  /\ from.balance >= amount
  /\ (to.balance + amount) % U64 >= to.balance

Credit(account, amount) == [account EXCEPT !.balance = (@ + amount) % U64]
Debit(account, amount) == [account EXCEPT !.balance = @ - amount]

\* Both accounts are read before either is written.
TransferBalance(s, from, to, amount) ==
  IF Erred(s) THEN s
  ELSE IF /\ Exists(s, from)
          /\ Exists(s, to)
          /\ CanTransfer(s.acc[from], s.acc[to], amount)
       THEN SetAccount(SetAccount(s, from, Debit(s.acc[from], amount)),
                       to, Credit(s.acc[to], amount))
       ELSE Failed(s)

BurnTxCost_Destroy(s, from, cost) ==
  IF Erred(s) \/ cost = 0 THEN s
  ELSE IF AccountBalance(s, from) >= cost
       THEN SetAccount(s, from, Debit(s.acc[from], cost))
       ELSE Failed(s)

BurnTxCost(s, from, cost) ==
  IF cost = 0 THEN s ELSE TransferBalance(s, from, Burn, cost)

\* A cost of zero stands for the base cost of the type.
TxCost(type, cost) == IF cost = 0 THEN BaseCost[type] ELSE cost

IncrementNonce(s, a) ==
  IF Erred(s) THEN s ELSE SetAccount(s, a, [s.acc[a] EXCEPT !.nonce = @ + 1])

BurnTxCostIncrementNonce(s, a, type, cost) ==
  IF Erred(s) THEN s
  ELSE IF Exists(s, a)
       THEN IncrementNonce(BurnTxCost(s, a, TxCost(type, cost)), a)
       ELSE Failed(s)

-----------------------------------------------------------------------------
(* Faucet packages *)

\* The hash of issuer and identifier.
FaucetKey_Receiver(p) == <<p.to, p.identifier>>
FaucetKey(p) == <<p.issuer, p.identifier>>

FaucetNonce(s, p) == FaucetKey(p) \in s.used

ConsumeFaucetPayload(s, p) ==
  IF Erred(s) THEN s ELSE [s EXCEPT !.used = @ \cup {FaucetKey(p)}]

\* paid counts the transfers of a package; it is a history variable.
TransferFaucet(s, p) ==
  LET t == TransferBalance(ConsumeFaucetPayload(s, p), p.issuer, p.to, p.amount)
  IN  IF Erred(t) THEN t ELSE [t EXCEPT !.paid[p] = @ + 1]

\* The package is valid for the receiver and pays the cost with its balance.
FaucetPackagePays(s, p, cost, a) ==
  /\ p.amount # 0
  /\ p.to = a
  /\ ~FaucetNonce(s, p)
  /\ AccountBalance(s, p.issuer) >= p.amount
  /\ (AccountBalance(s, a) + p.amount) % U64 >= cost

\* checkFaucetPackageAndTransfer without and with forCommit.
CheckFaucetPackage(s, p, cost, a) ==
  IF p = Nil THEN cost = 0 ELSE FaucetPackagePays(s, p, cost, a)

CheckFaucetPackageAndTransfer(s, p, cost, a) ==
  IF Erred(s) \/ p = Nil THEN s
  ELSE IF FaucetPackagePays(s, p, cost, a) THEN TransferFaucet(s, p)
  ELSE Failed(s)

CheckAccountCanPayCost(s, tx, cost) ==
  LET c == TxCost(tx.type, cost)
  IN  /\ Exists(s, tx.signer)
      /\ c > 0 => IF tx.pkg = Nil THEN s.acc[tx.signer].balance >= c
                  ELSE FaucetPackagePays(s, tx.pkg, c, tx.signer)

-----------------------------------------------------------------------------
(* Delegates *)

IsDelegate(account, a) == \E i \in DOMAIN account.delegates : account.delegates[i] = a

NoDuplicates(q) == \A i, j \in DOMAIN q : q[i] = q[j] => i = j

CheckDuplicateDelegates(delegates, a) ==
  /\ NoDuplicates(delegates)
  /\ \A i \in DOMAIN delegates : delegates[i] # a

AddDelegates(account, delegates) ==
  [account EXCEPT !.delegates = @ \o delegates]

(***************************************************************************)
(* DelDelegate on a list without duplicates.  It goes on with the          *)
(* iteration after it has removed the address, and then reports that the   *)
(* address is not a delegate: it succeeds for the last of the list only.   *)
(* SetAccountDelegate applies it to the given addresses one by one.        *)
(***************************************************************************)
CanDelDelegates(account, delegates) ==
  LET n == Len(account.delegates)
  IN  /\ Len(delegates) <= n
      /\ \A i \in DOMAIN delegates : account.delegates[n + 1 - i] = delegates[i]

DelDelegates(account, delegates) ==
  [account EXCEPT !.delegates = SubSeq(@, 1, Len(@) - Len(delegates))]

SetAccountDelegate(s, a, delegates, type) ==
  IF Erred(s) THEN s
  ELSE IF ~Exists(s, a) THEN Failed(s)
  ELSE IF type = "ADD_DELEGATE_FOR_ACCOUNT"
       THEN IF NoDuplicates(s.acc[a].delegates \o delegates)
            THEN SetAccount(s, a, AddDelegates(s.acc[a], delegates))
            ELSE Failed(s)
       ELSE IF CanDelDelegates(s.acc[a], delegates)
            THEN SetAccount(s, a, DelDelegates(s.acc[a], delegates))
            ELSE Failed(s)

SetAccountInfoURI(s, a, uri) ==
  IF Erred(s) THEN s
  ELSE IF Exists(s, a) /\ s.acc[a].uri # uri
       THEN SetAccount(s, a, [s.acc[a] EXCEPT !.uri = uri])
       ELSE Failed(s)

-----------------------------------------------------------------------------
(* Elections of an account *)

(***************************************************************************)
(* The process ID is made of the organization, its index and the kind of   *)
(* the election.  All elections here are of one kind.                      *)
(***************************************************************************)
BuildNextProcessID(s, a) == <<a, s.acc[a].index>>

AddProcess(s, pid) ==
  IF Erred(s) \/ pid \in s.elections THEN Failed(s)
  ELSE [s EXCEPT !.elections = @ \cup {pid}]

NextIndex_Early(i) == IF i >= MaxIndex THEN 1 ELSE i + 1
NextIndex(i) == IF i > MaxIndex THEN 1 ELSE i + 1

IncrementAccountProcessIndex(s, a) ==
  IF Erred(s) THEN s
  ELSE IF Exists(s, a)
       THEN SetAccount(s, a, [s.acc[a] EXCEPT !.index = NextIndex(@)])
       ELSE Failed(s)

-----------------------------------------------------------------------------
(* Checks of the transactions *)

CheckAccountNonce_NotAbove(s, tx) ==
  \/ tx.type = "CREATE_ACCOUNT"
  \/ Exists(s, tx.signer) /\ s.acc[tx.signer].nonce >= tx.nonce

CheckAccountNonce(s, tx) ==
  \/ tx.type = "CREATE_ACCOUNT"
  \/ Exists(s, tx.signer) /\ s.acc[tx.signer].nonce = tx.nonce

CreateAccountTxCheck(s, tx) ==
  /\ ~Exists(s, tx.signer)
  /\ CheckDuplicateDelegates(tx.delegates, tx.signer)
  /\ CheckFaucetPackage(s, tx.pkg, BaseCost[tx.type], tx.signer)

SetAccountInfoTxCheck(s, tx) ==
  /\ CheckAccountCanPayCost(s, tx, 0)
  /\ Exists(s, tx.account)
  /\ s.acc[tx.account].uri # tx.uri
  /\ tx.account = tx.signer \/ IsDelegate(s.acc[tx.account], tx.signer)

SetAccountDelegateTxCheck(s, tx) ==
  /\ Len(tx.delegates) > 0
  /\ CheckAccountCanPayCost(s, tx, 0)
  /\ CheckDuplicateDelegates(tx.delegates, tx.signer)
  /\ \A i \in DOMAIN tx.delegates :
       IsDelegate(s.acc[tx.signer], tx.delegates[i])
         <=> tx.type = "DEL_DELEGATE_FOR_ACCOUNT"

\* The sum of value and cost wraps around.
SendTokensTxCheck(s, tx) ==
  /\ tx.value # 0
  /\ tx.signer # tx.account
  /\ Exists(s, tx.account)
  /\ Exists(s, tx.signer)
  /\ (tx.value + BaseCost[tx.type]) % U64 <= s.acc[tx.signer].balance

CollectFaucetTxCheck(s, tx) ==
  /\ tx.pkg # Nil
  /\ tx.pkg.amount # 0
  /\ tx.pkg.to = tx.signer
  /\ Exists(s, tx.signer)
  /\ ~FaucetNonce(s, tx.pkg)
  /\ Exists(s, tx.pkg.issuer)
  /\ s.acc[tx.pkg.issuer].balance >= (tx.pkg.amount + BaseCost[tx.type]) % U64

\* The account is the organization; the checks of the election are in Process.
NewProcessTxCheck(s, tx) ==
  /\ CheckAccountCanPayCost(s, tx, tx.value)
  /\ Exists(s, tx.account)
  /\ tx.account = tx.signer \/ IsDelegate(s.acc[tx.account], tx.signer)

-----------------------------------------------------------------------------
(* What CheckTx with forCommit does after the checks *)

CreateAccountTx(s, tx) ==
  LET c == BaseCost[tx.type]
      created == CreateAccount(s, tx.signer, tx.uri, tx.delegates, 0)
  IN  BurnTxCost(CheckFaucetPackageAndTransfer(created, tx.pkg, c, tx.signer),
                 tx.signer, c)

\* A package of the transaction is transferred, then the signer pays.
PayForTx(s, tx, cost) ==
  BurnTxCostIncrementNonce(
    CheckFaucetPackageAndTransfer(s, tx.pkg, cost, tx.signer),
    tx.signer, tx.type, cost)

SetAccountInfoTx(s, tx) ==
  SetAccountInfoURI(PayForTx(s, tx, BaseCost[tx.type]), tx.account, tx.uri)

SetAccountDelegateTx(s, tx) ==
  SetAccountDelegate(PayForTx(s, tx, BaseCost[tx.type]), tx.signer,
                     tx.delegates, tx.type)

SendTokensTx(s, tx) ==
  TransferBalance(BurnTxCostIncrementNonce(s, tx.signer, tx.type, 0),
                  tx.signer, tx.account, tx.value)

\* The issuer of the package pays, and it is its nonce that grows.
CollectFaucetTx(s, tx) ==
  TransferFaucet(BurnTxCostIncrementNonce(s, tx.pkg.issuer, tx.type, 0), tx.pkg)

NewProcessTx_OrganizationPays(s, tx) ==
  LET added == IncrementAccountProcessIndex(
                 AddProcess(s, BuildNextProcessID(s, tx.account)), tx.account)
  IN  BurnTxCostIncrementNonce(
        CheckFaucetPackageAndTransfer(added, tx.pkg, tx.value, tx.signer),
        tx.account, tx.type, tx.value)

NewProcessTx(s, tx) ==
  PayForTx(IncrementAccountProcessIndex(
             AddProcess(s, BuildNextProcessID(s, tx.account)), tx.account),
           tx, tx.value)

-----------------------------------------------------------------------------
(* The specification *)

\* InitChain: the genesis accounts, and then the burn account.
InitChain ==
  [acc |-> [a \in DOMAIN Allocation \cup {Burn} |->
              NewAccount(IF a = Burn THEN 0 ELSE Allocation[a], NoURI, <<>>)],
   used |-> {}, elections |-> {}, paid |-> [p \in Package |-> 0], err |-> "nil"]

Init == state = InitChain /\ done = [tx \in Tx |-> 0]

\* The next state, and whether the transaction has succeeded.
Deliver(tx, t) ==
  /\ state' = [t EXCEPT !.err = "nil"]
  /\ done' = IF Erred(t) THEN done ELSE [done EXCEPT ![tx] = @ + 1]

\* A transaction that does not pass its checks changes nothing.
CreateAccountAction(tx) ==
  /\ tx.type = "CREATE_ACCOUNT"
  /\ CreateAccountTxCheck(state, tx)
  /\ Deliver(tx, CreateAccountTx(state, tx))

SetAccountInfoAction(tx) ==
  /\ tx.type = "SET_ACCOUNT_INFO_URI"
  /\ CheckAccountNonce(state, tx)
  /\ SetAccountInfoTxCheck(state, tx)
  /\ Deliver(tx, SetAccountInfoTx(state, tx))

SetAccountDelegateAction(tx) ==
  /\ tx.type \in {"ADD_DELEGATE_FOR_ACCOUNT", "DEL_DELEGATE_FOR_ACCOUNT"}
  /\ CheckAccountNonce(state, tx)
  /\ SetAccountDelegateTxCheck(state, tx)
  /\ Deliver(tx, SetAccountDelegateTx(state, tx))

SendTokensAction(tx) ==
  /\ tx.type = "SEND_TOKENS"
  /\ CheckAccountNonce(state, tx)
  /\ SendTokensTxCheck(state, tx)
  /\ Deliver(tx, SendTokensTx(state, tx))

CollectFaucetAction(tx) ==
  /\ tx.type = "COLLECT_FAUCET"
  /\ CheckAccountNonce(state, tx)
  /\ CollectFaucetTxCheck(state, tx)
  /\ Deliver(tx, CollectFaucetTx(state, tx))

NewProcessAction(tx) ==
  /\ tx.type = "NEW_PROCESS"
  /\ CheckAccountNonce(state, tx)
  /\ NewProcessTxCheck(state, tx)
  /\ Deliver(tx, NewProcessTx(state, tx))

CheckTx(tx) ==
  \/ CreateAccountAction(tx)
  \/ SetAccountInfoAction(tx)
  \/ SetAccountDelegateAction(tx)
  \/ SendTokensAction(tx)
  \/ CollectFaucetAction(tx)
  \/ NewProcessAction(tx)

Next == \E tx \in Tx : CheckTx(tx)

Spec == Init /\ [][Next]_vars

-----------------------------------------------------------------------------
(* Properties *)

(***************************************************************************)
(* Types.  Balances stay uint64 values: Transfer never takes more than     *)
(* there is, and the burn account of the genesis is never lost.            *)
(***************************************************************************)
TypeOK ==
  /\ IsState(state)
  /\ Burn \in DOMAIN state.acc
  /\ state.err = "nil"
  /\ done \in [Tx -> Nat]

(***************************************************************************)
(* A signed transaction succeeds at most once, however often and in        *)
(* whatever order transactions are delivered.  checkAccountNonce compares  *)
(* the nonce of the signer; CollectFaucet increments the nonce of another  *)
(* account and CreateAccount has none, so each is stopped by another       *)
(* check.                                                                  *)
(***************************************************************************)
NoReplay == \A tx \in Tx : done[tx] <= 1

(***************************************************************************)
(* A faucet package is transferred at most once, and at most one package   *)
(* of an issuer with the same identifier is: ConsumeFaucetPayload, "so it  *)
(* can only be used once".  Packages reach the state through CollectFaucet *)
(* and through every transaction that carries one to pay its fee.          *)
(***************************************************************************)
FaucetPaidOnce ==
  /\ \A p \in Package : state.paid[p] <= 1
  /\ \A p, q \in Package :
       /\ p.issuer = q.issuer
       /\ p.identifier = q.identifier
       /\ state.paid[p] > 0
       /\ state.paid[q] > 0
       => p = q

(***************************************************************************)
(* A step takes tokens only from the signer of its transaction and from    *)
(* the issuer of the package that the transaction carries: in particular a *)
(* delegate pays for what it does on behalf of an organization.            *)
(***************************************************************************)
SpendsOnlySigned ==
  [][\A tx \in Tx : CheckTx(tx) =>
       \A a \in DOMAIN state.acc :
         state'.acc[a].balance < state.acc[a].balance =>
           a = tx.signer \/ (tx.pkg # Nil /\ a = tx.pkg.issuer)]_vars

(***************************************************************************)
(* As long as an account has an unused election ID, its next one is        *)
(* unused, so that AddProcess does not fail: organizations and delegates   *)
(* advance the same index, and it starts again above its maximum.          *)
(***************************************************************************)
NextElectionIsFree ==
  \A a \in DOMAIN state.acc :
    (\E i \in 0 .. MaxIndex + 1 : <<a, i>> \notin state.elections)
      => BuildNextProcessID(state, a) \notin state.elections

(***************************************************************************)
(* The list of delegates has no duplicates and does not hold the account   *)
(* itself, whether it comes from CreateAccount, AddDelegate or             *)
(* DelDelegate.  The form of CanDelDelegates relies on it.                 *)
(***************************************************************************)
DelegatesAreDistinct ==
  \A a \in DOMAIN state.acc :
    /\ NoDuplicates(state.acc[a].delegates)
    /\ ~IsDelegate(state.acc[a], a)

(***************************************************************************)
(* "DelDelegate removes an address from the list of delegates for an       *)
(* account" (account.go): a transaction that passes its checks and asks to *)
(* remove delegates removes them.                                          *)
(***************************************************************************)
CheckedDelegatesAreRemoved ==
  \A tx \in Tx :
    /\ tx.type = "DEL_DELEGATE_FOR_ACCOUNT"
    /\ CheckAccountNonce(state, tx)
    /\ SetAccountDelegateTxCheck(state, tx)
    => LET account == SetAccountDelegateTx(state, tx).acc[tx.signer]
       IN  \A i \in DOMAIN tx.delegates : ~IsDelegate(account, tx.delegates[i])
=============================================================================
