----------------------------- MODULE MCAccounts -----------------------------
(***************************************************************************)
(* The instances of Accounts: an organization, a member and a newcomer     *)
(* without account.                                                        *)
(***************************************************************************)
EXTENDS Accounts, FiniteSetsExt

CONSTANTS Org, Member, Newcomer

MCAddress == {Org, Member, Newcomer, Burn}

\* The balances of the genesis, Newcomer has no account.
MCAllocation == [a \in {Org, Member} |-> IF a = Org THEN 9 ELSE 2]

\* One transaction type is free, to meet costs of zero.
MCBaseCost == [t \in TxType |-> IF t = "DEL_DELEGATE_FOR_ACCOUNT" THEN 0 ELSE 1]

Pkg(issuer, identifier, to, amount) ==
  [issuer |-> issuer, identifier |-> identifier, to |-> to, amount |-> amount]

Gift == Pkg(Org, 1, Member, 2)

\* The same identifier for another receiver.
Welcome == Pkg(Org, 1, Newcomer, 3)

\* With the fee of CollectFaucet its amount wraps around.
Huge == Pkg(Member, 1, Org, U64 - 1)

Refund == Pkg(Newcomer, 7, Member, 1)

MCPackage == {Gift, Welcome, Huge, Refund}

MCTxRecord(type, signer, nonce) ==
  [type |-> type, signer |-> signer, nonce |-> nonce, pkg |-> Nil,
   account |-> signer, uri |-> CHOOSE u \in URI : TRUE, delegates |-> <<>>,
   value |-> 0]

Create(pkg, delegates) ==
  [MCTxRecord("CREATE_ACCOUNT", Newcomer, 0) EXCEPT !.pkg = pkg, !.delegates = delegates]

Info(signer, nonce, account, pkg) ==
  [MCTxRecord("SET_ACCOUNT_INFO_URI", signer, nonce) EXCEPT !.account = account, !.pkg = pkg]

Delegates(type, signer, nonce, delegates) ==
  [MCTxRecord(type, signer, nonce) EXCEPT !.delegates = delegates]

Send(signer, nonce, to, value) ==
  [MCTxRecord("SEND_TOKENS", signer, nonce) EXCEPT !.account = to, !.value = value]

Collect(nonce, pkg) ==
  [MCTxRecord("COLLECT_FAUCET", pkg.to, nonce) EXCEPT !.pkg = pkg]

Election(signer, nonce, organization, pkg, price) ==
  [MCTxRecord("NEW_PROCESS", signer, nonce)
     EXCEPT !.account = organization, !.pkg = pkg, !.value = price]

Nonces == 0 .. 3

MCTx ==
  {Create(Welcome, <<Org>>), Create(Welcome, <<Org, Org>>)}
  \cup {Info(Member, n, Org, Gift) : n \in Nonces}
  \cup {Info(Org, n, Newcomer, Nil) : n \in Nonces}
  \cup {Delegates("ADD_DELEGATE_FOR_ACCOUNT", Org, n, d) :
          n \in 0 .. 1, d \in {<<Member>>, <<Newcomer>>}}
  \cup {Delegates("DEL_DELEGATE_FOR_ACCOUNT", Org, n, d) :
          n \in 2 .. 3, d \in {<<Member>>, <<Newcomer, Member>>}}
  \cup {Send(Org, n, Member, 3) : n \in 0 .. 1}
  \cup {Send(Member, n, Org, U64 - 1) : n \in 0 .. 1}
  \cup {Send(Member, 0, Burn, 1), Send(Newcomer, 0, Member, 1)}
  \cup {Collect(n, p) : n \in 0 .. 1, p \in MCPackage}
  \cup {Election(Org, n, Org, Nil, 0) : n \in Nonces}
  \cup {Election(Member, n, Org, Nil, 2) : n \in 0 .. 1}
  \cup {Election(Member, n, Org, p, 2) : n \in 0 .. 1, p \in {Gift, Refund}}
  \cup {Election(Newcomer, 0, Newcomer, Nil, 2)}

(***************************************************************************)
(* TransferBalance reads both accounts before it writes one, so it moves   *)
(* tokens only between different accounts.  SendTokens checks that; for    *)
(* the packages it is an assumption.                                       *)
(***************************************************************************)
ASSUME IssuersGiveToOthers == \A p \in Package : p.issuer # p.to

Supply(balances) == MapThenSumSet(LAMBDA a : balances[a], DOMAIN balances)

(***************************************************************************)
(* Tokens are neither created nor lost: with the burned fees the balances  *)
(* sum up to the balances of the genesis, also after transactions that     *)
(* fail half way.                                                          *)
(***************************************************************************)
SupplyConserved ==
  Supply([a \in DOMAIN state.acc |-> state.acc[a].balance]) = Supply(Allocation)
=============================================================================
