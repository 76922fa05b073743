----------------------------- MODULE Inventory -----------------------------
(***************************************************************************)
(* What owners hold of ETH, CTSI and USDC on the rollup (src/src/index.js):*)
(* deposits by the ETH and ERC-20 portals, withdrawals by vouchers, and    *)
(* the ETH sub-wallets whose deposits are credited to another address, the *)
(* owner that registered them.                                             *)
(*                                                                         *)
(* One input is one action.  A sub-wallet is an L1 address like an owner's,*)
(* so every address can be a depositor, a sub-wallet and an owner.  wWART  *)
(* comes through the same ERC-20 portal but belongs to FungiblePool and    *)
(* PersonalVault.                                                          *)
(***************************************************************************)
EXTENDS Integers, FiniteSets, Functions

CONSTANTS
  Addresses,        (* L1 addresses that deposit or withdraw.              *)
  Registrants,      (* Those of them that register sub-wallets.            *)
  SubAddresses,     (* The addresses they register, and                    *)
  Indexes,          (*   the indexes they register them under.             *)
  Registrations,    (* What they register, as <<owner, index, address>>.   *)
  NoAddress,        (* None.                                               *)
  Tokens,           (* The ERC-20 tokens: CTSI and USDC.                   *)
  DepositAmounts,   (* Amounts the portals deliver, and                    *)
  WithdrawAmounts,  (*   those that withdrawals ask for.                   *)
  MaxDeposited      (* Bound: ever deposited, or added by withdrawals of   *)
                    (*   negative amounts, of all assets together.         *)

ETH    == "ETH"
Assets == Tokens \cup {ETH}

(* What the constants are; RollupLoop assumes it.                          *)
Parameters ==
  /\ IsFiniteSet(Addresses) /\ NoAddress \notin Addresses
  /\ Registrants \subseteq Addresses /\ SubAddresses \subseteq Addresses
  /\ IsFiniteSet(Indexes)
  /\ Registrations \subseteq Registrants \X Indexes \X SubAddresses
  /\ ETH \notin Tokens
  /\ DepositAmounts \subseteq Nat \ {0} /\ MaxDeposited \in Nat
  /\ WithdrawAmounts \subseteq Int

VARIABLES
  status,           (* What the last handler returned to the rollup.       *)
  dAppAddress,      (* Whether the relay has told the DApp its address.    *)
  ethSubByAddress,  (* Sub-wallet -> [owner, index] it is registered as.   *)
  ethSubsByOwner,   (* Owner and index -> [address, ethWei].               *)
  balance,          (* userVaults: eth, CTSI and usdc of an address.       *)
  onL1,             (* External: what the portals took in of an asset less *)
                    (*   what vouchers give out.                           *)
  deposited,        (* History: ever deposited of an asset,                *)
  withdrawn,        (*   the ETH an address withdrew, and                  *)
  raised            (*   what withdrawals of negative amounts added of a   *)
                    (*   token.                                            *)

subVars     == <<ethSubByAddress, ethSubsByOwner>>
historyVars == <<deposited, withdrawn, raised>>
vars        == <<status, dAppAddress, subVars, balance, onL1, historyVars>>

NoBinding == [owner |-> NoAddress]
NoEntry   == [address |-> NoAddress, ethWei |-> 0]

TypeOK ==
  /\ status \in {"accept", "reject"} /\ dAppAddress \in BOOLEAN
  /\ ethSubByAddress \in [Addresses ->
       [owner : Registrants, index : Indexes] \cup {NoBinding}]
  /\ ethSubsByOwner \in [Registrants \X Indexes ->
       [address : SubAddresses, ethWei : Nat] \cup {NoEntry}]
  /\ balance \in [Assets \X Addresses -> Nat]
  /\ onL1 \in [Assets -> Int] /\ deposited \in [Assets -> Nat]
  /\ withdrawn \in [Addresses -> Nat] /\ raised \in [Tokens -> Nat]

Init ==
  /\ status = "accept" /\ dAppAddress = FALSE
  /\ ethSubByAddress = [a \in Addresses |-> NoBinding]
  /\ ethSubsByOwner = [e \in Registrants \X Indexes |-> NoEntry]
  /\ balance = [h \in Assets \X Addresses |-> 0]
  /\ onL1 = [asset \in Assets |-> 0]
  /\ deposited = [asset \in Assets |-> 0]
  /\ withdrawn = [a \in Addresses |-> 0]
  /\ raised = [token \in Tokens |-> 0]

-----------------------------------------------------------------------------

Accept == status' = "accept"

Reject ==
  /\ status' = "reject"
  /\ UNCHANGED <<dAppAddress, subVars, balance, onL1, historyVars>>

(* DApp address relay.                                                     *)
RelayDAppAddress ==
  /\ dAppAddress' = TRUE
  /\ Accept
  /\ UNCHANGED <<subVars, balance, onL1, historyVars>>

IsBoundByOther(a, owner) ==
  ethSubByAddress[a] # NoBinding /\ ethSubByAddress[a].owner # owner

(* Mutant: the address that was at the index stays bound.                  *)
WithBindingOnly(owner, index, a) ==
  [ethSubByAddress EXCEPT ![a] = [owner |-> owner, index |-> index]]

(* The bindings after owner registered a at index: the address that was    *)
(* there before is unbound.                                                *)
WithBinding(owner, index, a) ==
  LET previous == ethSubsByOwner[<<owner, index>>].address
  IN  [b \in Addresses |->
         IF b = a THEN [owner |-> owner, index |-> index]
         ELSE IF b = previous THEN NoBinding
         ELSE ethSubByAddress[b]]

(* register_eth_sub.                                                       *)
RegisterEthSub(owner, index, a) ==
  /\ ~IsBoundByOther(a, owner)
  /\ ethSubByAddress' = WithBinding(owner, index, a)
  /\ ethSubsByOwner' = [ethSubsByOwner EXCEPT ![<<owner, index>>].address = a]
  /\ Accept
  /\ UNCHANGED <<dAppAddress, balance, onL1, historyVars>>

RegisterEthSubRefused(owner, a) ==
  /\ IsBoundByOther(a, owner)
  /\ Reject

(* Who is credited for what a deposits, as a set of one.                   *)
Credited(a) ==
  IF ethSubByAddress[a] = NoBinding THEN {a} ELSE {ethSubByAddress[a].owner}

(* What balances were ever raised by.                                      *)
EverIn == SumFunction(deposited) + SumFunction(raised)

TakeIn(asset, amount) ==
  /\ EverIn + amount <= MaxDeposited
  /\ deposited' = [deposited EXCEPT ![asset] = @ + amount]
  /\ onL1' = [onL1 EXCEPT ![asset] = @ + amount]

(* The ETH portal: creditToVault.                                          *)
EthPortalDeposit(a, wei) ==
  /\ TakeIn(ETH, wei)
  /\ balance' = [h \in DOMAIN balance |->
       IF h[1] = ETH /\ h[2] \in Credited(a) THEN balance[h] + wei
       ELSE balance[h]]
  /\ ethSubsByOwner' =
       IF ethSubByAddress[a] = NoBinding THEN ethSubsByOwner
       ELSE LET sub == ethSubByAddress[a]
            IN  [ethSubsByOwner EXCEPT ![<<sub.owner, sub.index>>] =
                   [address |-> a, ethWei |-> @.ethWei + wei]]
  /\ Accept
  /\ UNCHANGED <<dAppAddress, ethSubByAddress, withdrawn, raised>>

(* The ERC-20 portal with CTSI or USDC.  A registered sub-wallet is not    *)
(* looked up for these.                                                    *)
Erc20PortalDeposit(token, a, amount) ==
  /\ TakeIn(token, amount)
  /\ balance' = [balance EXCEPT ![<<token, a>>] = @ + amount]
  /\ Accept
  /\ UNCHANGED <<dAppAddress, subVars, withdrawn, raised>>

(* A portal's input that credits nothing: a malformed payload, a zero      *)
(* amount or an unknown token.  register_address is as harmless.           *)
Ignored ==
  /\ Accept
  /\ UNCHANGED <<dAppAddress, subVars, balance, onL1, historyVars>>

(* Mutant: nothing is put back.                                            *)
PutBackNothing(ok, amount) == 0

(* What is put back into a balance when the voucher could not be emitted.  *)
PutBack(ok, amount) == IF ok THEN 0 ELSE amount

(* The voucher for ETH is addressed to the DApp, a token's to the token.   *)
(* Only an amount of ETH has to be positive.                               *)
MayWithdraw(asset, a, amount) ==
  /\ asset = ETH => dAppAddress /\ amount > 0
  /\ balance[<<asset, a>>] >= amount

(* What a voucher of this amount transfers on L1: one with a negative      *)
(* amount has no well-formed payload.                                      *)
Transferred(amount) == IF amount > 0 THEN amount ELSE 0

(* withdraw_eth, withdraw_ctsi and withdraw_usdc.  The balance is debited  *)
(* before the voucher is emitted, by a negative amount too.                *)
Withdraw(asset, a, amount, voucherOk) ==
  LET paid == amount - PutBack(voucherOk, amount)
  IN  /\ MayWithdraw(asset, a, amount)
      /\ EverIn - amount <= MaxDeposited
      /\ balance' = [balance EXCEPT ![<<asset, a>>] = @ - paid]
      /\ onL1' = IF voucherOk THEN [onL1 EXCEPT ![asset] = @ - Transferred(amount)]
                 ELSE onL1
      /\ withdrawn' = IF asset = ETH THEN [withdrawn EXCEPT ![a] = @ + paid]
                      ELSE withdrawn
      /\ raised' = IF voucherOk /\ amount < 0
                   THEN [raised EXCEPT ![asset] = @ - amount] ELSE raised
      /\ status' = IF voucherOk THEN "accept" ELSE "reject"
      /\ UNCHANGED <<dAppAddress, subVars, deposited>>

WithdrawRefused(asset, a, amount) ==
  /\ ~MayWithdraw(asset, a, amount)
  /\ Reject

(* An input that is malformed: an index, an address or an amount.          *)
MalformedRefused == Reject

Next ==
  \/ RelayDAppAddress \/ Ignored \/ MalformedRefused
  \/ \E owner \in Registrants, index \in Indexes, a \in SubAddresses :
       /\ <<owner, index, a>> \in Registrations
       /\ RegisterEthSub(owner, index, a) \/ RegisterEthSubRefused(owner, a)
  \/ \E a \in Addresses, amount \in DepositAmounts :
       \/ EthPortalDeposit(a, amount)
       \/ \E token \in Tokens : Erc20PortalDeposit(token, a, amount)
  \/ \E a \in Addresses, amount \in WithdrawAmounts, asset \in Assets :
       \/ \E voucherOk \in BOOLEAN : Withdraw(asset, a, amount, voucherOk)
       \/ WithdrawRefused(asset, a, amount)

Spec == Init /\ [][Next]_vars

-----------------------------------------------------------------------------
(* Properties.                                                             *)

HeldBy(asset)   == SumFunction([a \in Addresses |-> balance[<<asset, a>>]])
ShownFor(owner) == SumFunction([i \in Indexes |-> ethSubsByOwner[<<owner, i>>].ethWei])

(* What the rollup owes to all addresses together is what the portals took *)
(* in less what vouchers give out, whichever address a deposit was         *)
(* credited to and whichever vouchers failed: of ETH exactly, of a token   *)
(* but for what withdrawals of negative amounts added.  And the ETH shown  *)
(* for an owner's sub-wallets, which is never debited and survives a       *)
(* change of address, went into that owner's own inventory: it is still    *)
(* there or the owner withdrew it.                                         *)
InventoryBacked ==
  /\ HeldBy(ETH) = onL1[ETH]
  /\ \A token \in Tokens : HeldBy(token) = onL1[token] + raised[token]
  /\ \A owner \in Registrants :
       ShownFor(owner) <= balance[<<ETH, owner>>] + withdrawn[owner]

(* The two tables of sub-wallets agree on what is bound: a bound address   *)
(* is the one listed at its owner's index.                                 *)
BoundIsListed ==
  \A a \in Addresses :
    ethSubByAddress[a] # NoBinding =>
      ethSubsByOwner[<<ethSubByAddress[a].owner, ethSubByAddress[a].index>>].address = a

=============================================================================
