--------------------------- MODULE DepositCredit ---------------------------
(***************************************************************************)
(* How deposits to the pool are credited (src/src/index.js and             *)
(* verifyDepositClaim of src/src/wartSpv.js): by wart_deposit_claim, which *)
(* the light client verifies, and by pool_deposit, which a host attests.   *)
(* Both bind Warthog accounts to the L1 owner they are first credited to,  *)
(* and remember deposits by a key.  What happens to a credit afterwards is *)
(* FungiblePool: a credit here is its PoolDeposit.                         *)
(*                                                                         *)
(* What an input says is its sender's word, but for what the block's root  *)
(* commits to.  Of genuine inputs, those that say what is so, more holds   *)
(* than of the others, and the history of credits tells them apart.        *)
(***************************************************************************)
EXTENDS MerkleBody, FiniteSets, SequencesExt

CONSTANTS
  (* The light client's, see SpvLightClient.                               *)
  Headers, Windows, Mined, Pins, NoPin, NoHash, MaxHeaders,
  MinConfirmations, MinConfs, AllowBootstrap, AllowRebootstrap,
  Owners, NoOwner,  (* L1 addresses, and none.                             *)
  Addresses,        (* Texts that inputs give as an account's address, and *)
  NoAddress,        (*   none, or one that is too short to be kept.        *)
  Pool,             (* The pool's account.                                 *)
  Worlds,           (* What there is: [blocks, bodies, attested], the      *)
                    (*   bodies of the blocks by their hash, the bodies    *)
                    (*   claims bring, and what hosts attest that is in no *)
                    (*   block.                                            *)
  Settings          (* How the rollup runs and what is sent to it, fixed   *)
                    (*   from the start:                                   *)
                    (* reverts       as in SpvLightClient;                 *)
                    (* requireSpv    POOL_REQUIRE_SPV;                     *)
                    (* world         which of Worlds it is;                *)
                    (* claimAccounts what claims name as the pool's;       *)
                    (* claimHashes, depositHashes  what they give as the   *)
                    (*   transaction's hash: its "own", "any" transfer's,  *)
                    (*   such a one after "0x", or "none";                 *)
                    (* addresses     what inputs give as addresses;        *)
                    (* byHash        whether genuine claims give the hash; *)
                    (* maxCredits    bound: deposits credited.             *)

ASSUME SettingsAssumption ==
  \A s \in Settings :
    /\ s.reverts \in BOOLEAN /\ s.requireSpv \in BOOLEAN /\ s.byHash \in BOOLEAN
    /\ s.addresses \subseteq Addresses \cup {NoAddress}
    /\ s.claimHashes \cup s.depositHashes \subseteq {"own", "any", "0x", "none"}
    /\ s.world \in DOMAIN Worlds

(* The bodies there are in a world.                                        *)
BodiesIn(world) == world.bodies \cup Range(world.blocks)

(* A block has at least the entry of its reward, none that is made of      *)
(* hashes, nothing below its entries, and transfers that can be decoded.   *)
ASSUME WorldsAssumption ==
  \A w \in DOMAIN Worlds :
    /\ DOMAIN Worlds[w].blocks = { h.hash : h \in Headers }
    /\ \A block \in Range(Worlds[w].blocks) :
         /\ block.leaves # <<>>
         /\ \A i \in DOMAIN block.leaves :
              LET leaf == block.leaves[i]
              IN  /\ ~IsJoined(leaf.content) /\ leaf.below = <<>>
                  /\ leaf.tag = "wartTransfer" => LongEnough(leaf.content)
    /\ \A body \in BodiesIn(Worlds[w]) :
         /\ body.leaves \in Seq(Range(body.leaves))
         /\ \A i \in DOMAIN body.leaves :
              body.leaves[i].below \in Seq(Range(body.leaves[i].below))
         /\ \A p \in Found(body) : LongEnough(NodeAt(body, p).content) =>
                                    SentAt(body, p).amountE8 \in Nat
    /\ \A t \in Worlds[w].attested : t.amountE8 \in Nat

ASSUME OwnersAssumption ==
  IsFiniteSet(Owners) /\ NoOwner \notin Owners /\ NoAddress \notin Addresses

(* What is at a place of a body that is taken for a block's.               *)
Transfer(block, body, place) ==
  [block |-> block, place |-> place, offset |-> NodeAt(body, place).offset,
   origin |-> SentAt(body, place).origin, to |-> SentAt(body, place).to,
   amountE8 |-> SentAt(body, place).amountE8]

(* The transfers there are: those in the blocks' own bodies.               *)
TransfersOf(block, body) ==
  { Transfer(block, body, p) :
      p \in UNION { Deposits(body, SentAt(body, q).to) : q \in Found(body) } }

Transfers ==
  [w \in DOMAIN Worlds |->
     UNION { TransfersOf(b, Worlds[w].blocks[b]) : b \in DOMAIN Worlds[w].blocks }]

(* What claims can get of a block: a body they bring that its header       *)
(* commits to, and a place of it.                                          *)
Claimable ==
  [s \in Settings |-> [b \in DOMAIN Worlds[s.world].blocks |->
     UNION { {body} \X Choosable(body, account) :
               body \in { x \in Worlds[s.world].bodies :
                            BodyProves(x, HeaderRoot(Worlds[s.world].blocks[b])) },
               account \in s.claimAccounts }]]

(* The accounts that send something in some body.                          *)
Accounts ==
  UNION { { SentAt(body, p).origin :
              p \in { q \in Found(body) : LongEnough(NodeAt(body, q).content) } } :
            body \in UNION { BodiesIn(Worlds[w]) : w \in DOMAIN Worlds } }

VARIABLES
  setting,                 (* The one of Settings this is; never changes.  *)
  status, lc,              (* As in SpvLightClient.                        *)
  usedDepositTxs,          (* Keys of the deposits credited.               *)
  ownerByOriginAccountId,  (* Account number -> owner.                     *)
  ownerByWartAddress,      (* Address -> owner.                            *)
  lockedE8,                (* The pool's collateral and                    *)
  depositedE8,             (*   whom it is attributed to, but for releases.*)
  credits                  (* History: the credits given, in order.        *)

bindVars   == <<ownerByOriginAccountId, ownerByWartAddress>>
creditVars == <<usedDepositTxs, lockedE8, depositedE8, credits>>
vars       == <<setting, status, lc, bindVars, creditVars>>

LC == INSTANCE SpvLightClient
        WITH Reverting <- BOOLEAN, reverts <- setting.reverts

ASSUME ClientAssumption ==
  /\ LC!HeadersAssumption /\ LC!WindowsAssumption /\ LC!PinsAssumption
  /\ LC!LimitsAssumption /\ LC!FlagsAssumption

Init ==
  /\ setting \in Settings
  /\ LC!Init
  /\ usedDepositTxs = {}
  /\ ownerByOriginAccountId = [a \in Accounts |-> NoOwner]
  /\ ownerByWartAddress = [a \in Addresses |-> NoOwner]
  /\ lockedE8 = 0 /\ depositedE8 = [o \in Owners |-> 0]
  /\ credits = <<>>

-----------------------------------------------------------------------------

(* The hash of a transaction, as text that may begin with 0x, no text, and *)
(* the texts that inputs about transfer t give.                            *)
TxHash(t) == [prefix |-> "", of |-> t]
NoText    == [text |-> "none"]

Texts(kinds, t) ==
  LET Known == Transfers[setting.world]
  IN  { text \in {TxHash(t), NoText} \cup [prefix : {"", "0x"}, of : Known] :
          \/ "own"  \in kinds /\ text = TxHash(t)
          \/ "any"  \in kinds /\ text \in { TxHash(u) : u \in Known }
          \/ "0x"   \in kinds /\ text \in [prefix : {"0x"}, of : Known]
          \/ "none" \in kinds /\ text = NoText }

(* A claim is known by the hash it gives, which hexNorm strips of 0x, or   *)
(* else by its height and what the body says of the transfer.              *)
ClaimKey(hash, height, t) ==
  IF hash = NoText
  THEN [height |-> height, offset |-> t.offset, amountE8 |-> t.amountE8,
        origin |-> t.origin]
  ELSE TxHash(hash.of)

(* Mutant: a deposit's key is not comparable with a claim's.               *)
DepositKeyPrefixed(hash) ==
  IF hash = NoText THEN NoText ELSE [prefix |-> "0x", of |-> hash.of]

(* pool_deposit lowers the case of the hash it is given, and that is all.  *)
DepositKey(hash) == hash

Fresh(key) == key = NoText \/ key \notin usedDepositTxs

(* Mutant: a binding does not bind.                                        *)
MayBindAlways(binding, account, owner) == TRUE

(* assertAndBindDepositOwner: the first owner of an account keeps it.      *)
MayBind(binding, account, owner) == binding[account] \in {NoOwner, owner}

BoundIf(binding, account, owner, ok) ==
  IF ok /\ binding[account] = NoOwner
  THEN [binding EXCEPT ![account] = owner] ELSE binding

(* Mutant: the key is recorded before the claim is checked.                *)
UsedEarly(ok, key) == usedDepositTxs \cup {key}

Used(ok, key) ==
  IF ok /\ key # NoText THEN usedDepositTxs \cup {key} ELSE usedDepositTxs

(* Mutant: a reverting machine keeps the bindings.                         *)
KeepsAlways(ok) == TRUE

(* Whether what a handler changed stays.                                   *)
Keeps(ok) == ok \/ ~setting.reverts

(* Whether a claim says nothing of a place that the block does not say and *)
(* that the root leaves to the claim: it is a leaf, not made of hashes,    *)
(* and has the tag and the offset of the block's leaf there, if there is.  *)
AsInBlock(block, body, place) ==
  LET i == place[1]
  IN  /\ place[2] = 0
      /\ ~IsJoined(body.leaves[i].content)
      /\ i \in DOMAIN block.leaves =>
           /\ block.leaves[i].tag = body.leaves[i].tag
           /\ block.leaves[i].offset = body.leaves[i].offset

(* The end of both handlers.                                               *)
Credit(ok, owner, t, key, height, from, genuine) ==
  /\ usedDepositTxs' = Used(ok, key)
  /\ lockedE8' = IF ok THEN lockedE8 + t.amountE8 ELSE lockedE8
  /\ depositedE8' = IF ok THEN [depositedE8 EXCEPT ![owner] = @ + t.amountE8]
                    ELSE depositedE8
  /\ credits' = IF ok THEN Append(credits, [transfer |-> t, owner |-> owner,
                                            key |-> key, height |-> height,
                                            from |-> from, genuine |-> genuine])
                ELSE credits

-----------------------------------------------------------------------------
(* The handlers.                                                           *)

(* wart_deposit_claim: owner brings a body that proves to be the block's,  *)
(* and gets what is found at a place of it.  The client is changed and the *)
(* origin bound before the key is looked up.                               *)
WartDepositClaim(owner, claim, body, place, hash, from) ==
  LET block      == claim.header.hash
      result     == LC!ClaimBlock(lc, claim)
      t          == Transfer(block, body, place)
      key        == ClaimKey(hash, claim.header.height, t)
      verified   == result.ok /\ LC!Final(result.lc, claim)
      originOk   == verified /\ MayBind(ownerByOriginAccountId, t.origin, owner)
      named      == from # NoAddress
      addressOk  == originOk /\ (named => MayBind(ownerByWartAddress, from, owner))
      ok         == addressOk /\ Fresh(key)
      genuine    == /\ t.to = Pool
                    /\ AsInBlock(Worlds[setting.world].blocks[block], body, place)
                    /\ IF setting.byHash THEN hash # NoText /\ hash.of = t
                       ELSE hash = NoText
  IN  /\ Len(credits) < setting.maxCredits
      /\ LC!Ends([result EXCEPT !.ok = ok])
      /\ IF Keeps(ok)
         THEN /\ ownerByOriginAccountId' =
                   BoundIf(ownerByOriginAccountId, t.origin, owner, originOk)
              /\ ownerByWartAddress' =
                   BoundIf(ownerByWartAddress, from, owner, named /\ addressOk)
         ELSE UNCHANGED bindVars
      /\ Credit(ok, owner, t, key, claim.header.height, from, genuine)

(* A claim with a body that does not prove to be the block's, or in which  *)
(* there is no deposit to the account or of the amount it names.           *)
ClaimWithoutTransfer(claim) ==
  /\ LC!Ends([LC!ClaimBlock(lc, claim) EXCEPT !.ok = FALSE])
  /\ UNCHANGED <<bindVars, creditVars>>

(* pool_deposit: a host attests transfer t.                                *)
PoolDeposit(owner, t, hash, from) ==
  LET key     == DepositKey(hash)
      named   == from # NoAddress
      ok      == /\ t.to = Pool
                 /\ Fresh(key)
                 /\ named => MayBind(ownerByWartAddress, from, owner)
      genuine == /\ t \in Transfers[setting.world]
                 /\ setting.byHash /\ hash = TxHash(t)
  IN  /\ ~setting.requireSpv
      /\ Len(credits) < setting.maxCredits
      /\ status' = IF ok THEN "accept" ELSE "reject"
      /\ ownerByWartAddress' = BoundIf(ownerByWartAddress, from, owner, named /\ ok)
      /\ Credit(ok, owner, t, key, 0, from, genuine)
      /\ UNCHANGED <<lc, ownerByOriginAccountId>>

(* Because of POOL_REQUIRE_SPV, or there is no target or amount.           *)
PoolDepositRefused ==
  /\ status' = "reject"
  /\ UNCHANGED <<lc, bindVars, creditVars>>

(* The light client's own inputs.                                          *)
ClientInput ==
  /\ \/ \E h \in Headers : LC!WartCheckpoint(h, NoPin)
     \/ \E window \in Windows, pin \in Pins \cup {NoPin} :
          LC!WartBootstrap(window, pin) \/ LC!WartHeaders(window, pin)
     \/ LC!BootstrapRejected
  /\ UNCHANGED <<bindVars, creditVars>>

Next ==
  /\ UNCHANGED setting
  /\ \/ \E owner \in Owners, claim \in LC!Claims, from \in setting.addresses :
          \E found \in Claimable[setting][claim.header.hash] :
            \E hash \in Texts(setting.claimHashes,
                              Transfer(claim.header.hash, found[1], found[2])) :
              WartDepositClaim(owner, claim, found[1], found[2], hash, from)
     \/ \E claim \in LC!Claims : ClaimWithoutTransfer(claim)
     \/ \E owner \in Owners, from \in setting.addresses,
           t \in Transfers[setting.world] \cup Worlds[setting.world].attested :
          \E hash \in Texts(setting.depositHashes, t) : PoolDeposit(owner, t, hash, from)
     \/ PoolDepositRefused
     \/ ClientInput

Spec == Init /\ [][Next]_vars

-----------------------------------------------------------------------------
(* Properties.                                                             *)

Genuine == { i \in DOMAIN credits : credits[i].genuine }
Made    == DOMAIN credits \ Genuine

GenuineTransfers == { credits[i].transfer : i \in Genuine }

(* What genuine inputs are credited for is WART that was really sent to    *)
(* the pool, and no transfer counts twice, whatever order claims are       *)
(* repeated in and whoever repeats them, and whatever bodies, accounts,    *)
(* addresses and hashes other inputs make up meanwhile: the pool's         *)
(* collateral is those distinct transfers and what such inputs are         *)
(* credited with.  The owners' shares add up to it.                        *)
CollateralIsReal ==
  /\ GenuineTransfers \subseteq { t \in Transfers[setting.world] : t.to = Pool }
  /\ lockedE8 = SumFunction([t \in GenuineTransfers |-> t.amountE8])
                  + SumFunction([i \in Made |-> credits[i].transfer.amountE8])
  /\ lockedE8 = SumFunction(depositedE8)

(* "First-writer-wins bindings", as far as they reach: claims of what one  *)
(* account number sent are credited to one owner, and so are all inputs    *)
(* that give the same address.  Nothing relates the address an input gives *)
(* to the account that sent, and an attested deposit that gives none, or   *)
(* another, goes to whoever attests it first.                              *)
OneOwnerPerAccount ==
  \A i, j \in DOMAIN credits :
    \/ /\ credits[i].height > 0 /\ credits[j].height > 0
       /\ credits[i].transfer.origin = credits[j].transfer.origin
    \/ credits[i].from # NoAddress /\ credits[i].from = credits[j].from
    => credits[i].owner = credits[j].owner

(* A block that was credited on the client's word stays on the chain that  *)
(* ends in the tip, while that is stored.                                  *)
CreditsStayOnChain ==
  \A i \in DOMAIN credits :
    credits[i].height > 0 /\ credits[i].height \in LC!TipWindow =>
      lc.byHeight[credits[i].height].hash = credits[i].transfer.block

(* No key is used up by an input that was not credited, so a claim that    *)
(* was rejected, for a window that was missing or confirmations that had   *)
(* not come, can be sent again.                                            *)
UsedKeysAreCredited ==
  \A key \in usedDepositTxs : \E i \in DOMAIN credits : credits[i].key = key

(* Where rejected inputs are reverted, an account number is only bound to  *)
(* an owner whose claim of something it sent was credited, and an address  *)
(* to one that was credited by an input that gives it.                     *)
BindingsAreEarned ==
  setting.reverts =>
    /\ \A a \in Accounts :
         ownerByOriginAccountId[a] # NoOwner =>
           \E i \in DOMAIN credits :
             /\ credits[i].height > 0 /\ credits[i].transfer.origin = a
             /\ credits[i].owner = ownerByOriginAccountId[a]
    /\ \A a \in Addresses :
         ownerByWartAddress[a] # NoOwner =>
           \E i \in DOMAIN credits :
             credits[i].from = a /\ credits[i].owner = ownerByWartAddress[a]

(* "Stable tx key for idempotency": a transfer is credited at most once.   *)
CreditedOnce ==
  \A i, j \in DOMAIN credits :
    credits[i].transfer = credits[j].transfer => i = j

=============================================================================
