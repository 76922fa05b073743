--------------------------- MODULE SpvLightClient ---------------------------
(***************************************************************************)
(* The Warthog light client of src/src/wartSpv.js, as the rollup's inputs  *)
(* drive it (src/src/index.js): a store of headers by height that a        *)
(* checkpoint starts, header windows extend, deposit claims extend by one  *)
(* block, and trimming shortens.                                           *)
(*                                                                         *)
(* A header is what an input says it is: its hash, the hash of its parent, *)
(* and the height it is sent with, which nothing in the header confirms.   *)
(* sha256d is abstracted to equality of hashes.  The client is a mutable   *)
(* record that functions change until they throw, so they are operators    *)
(* that return the client they leave and whether they returned normally.   *)
(* reverts says whether a rejected input keeps what its handler changed.   *)
(***************************************************************************)
EXTENDS Integers, FiniteSets, SequencesExt

CONSTANTS
  Headers,           (* Headers an input may carry: [hash, prev, height].  *)
  Windows,           (* Sequences of headers an input may carry.           *)
  Mined,             (* Hashes that pass janushash-check.                  *)
  Pins,              (* Pins an input may carry: [height, hash].           *)
  NoPin, NoHash,     (* An absent pin, an absent hash.                     *)
  MaxHeaders,        (* lc.maxHeaders: 512.                                *)
  MinConfirmations,  (* lc.minConfirmations: 2.                            *)
  MinConfs,          (* Confirmations a claim may ask for.                 *)
  AllowBootstrap,    (* WART_SPV_ALLOW_BOOTSTRAP.                          *)
  AllowRebootstrap,  (* WART_SPV_ALLOW_REBOOTSTRAP: off by default.        *)
  Reverting          (* Whether rejected inputs are reverted: TRUE for a   *)
                     (* Cartesi machine, FALSE for the process alone.      *)

Hashes == { h.hash : h \in Headers }

ASSUME HeadersAssumption ==
  \A h \in Headers : /\ DOMAIN h = {"hash", "prev", "height"}
                     /\ h.height \in Nat \ {0}
ASSUME WindowsAssumption == Windows \subseteq Seq(Headers) \ {<<>>}
ASSUME PinsAssumption ==
  \A p \in Pins : p.height \in Nat /\ p.hash \in Hashes \cup {NoHash}
ASSUME LimitsAssumption ==
  /\ MaxHeaders \in Nat \ {0}
  /\ MinConfs \subseteq Nat /\ MinConfirmations \in MinConfs
ASSUME FlagsAssumption ==
  /\ AllowBootstrap \in BOOLEAN /\ AllowRebootstrap \in BOOLEAN
  /\ Reverting \subseteq BOOLEAN

VARIABLES
  reverts,  (* The one of Reverting this is; never changes.                *)
  status,   (* What the last handler returned to the rollup.               *)
  lc        (* wartLc.                                                     *)

vars == <<reverts, status, lc>>

(* createLightClient.  Heights are only read once a hash is there.         *)
NewClient ==
  [bootstrapped |-> FALSE, checkpointHeight |-> 0, checkpointHash |-> NoHash,
   bestHeight |-> 0, bestHash |-> NoHash, pin |-> NoPin, byHeight |-> <<>>]

Init == reverts \in Reverting /\ status = "accept" /\ lc = NewClient

-----------------------------------------------------------------------------
(* The header store.                                                       *)

Returns(c) == [lc |-> c, ok |-> TRUE]
Throws(c)  == [lc |-> c, ok |-> FALSE]

Stored(c, h)     == h.height \in DOMAIN c.byHeight
StoredSame(c, h) == c.byHeight[h.height].hash = h.hash

ParentStored(c, h) ==
  /\ h.height - 1 \in DOMAIN c.byHeight
  /\ c.byHeight[h.height - 1].hash = h.prev

(* byHeight.set.                                                           *)
WithHeader(byHeight, h) ==
  [n \in DOMAIN byHeight \cup {h.height} |->
     IF n = h.height THEN [hash |-> h.hash, prev |-> h.prev] ELSE byHeight[n]]

(* A header is set, and is the tip when it is above it.                    *)
Put(c, h) ==
  LET stored == [c EXCEPT !.byHeight = WithHeader(@, h)]
  IN  IF h.height > c.bestHeight
      THEN [stored EXCEPT !.bestHeight = h.height, !.bestHash = h.hash]
      ELSE stored

(* The client's state after the first header it trusts.                    *)
Bootstrapped(c, h) ==
  [c EXCEPT !.bootstrapped = TRUE,
            !.checkpointHeight = h.height, !.checkpointHash = h.hash,
            !.bestHeight = h.height, !.bestHash = h.hash,
            !.byHeight = WithHeader(@, h)]

(* _appendOne: extend the tip, or fill a gap above a stored parent.        *)
AppendOne(c, h) ==
  IF IF h.height = c.bestHeight + 1
     THEN h.prev = c.bestHash
     ELSE ParentStored(c, h)
  THEN Returns(Put(c, h))
  ELSE Throws(c)

(* Mutant: a header at a stored height replaces the stored one.            *)
ApplyOneReplacing(result, h) ==
  IF ~result.ok THEN result
  ELSE IF Stored(result.lc, h) THEN Returns(Put(result.lc, h))
  ELSE AppendOne(result.lc, h)

(* One turn of applyHeaders' loop: a stored header must agree.             *)
ApplyOne(result, h) ==
  IF ~result.ok THEN result
  ELSE IF Stored(result.lc, h)
       THEN IF StoredSame(result.lc, h) THEN result ELSE Throws(result.lc)
  ELSE AppendOne(result.lc, h)

(* A pin of a stored header must agree; one at or below the tip whose      *)
(* header is not stored is taken as it is; one above the tip is ignored.   *)
RecordPin(c, pin) ==
  IF pin = NoPin \/ pin.hash = NoHash THEN Returns(c)
  ELSE IF Stored(c, pin)
       THEN IF StoredSame(c, pin)
            THEN Returns([c EXCEPT !.pin = pin]) ELSE Throws(c)
  ELSE Returns(IF pin.height <= c.bestHeight
               THEN [c EXCEPT !.pin = pin] ELSE c)

(* _trim: the checkpoint and the MaxHeaders highest headers stay.          *)
Trim(c) ==
  LET heights == DOMAIN c.byHeight
      Kept == { n \in heights :
                  \/ n = c.checkpointHeight
                  \/ Cardinality({ m \in heights : m > n }) < MaxHeaders }
  IN  [c EXCEPT !.byHeight = Restrict(@, Kept)]

HeadersLinked(window) ==
  \A i \in 2 .. Len(window) :
    /\ window[i].prev = window[i - 1].hash
    /\ window[i].height = window[i - 1].height + 1

(* applyHeaders: a client that is not bootstrapped starts at the window's  *)
(* first header.  What throws half-way leaves the store untrimmed.         *)
ApplyHeaders(c, window, bootstrap, pin) ==
  IF \/ ~HeadersLinked(window)
     \/ ~c.bootstrapped /\ ~bootstrap /\ ~AllowBootstrap
  THEN Throws(c)
  ELSE LET start   == IF c.bootstrapped THEN c ELSE Bootstrapped(c, window[1])
           applied == FoldLeft(ApplyOne, Returns(start), window)
           pinned  == IF applied.ok THEN RecordPin(applied.lc, pin) ELSE applied
       IN  IF pinned.ok THEN Returns(Trim(pinned.lc)) ELSE pinned

-----------------------------------------------------------------------------
(* verifyDepositClaim, as far as the client is concerned.  A claim has a   *)
(* window (or <<>>), the header of its block, the confirmations it wants   *)
(* and its finality field (or NoPin).                                      *)

Claims == [window : Windows \cup {<<>>}, header : Headers,
           minConf : MinConfs, finality : Pins \cup {NoPin}]

(* Mutant: takes a block from anywhere.                                    *)
AdoptBlockUnlinked(c, h) ==
  IF h.hash \notin Mined THEN Throws(c)
  ELSE IF Stored(c, h)
       THEN IF StoredSame(c, h) THEN Returns(c) ELSE Throws(c)
  ELSE IF h.height - 1 \in DOMAIN c.byHeight
       THEN Returns(Put(c, h)) ELSE Throws(c)

(* Mutant: does not compare the block with the stored one.                 *)
AdoptBlockUncompared(c, h) ==
  IF h.hash \notin Mined THEN Throws(c)
  ELSE IF Stored(c, h) THEN Returns(c)
  ELSE IF ParentStored(c, h) THEN Returns(Put(c, h)) ELSE Throws(c)

(* The block of a claim is stored, or it is adopted above its parent.      *)
AdoptBlock(c, h) ==
  IF h.hash \notin Mined THEN Throws(c)
  ELSE IF Stored(c, h)
       THEN IF StoredSame(c, h) THEN Returns(c) ELSE Throws(c)
  ELSE IF ParentStored(c, h) THEN Returns(Put(c, h)) ELSE Throws(c)

(* The client after a claim's window, and after its block as well.         *)
ClaimWindow(c, claim) ==
  IF claim.window = <<>> THEN Returns(c)
  ELSE ApplyHeaders(c, claim.window, TRUE, claim.finality)

ClaimBlock(c, claim) ==
  LET before == ClaimWindow(c, claim)
  IN  IF before.ok /\ before.lc.bootstrapped
      THEN AdoptBlock(before.lc, claim.header)
      ELSE Throws(before.lc)

Confirmed(c, claim) == c.bestHeight - claim.header.height >= claim.minConf

(* The claim's own finality field comes before the pin that is recorded.   *)
PinHeight(c, claim) ==
  IF claim.finality # NoPin THEN claim.finality.height
  ELSE IF c.pin # NoPin THEN c.pin.height ELSE 0

PinHashAgrees(c, claim) ==
  \/ claim.finality = NoPin \/ c.pin = NoPin
  \/ claim.finality.hash \in {NoHash, c.pin.hash}

Final(c, claim) ==
  \/ Confirmed(c, claim)
  \/ claim.header.height <= PinHeight(c, claim) /\ PinHashAgrees(c, claim)

-----------------------------------------------------------------------------
(* The handlers.                                                           *)

Ends(result) ==
  /\ lc' = IF result.ok \/ ~reverts THEN result.lc ELSE lc
  /\ status' = IF result.ok THEN "accept" ELSE "reject"

WholePins == { p \in Pins : p.hash # NoHash }

MayBootstrap == ~lc.bootstrapped \/ AllowRebootstrap

(* wart_checkpoint without headers: the client starts at a bare hash, and  *)
(* takes a pin as it is.                                                   *)
WartCheckpoint(h, pin) ==
  /\ MayBootstrap
  /\ Ends(Returns([Bootstrapped(lc, h) EXCEPT
                     !.pin = IF pin = NoPin THEN @ ELSE pin]))

(* wart_checkpoint, or wart_headers with bootstrap set, with a window.     *)
WartBootstrap(window, pin) ==
  /\ MayBootstrap
  /\ Ends(ApplyHeaders(lc, window, TRUE, pin))

BootstrapRejected == ~MayBootstrap /\ Ends(Throws(lc))

WartHeaders(window, pin) == Ends(ApplyHeaders(lc, window, FALSE, pin))

(* wart_deposit_claim.  bodyOk: the body proof holds and the deposit can   *)
(* be credited, which DepositCredit models.                                *)
WartDepositClaim(claim, bodyOk) ==
  LET result == ClaimBlock(lc, claim)
  IN  Ends([result EXCEPT !.ok = @ /\ bodyOk /\ Final(result.lc, claim)])

Next ==
  /\ UNCHANGED reverts
  /\ \/ \E h \in Headers, pin \in WholePins \cup {NoPin} : WartCheckpoint(h, pin)
     \/ \E window \in Windows, pin \in Pins \cup {NoPin} :
          WartBootstrap(window, pin) \/ WartHeaders(window, pin)
     \/ BootstrapRejected
     \/ \E claim \in Claims, bodyOk \in BOOLEAN : WartDepositClaim(claim, bodyOk)

Spec == Init /\ [][Next]_vars

-----------------------------------------------------------------------------
(* Properties.                                                             *)

(* The heights _trim always leaves, up to the tip.                         *)
TipWindow ==
  { n \in lc.checkpointHeight .. lc.bestHeight : n + MaxHeaders > lc.bestHeight }

(* Whatever was trimmed, refilled, adopted behind the tip or left behind   *)
(* by an input that was rejected half-way: the newest MaxHeaders headers   *)
(* are one chain without a gap that ends in the tip, the checkpoint is     *)
(* still stored, and nothing is outside the range from it to the tip.      *)
TipIsChain ==
  lc.bootstrapped =>
    /\ TipWindow \cup {lc.checkpointHeight} \subseteq DOMAIN lc.byHeight
    /\ DOMAIN lc.byHeight \subseteq lc.checkpointHeight .. lc.bestHeight
    /\ lc.byHeight[lc.checkpointHeight].hash = lc.checkpointHash
    /\ lc.byHeight[lc.bestHeight].hash = lc.bestHash
    /\ \A n \in TipWindow : n - 1 \in TipWindow =>
         lc.byHeight[n].prev = lc.byHeight[n - 1].hash

(* Without re-bootstrapping, the tip never goes back and the chain that    *)
(* ends in it is only extended: there is no reorganisation.                *)
HistoryIsFixed ==
  [][lc.bootstrapped =>
       /\ lc'.checkpointHash = lc.checkpointHash
       /\ lc'.bestHeight >= lc.bestHeight
       /\ \A n \in TipWindow \cap TipWindow' :
            lc'.byHeight[n].hash = lc.byHeight[n].hash]_vars

(* "Finality: confirmations vs tip, or height <= pinHeight with pinHash    *)
(* match": a block short of confirmations is accepted only under a pin     *)
(* that the client has recorded.                                           *)
FinalByRecordedPin ==
  [][\A claim \in Claims :
       WartDepositClaim(claim, TRUE) /\ status' = "accept"
       /\ ~Confirmed(lc', claim) =>
         lc'.pin # NoPin /\ claim.header.height <= lc'.pin.height]_vars

=============================================================================
