----------------------------- MODULE RollupLoop -----------------------------
(***************************************************************************)
(* The loop of main in src/src/index.js, around the handlers of EthVaults  *)
(* and of Inventory.  The handlers of the other components run in it in    *)
(* the same way.  EthVaults and Inventory share no state, so the inputs of *)
(* a behaviour are those of one of them.                                   *)
(*                                                                         *)
(* The process posts "finish" with the status of the last input.  The      *)
(* rollup server takes that as the answer to the input it waits on, if it  *)
(* waits on one, and responds with the next input, with a code other than  *)
(* 200 when it has none or fails, or not at all.  It may fail after it     *)
(* took the answer and moved on to the next input, which the process then  *)
(* never sees.  The process repeats the post after a code other than 200,  *)
(* and exits on anything it did not expect: no response, or an exception   *)
(* out of a handler.  Its state is in memory and gone with it.             *)
(***************************************************************************)
EXTENDS Integers, FiniteSets

CONSTANTS
  Owners, NoOwner, EthVaultAddresses, LockAmounts, MaxLockedWei,
                    (* As in EthVaults.                                    *)
  Addresses, Registrants, SubAddresses, Indexes, Registrations, NoAddress,
  Tokens, DepositAmounts, WithdrawAmounts, MaxDeposited
                    (* As in Inventory.                                    *)

VARIABLES
  serves,     (* Whose inputs come: "vaults" or "inventory"; never changes.*)
  ethVaultByAddress, ethVaultReleaseState, ethLockedMinted, ethLockedBurned,
  l1WethClaim, wethPortable,  (* As in EthVaults.                          *)
  dAppAddress, ethSubByAddress, ethSubsByOwner, balance, onL1, deposited,
  withdrawn, raised,          (* As in Inventory.                          *)
  phase,      (* Where the process is: "finish", "wait", "handle" or "end".*)
  status,     (* The status main will post.                                *)
  returned,   (* What the last handler returned.                           *)
  pending,    (* External: the input the server waits on, if any: its kind,*)
              (*   or Unseen when it did not reach the process.            *)
  handled     (* History: how often the pending input was handled; 0 if    *)
              (*   there is none.                                          *)

V == INSTANCE EthVaults WITH status <- returned
I == INSTANCE Inventory WITH status <- returned

ASSUME VaultsAssumption    == V!Parameters
ASSUME InventoryAssumption == I!Parameters

vaultState     == <<ethVaultByAddress, ethVaultReleaseState, ethLockedMinted,
                    ethLockedBurned, l1WethClaim, wethPortable>>
inventoryState == <<dAppAddress, ethSubByAddress, ethSubsByOwner, balance,
                    onL1, deposited, withdrawn, raised>>
vars == <<serves, phase, status, returned, vaultState, inventoryState,
          pending, handled>>

Kinds   == {"advance", "inspect"}
Nothing == "nothing"
Unseen  == "unseen"

TypeOK ==
  /\ V!TypeOK /\ I!TypeOK
  /\ serves \in {"vaults", "inventory"}
  /\ phase \in {"finish", "wait", "handle", "end"}
  /\ status \in {"accept", "reject"}
  /\ pending \in Kinds \cup {Nothing, Unseen}
  /\ handled \in {0, 1}

Init ==
  /\ V!Init /\ I!Init
  /\ serves \in {"vaults", "inventory"}
  /\ phase = "finish" /\ status = "accept"
  /\ pending = Nothing /\ handled = 0

-----------------------------------------------------------------------------
(* Posting finish.                                                         *)

(* Code 200 and the next input: the server has taken the posted status as  *)
(* the answer to the input it waited on.                                   *)
FinishNext(kind) ==
  /\ phase = "finish"
  /\ pending' = kind /\ handled' = 0
  /\ phase' = "handle"
  /\ UNCHANGED <<serves, status, returned, vaultState, inventoryState>>

(* The server took the posted status as the answer without the process     *)
(* learning of it: it has no input yet, or moved on to one.                *)
Taken == pending' \in {Nothing, Unseen} /\ handled' = 0

(* What the server may have done by a response without code 200.           *)
MaybeTaken == Taken \/ UNCHANGED <<pending, handled>>

(* Another code: the server has no input yet, or it failed, before or      *)
(* after it took the answer.                                               *)
FinishElse ==
  /\ phase = "finish"
  /\ MaybeTaken
  /\ phase' = "wait"
  /\ UNCHANGED <<serves, status, returned, vaultState, inventoryState>>

(* No response, or none that can be read: fetch or json throws.            *)
FinishLost ==
  /\ phase = "finish"
  /\ MaybeTaken
  /\ phase' = "end"
  /\ UNCHANGED <<serves, status, returned, vaultState, inventoryState>>

(* Mutant: the timer resolves nothing.                                     *)
WaitOverNever ==
  /\ phase = "wait"
  /\ UNCHANGED vars

(* The timer after a code other than 200.                                  *)
WaitOver ==
  /\ phase = "wait"
  /\ phase' = "finish"
  /\ UNCHANGED <<serves, status, returned, vaultState, inventoryState,
                 pending, handled>>

-----------------------------------------------------------------------------
(* Handling an input.                                                      *)

(* Mutant: the loop does not await the handler.                            *)
StatusBefore == status

(* What main keeps of a handler's result.                                  *)
StatusAfter == returned'

Handled ==
  /\ status' = StatusAfter
  /\ phase' = "finish"
  /\ handled' = handled + 1
  /\ UNCHANGED <<serves, pending>>

HandleAdvance ==
  /\ phase = "handle" /\ pending = "advance"
  /\ \/ serves = "vaults" /\ V!Next /\ UNCHANGED inventoryState
     \/ serves = "inventory" /\ I!Next /\ UNCHANGED vaultState
  /\ Handled

(* Inspects change nothing here, and handleInspect accepts.                *)
HandleInspect ==
  /\ phase = "handle" /\ pending = "inspect"
  /\ returned' = "accept"
  /\ UNCHANGED <<vaultState, inventoryState>>
  /\ Handled

(* An exception out of a handler, after which main's catch exits.          *)
HandlerThrows ==
  /\ phase = "handle"
  /\ phase' = "end"
  /\ UNCHANGED <<serves, status, returned, vaultState, inventoryState,
                 pending, handled>>

Next ==
  \/ \E kind \in Kinds : FinishNext(kind)
  \/ FinishElse \/ FinishLost
  \/ WaitOver
  \/ HandleAdvance \/ HandleInspect \/ HandlerThrows

(* A finish that reaches the server, whatever it responds.                 *)
FinishTaken ==
  \/ \E kind \in Kinds : FinishNext(kind)
  \/ FinishElse /\ Taken

(* What node runs on its own: the timer fires and handlers come to an end. *)
Process == WaitOver \/ HandleAdvance \/ HandleInspect

(* A server that fails does so a finite number of times in a row.          *)
Fairness == WF_vars(Process) /\ SF_vars(FinishTaken)

Spec == Init /\ [][Next]_vars /\ Fairness

-----------------------------------------------------------------------------
(* Properties.                                                             *)

(* See EthVaults.                                                          *)
WethCovered    == V!WethCovered
LockBooksAgree == V!LockBooksAgree

(* See Inventory.                                                          *)
InventoryBacked == I!InventoryBacked
BoundIsListed   == I!BoundIsListed

(* A status the server takes as the answer to an input that reached the    *)
(* process is the result of the one time it was handled, though the        *)
(* process posts a status again after a failure without knowing whether it *)
(* was taken, and posts one before any input.  (An input that was lost in  *)
(* a failed response is answered by such a post with the result of the one *)
(* before.)                                                                *)
AnswersAreOwn ==
  [][phase = "finish" /\ pending \in Kinds /\ handled' = 0
     => status = returned /\ handled = 1]_vars

(* Every input that reaches the process is handled, and the server takes   *)
(* its answer, unless the process ends first.                              *)
InputsAnswered ==
  /\ (pending \in Kinds /\ handled = 0) ~> (handled = 1 \/ phase = "end")
  /\ (handled = 1) ~> (handled = 0 \/ phase = "end")

=============================================================================
