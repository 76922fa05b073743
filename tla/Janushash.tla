------------------------------- MODULE Janushash -------------------------------
(***************************************************************************)
(* The native verifier of block headers, janushash-check (main.cpp): the   *)
(* Verus hash, the key and the arithmetic of its keyed multiplication,     *)
(* SHA-256, and the verdict. The program runs them one after the other and *)
(* they share no state, only the values they pass on, which the parts      *)
(* leave open; so each is started here on its own, and part says which.    *)
(***************************************************************************)
EXTENDS VerusHasher, ClHash, Clmul, Sha256, JanusCheck

VARIABLE part

Parts == {"hasher", "key", "arithmetic", "sha", "verdict"}

vars == <<part, hasherVars, keyVars, acc, shaVars, judged>>

\* Only the part that is started chooses its message.
Init == /\ part \in Parts
        /\ HasherInit /\ KeyInit /\ ArithmeticInit /\ ShaInit /\ VerdictInit
        /\ part = "hasher" \/ writes = (CHOOSE w \in Chunkings : TRUE)
        /\ part = "sha" \/ updates = (CHOOSE u \in Writings : TRUE)

VerusHash == part = "hasher" /\ HasherNext /\ UNCHANGED <<part, keyVars, acc, shaVars, judged>>

KeyedLoop == part = "key" /\ KeyNext /\ UNCHANGED <<part, hasherVars, acc, shaVars, judged>>

LoopEnds  == /\ part = "arithmetic"
             /\ acc = [hi |-> {}, lo |-> {}]
             /\ Finish
             /\ UNCHANGED <<part, hasherVars, keyVars, shaVars, judged>>

HashSHA256 == part = "sha" /\ ShaNext /\ UNCHANGED <<part, hasherVars, keyVars, acc, judged>>

Verdict   == /\ part = "verdict"
             /\ judged = <<>>
             /\ Judge
             /\ UNCHANGED <<part, hasherVars, keyVars, acc, shaVars>>

Next == VerusHash \/ KeyedLoop \/ LoopEnds \/ HashSHA256 \/ Verdict

Spec == Init /\ [][Next]_vars
===============================================================================
