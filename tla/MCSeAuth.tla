------------------------------ MODULE MCSeAuth ------------------------------
(***************************************************************************)
(* SeAuth on three slots (pairing, write key, data) whose 3 blocks hold   *)
(* "a" or "b", with one right and one wrong secret and write key.          *)
(***************************************************************************)
EXTENDS SeAuth, TLC

MCBlock(x, y, z) == [b \in Blk |-> IF b = 0 THEN x ELSE IF b = 1 THEN y ELSE z]

\* The pairing secret, the write key and the data slot's contents
MCPair == MCBlock("a", "a", "a")
MCWriteKey == MCBlock("b", "a", "a")
MCPin == MCBlock("a", "b", "a")

MCSlotInit == (1 :> MCPair) @@ (2 :> MCWriteKey) @@ (3 :> MCPin)

\* A write of "b" into every block, and a secret that matches nothing
MCDatas == {[b \in 0..3 |-> "b"]}
MCSecrets == {MCPin, MCBlock("b", "b", "b")}
MCWriteKeys == {MCWriteKey, MCBlock("a", "b", "b")}
=============================================================================
