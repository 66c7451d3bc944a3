----------------------------- MODULE MCProducer -----------------------------
(***************************************************************************)
(* A single call and two batches that insert two keys in opposite orders,  *)
(* one of them with a key twice; the single call or one of the batches is  *)
(* outside a transaction.                                                  *)
(***************************************************************************)
EXTENDS Producer, TLC

CONSTANTS single, batch, rival, k, j

AllCalls == {single, batch, rival}
Batches == {batch, rival}
TwoOfThree == {{batch, rival}, {single, batch}}
MixedKeys == single :> <<k>> @@ batch :> <<k, j, j>> @@ rival :> <<j, k>>

=============================================================================
