------------------------------- MODULE MCUtxo -------------------------------
(* Instances of UtxoRelayer for TLC. *)
EXTENDS UtxoRelayer

CONSTANTS a1, a2, c1, c2

(* One coin that pays a single settlement exactly, one with room for change. *)
MCCoins == c1 :> 2 @@ c2 :> 5
MCConfig == [min |-> 3, feeMin |-> 1, feeRate |-> 1, minChange |-> 2,
             changeAddress |-> TRUE]
MCConfigs == {MCConfig, [MCConfig EXCEPT !.min = 4, !.feeMin = 2]}
MCRequests == <<{<<a1, a1>>}, {<<a1, a1>>, <<a2, a2>>, <<a2, a1>>}>>
(* The first account has every combination of records. *)
FirstFundsLeave == FundsLeave(a1)
=============================================================================
