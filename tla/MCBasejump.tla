----------------------------- MODULE MCBasejump -----------------------------
(* Instances of Basejump for TLC: two assets of one pool, one or two         *)
(* corridors, a pool too small for the payouts it is asked for.              *)
EXTENDS Basejump, TLC

CONSTANTS usdc, usdt, asset21, asset10, emitter1, emitter2, receiver1, receiver2

MCSettlesAs == [a \in SourceAssets |-> IF a = usdc THEN asset21 ELSE asset10]
MCInitialAssets == MCSettlesAs
OneCorridor == (receiver1 :> {emitter1, emitter2})
TwoCorridors == (receiver1 :> {emitter1}) @@ (receiver2 :> {emitter2})
MCEmptyPool == [d \in DestAssets |-> 0]
MCPool == [d \in DestAssets |-> IF d = asset21 THEN 1 ELSE 0]
MCRefs == 1..MaxMessages
=============================================================================
