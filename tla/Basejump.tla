------------------------------ MODULE Basejump ------------------------------
(***************************************************************************)
(* Basejump: a source emitter sends the gross amount over the slow NTT     *)
(* rail and publishes, in the same transaction, an instant message for the *)
(* net amount, which a receiver on Hydration has the shared landing pay.   *)
(* The two rails run at their own pace, VAAs may be presented by anyone,   *)
(* in any order, again and again, and the owner reconfigures at any time.  *)
(***************************************************************************)
EXTENDS BasejumpLanding, Sequences, Functions

CONSTANTS
    Emitters,       \* source deployments the owner controls
    Stranger,       \* any other emitter on the Wormhole core
    EmittersOf,     \* receiver (a bridge of the landing) -> emitters of its corridor
    Here, Elsewhere,    \* the landing, and any other address
    SettlesAs,      \* source asset -> what its NTT rail mints on Hydration
    Amounts, Fees, InitialFee,
    OwnerMoves,     \* which setters this owner uses
    MaxMessages

ASSUME CorridorAssumption ==
    /\ Stranger \notin Emitters /\ Here # Elsewhere
    /\ EmittersOf \in [Bridges -> SUBSET Emitters]
    /\ \A r, s \in Bridges : r # s => EmittersOf[r] \cap EmittersOf[s] = {}
    /\ SettlesAs \in [SourceAssets -> DestAssets]
    /\ Amounts \subseteq Nat /\ Fees \subseteq Nat /\ InitialFee \in Fees
    /\ MaxMessages \in Nat /\ Refs = 1..MaxMessages

VARIABLES
    emitterLanding, nttManagerFor, assetFee,    \* per emitter
    messages,       \* what guardians attest to; a VAA is a position in it
    settlements,    \* gross amounts on the NTT rail
    receiverLanding, authorizedEmitter, processedVaas   \* per receiver

sourceVars == <<emitterLanding, nttManagerFor, assetFee, messages>>
receiverVars == <<receiverLanding, authorizedEmitter, processedVaas>>
vars == <<landingVars, sourceVars, settlements, receiverVars>>

Published == DOMAIN messages
Consumed == UNION {processedVaas[r] : r \in Bridges}

\* The corridors as a migration leaves them, not yet armed on the landing.
Init ==
    /\ LandingInit
    /\ emitterLanding = [e \in Emitters |-> Here]
    /\ nttManagerFor = [e \in Emitters |-> SourceAssets]
    /\ assetFee = [e \in Emitters |-> InitialFee]
    /\ messages = <<>>
    /\ settlements = {}
    /\ receiverLanding = [r \in Bridges |-> Here]
    /\ authorizedEmitter \in [Bridges -> Emitters]
    /\ \A r \in Bridges : authorizedEmitter[r] \in EmittersOf[r]
    /\ processedVaas = [r \in Bridges |-> {}]

-----------------------------------------------------------------------------
(* Operations.                                                              *)

PublishMessage(emitter, asset, gross, net) ==
    /\ Len(messages) < MaxMessages
    /\ messages' = Append(messages, [emitter |-> emitter, sourceAsset |-> asset,
                                     gross |-> gross, amount |-> net])

\* Mutant: the settlement carries what is left after the fee.
SettlementOfNet(e, gross) == gross - assetFee[e]

SettlementOf(e, gross) == gross

\* bridgeViaWormhole: `amount' is what arrived.  A paused rail or a rate limit
\* reverts the whole call, as does an amount within the fee.
BridgeViaWormhole(e, asset, amount) ==
    /\ amount > 0
    /\ emitterLanding[e] # Unset
    /\ asset \in nttManagerFor[e]
    /\ amount > assetFee[e]
    /\ PublishMessage(e, asset, amount, amount - assetFee[e])
    /\ settlements' = settlements \cup
           {[of |-> Len(messages) + 1, sourceAsset |-> asset,
             amount |-> SettlementOf(e, amount), to |-> emitterLanding[e]]}
    /\ UNCHANGED <<landingVars, emitterLanding, nttManagerFor, assetFee, receiverVars>>

StrangerPublishes(asset, amount) ==
    /\ PublishMessage(Stranger, asset, 0, amount)
    /\ UNCHANGED <<landingVars, emitterLanding, nttManagerFor, assetFee, settlements,
                   receiverVars>>

\* The NTT rail mints the gross amount to the address it was sent to.
Settle(s) ==
    /\ settlements' = settlements \ {s}
    /\ IF s.to = Here THEN Replenish(SettlesAs[s.sourceAsset], s.amount)
       ELSE UNCHANGED landingVars
    /\ UNCHANGED <<sourceVars, receiverVars>>

\* Mutant: receiveMessage without its replay check.
AcceptsAgain(r, i) == messages[i].emitter = authorizedEmitter[r]

Accepts(r, i) ==
    /\ i \notin processedVaas[r]
    /\ messages[i].emitter = authorizedEmitter[r]

\* completeTransfer: a revert of the landing takes processedVaas back with it.
CompleteTransfer(r, i) ==
    /\ Accepts(r, i)
    /\ processedVaas' = [processedVaas EXCEPT ![r] = @ \cup {i}]
    /\ receiverLanding[r] = Here
    /\ Transfer(r, messages[i].sourceAsset, messages[i].amount, i)
    /\ UNCHANGED <<sourceVars, settlements, receiverLanding, authorizedEmitter>>

Fulfill ==
    /\ FulfillPending
    /\ UNCHANGED <<sourceVars, settlements, receiverVars>>

-----------------------------------------------------------------------------
(* The owners: the Safe on the source, the Technical Committee on Hydration. *)

SourceOwner ==
    /\ \/ /\ "landing" \in OwnerMoves
          /\ \E e \in Emitters, to \in {Here, Elsewhere, Unset} :
                 emitterLanding' = [emitterLanding EXCEPT ![e] = to]
          /\ UNCHANGED <<nttManagerFor, assetFee>>
       \/ /\ "route" \in OwnerMoves
          /\ \E e \in Emitters, S \in SUBSET SourceAssets :
                 nttManagerFor' = [nttManagerFor EXCEPT ![e] = S]
          /\ UNCHANGED <<emitterLanding, assetFee>>
       \/ /\ "fee" \in OwnerMoves
          /\ \E e \in Emitters, fee \in Fees : assetFee' = [assetFee EXCEPT ![e] = fee]
          /\ UNCHANGED <<emitterLanding, nttManagerFor>>
    /\ UNCHANGED <<landingVars, messages, settlements, receiverVars>>

\* setAuthorizedEmitter takes any address; this owner names emitters of the
\* receiver's own corridor (docs/basejump/spec.md, invariant 6).
ReceiverOwner ==
    /\ \/ /\ "receiver" \in OwnerMoves
          /\ \E r \in Bridges, to \in {Here, Unset} :
                 receiverLanding' = [receiverLanding EXCEPT ![r] = to]
          /\ UNCHANGED authorizedEmitter
       \/ /\ "emitter" \in OwnerMoves
          /\ \E r \in Bridges : \E e \in EmittersOf[r] :
                 authorizedEmitter' = [authorizedEmitter EXCEPT ![r] = e]
          /\ UNCHANGED receiverLanding
    /\ UNCHANGED <<landingVars, sourceVars, settlements, processedVaas>>

Arm(r) ==
    /\ SetAuthorizedBridge(r, TRUE)
    /\ UNCHANGED <<sourceVars, settlements, receiverVars>>

LandingOwner ==
    /\ \/ "disarm" \in OwnerMoves /\ \E r \in Bridges : SetAuthorizedBridge(r, FALSE)
       \/ /\ "asset" \in OwnerMoves
          /\ \E a \in SourceAssets, d \in DestAssets \cup {Unset} : SetDestAsset(a, d)
       \/ "withdraw" \in OwnerMoves /\ \E d \in DestAssets : Withdraw(d, 1)
    /\ UNCHANGED <<sourceVars, settlements, receiverVars>>

Next ==
    \/ \E e \in Emitters, a \in SourceAssets, n \in Amounts : BridgeViaWormhole(e, a, n)
    \/ \E a \in SourceAssets, n \in Amounts : StrangerPublishes(a, n)
    \/ \E s \in settlements : Settle(s)
    \/ \E r \in Bridges, i \in Published : CompleteTransfer(r, i)
    \/ Fulfill
    \/ \E r \in Bridges : Arm(r)
    \/ SourceOwner \/ ReceiverOwner \/ LandingOwner

Spec == Init /\ [][Next]_vars

-----------------------------------------------------------------------------
(* Properties.                                                              *)

\* Queue entries of message i.
QueuedAs(i) == {k \in pendingHead..(pendingTail - 1) : pendingTransfers[k].of = i}

LandingTypes ==
    /\ authorizedBridges \subseteq Bridges
    /\ destAssetFor \in [SourceAssets -> DestAssets \cup {Unset}]
    /\ pendingHead \in Nat /\ pendingTail \in Nat /\ pendingHead <= pendingTail
    /\ pendingTransfers \in [pendingHead..(pendingTail - 1) -> Pending]
    /\ pool \in [DestAssets -> Nat]
    /\ paid \in [Refs -> Nat]

CorridorTypes ==
    /\ emitterLanding \in [Emitters -> {Here, Elsewhere, Unset}]
    /\ nttManagerFor \in [Emitters -> SUBSET SourceAssets]
    /\ assetFee \in [Emitters -> Nat]
    /\ Len(messages) <= MaxMessages
    /\ messages \in Seq([emitter : Emitters \cup {Stranger}, sourceAsset : SourceAssets,
                         gross : Nat, amount : Nat])
    /\ settlements \subseteq [of : Published, sourceAsset : SourceAssets, amount : Nat,
                              to : {Here, Elsewhere}]
    /\ receiverLanding \in [Bridges -> {Here, Unset}]
    /\ authorizedEmitter \in [Bridges -> Emitters]
    /\ processedVaas \in [Bridges -> SUBSET Published]

\* Type invariant: the pool is never overdrawn, and the queue has an entry at
\* every position from its head to its tail and nowhere else.
TypeOK == LandingTypes /\ CorridorTypes

\* docs/basejump/spec.md, invariants 4-6: a consumed VAA was paid or waits in
\* the queue, once; an unconsumed one has moved nothing and stays redeemable;
\* only a corridor's own receiver consumes it.  Whatever the owners do.
DeliveredOnce ==
    /\ \A i \in Consumed : \/ paid[i] = 1 /\ QueuedAs(i) = {}
                           \/ paid[i] = 0 /\ \E k \in QueuedAs(i) : QueuedAs(i) = {k}
    /\ \A i \in Refs \ Consumed : paid[i] = 0 /\ QueuedAs(i) = {}
    /\ \A r \in Bridges : \A i \in processedVaas[r] : messages[i].emitter \in EmittersOf[r]

\* What settlement s brings the pool in asset d; what message i, if an emitter
\* of ours published it, is still to be paid of it, and left as a fee.
Arriving(s, d) == IF s.to = Here /\ SettlesAs[s.sourceAsset] = d THEN s.amount ELSE 0
Genuine(i, d) == /\ messages[i].emitter \in Emitters
                 /\ SettlesAs[messages[i].sourceAsset] = d
Due(i, d) == IF Genuine(i, d) /\ paid[i] = 0 THEN messages[i].amount ELSE 0
Fee(i, d) == IF Genuine(i, d) THEN messages[i].gross - messages[i].amount ELSE 0

OnRail(d) == SumFunction([s \in settlements |-> Arriving(s, d)])
Owed(d) == SumFunction([i \in Published |-> Due(i, d)])
FeesOf(d) == SumFunction([i \in Published |-> Fee(i, d)])

\* While the landing is bound to its emitters and the owner withdraws nothing:
\* the pool and the rail together hold exactly what was first funded, what is
\* still owed, queued or not yet presented, and the fees of every transfer.
PoolBalances ==
    \A d \in DestAssets : pool[d] + OnRail(d) = InitialPool[d] + Owed(d) + FeesOf(d)

\* What the queue's entry k is to be paid of asset d.
Waiting(k, d) ==
    IF destAssetFor[pendingTransfers[k].sourceAsset] = d THEN pendingTransfers[k].amount ELSE 0
Queued(d) == SumFunction([k \in DOMAIN pendingTransfers |-> Waiting(k, d)])

\* Under the same conditions the queue never waits for money nobody sent: pool
\* and rail cover all of it, in every asset, so once the rail is empty repeated
\* calls of fulfillPending can drain it up to the first undispatchable entry.
QueueCovered == \A d \in DestAssets : pool[d] + OnRail(d) >= Queued(d)
=============================================================================
