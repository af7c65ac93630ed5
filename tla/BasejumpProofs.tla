--------------------------- MODULE BasejumpProofs ---------------------------
(***************************************************************************)
(* Theorems about Basejump, for every set of emitters, receivers, assets   *)
(* and amounts and whatever the owners reconfigure.  DeliveredOnce is      *)
(* inductive together with the type invariant, the queue's entries being   *)
(* those of consumed messages and each receiver consuming only its own.    *)
(***************************************************************************)
EXTENDS Basejump, SumLemmas

\* A receiver is only ever pointed at its own corridor's emitters.
Wired == \A r \in Bridges : authorizedEmitter[r] \in EmittersOf[r]

IInv == TypeOK /\ Wired /\ DeliveredOnce

-----------------------------------------------------------------------------
(* The landing on its own.                                                  *)

LEMMA LandingStart == LandingInit => LandingTypes
<1> SUFFICES ASSUME LandingInit PROVE LandingTypes
  OBVIOUS
<1>1. pendingTransfers \in [pendingHead..(pendingTail - 1) -> Pending]
  <2>1. pendingHead..(pendingTail - 1) = {}
    BY DEF LandingInit
  <2> QED BY <2>1 DEF LandingInit
<1> QED BY <1>1, LandingAssumption DEF LandingInit, LandingTypes

\* What the landing does when a bridge has it pay message i: pay, or queue.
LEMMA Transferred ==
    ASSUME LandingTypes, NEW b \in Bridges, NEW a \in SourceAssets, NEW n \in Nat,
           NEW i \in Refs, Transfer(b, a, n, i)
    PROVE /\ LandingTypes'
          /\ \A j \in Refs \ {i} : paid'[j] = paid[j] /\ QueuedAs(j)' = QueuedAs(j)
          /\ \/ paid'[i] = paid[i] + 1 /\ QueuedAs(i)' = QueuedAs(i)
             \/ paid'[i] = paid[i] /\ QueuedAs(i)' = QueuedAs(i) \cup {pendingTail}
<1> DEFINE asset == destAssetFor[a]
<1>1. asset \in DestAssets
  BY DEF Transfer, LandingTypes
<1>2. CASE Suffices(asset, n) /\ ExecuteTransfer(asset, n, i) /\ UNCHANGED queueVars
  <2>1. pool' \in [DestAssets -> Nat] /\ paid' \in [Refs -> Nat]
        /\ paid'[i] = paid[i] + 1 /\ (\A j \in Refs \ {i} : paid'[j] = paid[j])
    BY <1>1, <1>2 DEF Suffices, ExecuteTransfer, LandingTypes
  <2>2. LandingTypes'
    BY <1>2, <2>1 DEF LandingTypes, queueVars, Transfer, configVars
  <2> QED BY <1>2, <2>1, <2>2 DEF queueVars, QueuedAs
<1>3. CASE /\ ~Suffices(asset, n)
           /\ pendingTransfers' =
                  [k \in DOMAIN pendingTransfers \cup {pendingTail} |->
                       IF k = pendingTail
                       THEN [sourceAsset |-> a, amount |-> n, of |-> i]
                       ELSE pendingTransfers[k]]
           /\ pendingTail' = pendingTail + 1
           /\ UNCHANGED <<pendingHead, pool, paid>>
  <2> DEFINE entry == [sourceAsset |-> a, amount |-> n, of |-> i]
             old == pendingHead..(pendingTail - 1)
  <2>1. entry \in Pending /\ entry.of = i
    BY DEF Pending
  <2>2. pendingHead..(pendingTail' - 1) = old \cup {pendingTail} /\ pendingTail \notin old
    BY <1>3 DEF LandingTypes
  <2>3. /\ pendingTransfers' \in [old \cup {pendingTail} -> Pending]
        /\ pendingTransfers'[pendingTail] = entry
        /\ \A k \in old : pendingTransfers'[k] = pendingTransfers[k]
    BY <1>3, <2>1, <2>2 DEF LandingTypes
  <2>4. LandingTypes'
    BY <1>3, <2>2, <2>3 DEF LandingTypes, Transfer, configVars
  <2>5. /\ QueuedAs(i)' = QueuedAs(i) \cup {pendingTail}
        /\ \A j \in Refs \ {i} : QueuedAs(j)' = QueuedAs(j)
    BY <1>3, <2>1, <2>2, <2>3 DEF QueuedAs
  <2> QED BY <1>3, <2>4, <2>5
<1> QED BY <1>2, <1>3 DEF Transfer

\* The head of the queue is paid and leaves it; every other entry stays.
LEMMA Fulfilled ==
    ASSUME LandingTypes, FulfillPending
    PROVE /\ LandingTypes'
          /\ \E i \in Refs :
                 /\ pendingHead \in QueuedAs(i) /\ QueuedAs(i)' = QueuedAs(i) \ {pendingHead}
                 /\ paid'[i] = paid[i] + 1
                 /\ \A j \in Refs \ {i} : paid'[j] = paid[j] /\ QueuedAs(j)' = QueuedAs(j)
<1> DEFINE old == pendingHead..(pendingTail - 1)
           pt == pendingTransfers[pendingHead]
           asset == destAssetFor[pt.sourceAsset]
           i == pt.of
<1>1. pendingHead \in old /\ pt \in Pending
  BY DEF FulfillPending, LandingTypes
<1>2. asset \in DestAssets /\ i \in Refs /\ pt.amount \in Nat
  BY <1>1 DEF FulfillPending, LandingTypes, Pending
<1>3. pool' \in [DestAssets -> Nat] /\ paid' \in [Refs -> Nat]
      /\ paid'[i] = paid[i] + 1 /\ (\A j \in Refs \ {i} : paid'[j] = paid[j])
  BY <1>2 DEF FulfillPending, Suffices, ExecuteTransfer, LandingTypes
<1>4. pendingHead' = pendingHead + 1 /\ pendingTail' = pendingTail
  BY DEF FulfillPending, Dequeue
<1>5. pendingHead'..(pendingTail' - 1) = old \ {pendingHead}
  BY <1>4 DEF LandingTypes
<1>6. /\ pendingTransfers' \in [old \ {pendingHead} -> Pending]
      /\ \A k \in old \ {pendingHead} : pendingTransfers'[k] = pendingTransfers[k]
  <2>1. DOMAIN pendingTransfers = old
    BY DEF LandingTypes
  <2>2. pendingTransfers' = [k \in old \ {pendingHead} |-> pendingTransfers[k]]
    BY <2>1 DEF FulfillPending, Dequeue
  <2> QED BY <2>2 DEF LandingTypes
<1>7. LandingTypes'
  <2>1. pendingHead' \in Nat /\ pendingTail' \in Nat /\ pendingHead' <= pendingTail'
    BY <1>4 DEF FulfillPending, LandingTypes
  <2> QED BY <1>3, <1>5, <1>6, <2>1 DEF LandingTypes, FulfillPending, configVars
<1>8. \A j \in Refs : QueuedAs(j)' = QueuedAs(j) \ {pendingHead}
  BY <1>5, <1>6 DEF QueuedAs
<1>9. PICK n \in Refs : n = i
  BY <1>2
<1>10. pendingHead \in QueuedAs(n) /\ \A j \in Refs \ {n} : pendingHead \notin QueuedAs(j)
  BY <1>1, <1>9 DEF QueuedAs
<1>11. paid'[n] = paid[n] + 1 /\ \A j \in Refs \ {n} : paid'[j] = paid[j]
  BY <1>3, <1>9
<1> HIDE DEF old, pt, asset, i
<1>12. QueuedAs(n)' = QueuedAs(n) \ {pendingHead}
  BY <1>8
<1>13. \A j \in Refs \ {n} : paid'[j] = paid[j] /\ QueuedAs(j)' = QueuedAs(j)
  BY <1>8, <1>10, <1>11
<1> QED BY <1>7, <1>10, <1>11, <1>12, <1>13

\* Steps of the landing that pay nothing and queue nothing.
LEMMA LandingQuiet ==
    ASSUME LandingTypes,
           \/ \E r \in Bridges, on \in BOOLEAN : SetAuthorizedBridge(r, on)
           \/ \E a \in SourceAssets, d \in DestAssets \cup {Unset} : SetDestAsset(a, d)
           \/ \E d \in DestAssets, n \in Nat : Withdraw(d, n)
           \/ \E d \in DestAssets, n \in Nat : Replenish(d, n)
           \/ UNCHANGED landingVars
    PROVE LandingTypes' /\ UNCHANGED <<paid, queueVars>>
<1>1. UNCHANGED <<paid, queueVars>>
  BY DEF SetAuthorizedBridge, SetDestAsset, Withdraw, Replenish, landingVars
<1>2. authorizedBridges' \subseteq Bridges
  BY DEF SetAuthorizedBridge, SetDestAsset, Withdraw, Replenish, landingVars, configVars,
         LandingTypes
<1>3. destAssetFor' \in [SourceAssets -> DestAssets \cup {Unset}]
  BY DEF SetAuthorizedBridge, SetDestAsset, Withdraw, Replenish, landingVars, configVars,
         LandingTypes
<1>4. pool' \in [DestAssets -> Nat]
  BY DEF SetAuthorizedBridge, SetDestAsset, Withdraw, Replenish, landingVars, configVars,
         LandingTypes
<1> QED BY <1>1, <1>2, <1>3, <1>4 DEF LandingTypes, queueVars

-----------------------------------------------------------------------------
(* The corridors.                                                           *)

LEMMA InitIInv == Init => IInv
<1> SUFFICES ASSUME Init PROVE IInv
  OBVIOUS
<1>1. LandingTypes
  BY LandingStart DEF Init
<1>2. Published = {} /\ Consumed = {}
  BY DEF Init, Published, Consumed
<1>3. CorridorTypes
  BY <1>2, CorridorAssumption DEF Init, CorridorTypes
<1>4. \A i \in Refs : paid[i] = 0 /\ QueuedAs(i) = {}
  BY DEF Init, LandingInit, QueuedAs
<1> QED BY <1>1, <1>2, <1>3, <1>4 DEF IInv, TypeOK, Wired, DeliveredOnce, Init

\* A step that leaves paid, the queue and what receivers consumed as they were,
\* and messages at most longer, keeps every delivery.
LEMMA DeliveriesKept ==
    ASSUME IInv, UNCHANGED <<paid, queueVars, processedVaas>>,
           \A i \in Published : messages'[i] = messages[i]
    PROVE DeliveredOnce'
<1>1. Consumed' = Consumed /\ \A i \in Refs : QueuedAs(i)' = QueuedAs(i)
  BY DEF Consumed, QueuedAs, queueVars
<1>2. Consumed \subseteq Refs
  BY CorridorAssumption DEF IInv, TypeOK, CorridorTypes, Consumed, Published
<1>3. \A r \in Bridges : \A i \in processedVaas[r] : messages'[i] = messages[i]
  BY DEF IInv, TypeOK, CorridorTypes
<1> QED BY <1>1, <1>2, <1>3 DEF IInv, DeliveredOnce

\* A message appended to the core's.
LEMMA Published1 ==
    ASSUME IInv, NEW e \in Emitters \cup {Stranger}, NEW a \in SourceAssets,
           NEW g \in Nat, NEW n \in Nat, PublishMessage(e, a, g, n)
    PROVE /\ Len(messages') <= MaxMessages /\ Published' = Published \cup {Len(messages) + 1}
          /\ messages' \in Seq([emitter : Emitters \cup {Stranger}, sourceAsset : SourceAssets,
                                gross : Nat, amount : Nat])
          /\ \A i \in Published : messages'[i] = messages[i]
<1> DEFINE m == [emitter |-> e, sourceAsset |-> a, gross |-> g, amount |-> n]
           T == [emitter : Emitters \cup {Stranger}, sourceAsset : SourceAssets,
                 gross : Nat, amount : Nat]
<1>1. m \in T /\ messages \in Seq(T) /\ messages' = Append(messages, m)
      /\ Len(messages) < MaxMessages
  BY DEF PublishMessage, IInv, TypeOK, CorridorTypes
<1> HIDE DEF m, T
<1>2. messages' \in Seq(T) /\ Len(messages') = Len(messages) + 1
      /\ Len(messages) \in Nat
      /\ (\A i \in 1..Len(messages) : messages'[i] = messages[i])
      /\ DOMAIN messages' = 1..(Len(messages) + 1) /\ DOMAIN messages = 1..Len(messages)
  BY <1>1
<1> QED BY <1>1, <1>2, CorridorAssumption DEF Published, T

LEMMA BridgeKeeps ==
    ASSUME IInv, NEW e \in Emitters, NEW a \in SourceAssets, NEW n \in Amounts,
           BridgeViaWormhole(e, a, n)
    PROVE IInv'
<1> DEFINE s == [of |-> Len(messages) + 1, sourceAsset |-> a,
                 amount |-> SettlementOf(e, n), to |-> emitterLanding[e]]
<1>1. n \in Nat /\ n - assetFee[e] \in Nat /\ PublishMessage(e, a, n, n - assetFee[e])
  BY CorridorAssumption DEF BridgeViaWormhole, IInv, TypeOK, CorridorTypes
<1>2. PICK net \in Nat : net = n - assetFee[e]
  BY <1>1
<1>3. PublishMessage(e, a, n, net)
  BY <1>1, <1>2
<1>4. /\ Len(messages') <= MaxMessages /\ Published' = Published \cup {Len(messages) + 1}
      /\ messages' \in Seq([emitter : Emitters \cup {Stranger}, sourceAsset : SourceAssets,
                            gross : Nat, amount : Nat])
      /\ \A i \in Published : messages'[i] = messages[i]
  BY <1>1, <1>3, Published1
<1>5. settlements' = settlements \cup {s} /\ s.to \in {Here, Elsewhere} /\ s.amount = n
  BY DEF BridgeViaWormhole, IInv, TypeOK, CorridorTypes, SettlementOf
<1>6. settlements' \subseteq [of : Published', sourceAsset : SourceAssets, amount : Nat,
                              to : {Here, Elsewhere}]
  BY <1>1, <1>4, <1>5 DEF IInv, TypeOK, CorridorTypes
<1>7. UNCHANGED <<landingVars, emitterLanding, nttManagerFor, assetFee, receiverVars>>
  BY DEF BridgeViaWormhole
<1>8. CorridorTypes'
  BY <1>4, <1>6, <1>7 DEF IInv, TypeOK, CorridorTypes, receiverVars
<1>9. LandingTypes' /\ UNCHANGED <<paid, queueVars, processedVaas, authorizedEmitter>>
  BY <1>7, LandingQuiet DEF IInv, TypeOK, receiverVars
<1> QED BY <1>4, <1>8, <1>9, DeliveriesKept DEF IInv, TypeOK, Wired

LEMMA StrangerKeeps ==
    ASSUME IInv, NEW a \in SourceAssets, NEW n \in Amounts, StrangerPublishes(a, n)
    PROVE IInv'
<1>1. n \in Nat /\ PublishMessage(Stranger, a, 0, n)
  BY CorridorAssumption DEF StrangerPublishes
<1>2. /\ Len(messages') <= MaxMessages /\ Published' = Published \cup {Len(messages) + 1}
      /\ messages' \in Seq([emitter : Emitters \cup {Stranger}, sourceAsset : SourceAssets,
                            gross : Nat, amount : Nat])
      /\ \A i \in Published : messages'[i] = messages[i]
  BY <1>1, Published1
<1>3. UNCHANGED <<landingVars, emitterLanding, nttManagerFor, assetFee, settlements,
                  receiverVars>>
  BY DEF StrangerPublishes
<1>4. CorridorTypes'
  BY <1>2, <1>3 DEF IInv, TypeOK, CorridorTypes, receiverVars
<1>5. LandingTypes' /\ UNCHANGED <<paid, queueVars, processedVaas, authorizedEmitter>>
  BY <1>3, LandingQuiet DEF IInv, TypeOK, receiverVars
<1> QED BY <1>2, <1>4, <1>5, DeliveriesKept DEF IInv, TypeOK, Wired

LEMMA SettleKeeps ==
    ASSUME IInv, NEW s \in settlements, Settle(s)
    PROVE IInv'
<1>1. SettlesAs[s.sourceAsset] \in DestAssets /\ s.amount \in Nat
  BY CorridorAssumption DEF IInv, TypeOK, CorridorTypes
<1>2. LandingTypes' /\ UNCHANGED <<paid, queueVars>>
  BY <1>1, LandingQuiet DEF Settle, IInv, TypeOK
<1>3. UNCHANGED <<sourceVars, receiverVars>> /\ settlements' \subseteq settlements
  BY DEF Settle
<1>4. CorridorTypes'
  BY <1>3 DEF IInv, TypeOK, CorridorTypes, sourceVars, receiverVars, Published
<1> QED BY <1>2, <1>3, <1>4, DeliveriesKept
        DEF IInv, TypeOK, Wired, sourceVars, receiverVars

LEMMA CompleteKeeps ==
    ASSUME IInv, NEW r \in Bridges, NEW i \in Published, CompleteTransfer(r, i)
    PROVE IInv'
<1> DEFINE m == messages[i]
<1>1. /\ i \in Refs /\ m.sourceAsset \in SourceAssets /\ m.amount \in Nat
      /\ Published \subseteq Refs
  <2> DEFINE T == [emitter : Emitters \cup {Stranger}, sourceAsset : SourceAssets,
                   gross : Nat, amount : Nat]
  <2>1. messages \in Seq(T) /\ Len(messages) <= MaxMessages
    BY DEF IInv, TypeOK, CorridorTypes
  <2> HIDE DEF T
  <2>2. Published = 1..Len(messages) /\ m \in T
    BY <2>1 DEF Published
  <2>3. Published \subseteq Refs
    BY <2>1, <2>2, CorridorAssumption
  <2> QED BY <2>2, <2>3 DEF T
<1>2. /\ m.emitter \in EmittersOf[r] /\ i \notin processedVaas[r]
      /\ processedVaas' = [processedVaas EXCEPT ![r] = @ \cup {i}]
      /\ UNCHANGED <<sourceVars, settlements, receiverLanding, authorizedEmitter>>
  BY DEF CompleteTransfer, Accepts, IInv, Wired
<1>3. PICK a \in SourceAssets, n \in Nat : a = m.sourceAsset /\ n = m.amount
  BY <1>1
<1>4. Transfer(r, a, n, i)
  BY <1>3 DEF CompleteTransfer
<1>5. /\ LandingTypes'
      /\ \A j \in Refs \ {i} : paid'[j] = paid[j] /\ QueuedAs(j)' = QueuedAs(j)
      /\ \/ paid'[i] = paid[i] + 1 /\ QueuedAs(i)' = QueuedAs(i)
         \/ paid'[i] = paid[i] /\ QueuedAs(i)' = QueuedAs(i) \cup {pendingTail}
  BY <1>1, <1>4, Transferred DEF IInv, TypeOK
<1>6. i \notin Consumed
  <2> SUFFICES ASSUME NEW q \in Bridges, i \in processedVaas[q] PROVE FALSE
    BY DEF Consumed
  <2>1. m.emitter \in EmittersOf[q]
    BY DEF IInv, DeliveredOnce
  <2>2. q = r
    BY <1>2, <2>1, CorridorAssumption
  <2> QED BY <1>2, <2>2
<1>7. processedVaas' \in [Bridges -> SUBSET Published]
      /\ (\A q \in Bridges : processedVaas'[q] =
             IF q = r THEN processedVaas[q] \cup {i} ELSE processedVaas[q])
  BY <1>2 DEF IInv, TypeOK, CorridorTypes
<1>8. Consumed' = Consumed \cup {i}
  BY <1>7 DEF Consumed
<1>9. CorridorTypes'
  BY <1>2, <1>7 DEF IInv, TypeOK, CorridorTypes, sourceVars, Published
<1>10. Consumed \subseteq Refs
  BY <1>1 DEF Consumed, IInv, TypeOK, CorridorTypes
<1>11. DeliveredOnce'
  <2>1. \A j \in Consumed : \/ paid'[j] = 1 /\ QueuedAs(j)' = {}
                            \/ paid'[j] = 0 /\ \E k \in QueuedAs(j)' : QueuedAs(j)' = {k}
    BY <1>5, <1>6, <1>10 DEF IInv, DeliveredOnce
  <2>2. \/ paid'[i] = 1 /\ QueuedAs(i)' = {}
        \/ paid'[i] = 0 /\ \E k \in QueuedAs(i)' : QueuedAs(i)' = {k}
    BY <1>1, <1>5, <1>6 DEF IInv, DeliveredOnce
  <2>3. \A j \in Refs \ Consumed' : paid'[j] = 0 /\ QueuedAs(j)' = {}
    BY <1>5, <1>8 DEF IInv, DeliveredOnce
  <2>4. \A q \in Bridges : \A j \in processedVaas'[q] : messages'[j].emitter \in EmittersOf[q]
    BY <1>2, <1>7 DEF IInv, DeliveredOnce, sourceVars
  <2> QED BY <1>8, <2>1, <2>2, <2>3, <2>4 DEF DeliveredOnce
<1> QED BY <1>2, <1>5, <1>9, <1>11 DEF IInv, TypeOK, Wired

LEMMA FulfillKeeps ==
    ASSUME IInv, Fulfill
    PROVE IInv'
<1>1. UNCHANGED <<sourceVars, settlements, receiverVars>>
  BY DEF Fulfill
<1>2. LandingTypes'
  BY Fulfilled DEF Fulfill, IInv, TypeOK
<1>3. PICK i \in Refs :
          /\ pendingHead \in QueuedAs(i) /\ QueuedAs(i)' = QueuedAs(i) \ {pendingHead}
          /\ paid'[i] = paid[i] + 1
          /\ \A j \in Refs \ {i} : paid'[j] = paid[j] /\ QueuedAs(j)' = QueuedAs(j)
  BY Fulfilled DEF Fulfill, IInv, TypeOK
<1>4. i \in Consumed /\ paid[i] = 0 /\ QueuedAs(i) = {pendingHead}
  BY <1>3 DEF IInv, DeliveredOnce
<1>5. Consumed' = Consumed /\ Consumed \subseteq Refs
  BY <1>1, CorridorAssumption
     DEF Consumed, receiverVars, IInv, TypeOK, CorridorTypes, Published
<1>6. DeliveredOnce'
  <2>1. paid'[i] = 1 /\ QueuedAs(i)' = {}
    BY <1>3, <1>4
  <2> QED BY <1>1, <1>3, <1>4, <1>5, <2>1 DEF IInv, DeliveredOnce, sourceVars, receiverVars
<1>7. CorridorTypes'
  BY <1>1 DEF IInv, TypeOK, CorridorTypes, sourceVars, receiverVars, Published
<1> QED BY <1>1, <1>2, <1>6, <1>7 DEF IInv, TypeOK, Wired, receiverVars

LEMMA OwnersKeep ==
    ASSUME IInv,
           \/ \E r \in Bridges : Arm(r)
           \/ SourceOwner \/ ReceiverOwner \/ LandingOwner
           \/ UNCHANGED vars
    PROVE IInv'
<1>1. LandingTypes' /\ UNCHANGED <<paid, queueVars>>
  <2>1. CASE \/ \E r \in Bridges, on \in BOOLEAN : SetAuthorizedBridge(r, on)
             \/ \E a \in SourceAssets, d \in DestAssets \cup {Unset} : SetDestAsset(a, d)
             \/ \E d \in DestAssets, n \in Nat : Withdraw(d, n)
             \/ \E d \in DestAssets, n \in Nat : Replenish(d, n)
             \/ UNCHANGED landingVars
    BY <2>1, LandingQuiet DEF IInv, TypeOK
  <2> QED BY <2>1 DEF Arm, SourceOwner, ReceiverOwner, LandingOwner, vars
<1>2. UNCHANGED <<messages, settlements, processedVaas>>
  BY DEF Arm, SourceOwner, ReceiverOwner, LandingOwner, vars, sourceVars, receiverVars
<1>3. /\ emitterLanding' \in [Emitters -> {Here, Elsewhere, Unset}]
      /\ nttManagerFor' \in [Emitters -> SUBSET SourceAssets]
      /\ assetFee' \in [Emitters -> Nat]
  <2> USE DEF IInv, TypeOK, CorridorTypes
  <2>1. CASE UNCHANGED <<emitterLanding, nttManagerFor, assetFee>>
    BY <2>1
  <2>2. CASE SourceOwner
    <3>1. Fees \subseteq Nat
      BY CorridorAssumption
    <3>2. emitterLanding' \in [Emitters -> {Here, Elsewhere, Unset}]
      BY <2>2 DEF SourceOwner
    <3>3. nttManagerFor' \in [Emitters -> SUBSET SourceAssets]
      BY <2>2 DEF SourceOwner
    <3>4. assetFee' \in [Emitters -> Nat]
      BY <2>2, <3>1 DEF SourceOwner
    <3> QED BY <3>2, <3>3, <3>4
  <2> QED BY <2>1, <2>2 DEF Arm, ReceiverOwner, LandingOwner, vars, sourceVars
<1>4. /\ receiverLanding' \in [Bridges -> {Here, Unset}]
      /\ authorizedEmitter' \in [Bridges -> Emitters] /\ Wired'
  <2> USE DEF IInv, TypeOK, CorridorTypes, Wired
  <2>1. CASE UNCHANGED <<receiverLanding, authorizedEmitter>>
    BY <2>1
  <2>2. CASE ReceiverOwner
    <3>1. receiverLanding' \in [Bridges -> {Here, Unset}]
      BY <2>2 DEF ReceiverOwner
    <3>2. CASE UNCHANGED authorizedEmitter
      BY <3>1, <3>2
    <3>3. CASE \E r \in Bridges : \E e \in EmittersOf[r] :
                   authorizedEmitter' = [authorizedEmitter EXCEPT ![r] = e]
      <4>1. PICK r \in Bridges : \E e \in EmittersOf[r] :
                authorizedEmitter' = [authorizedEmitter EXCEPT ![r] = e]
        BY <3>3
      <4>2. PICK e \in EmittersOf[r] :
                authorizedEmitter' = [authorizedEmitter EXCEPT ![r] = e]
        BY <4>1
      <4>3. e \in Emitters
        BY CorridorAssumption
      <4> QED BY <3>1, <4>2, <4>3
    <3> QED BY <2>2, <3>2, <3>3 DEF ReceiverOwner
  <2> QED BY <2>1, <2>2 DEF Arm, SourceOwner, LandingOwner, vars, receiverVars
<1>5. CorridorTypes'
  BY <1>2, <1>3, <1>4 DEF IInv, TypeOK, CorridorTypes, Published
<1> QED BY <1>1, <1>2, <1>4, <1>5, DeliveriesKept DEF IInv, TypeOK

LEMMA Inductive == Spec => []IInv
<1>1. Init => IInv
  BY InitIInv
<1>2. IInv /\ [Next]_vars => IInv'
  BY BridgeKeeps, StrangerKeeps, SettleKeeps, CompleteKeeps, FulfillKeeps, OwnersKeep DEF Next
<1> QED BY <1>1, <1>2, PTL DEF Spec

-----------------------------------------------------------------------------
\* Type correctness: no sequence of payouts, fulfilments and withdrawals
\* overdraws the pool or leaves a hole in its queue.
THEOREM BasejumpTypes == Spec => []TypeOK
<1>1. IInv => TypeOK
  BY DEF IInv
<1> QED BY <1>1, Inductive, PTL

\* Whatever the owners reconfigure, a consumed VAA was paid once or waits in
\* the queue once, an unconsumed one has moved nothing, and a VAA is consumed
\* by the receiver of its own corridor only.
THEOREM DeliveredExactlyOnce == Spec => []DeliveredOnce
<1>1. IInv => DeliveredOnce
  BY DEF IInv
<1> QED BY <1>1, Inductive, PTL

-----------------------------------------------------------------------------
(* The pool's balance.                                                      *)

\* The landing is the one the emitters were deployed with, pays in what each
\* rail mints, and its owner leaves both and the pool alone.
Bound == /\ {"landing", "asset", "withdraw"} \cap OwnerMoves = {}
         /\ InitialAssets = SettlesAs

StaysBound == /\ destAssetFor = SettlesAs
              /\ \A e \in Emitters : emitterLanding[e] = Here

\* An entry of the queue is still what its message said.
QueueCarries ==
    \A i \in Refs : \A k \in QueuedAs(i) :
        /\ pendingTransfers[k].sourceAsset = messages[i].sourceAsset
        /\ pendingTransfers[k].amount = messages[i].amount

RailFn(d) == [s \in settlements |-> Arriving(s, d)]
DueFn(d) == [i \in Published |-> Due(i, d)]
FeeFn(d) == [i \in Published |-> Fee(i, d)]

Sound == IInv /\ IsFiniteSet(settlements) /\ StaysBound /\ QueueCarries

\* The terms of the balance.
Terms ==
    /\ IsFiniteSet(Published) /\ Published \subseteq Refs
    /\ \A s \in settlements : s.of \in Published
    /\ \A d \in DestAssets :
          /\ pool[d] \in Int /\ InitialPool[d] \in Int
          /\ \A s \in settlements : Arriving(s, d) \in Int
          /\ \A i \in Published : Due(i, d) \in Int /\ Fee(i, d) \in Int

LEMMA TermsAreInt == TypeOK => Terms
<1> SUFFICES ASSUME TypeOK PROVE Terms
  OBVIOUS
<1> DEFINE T == [emitter : Emitters \cup {Stranger}, sourceAsset : SourceAssets,
                 gross : Nat, amount : Nat]
<1>1. messages \in Seq(T) /\ Len(messages) <= MaxMessages
  BY DEF TypeOK, CorridorTypes
<1>2. \A i \in Published : messages[i].gross \in Nat /\ messages[i].amount \in Nat
  <2> SUFFICES ASSUME NEW i \in Published
               PROVE  messages[i].gross \in Nat /\ messages[i].amount \in Nat
    OBVIOUS
  <2>1. messages[i] \in T
    <3> HIDE DEF T
    <3> QED BY <1>1 DEF Published
  <2> QED BY <2>1
<1> HIDE DEF T
<1>3. Published = 1..Len(messages) /\ Len(messages) \in Nat
  BY <1>1 DEF Published
<1>4. IsFiniteSet(Published) /\ Published \subseteq Refs
  <2>1. MaxMessages \in Nat /\ Refs = 1..MaxMessages
    BY CorridorAssumption
  <2>2. Published \subseteq Refs
    BY <1>1, <1>3, <2>1
  <2> QED BY <1>3, <2>2, FS_Interval
<1>5. \A s \in settlements : s.of \in Published /\ s.amount \in Nat
  BY DEF TypeOK, CorridorTypes
<1>6. \A d \in DestAssets : pool[d] \in Int /\ InitialPool[d] \in Int
  BY LandingAssumption DEF TypeOK, LandingTypes
<1> QED BY <1>2, <1>4, <1>5, <1>6 DEF Terms, Arriving, Due, Fee

LEMMA TermsNext == TypeOK' => Terms'
  BY TermsAreInt, PTL

Balanced(d) == pool[d] + OnRail(d) = InitialPool[d] + Owed(d) + FeesOf(d)

LEMMA SumsAreInt ==
    ASSUME Sound, NEW d \in DestAssets
    PROVE  /\ pool[d] \in Int /\ InitialPool[d] \in Int
           /\ OnRail(d) \in Int /\ Owed(d) \in Int /\ FeesOf(d) \in Int
<1>1. TypeOK /\ IsFiniteSet(settlements)
  BY DEF Sound, IInv
<1>2. /\ \A s \in settlements : RailFn(d)[s] \in Int
      /\ \A i \in Published : DueFn(d)[i] \in Int /\ FeeFn(d)[i] \in Int
      /\ IsFiniteSet(Published) /\ pool[d] \in Int /\ InitialPool[d] \in Int
  BY <1>1, TermsAreInt DEF Terms, RailFn, DueFn, FeeFn
<1>3. SumFunctionOnSet(RailFn(d), settlements) \in Int
  BY <1>1, <1>2, SumInt
<1>4. SumFunctionOnSet(DueFn(d), Published) \in Int
  BY <1>2, SumInt
<1>5. SumFunctionOnSet(FeeFn(d), Published) \in Int
  BY <1>2, SumInt
<1>6. OnRail(d) = SumFunctionOnSet(RailFn(d), settlements)
  BY SumOnDomain DEF OnRail, RailFn
<1>7. Owed(d) = SumFunctionOnSet(DueFn(d), Published)
  BY SumOnDomain DEF Owed, DueFn
<1>8. FeesOf(d) = SumFunctionOnSet(FeeFn(d), Published)
  BY SumOnDomain DEF FeesOf, FeeFn
<1> QED BY <1>2, <1>3, <1>4, <1>5, <1>6, <1>7, <1>8

\* A new message is due in full, and its fee with it, if an emitter sent it.
LEMMA PublishSums ==
    ASSUME Sound, TypeOK', NEW e \in Emitters \cup {Stranger}, NEW a \in SourceAssets,
           NEW g \in Nat, NEW n \in Nat, PublishMessage(e, a, g, n), UNCHANGED paid,
           NEW d \in DestAssets
    PROVE  /\ Owed(d)' = Owed(d) + (IF e \in Emitters /\ SettlesAs[a] = d THEN n ELSE 0)
           /\ FeesOf(d)' = FeesOf(d) + (IF e \in Emitters /\ SettlesAs[a] = d THEN g - n ELSE 0)
<1> DEFINE m == [emitter |-> e, sourceAsset |-> a, gross |-> g, amount |-> n]
           T == [emitter : Emitters \cup {Stranger}, sourceAsset : SourceAssets,
                 gross : Nat, amount : Nat]
<1>1. Terms /\ Terms' /\ TypeOK /\ DeliveredOnce
  BY TermsAreInt, TermsNext DEF Sound, IInv
<1>2. PICK i \in Nat : i = Len(messages) + 1
  BY DEF Sound, IInv, TypeOK, CorridorTypes
<1>3. messages'[i] = m
  <2>1. messages \in Seq(T) /\ messages' = Append(messages, m) /\ m \in T
    BY <1>1 DEF TypeOK, CorridorTypes, PublishMessage
  <2> HIDE DEF m, T
  <2> QED BY <1>2, <2>1
<1>4. /\ Published' = Published \cup {i} /\ i \notin Published /\ i \in Refs
      /\ \A j \in Published : messages'[j] = messages[j]
  <2>1. Published' = Published \cup {i} /\ \A j \in Published : messages'[j] = messages[j]
    BY <1>2, Published1 DEF Sound
  <2>2. Published = 1..Len(messages) /\ Len(messages) \in Nat
    BY <1>1 DEF TypeOK, CorridorTypes, Published
  <2>3. Len(messages) < MaxMessages /\ Refs = 1..MaxMessages /\ MaxMessages \in Nat
    BY CorridorAssumption DEF PublishMessage
  <2> QED BY <1>2, <2>1, <2>2, <2>3
<1>5. paid'[i] = 0
  <2>1. i \notin Consumed
    BY <1>1, <1>4 DEF Consumed, TypeOK, CorridorTypes
  <2> QED BY <1>1, <1>4, <2>1 DEF DeliveredOnce
<1>6. /\ Due(i, d)' = (IF e \in Emitters /\ SettlesAs[a] = d THEN n ELSE 0)
      /\ Fee(i, d)' = (IF e \in Emitters /\ SettlesAs[a] = d THEN g - n ELSE 0)
  BY <1>3, <1>5 DEF Due, Fee, Genuine
<1>7. \A j \in Published : Due(j, d)' = Due(j, d) /\ Fee(j, d)' = Fee(j, d)
  BY <1>4 DEF Due, Fee, Genuine
<1> HIDE DEF m, T
<1>8. Owed(d)' = Owed(d) + Due(i, d)'
  <2>1. /\ DOMAIN DueFn(d) = Published /\ DOMAIN DueFn(d)' = Published \cup {i}
        /\ DueFn(d)'[i] = Due(i, d)' /\ Due(i, d)' \in Int
        /\ \A j \in Published : DueFn(d)[j] \in Int /\ DueFn(d)'[j] = DueFn(d)[j]
    BY <1>1, <1>4, <1>7 DEF DueFn, Terms
  <2>2. SumFunction(DueFn(d)') = SumFunction(DueFn(d)) + DueFn(d)'[i]
    BY <1>1, <1>4, <2>1, SumGrows DEF Terms
  <2> QED BY <2>1, <2>2 DEF Owed, DueFn
<1>9. FeesOf(d)' = FeesOf(d) + Fee(i, d)'
  <2>1. /\ DOMAIN FeeFn(d) = Published /\ DOMAIN FeeFn(d)' = Published \cup {i}
        /\ FeeFn(d)'[i] = Fee(i, d)' /\ Fee(i, d)' \in Int
        /\ \A j \in Published : FeeFn(d)[j] \in Int /\ FeeFn(d)'[j] = FeeFn(d)[j]
    BY <1>1, <1>4, <1>7 DEF FeeFn, Terms
  <2>2. SumFunction(FeeFn(d)') = SumFunction(FeeFn(d)) + FeeFn(d)'[i]
    BY <1>1, <1>4, <2>1, SumGrows DEF Terms
  <2> QED BY <2>1, <2>2 DEF FeesOf, FeeFn
<1> QED BY <1>6, <1>8, <1>9

\* A payout of message i: its amount is no longer due.
LEMMA PaidSums ==
    ASSUME Sound, TypeOK', UNCHANGED messages, NEW i \in Published, paid[i] = 0,
           paid'[i] = 1, \A j \in Refs \ {i} : paid'[j] = paid[j],
           messages[i].emitter \in Emitters, NEW d \in DestAssets
    PROVE  /\ Owed(d)' = Owed(d) - (IF SettlesAs[messages[i].sourceAsset] = d
                                    THEN messages[i].amount ELSE 0)
           /\ FeesOf(d)' = FeesOf(d)
<1>1. Terms /\ Terms'
  BY TermsAreInt, TermsNext DEF Sound, IInv
<1>2. Published' = Published
  BY DEF Published
<1>3. /\ Due(i, d) = (IF SettlesAs[messages[i].sourceAsset] = d THEN messages[i].amount ELSE 0)
      /\ Due(i, d)' = 0
  BY DEF Due, Genuine
<1>4. \A j \in Published \ {i} : Due(j, d)' = Due(j, d)
  BY <1>1 DEF Due, Genuine, Terms
<1>5. \A j \in Published : Fee(j, d)' = Fee(j, d)
  BY DEF Fee, Genuine
<1>6. FeesOf(d)' = FeesOf(d)
  BY <1>2, <1>5 DEF FeesOf
<1>7. Owed(d)' = Owed(d) - Due(i, d) + Due(i, d)'
  <2>1. /\ DOMAIN DueFn(d) = Published /\ DOMAIN DueFn(d)' = Published
        /\ DueFn(d)[i] = Due(i, d) /\ DueFn(d)'[i] = Due(i, d)' /\ Due(i, d)' \in Int
        /\ \A j \in Published : DueFn(d)[j] \in Int
        /\ \A j \in Published \ {i} : DueFn(d)'[j] = DueFn(d)[j]
    BY <1>1, <1>2, <1>4 DEF DueFn, Terms
  <2>2. SumFunction(DueFn(d)') = SumFunction(DueFn(d)) - DueFn(d)[i] + DueFn(d)'[i]
    BY <1>1, <2>1, SumChanges DEF Terms
  <2> QED BY <2>1, <2>2 DEF Owed, DueFn
<1>8. Due(i, d) \in Int /\ Owed(d) \in Int
  BY <1>1, SumsAreInt DEF Terms
<1> QED BY <1>3, <1>6, <1>7, <1>8

LEMMA RailGrows ==
    ASSUME Sound, TypeOK', NEW s, s \notin settlements, settlements' = settlements \cup {s},
           NEW d \in DestAssets
    PROVE  OnRail(d)' = OnRail(d) + Arriving(s, d) /\ Arriving(s, d) \in Int
<1>1. Terms /\ Terms' /\ IsFiniteSet(settlements)
  BY TermsAreInt, TermsNext DEF Sound, IInv
<1>2. \A r \in settlements : Arriving(r, d)' \in Int /\ Arriving(r, d) \in Int
  BY <1>1 DEF Terms, Arriving
<1>3. Arriving(s, d) \in Int
  BY <1>1 DEF Terms, Arriving
<1>4. /\ DOMAIN RailFn(d) = settlements /\ DOMAIN RailFn(d)' = settlements \cup {s}
      /\ RailFn(d)'[s] = Arriving(s, d)
      /\ \A r \in settlements : RailFn(d)[r] \in Int /\ RailFn(d)'[r] = RailFn(d)[r]
  BY <1>2 DEF RailFn, Arriving
<1>5. SumFunction(RailFn(d)') = SumFunction(RailFn(d)) + RailFn(d)'[s]
  BY <1>1, <1>3, <1>4, SumGrows
<1> QED BY <1>3, <1>4, <1>5 DEF OnRail, RailFn

LEMMA RailShrinks ==
    ASSUME Sound, NEW s \in settlements, settlements' = settlements \ {s},
           NEW d \in DestAssets
    PROVE  OnRail(d)' = OnRail(d) - Arriving(s, d) /\ Arriving(s, d) \in Int
<1>1. Terms /\ IsFiniteSet(settlements)
  BY TermsAreInt DEF Sound, IInv
<1>2. /\ DOMAIN RailFn(d) = settlements /\ DOMAIN RailFn(d)' = settlements \ {s}
      /\ RailFn(d)[s] = Arriving(s, d)
      /\ \A r \in settlements : RailFn(d)[r] \in Int
      /\ \A r \in settlements \ {s} : RailFn(d)'[r] = RailFn(d)[r]
  BY <1>1 DEF RailFn, Arriving, Terms
<1>3. SumFunction(RailFn(d)') = SumFunction(RailFn(d)) - RailFn(d)[s]
  BY <1>1, <1>2, SumShrinks
<1> QED BY <1>1, <1>2, <1>3 DEF OnRail, RailFn, Terms

\* What each step does to the balance of one asset.
LEMMA BridgeBalance ==
    ASSUME Sound, TypeOK', NEW e \in Emitters, NEW a \in SourceAssets, NEW n \in Amounts,
           BridgeViaWormhole(e, a, n), NEW d \in DestAssets, Balanced(d)
    PROVE  Balanced(d)' /\ IsFiniteSet(settlements')
<1> DEFINE s == [of |-> Len(messages) + 1, sourceAsset |-> a,
                 amount |-> SettlementOf(e, n), to |-> emitterLanding[e]]
           here == SettlesAs[a] = d
<1>1. n \in Nat /\ n - assetFee[e] \in Nat /\ PublishMessage(e, a, n, n - assetFee[e])
  BY CorridorAssumption DEF BridgeViaWormhole, Sound, IInv, TypeOK, CorridorTypes
<1>2. PICK net \in Nat : net = n - assetFee[e]
  BY <1>1
<1>3. PublishMessage(e, a, n, net) /\ UNCHANGED <<pool, paid>>
  BY <1>1, <1>2 DEF BridgeViaWormhole, landingVars
<1>4. /\ Owed(d)' = Owed(d) + (IF here THEN net ELSE 0)
      /\ FeesOf(d)' = FeesOf(d) + (IF here THEN n - net ELSE 0)
  BY <1>1, <1>3, PublishSums
<1>5. s \notin settlements
  <2>1. Len(messages) + 1 \notin Published
    BY DEF Sound, IInv, TypeOK, CorridorTypes, Published
  <2>2. s.of = Len(messages) + 1
    OBVIOUS
  <2> HIDE DEF s
  <2> QED BY <2>1, <2>2, TermsAreInt DEF Sound, IInv, Terms
<1>6. settlements' = settlements \cup {s}
  BY DEF BridgeViaWormhole
<1>7. Arriving(s, d) = IF here THEN n ELSE 0
  BY DEF Arriving, SettlementOf, Sound, StaysBound
<1> HIDE DEF s, here
<1>8. OnRail(d)' = OnRail(d) + (IF here THEN n ELSE 0)
  BY <1>5, <1>6, <1>7, RailGrows
<1>9. IsFiniteSet(settlements')
  BY <1>6, FS_AddElement DEF Sound
<1>10. /\ pool[d] \in Int /\ InitialPool[d] \in Int
       /\ OnRail(d) \in Int /\ Owed(d) \in Int /\ FeesOf(d) \in Int
  BY SumsAreInt
<1>11. pool[d] + (OnRail(d) + (IF here THEN n ELSE 0))
         = InitialPool[d] + (Owed(d) + (IF here THEN net ELSE 0))
             + (FeesOf(d) + (IF here THEN n - net ELSE 0))
  BY <1>1, <1>10 DEF Balanced
<1> QED BY <1>3, <1>4, <1>8, <1>9, <1>11 DEF Balanced

LEMMA StrangerBalance ==
    ASSUME Sound, TypeOK', NEW a \in SourceAssets, NEW n \in Amounts,
           StrangerPublishes(a, n), NEW d \in DestAssets, Balanced(d)
    PROVE  Balanced(d)' /\ IsFiniteSet(settlements')
<1>1. n \in Nat /\ PublishMessage(Stranger, a, 0, n) /\ Stranger \notin Emitters
      /\ UNCHANGED <<pool, paid, settlements>>
  BY CorridorAssumption DEF StrangerPublishes, landingVars
<1>2. Owed(d)' = Owed(d) + 0 /\ FeesOf(d)' = FeesOf(d) + 0
  BY <1>1, PublishSums
<1>3. OnRail(d)' = OnRail(d)
  BY <1>1 DEF OnRail
<1> QED BY <1>1, <1>2, <1>3, SumsAreInt DEF Balanced, Sound

LEMMA SettleBalance ==
    ASSUME Sound, NEW s \in settlements, Settle(s), NEW d \in DestAssets, Balanced(d)
    PROVE  Balanced(d)' /\ IsFiniteSet(settlements')
<1>1. settlements' = settlements \ {s} /\ UNCHANGED messages
  BY DEF Settle, sourceVars
<1>2. UNCHANGED paid /\ pool'[d] = pool[d] + Arriving(s, d)
  <2>1. CASE s.to = Here
    <3>1. Replenish(SettlesAs[s.sourceAsset], s.amount)
      BY <2>1 DEF Settle
    <3>2. pool \in [DestAssets -> Nat] /\ pool[d] \in Int
      BY DEF Sound, IInv, TypeOK, LandingTypes
    <3> QED BY <2>1, <3>1, <3>2 DEF Replenish, Arriving
  <2>2. CASE s.to # Here
    <3>1. pool'[d] = pool[d] /\ UNCHANGED paid
      BY <2>2 DEF Settle, landingVars
    <3> QED BY <2>2, <3>1, SumsAreInt DEF Arriving
  <2> QED BY <2>1, <2>2
<1>3. OnRail(d)' = OnRail(d) - Arriving(s, d) /\ Arriving(s, d) \in Int
  BY <1>1, RailShrinks
<1>4. Owed(d)' = Owed(d) /\ FeesOf(d)' = FeesOf(d)
  BY <1>1, <1>2 DEF Owed, FeesOf, Due, Fee, Genuine, Published
<1>5. IsFiniteSet(settlements')
  BY <1>1, FS_Subset DEF Sound
<1>6. (pool[d] + Arriving(s, d)) + (OnRail(d) - Arriving(s, d)) = InitialPool[d] + Owed(d) + FeesOf(d)
  BY <1>3, SumsAreInt DEF Balanced
<1> QED BY <1>2, <1>3, <1>4, <1>5, <1>6 DEF Balanced

\* Steps that move no money and publish nothing.
LEMMA QuietBalance ==
    ASSUME Sound, UNCHANGED <<messages, settlements, paid, pool>>,
           NEW d \in DestAssets, Balanced(d)
    PROVE  Balanced(d)' /\ IsFiniteSet(settlements')
  BY DEF Sound, Balanced, OnRail, Owed, FeesOf, Due, Fee, Genuine, Published

\* Paying message i, at once or from the head of the queue.
LEMMA PayBalance ==
    ASSUME Sound, TypeOK', UNCHANGED <<messages, settlements>>, NEW i \in Published,
           paid[i] = 0, messages[i].emitter \in Emitters,
           ExecuteTransfer(SettlesAs[messages[i].sourceAsset], messages[i].amount, i),
           NEW d \in DestAssets, Balanced(d)
    PROVE  Balanced(d)' /\ IsFiniteSet(settlements')
<1> DEFINE amount == messages[i].amount
           here == SettlesAs[messages[i].sourceAsset] = d
<1>1. Published \subseteq Refs
  BY TermsAreInt DEF Sound, IInv, Terms
<1>2. paid'[i] = 1 /\ \A j \in Refs \ {i} : paid'[j] = paid[j]
  BY <1>1 DEF ExecuteTransfer, Sound, IInv, TypeOK, LandingTypes
<1>3. /\ Owed(d)' = Owed(d) - (IF here THEN amount ELSE 0)
      /\ FeesOf(d)' = FeesOf(d)
  BY <1>2, PaidSums
<1>4. pool'[d] = pool[d] - (IF here THEN amount ELSE 0)
  BY SumsAreInt DEF ExecuteTransfer, Sound, IInv, TypeOK, LandingTypes
<1>5. OnRail(d)' = OnRail(d) /\ IsFiniteSet(settlements')
  BY DEF OnRail, Sound
<1>6. (IF here THEN amount ELSE 0) \in Int
  <2>1. Due(i, d) = IF here THEN amount ELSE 0
    BY DEF Due, Genuine
  <2> QED BY <2>1, TermsAreInt DEF Sound, IInv, Terms
<1>7. /\ pool[d] \in Int /\ InitialPool[d] \in Int
      /\ OnRail(d) \in Int /\ Owed(d) \in Int /\ FeesOf(d) \in Int
  BY SumsAreInt
<1> DEFINE x == IF here THEN amount ELSE 0
<1> HIDE DEF x
<1>8. (pool[d] - x) + OnRail(d) = InitialPool[d] + (Owed(d) - x) + FeesOf(d)
  BY <1>6, <1>7 DEF Balanced, x
<1> QED BY <1>3, <1>4, <1>5, <1>8 DEF Balanced, x

\* The queue's entries stay what they were; a new one is the message's.
LEMMA QueueAfterTransfer ==
    ASSUME LandingTypes, NEW b, NEW a, NEW n, NEW i \in Refs, Transfer(b, a, n, i)
    PROVE  \A j \in Refs : \A k \in QueuedAs(j)' :
               \/ k \in QueuedAs(j) /\ pendingTransfers'[k] = pendingTransfers[k]
               \/ /\ j = i
                  /\ pendingTransfers'[k].sourceAsset = a /\ pendingTransfers'[k].amount = n
<1>1. CASE UNCHANGED queueVars
  BY <1>1 DEF queueVars, QueuedAs
<1>2. CASE /\ pendingTransfers' =
                  [k \in DOMAIN pendingTransfers \cup {pendingTail} |->
                       IF k = pendingTail
                       THEN [sourceAsset |-> a, amount |-> n, of |-> i]
                       ELSE pendingTransfers[k]]
           /\ pendingTail' = pendingTail + 1
           /\ UNCHANGED pendingHead
  <2> DEFINE entry == [sourceAsset |-> a, amount |-> n, of |-> i]
             old == pendingHead..(pendingTail - 1)
  <2>1. pendingHead..(pendingTail' - 1) = old \cup {pendingTail} /\ pendingTail \notin old
    BY <1>2 DEF LandingTypes
  <2>2. /\ pendingTransfers'[pendingTail] = entry
        /\ \A k \in old : pendingTransfers'[k] = pendingTransfers[k]
    BY <1>2, <2>1 DEF LandingTypes
  <2>3. entry.of = i /\ entry.sourceAsset = a /\ entry.amount = n
    OBVIOUS
  <2> HIDE DEF entry, old
  <2> QED BY <1>2, <2>1, <2>2, <2>3 DEF QueuedAs, old
<1> QED BY <1>1, <1>2 DEF Transfer

LEMMA QueueAfterFulfill ==
    ASSUME LandingTypes, FulfillPending
    PROVE  \A j \in Refs : \A k \in QueuedAs(j)' :
               k \in QueuedAs(j) /\ pendingTransfers'[k] = pendingTransfers[k]
<1> DEFINE old == pendingHead..(pendingTail - 1)
<1>1. pendingHead' = pendingHead + 1 /\ pendingTail' = pendingTail
  BY DEF FulfillPending, Dequeue
<1>2. pendingHead'..(pendingTail' - 1) = old \ {pendingHead}
  BY <1>1 DEF LandingTypes
<1>3. DOMAIN pendingTransfers = old
  BY DEF LandingTypes
<1>4. \A k \in old \ {pendingHead} : pendingTransfers'[k] = pendingTransfers[k]
  BY <1>3 DEF FulfillPending, Dequeue
<1> QED BY <1>2, <1>4 DEF QueuedAs

\* Nothing is queued of a message that is not published.
LEMMA QueuedPublished ==
    ASSUME Sound, NEW j \in Refs, QueuedAs(j) # {} PROVE j \in Published
<1>1. j \in Consumed
  BY DEF Sound, IInv, DeliveredOnce
<1> QED BY <1>1 DEF Sound, IInv, TypeOK, CorridorTypes, Consumed

LEMMA QueueKept ==
    ASSUME Sound, \A i \in Published : messages'[i] = messages[i],
           \A j \in Refs : \A k \in QueuedAs(j)' :
               k \in QueuedAs(j) /\ pendingTransfers'[k] = pendingTransfers[k]
    PROVE  QueueCarries'
  BY QueuedPublished DEF Sound, QueueCarries

\* Whatever the owners bound at the start stays bound.
LEMMA BoundKept ==
    ASSUME Bound, Sound, [Next]_vars PROVE StaysBound'
<1>1. CASE UNCHANGED <<destAssetFor, emitterLanding>>
  BY <1>1 DEF Sound, StaysBound
<1>2. CASE SourceOwner
  <2>1. UNCHANGED <<destAssetFor, emitterLanding>>
    BY <1>2 DEF SourceOwner, Bound, landingVars, configVars
  <2> QED BY <1>1, <2>1
<1>3. CASE LandingOwner
  <2>1. UNCHANGED <<destAssetFor, emitterLanding>>
    BY <1>3 DEF LandingOwner, Bound, SetAuthorizedBridge, sourceVars
  <2> QED BY <1>1, <2>1
<1>4. CASE \/ \E e \in Emitters, a \in SourceAssets, n \in Amounts : BridgeViaWormhole(e, a, n)
           \/ \E a \in SourceAssets, n \in Amounts : StrangerPublishes(a, n)
           \/ ReceiverOwner \/ UNCHANGED vars
  <2>1. UNCHANGED <<destAssetFor, emitterLanding>>
    BY <1>4 DEF BridgeViaWormhole, StrangerPublishes, ReceiverOwner, vars, landingVars,
           configVars, sourceVars
  <2> QED BY <1>1, <2>1
<1>5. ASSUME \/ \E s \in settlements : Settle(s)
             \/ \E r \in Bridges, i \in Published : CompleteTransfer(r, i)
             \/ Fulfill
             \/ \E r \in Bridges : Arm(r)
      PROVE  StaysBound'
  <2>1. UNCHANGED <<destAssetFor, emitterLanding>>
    BY <1>5 DEF Settle, Replenish, CompleteTransfer, Transfer, Fulfill, FulfillPending, Arm,
           SetAuthorizedBridge, landingVars, configVars, sourceVars
  <2> QED BY <1>1, <2>1
<1> QED BY <1>2, <1>3, <1>4, <1>5 DEF Next

LEMMA IInvNext == IInv /\ [Next]_vars => IInv'
  BY BridgeKeeps, StrangerKeeps, SettleKeeps, CompleteKeeps, FulfillKeeps, OwnersKeep DEF Next

\* The part of a step that concerns the money of every asset and the queue.
Conserved == (\A d \in DestAssets : Balanced(d)') /\ IsFiniteSet(settlements') /\ QueueCarries'

\* A step that leaves the queue alone.
LEMMA QueueUntouched ==
    ASSUME Sound, UNCHANGED queueVars, \A i \in Published : messages'[i] = messages[i]
    PROVE  QueueCarries'
<1>1. \A j \in Refs : \A k \in QueuedAs(j)' :
          k \in QueuedAs(j) /\ pendingTransfers'[k] = pendingTransfers[k]
  BY DEF queueVars, QueuedAs
<1> QED BY <1>1, QueueKept

LEMMA PublishConserves ==
    ASSUME Sound, TypeOK', NEW some \in DestAssets, \A d \in DestAssets : Balanced(d),
           \/ \E e \in Emitters, a \in SourceAssets, n \in Amounts : BridgeViaWormhole(e, a, n)
           \/ \E a \in SourceAssets, n \in Amounts : StrangerPublishes(a, n)
    PROVE  Conserved
<1>1. \A d \in DestAssets : Balanced(d)' /\ IsFiniteSet(settlements')
  BY BridgeBalance, StrangerBalance
<1>2. UNCHANGED queueVars
  BY DEF BridgeViaWormhole, StrangerPublishes, landingVars
<1>3. \A i \in Published : messages'[i] = messages[i]
  <2>1. PICK e, a, g, n : PublishMessage(e, a, g, n)
    BY DEF BridgeViaWormhole, StrangerPublishes
  <2> QED BY <2>1 DEF PublishMessage, Sound, IInv, TypeOK, CorridorTypes, Published
<1> QED BY <1>1, <1>2, <1>3, QueueUntouched DEF Conserved

LEMMA SettleConserves ==
    ASSUME Sound, NEW some \in DestAssets, \A d \in DestAssets : Balanced(d),
           NEW s \in settlements, Settle(s)
    PROVE  Conserved
<1>1. \A d \in DestAssets : Balanced(d)' /\ IsFiniteSet(settlements')
  BY SettleBalance
<1>2. UNCHANGED queueVars /\ UNCHANGED messages
  BY DEF Settle, Replenish, landingVars, sourceVars
<1> QED BY <1>1, <1>2, QueueUntouched DEF Conserved

LEMMA CompleteConserves ==
    ASSUME Sound, TypeOK', NEW some \in DestAssets, \A d \in DestAssets : Balanced(d),
           NEW r \in Bridges, NEW i \in Published, CompleteTransfer(r, i)
    PROVE  Conserved
<1> DEFINE a == messages[i].sourceAsset
           n == messages[i].amount
<1>1. /\ Transfer(r, a, n, i) /\ UNCHANGED <<messages, settlements>>
      /\ messages[i].emitter = authorizedEmitter[r] /\ i \notin processedVaas[r]
  BY DEF CompleteTransfer, Accepts, sourceVars
<1>2. i \in Refs /\ LandingTypes
  BY TermsAreInt DEF Sound, IInv, TypeOK, Terms
<1>3. messages[i].emitter \in Emitters
  BY <1>1 DEF Sound, IInv, TypeOK, CorridorTypes
<1>4. paid[i] = 0
  <2>1. i \notin Consumed
    <3> SUFFICES ASSUME NEW q \in Bridges, i \in processedVaas[q] PROVE FALSE
      BY DEF Consumed
    <3>1. messages[i].emitter \in EmittersOf[q] /\ messages[i].emitter \in EmittersOf[r]
      BY <1>1 DEF Sound, IInv, DeliveredOnce, Wired
    <3>2. q = r
      BY <3>1, CorridorAssumption
    <3> QED BY <1>1, <3>2
  <2> QED BY <1>2, <2>1 DEF Sound, IInv, DeliveredOnce
<1>5. \A d \in DestAssets : Balanced(d)' /\ IsFiniteSet(settlements')
  <2>1. CASE ExecuteTransfer(destAssetFor[a], n, i)
    BY <1>1, <1>3, <1>4, <2>1, PayBalance DEF Sound, StaysBound
  <2>2. CASE UNCHANGED <<pool, paid>>
    BY <1>1, <2>2, QuietBalance
  <2> QED BY <1>1, <2>1, <2>2 DEF Transfer
<1>6. QueueCarries'
  <2>1. \A j \in Refs : \A k \in QueuedAs(j)' :
            \/ k \in QueuedAs(j) /\ pendingTransfers'[k] = pendingTransfers[k]
            \/ /\ j = i
               /\ pendingTransfers'[k].sourceAsset = a /\ pendingTransfers'[k].amount = n
    BY <1>1, <1>2, QueueAfterTransfer
  <2> QED BY <1>1, <2>1 DEF Sound, QueueCarries
<1> QED BY <1>5, <1>6 DEF Conserved

LEMMA FulfillConserves ==
    ASSUME Sound, TypeOK', NEW some \in DestAssets, \A d \in DestAssets : Balanced(d), Fulfill
    PROVE  Conserved
<1> DEFINE pt == pendingTransfers[pendingHead]
<1>1. /\ FulfillPending /\ UNCHANGED <<messages, settlements>>
      /\ ExecuteTransfer(destAssetFor[pt.sourceAsset], pt.amount, pt.of)
  BY DEF Fulfill, FulfillPending, sourceVars
<1>2. LandingTypes /\ destAssetFor = SettlesAs
  BY DEF Sound, IInv, TypeOK, StaysBound
<1>3. PICK i \in Refs : i = pt.of
  BY <1>1, <1>2 DEF FulfillPending, LandingTypes, Pending
<1>4. pendingHead \in QueuedAs(i)
  BY <1>1, <1>2, <1>3 DEF QueuedAs, FulfillPending, LandingTypes
<1>5. i \in Published
  BY <1>4, QueuedPublished
<1>6. /\ pt.sourceAsset = messages[i].sourceAsset /\ pt.amount = messages[i].amount
      /\ paid[i] = 0 /\ i \in Consumed
  BY <1>4 DEF Sound, QueueCarries, IInv, DeliveredOnce
<1>7. messages[i].emitter \in Emitters
  BY <1>6, CorridorAssumption DEF Consumed, Sound, IInv, DeliveredOnce
<1>8. \A d \in DestAssets : Balanced(d)' /\ IsFiniteSet(settlements')
  BY <1>1, <1>2, <1>3, <1>5, <1>6, <1>7, PayBalance
<1>9. QueueCarries'
  BY <1>1, <1>2, QueueAfterFulfill, QueueKept
<1> QED BY <1>8, <1>9 DEF Conserved

LEMMA OwnersConserve ==
    ASSUME Bound, Sound, NEW some \in DestAssets, \A d \in DestAssets : Balanced(d),
           \/ \E r \in Bridges : Arm(r)
           \/ SourceOwner \/ ReceiverOwner \/ LandingOwner
           \/ UNCHANGED vars
    PROVE  Conserved
<1>1. UNCHANGED <<messages, settlements, paid, pool>> /\ UNCHANGED queueVars
  <2>1. CASE LandingOwner
    BY <2>1 DEF LandingOwner, Bound, SetAuthorizedBridge, sourceVars
  <2>2. CASE \E r \in Bridges : Arm(r)
    BY <2>2 DEF Arm, SetAuthorizedBridge, sourceVars
  <2> QED
    BY <2>1, <2>2 DEF SourceOwner, ReceiverOwner, vars, landingVars, sourceVars
<1>2. \A d \in DestAssets : Balanced(d)' /\ IsFiniteSet(settlements')
  BY <1>1, QuietBalance
<1> QED BY <1>1, <1>2, QueueUntouched DEF Conserved

LEMMA BalanceInit == Bound /\ Init => Sound /\ PoolBalances
<1> SUFFICES ASSUME Bound, Init PROVE Sound /\ PoolBalances
  OBVIOUS
<1>1. IInv
  BY InitIInv
<1>2. settlements = {} /\ Published = {} /\ pool = InitialPool
  BY DEF Init, LandingInit, Published
<1>3. StaysBound /\ IsFiniteSet(settlements)
  BY <1>2, FS_EmptySet DEF Init, LandingInit, Bound, StaysBound
<1>4. QueueCarries
  BY DEF Init, LandingInit, QueuedAs, QueueCarries
<1>5. Sound
  BY <1>1, <1>3, <1>4 DEF Sound
<1>6. ASSUME NEW d \in DestAssets
      PROVE  pool[d] + OnRail(d) = InitialPool[d] + Owed(d) + FeesOf(d)
  <2>1. OnRail(d) = 0 /\ Owed(d) = 0 /\ FeesOf(d) = 0
    BY <1>2, SumOnDomain, SumEmpty DEF OnRail, Owed, FeesOf
  <2> QED BY <1>2, <1>5, <2>1, SumsAreInt
<1> QED BY <1>5, <1>6 DEF PoolBalances

LEMMA BalanceNext ==
    ASSUME Bound, NEW some \in DestAssets, Sound, PoolBalances, [Next]_vars
    PROVE  Sound' /\ PoolBalances'
<1>1. \A d \in DestAssets : Balanced(d)
  BY DEF PoolBalances, Balanced
<1>2. IInv' /\ TypeOK'
  BY IInvNext DEF Sound, IInv
<1>3. StaysBound'
  BY BoundKept
<1>4. Conserved
  BY <1>1, <1>2, PublishConserves, SettleConserves, CompleteConserves, FulfillConserves,
     OwnersConserve DEF Next
<1> QED BY <1>2, <1>3, <1>4 DEF Sound, Conserved, PoolBalances, Balanced

\* For any corridors, assets, amounts and fees, whatever order VAAs and
\* settlements arrive in and whatever else the owners change: bound to its
\* emitters, the pool and the rail together hold at all times exactly what was
\* first funded, what is still owed and every fee.
THEOREM PoolStaysBalanced == Bound => (Spec => []PoolBalances)
<1> SUFFICES ASSUME Bound PROVE Spec => []PoolBalances
  OBVIOUS
<1>1. CASE DestAssets = {}
  <2>1. PoolBalances
    BY <1>1 DEF PoolBalances
  <2> QED BY <2>1, PTL
<1>2. CASE DestAssets # {}
  <2>1. PICK some \in DestAssets : TRUE
    BY <1>2
  <2>2. Init => Sound /\ PoolBalances
    BY BalanceInit
  <2>3. Sound /\ PoolBalances /\ [Next]_vars => Sound' /\ PoolBalances'
    BY <2>1, BalanceNext
  <2> QED BY <2>2, <2>3, PTL DEF Spec
<1> QED BY <1>1, <1>2

-----------------------------------------------------------------------------
(* The queue's cover: what it owes is part of what is still owed, and a fee  *)
(* is never negative.                                                        *)

FeesTaken == \A i \in Published : messages[i].emitter \in Emitters =>
                                      messages[i].amount <= messages[i].gross

LEMMA FeesTakenNext ==
    ASSUME Sound, FeesTaken, [Next]_vars PROVE FeesTaken'
<1>1. ASSUME NEW e \in Emitters \cup {Stranger}, NEW a \in SourceAssets, NEW g \in Nat,
             NEW n \in Nat, PublishMessage(e, a, g, n), e \in Emitters => n <= g
      PROVE  FeesTaken'
  <2> DEFINE m == [emitter |-> e, sourceAsset |-> a, gross |-> g, amount |-> n]
             T == [emitter : Emitters \cup {Stranger}, sourceAsset : SourceAssets,
                   gross : Nat, amount : Nat]
  <2>1. messages \in Seq(T) /\ messages' = Append(messages, m) /\ m \in T
    BY <1>1 DEF PublishMessage, Sound, IInv, TypeOK, CorridorTypes
  <2>2. messages'[Len(messages) + 1] = m /\ Len(messages) \in Nat
    <3> HIDE DEF m, T
    <3> QED BY <2>1
  <2>3. /\ Published' = Published \cup {Len(messages) + 1}
        /\ \A i \in Published : messages'[i] = messages[i]
    BY <1>1, Published1 DEF Sound
  <2>4. \A i \in Published : messages[i].emitter \in Emitters =>
                                  messages[i].amount <= messages[i].gross
    BY DEF FeesTaken
  <2>5. m.emitter \in Emitters => m.amount <= m.gross
    BY <1>1
  <2> HIDE DEF m, T
  <2>6. \A i \in Published' : messages'[i].emitter \in Emitters =>
                                   messages'[i].amount <= messages'[i].gross
    BY <2>2, <2>3, <2>4, <2>5
  <2> QED BY <2>6 DEF FeesTaken
<1>2. ASSUME NEW e \in Emitters, NEW a \in SourceAssets, NEW n \in Amounts,
             BridgeViaWormhole(e, a, n)
      PROVE  FeesTaken'
  <2>1. n \in Nat /\ n - assetFee[e] \in Nat /\ n - assetFee[e] <= n
        /\ PublishMessage(e, a, n, n - assetFee[e])
    BY <1>2, CorridorAssumption DEF BridgeViaWormhole, Sound, IInv, TypeOK, CorridorTypes
  <2> QED BY <1>1, <2>1
<1>3. ASSUME NEW a \in SourceAssets, NEW n \in Amounts, StrangerPublishes(a, n)
      PROVE  FeesTaken'
  <2>1. n \in Nat /\ PublishMessage(Stranger, a, 0, n) /\ Stranger \notin Emitters
    BY <1>3, CorridorAssumption DEF StrangerPublishes
  <2> QED BY <1>1, <2>1
<1>4. CASE UNCHANGED messages
  BY <1>4 DEF FeesTaken, Published
<1>5. ASSUME \/ \E s \in settlements : Settle(s)
             \/ \E r \in Bridges, i \in Published : CompleteTransfer(r, i)
             \/ Fulfill \/ \E r \in Bridges : Arm(r)
             \/ SourceOwner \/ ReceiverOwner \/ LandingOwner \/ UNCHANGED vars
      PROVE  UNCHANGED messages
  BY <1>5 DEF Settle, CompleteTransfer, Fulfill, Arm, SourceOwner, ReceiverOwner,
              LandingOwner, vars, sourceVars
<1> QED BY <1>2, <1>3, <1>4, <1>5 DEF Next

\* Each entry of the queue stands for its own message, not yet paid.
LEMMA EntriesAreDue ==
    ASSUME Sound, NEW d \in DestAssets, NEW k \in DOMAIN pendingTransfers
    PROVE  /\ pendingTransfers[k].of \in Published
           /\ Waiting(k, d) \in Nat
           /\ Waiting(k, d) = Due(pendingTransfers[k].of, d)
           /\ QueuedAs(pendingTransfers[k].of) = {k}
<1>1. k \in pendingHead..(pendingTail - 1) /\ pendingTransfers[k] \in Pending
  BY DEF Sound, IInv, TypeOK, LandingTypes
<1>2. PICK i \in Refs : i = pendingTransfers[k].of
  BY <1>1 DEF Pending
<1>3. k \in QueuedAs(i)
  BY <1>1, <1>2 DEF QueuedAs
<1>4. i \in Consumed /\ paid[i] = 0 /\ QueuedAs(i) = {k}
  BY <1>3 DEF Sound, IInv, DeliveredOnce
<1>5. i \in Published /\ messages[i].emitter \in Emitters
  BY <1>3, <1>4, QueuedPublished, CorridorAssumption DEF Consumed, Sound, IInv, DeliveredOnce
<1>6. /\ pendingTransfers[k].sourceAsset = messages[i].sourceAsset
      /\ pendingTransfers[k].amount = messages[i].amount
  BY <1>3 DEF Sound, QueueCarries
<1>7. pendingTransfers[k].amount \in Nat /\ destAssetFor = SettlesAs
  BY <1>1 DEF Pending, Sound, StaysBound
<1> QED BY <1>2, <1>4, <1>5, <1>6, <1>7 DEF Waiting, Due, Genuine

LEMMA CoverFollows ==
    ASSUME Sound, FeesTaken, PoolBalances PROVE QueueCovered
<1> SUFFICES ASSUME NEW d \in DestAssets PROVE pool[d] + OnRail(d) >= Queued(d)
  BY DEF QueueCovered
<1> DEFINE D == DOMAIN pendingTransfers
           W == [k \in D |-> Waiting(k, d)]
           of == [k \in D |-> pendingTransfers[k].of]
<1>1. /\ \A k \in D : W[k] \in Nat /\ of[k] \in Published /\ W[k] = DueFn(d)[of[k]]
      /\ of \in [D -> Published]
  BY EntriesAreDue DEF DueFn
<1>2. \A k, j \in D : of[k] = of[j] => k = j
  <2> SUFFICES ASSUME NEW k \in D, NEW j \in D, of[k] = of[j] PROVE k = j
    OBVIOUS
  <2>1. QueuedAs(pendingTransfers[k].of) = {k} /\ QueuedAs(pendingTransfers[j].of) = {j}
    BY EntriesAreDue
  <2>2. {k} = {j}
    BY <2>1
  <2> QED BY <2>2
<1>3. IsFiniteSet(D)
  <2>1. D = pendingHead..(pendingTail - 1) /\ pendingHead \in Nat /\ pendingTail \in Nat
    BY DEF Sound, IInv, TypeOK, LandingTypes
  <2> QED BY <2>1, FS_Interval
<1>4. /\ IsFiniteSet(Published) /\ \A i \in Published : DueFn(d)[i] \in Nat
      /\ \A i \in Published : FeeFn(d)[i] \in Nat
  <2>1. Terms
    BY TermsAreInt DEF Sound, IInv
  <2>2. ASSUME NEW i \in Published
        PROVE  messages[i].amount \in Nat /\ messages[i].gross \in Nat
    <3> DEFINE T == [emitter : Emitters \cup {Stranger}, sourceAsset : SourceAssets,
                     gross : Nat, amount : Nat]
    <3>1. messages \in Seq(T)
      BY DEF Sound, IInv, TypeOK, CorridorTypes
    <3>2. messages[i] \in T
      <4> HIDE DEF T
      <4> QED BY <3>1 DEF Published
    <3> QED BY <3>2
  <2>3. ASSUME NEW i \in Published PROVE DueFn(d)[i] \in Nat /\ FeeFn(d)[i] \in Nat
    <3>1. messages[i].emitter \in Emitters => messages[i].gross - messages[i].amount \in Nat
      BY <2>2 DEF FeesTaken
    <3> QED BY <2>2, <3>1 DEF DueFn, FeeFn, Due, Fee, Genuine
  <2> QED BY <2>1, <2>3 DEF Terms
<1> HIDE DEF D, W, of
<1>5. SumFunctionOnSet(W, D) <= SumFunctionOnSet(DueFn(d), Published)
  <2>1. \A k \in D : W[k] <= DueFn(d)[of[k]]
    BY <1>1
  <2> QED BY <1>1, <1>2, <1>3, <1>4, <2>1, SumInto
<1>6. SumFunctionOnSet(W, D) \in Nat /\ SumFunctionOnSet(FeeFn(d), Published) \in Nat
  BY <1>1, <1>3, <1>4, SumNat
<1>7. /\ Queued(d) = SumFunctionOnSet(W, D)
      /\ Owed(d) = SumFunctionOnSet(DueFn(d), Published)
      /\ FeesOf(d) = SumFunctionOnSet(FeeFn(d), Published)
  BY SumOnDomain DEF Queued, W, D, Owed, DueFn, FeesOf, FeeFn
<1>8. /\ pool[d] + OnRail(d) = InitialPool[d] + Owed(d) + FeesOf(d) /\ InitialPool[d] \in Nat
      /\ pool[d] \in Int /\ OnRail(d) \in Int /\ Owed(d) \in Int
  BY SumsAreInt, LandingAssumption DEF PoolBalances
<1> QED BY <1>5, <1>6, <1>7, <1>8

\* Under the conditions of PoolStaysBalanced, for any number of messages and
\* assets: whatever the queue holds, in any asset, is in the pool or on its way.
THEOREM QueueStaysCovered == Bound => (Spec => []QueueCovered)
<1> SUFFICES ASSUME Bound PROVE Spec => []QueueCovered
  OBVIOUS
<1>1. CASE DestAssets = {}
  <2>1. QueueCovered
    BY <1>1 DEF QueueCovered
  <2> QED BY <2>1, PTL
<1>2. CASE DestAssets # {}
  <2>1. PICK some \in DestAssets : TRUE
    BY <1>2
  <2>2. Init => Sound /\ PoolBalances /\ FeesTaken
    BY BalanceInit DEF Init, FeesTaken, Published
  <2>3. Sound /\ PoolBalances /\ FeesTaken /\ [Next]_vars
            => Sound' /\ PoolBalances' /\ FeesTaken'
    BY <2>1, BalanceNext, FeesTakenNext
  <2>4. Sound /\ PoolBalances /\ FeesTaken => QueueCovered
    BY CoverFollows
  <2> QED BY <2>2, <2>3, <2>4, PTL DEF Spec
<1> QED BY <1>1, <1>2
=============================================================================
