-------------------------- MODULE BasejumpLanding --------------------------
(***************************************************************************)
(* The pre-funded pool on Hydration.  Authorized bridges have it pay at    *)
(* once, in the asset the owner configured; what it cannot pay it queues,  *)
(* one queue for every asset, drained from the head by anyone.             *)
(* A call is one transaction: it is one step, and one that reverts is none.*)
(***************************************************************************)
EXTENDS Integers

CONSTANTS
    Bridges,        \* contracts the owner may authorize
    SourceAssets, DestAssets,
    Unset,          \* address(0)
    Refs,           \* instructions to pay, as the bridges identify them
    Undispatchable, \* those the runtime refuses: the recipient's account, or
                    \* an amount past uint128
    InitialPool,    \* dest asset -> what the pool was funded with
    InitialAssets   \* destAssetFor as first configured

ASSUME LandingAssumption ==
    /\ Undispatchable \subseteq Refs
    /\ Unset \notin DestAssets
    /\ InitialPool \in [DestAssets -> Nat]
    /\ InitialAssets \in [SourceAssets -> DestAssets \cup {Unset}]

VARIABLES
    authorizedBridges, destAssetFor,
    pendingHead, pendingTail, pendingTransfers,
    pool,   \* dest asset -> balance of the landing
    paid    \* history: how often each instruction has been paid

configVars == <<authorizedBridges, destAssetFor>>
queueVars == <<pendingHead, pendingTail, pendingTransfers>>
landingVars == <<configVars, queueVars, pool, paid>>

Pending == [sourceAsset : SourceAssets, amount : Nat, of : Refs]

LandingInit ==
    /\ authorizedBridges = {} /\ destAssetFor = InitialAssets
    /\ pendingHead = 0 /\ pendingTail = 0 /\ pendingTransfers = <<>>
    /\ pool = InitialPool
    /\ paid = [i \in Refs |-> 0]

\* currencies.transfer through the dispatch precompile, or the call reverts.
ExecuteTransfer(asset, amount, i) ==
    /\ i \notin Undispatchable
    /\ pool' = [pool EXCEPT ![asset] = @ - amount]
    /\ paid' = [paid EXCEPT ![i] = @ + 1]

\* Mutant: the pool pays what it lacks.
SufficesAlways(asset, amount) == TRUE

Suffices(asset, amount) == pool[asset] >= amount

Transfer(bridge, sourceAsset, amount, i) ==
    LET asset == destAssetFor[sourceAsset] IN
    /\ bridge \in authorizedBridges
    /\ asset # Unset
    /\ \/ /\ Suffices(asset, amount)
          /\ ExecuteTransfer(asset, amount, i)
          /\ UNCHANGED queueVars
       \/ /\ ~Suffices(asset, amount)
          /\ pendingTransfers' =
                 [k \in DOMAIN pendingTransfers \cup {pendingTail} |->
                      IF k = pendingTail
                      THEN [sourceAsset |-> sourceAsset, amount |-> amount, of |-> i]
                      ELSE pendingTransfers[k]]
          /\ pendingTail' = pendingTail + 1
          /\ UNCHANGED <<pendingHead, pool, paid>>
    /\ UNCHANGED configVars

\* Mutant: fulfillPending pays and leaves the entry at the head.
DequeueNothing == UNCHANGED <<pendingHead, pendingTransfers>>

Dequeue ==
    /\ pendingHead' = pendingHead + 1
    /\ pendingTransfers' =
           [k \in DOMAIN pendingTransfers \ {pendingHead} |-> pendingTransfers[k]]

\* The head only: one that the pool or the runtime cannot pay holds back the rest.
FulfillPending ==
    /\ pendingHead < pendingTail
    /\ LET pt == pendingTransfers[pendingHead]
           asset == destAssetFor[pt.sourceAsset]
       IN  /\ asset # Unset
           /\ Suffices(asset, pt.amount)
           /\ ExecuteTransfer(asset, pt.amount, pt.of)
    /\ Dequeue
    /\ UNCHANGED <<configVars, pendingTail>>

SetAuthorizedBridge(bridge, enabled) ==
    /\ authorizedBridges' = IF enabled THEN authorizedBridges \cup {bridge}
                            ELSE authorizedBridges \ {bridge}
    /\ UNCHANGED <<destAssetFor, queueVars, pool, paid>>

SetDestAsset(sourceAsset, asset) ==
    /\ destAssetFor' = [destAssetFor EXCEPT ![sourceAsset] = asset]
    /\ UNCHANGED <<authorizedBridges, queueVars, pool, paid>>

Withdraw(asset, amount) ==
    /\ amount <= pool[asset]
    /\ pool' = [pool EXCEPT ![asset] = @ - amount]
    /\ UNCHANGED <<configVars, queueVars, paid>>

\* An NTT settlement, or anyone, adds to the pool.
Replenish(asset, amount) ==
    /\ pool' = [pool EXCEPT ![asset] = @ + amount]
    /\ UNCHANGED <<configVars, queueVars, paid>>
=============================================================================
