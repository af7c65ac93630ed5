------------------------ MODULE GovernanceDispatcher ------------------------
(***************************************************************************)
(* The Hydration end of cross-chain governance: dispatchers that number    *)
(* the actions OpenGov enacts and publish them through the Wormhole core.  *)
(* A published message stays available for ever: anyone may carry its VAA  *)
(* to a destination, late, out of order and more than once.                *)
(***************************************************************************)
EXTENDS Integers, FiniteSets

CONSTANTS
    Dispatchers,    \* dispatchers OpenGov controls: the first and its successors
    Stranger,       \* any emitter OpenGov does not control
    Destinations,   \* executors a message may name
    Contents,       \* names of the batches of calls
    MaxNonce,       \* bound on governanceNonce
    MaxMessages     \* bound on the Wormhole sequence

ASSUME DispatcherAssumption ==
    /\ Stranger \notin Dispatchers
    /\ IsFiniteSet(Dispatchers)
    /\ MaxNonce \in Nat /\ MaxMessages \in Nat

Emitters == Dispatchers \cup {Stranger}

VARIABLES
    nextGovernanceNonce,  \* per dispatcher
    published,            \* the messages the guardians attest to
    sequence              \* the Wormhole core's, over all emitters

dispatcherVars == <<nextGovernanceNonce, published, sequence>>

\* What the guardians sign; payload is what the executor hashes.
Payload == [destination : Destinations, nonce : Nat \ {0}, content : Contents]
Message == [emitter : Emitters, sequence : Nat, payload : Payload]

DispatcherInit ==
    /\ nextGovernanceNonce = [d \in Dispatchers |-> 1]
    /\ published = {}
    /\ sequence = 0

PublishMessage(emitter, payload) ==
    /\ sequence < MaxMessages
    /\ published' = published \cup
           {[emitter |-> emitter, sequence |-> sequence, payload |-> payload]}
    /\ sequence' = sequence + 1

\* publish: OpenGov's call, with the exact fee; the nonce is reserved before
\* the core is called.
PublishAction(d, destination, content) ==
    /\ nextGovernanceNonce[d] <= MaxNonce
    /\ PublishMessage(d, [destination |-> destination,
                          nonce |-> nextGovernanceNonce[d], content |-> content])
    /\ nextGovernanceNonce' = [nextGovernanceNonce EXCEPT ![d] = @ + 1]

\* The Wormhole core is open to everyone: a stranger publishes what it likes.
StrangerPublishes(payload) ==
    /\ PublishMessage(Stranger, payload)
    /\ UNCHANGED nextGovernanceNonce

\* A second envelope of a payload already published, which the executor must
\* expect ("distinct signed envelopes could theoretically contain an identical
\* governance payload").
Republish(m) ==
    /\ PublishMessage(m.emitter, m.payload)
    /\ UNCHANGED nextGovernanceNonce
=============================================================================
