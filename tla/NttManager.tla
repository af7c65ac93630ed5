----------------------------- MODULE NttManager -----------------------------
(***************************************************************************)
(* The NEAR NTT manager: a contract that locks one NEP-141 token, sends    *)
(* Wormhole messages that let a peer chain mint it, and unlocks it for     *)
(* messages whose VAA the Wormhole core verifies.                          *)
(*                                                                         *)
(* On NEAR a call to another contract answers in a later receipt, so every *)
(* operation that pays, verifies or publishes is split in two or more      *)
(* steps between which anything else may run.  One action here is one      *)
(* receipt.  The promise chains in flight are part of the state:           *)
(*   publishing   ft_on_transfer ... core.publish_message ... on_published *)
(*   verifying    complete ... core.verify_vaa /\ token.storage_balance_of *)
(*                ... on_verified ... on_complete_settled                  *)
(*   payouts      [storage_deposit] ... ft_transfer ... on_paid            *)
(*                                                                         *)
(* A panic unwinds its receipt, so a rejected call is no step.  NEAR is    *)
(* counted too: `free' is the contract's balance less its storage stake,   *)
(* and a receipt that would take it below zero fails.                      *)
(***************************************************************************)
EXTENDS RateLimit, TrimmedAmount, FiniteSets, Functions

CONSTANTS
    Accounts,           \* NEAR accounts
    Chains,             \* peer chains
    Pairs,              \* (manager, transceiver) pairs a peer may have
    NoPeer,             \* no pair: the chain has no peer
    PairDecimals,       \* [Pairs -> Decimals], the precision of each
    TokenDecimals,      \* token_decimals
    Digests,            \* NTT messages to NEAR, named by their digest
    Msg,                \* [Digests -> [chain, pair, to, trimmed]]
    InitialBalance,     \* [Accounts -> Nat], the token before any transfer
    Transfers,          \* amounts a sender may transfer
    Limits,             \* limits the owner may set
    OutboundLimit,      \* the constructor's outbound_limit
    Deposits,           \* NEAR a caller may attach to complete
    RegistrationDeposit, StorageAllowance, ClaimReserve,
    ExecutedCost, QueueCost, ClaimCost,   \* storage, as NEAR
    InitialFree,        \* NEAR the contract is funded with
    MaxTime, MaxSeq, MaxCalls, MaxPayouts \* bounds

ASSUME NttAssumption ==
    /\ IsFiniteSet(Accounts) /\ IsFiniteSet(Chains) /\ IsFiniteSet(Digests)
    /\ NoPeer \notin Pairs
    /\ PairDecimals \in [Pairs -> Decimals] /\ TokenDecimals \in Decimals
    /\ InitialBalance \in [Accounts -> Nat]
    /\ Transfers \subseteq Nat
    /\ Limits \subseteq Amount /\ OutboundLimit \in Amount
    /\ Deposits \subseteq Nat
    /\ {RegistrationDeposit, StorageAllowance, ClaimReserve, ExecutedCost,
        QueueCost, ClaimCost, InitialFree} \subseteq Nat
    /\ ClaimCost <= ClaimReserve      \* the reserve is for an entry at its largest
    /\ {MaxTime, MaxSeq, MaxCalls, MaxPayouts} \subseteq Nat

ASSUME MsgAssumption ==
    \A d \in Digests :
        /\ Msg[d].chain \in Chains /\ Msg[d].pair \in Pairs
        /\ Msg[d].to \in Accounts
        /\ Msg[d].trimmed.amount \in Nat /\ Msg[d].trimmed.decimals \in Decimals

NotQueued == -1
NoCall == 0

VARIABLES
    \* NttManager's own state
    paused, seq, peers, outbound, inbound, executed, claimable, claimEntries,
    queuedAt,
    \* promise chains in flight
    publishing, verifying, payouts, registering,
    \* the token, the core and the peers, as the contract sees them
    custody, balance, registered, onWire, minted, burned,
    \* the chain: block clock, the contract's NEAR
    now, free,
    \* history: NEAR of each complete call still here, unlocks per message,
    \* numbers of calls and pay-outs
    deposits, unlocks, calls, issued

contract == <<paused, seq, peers, outbound, inbound, executed, claimable,
              claimEntries, queuedAt>>
chainsInFlight == <<publishing, verifying, payouts, registering>>
token == <<custody, balance, registered>>
wormhole == <<onWire, minted, burned>>
history == <<deposits, unlocks, calls, issued>>
vars == <<contract, chainsInFlight, token, wormhole, now, free, history>>

To(d) == Msg[d].to
UnlockAmount(d) == Untrim(Msg[d].trimmed, TokenDecimals)
QueuedDigests == {d \in Digests : queuedAt[d] # NotQueued}

-----------------------------------------------------------------------------
(* The constructor. *)
Init ==
    /\ paused = FALSE /\ seq = 0
    /\ peers = [c \in Chains |-> NoPeer]
    /\ outbound = NewWindow(OutboundLimit, 0)
    /\ inbound = [c \in Chains |-> NewWindow(0, 0)]
    /\ executed = {}
    /\ claimable = [a \in Accounts |-> 0] /\ claimEntries = {}
    /\ queuedAt = [d \in Digests |-> NotQueued]
    /\ publishing = {} /\ verifying = {} /\ payouts = {} /\ registering = {}
    /\ custody = 0 /\ balance = InitialBalance
    /\ registered = {a \in Accounts : InitialBalance[a] > 0}
    /\ onWire = {} /\ minted = [c \in Chains |-> 0] /\ burned = {}
    /\ now = 0 /\ free = InitialFree
    /\ deposits = [n \in 1..MaxCalls |-> 0]
    /\ unlocks = [d \in Digests |-> 0]
    /\ calls = 0 /\ issued = 0

-----------------------------------------------------------------------------
(* Owner methods. *)

\* Registers or replaces a peer; a new peer's window starts full, a known
\* one's is moved to the new limit.
SetPeer(c, pair, limit) ==
    /\ peers' = [peers EXCEPT ![c] = pair]
    /\ inbound' = [inbound EXCEPT ![c] =
                      IF peers[c] = NoPeer THEN NewWindow(limit, now)
                                           ELSE SetLimit(@, limit, now)]
    /\ UNCHANGED <<paused, seq, outbound, executed, claimable, claimEntries,
                   queuedAt, chainsInFlight, token, wormhole, now, free, history>>

SetOutboundLimit(limit) ==
    /\ outbound' = SetLimit(outbound, limit, now)
    /\ UNCHANGED <<paused, seq, peers, inbound, executed, claimable, claimEntries,
                   queuedAt, chainsInFlight, token, wormhole, now, free, history>>

SetInboundLimit(c, limit) ==
    /\ peers[c] # NoPeer
    /\ inbound' = [inbound EXCEPT ![c] = SetLimit(@, limit, now)]
    /\ UNCHANGED <<paused, seq, peers, outbound, executed, claimable, claimEntries,
                   queuedAt, chainsInFlight, token, wormhole, now, free, history>>

SetPaused(value) ==
    /\ paused' = value
    /\ UNCHANGED <<seq, peers, outbound, inbound, executed, claimable, claimEntries,
                   queuedAt, chainsInFlight, token, wormhole, now, free, history>>

-----------------------------------------------------------------------------
(* Paying out of custody. *)

\* pay_out_crediting: the chain [storage_deposit ->] ft_transfer -> on_paid,
\* which starts at its `first' stage, "register" or "transfer".
\* `held' is the NEAR kept of complete call `call' for a failed transfer.
\* The one yocto ft_transfer attaches (payout.rs:138) is not counted: `free' is
\* in the units of a storage price, far above it.
PayOutCrediting(to, credit, amount, first, why, call, held) ==
    /\ payouts' = payouts \cup
           {[no |-> issued + 1, to |-> to, credit |-> credit, amount |-> amount,
             stage |-> first,
             why |-> why, call |-> call, held |-> held]}
    /\ issued' = issued + 1

PayOut(to, amount, first, why, call, held) ==
    PayOutCrediting(to, to, amount, first, why, call, held)

MoveTo(p, stage) == payouts' = (payouts \ {p}) \cup {[p EXCEPT !.stage = stage]}

\* The token's storage_deposit(registration_only): an account already
\* registered, or a failure, sends the deposit back to the contract.
TokenRegister(p, ok) ==
    /\ p.stage = "register"
    /\ MoveTo(p, "transfer")
    /\ registered' = IF ok THEN registered \cup {p.to} ELSE registered
    /\ free' = IF ok /\ p.to \notin registered THEN free
                                               ELSE free + RegistrationDeposit
    /\ UNCHANGED <<contract, publishing, verifying, registering, custody, balance,
                   wormhole, now, history>>

\* The token's ft_transfer; it needs a registered receiver and may fail.
TokenTransfer(p, ok) ==
    /\ p.stage = "transfer"
    /\ ok => p.to \in registered /\ custody >= p.amount
    /\ MoveTo(p, IF ok THEN "paid" ELSE "unpaid")
    /\ IF ok
       THEN /\ custody' = custody - p.amount
            /\ balance' = [balance EXCEPT ![p.to] = @ + p.amount]
       ELSE UNCHANGED <<custody, balance>>
    /\ UNCHANGED <<contract, publishing, verifying, registering, registered,
                   wormhole, now, free, history>>

\* Mutant: a failed claim credits nothing, as if the entry had been kept.
CreditForgetsClaims(p) == [claimable EXCEPT ![p.credit] =
                              IF p.why = "claim" THEN @ ELSE @ + p.amount]

\* claimable once p's transfer failed.
Credited(p) == [claimable EXCEPT ![p.credit] = @ + p.amount]

\* The storage a failed transfer's credit takes: an entry that is not there.
CreditCost(p) ==
    IF p.stage = "unpaid" /\ p.credit \notin claimEntries THEN ClaimCost ELSE 0

\* What settling p takes from the contract's NEAR: the entry and, with a held
\* deposit, what is left of it.
SettleCost(p) == CreditCost(p) + SatSub(p.held, CreditCost(p))

Transferred(p) == p.stage \in {"paid", "unpaid"}

\* on_paid: a failed transfer credits claimable; a held deposit is returned
\* less the storage that took.
OnPaid(p) ==
    /\ Transferred(p)
    /\ SettleCost(p) <= free
    /\ payouts' = payouts \ {p}
    /\ IF p.stage = "unpaid"
       THEN /\ claimable' = Credited(p)
            /\ claimEntries' = claimEntries \cup {p.credit}
       ELSE UNCHANGED <<claimable, claimEntries>>
    /\ free' = free - SettleCost(p)
    /\ deposits' = IF p.call = NoCall THEN deposits
                   ELSE [deposits EXCEPT ![p.call] = @ - SettleCost(p)]
    /\ UNCHANGED <<paused, seq, peers, outbound, inbound, executed, queuedAt,
                   publishing, verifying, registering, token, wormhole, now,
                   unlocks, calls, issued>>

\* The receipt fails, credit and all, when the NEAR is not there.
OnPaidFails(p) ==
    /\ Transferred(p)
    /\ SettleCost(p) > free
    /\ payouts' = payouts \ {p}
    /\ UNCHANGED <<contract, publishing, verifying, registering, token, wormhole,
                   now, free, history>>

\* claim: the entry is zeroed, not removed, and paid out.
Claim(a) ==
    /\ issued < MaxPayouts
    /\ ~paused
    /\ claimable[a] > 0
    /\ claimable' = [claimable EXCEPT ![a] = 0]
    /\ PayOut(a, claimable[a], "transfer", "claim", NoCall, 0)
    /\ UNCHANGED <<paused, seq, peers, outbound, inbound, executed, claimEntries,
                   queuedAt, publishing, verifying, registering, token, wormhole,
                   now, free, deposits, unlocks, calls>>

-----------------------------------------------------------------------------
(* Outbound, NEAR -> peer. *)

LockedPart(amount, c) ==
    amount - Dust(amount, TokenDecimals, PairDecimals[peers[c]])

\* ft_transfer_call, ft_on_transfer and the token's return of the dust, which
\* the token nets into one movement.  A rejection refunds the whole amount.
FtOnTransfer(a, refundTo, c, amount) ==
    /\ seq < MaxSeq
    /\ amount <= balance[a] /\ a \in registered
    /\ ~paused
    /\ peers[c] # NoPeer
    /\ Trims(amount, TokenDecimals, PairDecimals[peers[c]])
    /\ LET locked == LockedPart(amount, c) IN
       /\ locked > 0
       /\ Fits(outbound, locked, now)
       /\ outbound' = Consume(outbound, locked, now)
       /\ inbound' = [inbound EXCEPT ![c] = Backflow(@, locked, now)]
       /\ publishing' = publishing \cup
              {[id |-> seq, sender |-> a, refundTo |-> refundTo, amount |-> locked,
                chain |-> c, stage |-> "publish",
                inboundBackflow |-> Backflowed(inbound[c], locked, now)]}
       /\ custody' = custody + locked
       /\ balance' = [balance EXCEPT ![a] = @ - locked]
    /\ seq' = seq + 1
    /\ UNCHANGED <<paused, peers, executed, claimable, claimEntries, queuedAt,
                   verifying, payouts, registering, registered, wormhole, now,
                   free, history>>

\* The core's publish_message: the message is on the wire, or the call failed.
Publish(t, ok) ==
    /\ t.stage = "publish"
    /\ publishing' = (publishing \ {t}) \cup
           {[t EXCEPT !.stage = IF ok THEN "sent" ELSE "failed"]}
    /\ onWire' = IF ok THEN onWire \cup {[id |-> t.id, chain |-> t.chain, amount |-> t.amount]}
                       ELSE onWire
    /\ UNCHANGED <<contract, verifying, payouts, registering, token, minted, burned,
                   now, free, history>>

\* Mutant: a refund whatever the core answered.
FailedAlways(t) == TRUE

Failed(t) == t.stage = "failed"

\* Mutant: on_published is chained to a success only.
PublishedSuccess(t) == t.stage = "sent"

Published(t) == t.stage \in {"sent", "failed"}

\* on_published: nothing after a success, the refund after a failure.
OnPublished(t) ==
    /\ Published(t)
    /\ publishing' = publishing \ {t}
    /\ IF ~Failed(t)
       THEN UNCHANGED <<outbound, inbound, payouts, issued>>
       ELSE /\ outbound' = Backflow(outbound, t.amount, now)
            /\ inbound' = [inbound EXCEPT ![t.chain] =
                              Debit(@, t.inboundBackflow, now)]
            /\ PayOutCrediting(t.refundTo, t.sender, t.amount, "transfer", "refund",
                               NoCall, 0)
    /\ UNCHANGED <<paused, seq, peers, executed, claimable, claimEntries, queuedAt,
                   verifying, registering, token, wormhole, now, free, deposits,
                   unlocks, calls>>

-----------------------------------------------------------------------------
(* Inbound, peer -> NEAR. *)

\* inbound_of: the message comes from the peer registered now, and unlocks
\* something.  (The message names its chain, its pair and its recipient.)
InboundOf(d) ==
    /\ peers[Msg[d].chain] = Msg[d].pair
    /\ UnlockAmount(d) > 0

Complete(d, deposit) ==
    /\ calls < MaxCalls
    /\ ~paused
    /\ InboundOf(d)
    /\ d \notin executed
    /\ deposit >= RegistrationDeposit + StorageAllowance
    /\ verifying' = verifying \cup
           {[no |-> calls + 1, digest |-> d, deposit |-> deposit,
             stage |-> "asked", verified |-> FALSE, storage |-> "none"]}
    /\ calls' = calls + 1
    /\ deposits' = [deposits EXCEPT ![calls + 1] = deposit]
    /\ free' = free + deposit
    /\ UNCHANGED <<contract, publishing, payouts, registering, token, wormhole, now,
                   unlocks, issued>>

\* The two answers of the joint promise.  The core vouches for a message its
\* peer really sent, or fails; the token answers with the registration it
\* sees now, fails, or returns what is no StorageBalance.
Answers(v, verified, storage) ==
    /\ v.stage = "asked"
    /\ verified => v.digest \in burned
    /\ storage = "some" => To(v.digest) \in registered
    /\ storage = "none" => To(v.digest) \notin registered
    /\ verifying' = (verifying \ {v}) \cup
           {[v EXCEPT !.stage = "answered", !.verified = verified, !.storage = storage]}
    /\ UNCHANGED <<contract, publishing, payouts, registering, token, wormhole, now,
                   free, history>>

Registers(v) == v.storage # "some"

\* Mutants: on_verified trusting what complete checked receipts ago.
ConsumableNoReplayCheck(v) ==
    /\ ~paused /\ v.verified /\ v.storage # "malformed" /\ InboundOf(v.digest)
ConsumableNoPauseCheck(v) ==
    /\ v.verified /\ v.storage # "malformed" /\ InboundOf(v.digest)
    /\ v.digest \notin executed
ConsumableNoPeerCheck(v) ==
    /\ ~paused /\ v.verified /\ v.storage # "malformed" /\ v.digest \notin executed

Consumable(v) ==
    /\ ~paused
    /\ v.verified
    /\ v.storage # "malformed"
    /\ InboundOf(v.digest)
    /\ v.digest \notin executed

Released(v) == Fits(inbound[Msg[v.digest].chain], UnlockAmount(v.digest), now)

\* What consuming v takes from its deposit, and what must be left of it.
Used(v) == ExecutedCost
           + (IF Released(v) THEN 0 ELSE QueueCost)
           + (IF Registers(v) THEN RegistrationDeposit ELSE 0)
Reserve(v) == IF Released(v) THEN ClaimReserve ELSE 0
Excess(v) == v.deposit - Used(v)

Accepts(v) == /\ Consumable(v)
              /\ v.deposit >= Used(v) + Reserve(v)
              /\ free >= (IF Released(v) THEN Used(v) ELSE v.deposit)

Settling(v, ok) == verifying' = (verifying \ {v}) \cup
                       {[v EXCEPT !.stage = IF ok THEN "done" ELSE "panicked"]}

\* on_verified, the amount fits the window: pay out now, holding the excess.
OnVerifiedUnlocks(v) ==
    LET d == v.digest  c == Msg[d].chain IN
    /\ v.stage = "answered"
    /\ Accepts(v) /\ Released(v)
    /\ executed' = executed \cup {d}
    /\ inbound' = [inbound EXCEPT ![c] = Consume(@, UnlockAmount(d), now)]
    /\ outbound' = Backflow(outbound, UnlockAmount(d), now)
    /\ PayOut(To(d), UnlockAmount(d), IF Registers(v) THEN "register" ELSE "transfer",
              "unlock", v.no, Excess(v))
    /\ unlocks' = [unlocks EXCEPT ![d] = @ + 1]
    /\ free' = free - Used(v)
    /\ deposits' = [deposits EXCEPT ![v.no] = @ - Used(v)]
    /\ Settling(v, TRUE)
    /\ UNCHANGED <<paused, seq, peers, claimable, claimEntries, queuedAt, publishing,
                   registering, token, wormhole, now, calls>>

\* on_verified, the amount does not fit: queue it, return the excess at once
\* and register the recipient for the release.
OnVerifiedQueues(v) ==
    LET d == v.digest IN
    /\ v.stage = "answered"
    /\ Accepts(v) /\ ~Released(v)
    /\ executed' = executed \cup {d}
    /\ queuedAt' = [queuedAt EXCEPT ![d] = now]
    /\ registering' = IF Registers(v) THEN registering \cup {d} ELSE registering
    /\ free' = free - v.deposit
    /\ deposits' = [deposits EXCEPT ![v.no] = @ - v.deposit]
    /\ Settling(v, TRUE)
    /\ UNCHANGED <<paused, seq, peers, outbound, inbound, claimable, claimEntries,
                   publishing, payouts, token, wormhole, now, unlocks, calls, issued>>

\* on_verified panics: the VAA stays unconsumed.
OnVerifiedPanics(v) ==
    /\ v.stage = "answered"
    /\ ~Accepts(v)
    /\ Settling(v, FALSE)
    /\ UNCHANGED <<contract, publishing, payouts, registering, token, wormhole, now,
                   free, history>>

\* Mutant: the refund whatever the outcome.
RefundsAlways(v) == v.deposit

Refund(v) == IF v.stage = "panicked" THEN v.deposit ELSE 0

\* on_complete_settled: the whole deposit comes back when on_verified did not
\* complete.  Without the NEAR for it, the refund's receipt fails.
OnCompleteSettled(v) ==
    /\ v.stage \in {"done", "panicked"}
    /\ verifying' = verifying \ {v}
    /\ IF Refund(v) <= free
       THEN /\ free' = free - Refund(v)
            /\ deposits' = [deposits EXCEPT ![v.no] = @ - Refund(v)]
       ELSE UNCHANGED <<free, deposits>>
    /\ UNCHANGED <<contract, publishing, payouts, registering, token, wormhole, now,
                   unlocks, calls, issued>>

\* The registration a queued transfer's deposit paid for, detached.
RegisterQueued(d, ok) ==
    /\ registering' = registering \ {d}
    /\ registered' = IF ok THEN registered \cup {To(d)} ELSE registered
    /\ free' = IF ok /\ To(d) \notin registered THEN free
                                                 ELSE free + RegistrationDeposit
    /\ UNCHANGED <<contract, publishing, verifying, payouts, custody, balance,
                   wormhole, now, history>>

\* release_inbound: a Day after it was queued, anyone pays the transfer out.
ReleaseInbound(d) ==
    /\ issued < MaxPayouts
    /\ ~paused
    /\ queuedAt[d] # NotQueued
    /\ now >= queuedAt[d] + Day
    /\ queuedAt' = [queuedAt EXCEPT ![d] = NotQueued]
    /\ free' = free + QueueCost
    /\ PayOut(To(d), UnlockAmount(d), "transfer", "release", NoCall, 0)
    /\ unlocks' = [unlocks EXCEPT ![d] = @ + 1]
    /\ UNCHANGED <<paused, seq, peers, outbound, inbound, executed, claimable,
                   claimEntries, publishing, verifying, registering, token, wormhole,
                   now, deposits, calls>>

-----------------------------------------------------------------------------
(* The rest of the world. *)

\* The peer mints what a message on the wire carries.
PeerMints(m) ==
    /\ onWire' = onWire \ {m}
    /\ minted' = [minted EXCEPT ![m.chain] = @ + m.amount]
    /\ UNCHANGED <<contract, chainsInFlight, token, burned, now, free, history>>

\* The peer burns, and the guardians sign the message of d.
PeerBurns(d) ==
    /\ d \notin burned
    /\ UnlockAmount(d) <= minted[Msg[d].chain]
    /\ burned' = burned \cup {d}
    /\ minted' = [minted EXCEPT ![Msg[d].chain] = @ - UnlockAmount(d)]
    /\ UNCHANGED <<contract, chainsInFlight, token, onWire, now, free, history>>

\* An account without tokens gives up its registration on the token.
Unregister(a) ==
    /\ a \in registered /\ balance[a] = 0
    /\ registered' = registered \ {a}
    /\ UNCHANGED <<contract, chainsInFlight, custody, balance, wormhole, now, free,
                   history>>

Tick ==
    /\ now < MaxTime
    /\ now' = now + 1
    /\ UNCHANGED <<contract, chainsInFlight, token, wormhole, free, history>>

-----------------------------------------------------------------------------
Owner ==
    \/ \E c \in Chains, pair \in Pairs, limit \in Limits : SetPeer(c, pair, limit)
    \/ \E limit \in Limits : SetOutboundLimit(limit)
    \/ \E c \in Chains, limit \in Limits : SetInboundLimit(c, limit)
    \/ \E value \in BOOLEAN : SetPaused(value)

Users ==
    \/ \E a, r \in Accounts, c \in Chains, amount \in Transfers :
           FtOnTransfer(a, r, c, amount)
    \/ \E d \in Digests, deposit \in Deposits : Complete(d, deposit)
    \/ \E d \in Digests : ReleaseInbound(d)
    \/ \E a \in Accounts : Claim(a)

\* The receipts the contract executes, which NEAR delivers.
Callbacks ==
    \/ \E t \in publishing : OnPublished(t)
    \/ \E v \in verifying :
           OnVerifiedUnlocks(v) \/ OnVerifiedQueues(v) \/ OnVerifiedPanics(v)
           \/ OnCompleteSettled(v)
    \/ \E p \in payouts : OnPaid(p) \/ OnPaidFails(p)

\* The receipts of the core and of the token.
External ==
    \/ \E t \in publishing, ok \in BOOLEAN : Publish(t, ok)
    \/ \E v \in verifying, verified \in BOOLEAN,
          storage \in {"some", "none", "failed", "malformed"} :
           Answers(v, verified, storage)
    \/ \E p \in payouts, ok \in BOOLEAN : TokenRegister(p, ok) \/ TokenTransfer(p, ok)
    \/ \E d \in registering, ok \in BOOLEAN : RegisterQueued(d, ok)

World ==
    \/ \E m \in onWire : PeerMints(m)
    \/ \E d \in Digests : PeerBurns(d)
    \/ \E a \in Accounts : Unregister(a)
    \/ Tick

Next == Owner \/ Users \/ Callbacks \/ External \/ World

Spec == Init /\ [][Next]_vars

\* NEAR executes every receipt it has accepted.
FairSpec == Spec /\ WF_vars(Callbacks) /\ WF_vars(External)

-----------------------------------------------------------------------------
(* Properties. *)

Stages == {"asked", "answered", "done", "panicked"}
Publishing == [id : Nat, sender : Accounts, refundTo : Accounts, amount : Nat,
               chain : Chains, stage : {"publish", "sent", "failed"},
               inboundBackflow : Nat]
Verifying == [no : 1..MaxCalls, digest : Digests, deposit : Nat, stage : Stages,
              verified : BOOLEAN, storage : {"some", "none", "failed", "malformed"}]
Payouts == [no : Nat, to : Accounts, credit : Accounts, amount : Nat,
            stage : {"register", "transfer", "paid", "unpaid"},
            why : {"unlock", "release", "claim", "refund"},
            call : 0..MaxCalls, held : Nat]

ContractTypes ==
    /\ paused \in BOOLEAN /\ seq \in Nat
    /\ peers \in [Chains -> Pairs \cup {NoPeer}]
    /\ outbound \in BoundedWindow /\ inbound \in [Chains -> BoundedWindow]
    /\ executed \subseteq Digests
    /\ claimable \in [Accounts -> Nat] /\ claimEntries \subseteq Accounts
    /\ queuedAt \in [Digests -> Nat \cup {NotQueued}]

FlightTypes ==
    /\ publishing \subseteq Publishing /\ verifying \subseteq Verifying
    /\ payouts \subseteq Payouts /\ registering \subseteq Digests

WorldTypes ==
    /\ custody \in Nat /\ balance \in [Accounts -> Nat]
    /\ registered \subseteq Accounts
    /\ onWire \subseteq [id : Nat, chain : Chains, amount : Nat]
    /\ minted \in [Chains -> Nat] /\ burned \subseteq Digests
    /\ now \in Nat /\ free \in Nat
    /\ deposits \in [1..MaxCalls -> Int]
    /\ unlocks \in [Digests -> Nat] /\ calls \in 0..MaxCalls /\ issued \in Nat

\* Type invariant: with it, no window holds more than its limit, and neither
\* the custody, a balance nor the contract's NEAR is ever overdrawn.
TypeOK == ContractTypes /\ FlightTypes /\ WorldTypes

\* What of a chain in flight is still the contract's to settle.
Unpaid(p) == IF p.stage = "paid" THEN 0 ELSE p.amount
Unsent(t) == IF t.stage = "sent" THEN 0 ELSE t.amount

\* Tokens the contract owes or will owe: minted on a peer or about to be,
\* burned and not consumed yet, queued, claimable, or in a chain in flight.
Owed ==
    SumFunction(minted)
    + SumFunction([m \in onWire |-> m.amount])
    + SumFunction([d \in burned \ executed |-> UnlockAmount(d)])
    + SumFunction([d \in QueuedDigests |-> UnlockAmount(d)])
    + SumFunction(claimable)
    + SumFunction([p \in payouts |-> Unpaid(p)])
    + SumFunction([t \in publishing |-> Unsent(t)])

\* "over-collateralised, never double-minted" (outbound.rs:3-7): through every
\* interleaving of sends, refunds, unlocks and claims the tokens held cover
\* everything owed.
Backed == custody >= Owed

\* "nothing is ever lost between receipts" (payout.rs:3): with the NEAR for
\* the entries, the tokens held are exactly what is owed.
NothingLost == custody = Owed

\* The replay key: a message is unlocked at most once, whether paid at once
\* or released later, only if its peer sent it, and never while it is queued.
UnlockedOnce ==
    \A d \in Digests :
        /\ unlocks[d] <= 1
        /\ unlocks[d] = 1 => d \in executed /\ d \in burned /\ d \notin QueuedDigests

\* What of call n's deposit its verification, or its payment, still holds.
Unspent(v, n) == IF v.no = n /\ v.stage # "done" THEN v.deposit ELSE 0
Kept(p, n) == IF p.call = n THEN p.held ELSE 0

HeldFor(n) == SumFunction([v \in verifying |-> Unspent(v, n)])
              + SumFunction([p \in payouts |-> Kept(p, n)])

\* A complete deposit is accounted for to the end: what is left of it is
\* what its chain still holds, and never less than nothing.  (The two refund
\* paths, on_complete_settled and on_paid, exclude each other.)
DepositAccounted ==
    \A n \in 1..MaxCalls : deposits[n] = HeldFor(n)

\* "it is always on hand when the refund goes out" (inbound.rs:11-14): of the
\* deposits the contract still holds, its free NEAR lacks at most what the
\* claimable entries of refused payments took, an entry for each account.
DepositsOnHand ==
    free + ClaimCost * Cardinality(claimEntries)
        >= SumFunction([n \in 1..MaxCalls |-> HeldFor(n)])

\* "`on_complete_settled` always has it on hand to refund" (docs/near-ntt/
\* spec.md:260), with no such proviso.
RefundOnHand == \A v \in verifying : v.stage = "panicked" => v.deposit <= free

\* No step taken while the contract is paused starts a payment out of
\* custody except the refund of a failed send, even the callbacks of calls
\* accepted before the pause.
PauseStopsUnlocks ==
    [][paused => \A p \in payouts' : p.no > issued => p.why = "refund"]_vars

\* A message consumed into the queue is only ever paid out a Day later: no
\* second complete, limit change or refill shortens its delay.
QueueDelayHonoured ==
    [][\A d \in QueuedDigests : unlocks'[d] > unlocks[d] => now >= queuedAt[d] + Day]_vars

\* A message is consumed, unlocked or queued, only while its pair is the
\* registered peer, even if the peer was replaced after complete accepted it
\* (on_verified, inbound.rs).  A message queued before the replacement is still
\* released: release_inbound asks for no peer.
StalePeerNeverConsumed ==
    [][\A d \in executed' \ executed : peers[Msg[d].chain] = Msg[d].pair]_vars

SendsSettle == \A n \in 0..MaxSeq :
    (\E t \in publishing : t.id = n) ~> ~(\E t \in publishing : t.id = n)
CallsSettle == \A n \in 1..MaxCalls :
    (deposits[n] > 0) ~> (deposits[n] = 0 \/ free < deposits[n])
PayoutsSettle == \A n \in 1..MaxPayouts :
    (\E p \in payouts : p.no = n) ~> ~(\E p \in payouts : p.no = n)
\* Liveness: NEAR executing its receipts, every accepted send is published
\* or its refund is on its way, every complete call ends with its deposit
\* spent or returned, unless the contract lacks the NEAR for it, and every
\* payment reaches its account or its claimable entry.
ReceiptsSettle == SendsSettle /\ CallsSettle /\ PayoutsSettle
=============================================================================
