-------------------------- MODULE NttManagerProofs --------------------------
(***************************************************************************)
(* Theorems about NttManager and, at the end, about one window under every *)
(* sequence of calls (RateLimitWindow), for every value of their constants.*)
(***************************************************************************)
EXTENDS NttManager, RateLimitWindow, SumLemmas

-----------------------------------------------------------------------------
(* What every method of rate_limit.rs returns: a window within its limit,  *)
(* for every limit, amount and time, saturation included.                  *)

\* Saturating at MaxUint, then capping at the limit, gives a capacity in
\* 0..limit.
LEMMA CapacityBounded ==
    ASSUME NEW w \in Window, NEW t \in Nat
    PROVE  Capacity(w, t) \in 0..w.limit
<1> DEFINE product == w.limit * SatSub(t, w.last_tx_at)
<1>1. /\ w.limit \in Nat /\ w.limit <= MaxUint /\ w.capacity \in Nat
      /\ w.last_tx_at \in Nat
  BY RateLimitAssumption DEF Window, Amount
<1>2. SatSub(t, w.last_tx_at) \in Nat
  BY <1>1 DEF SatSub
<1>3. product \in Nat
  BY <1>1, <1>2
<1> HIDE DEF product
<1>4. Saturate(product) \in Nat
  BY <1>3, RateLimitAssumption DEF Saturate
<1>5. Saturate(product) \div Day \in Nat
  BY <1>4, RateLimitAssumption
<1>6. Refill(w, t) \in Nat
  BY <1>5 DEF Refill, product
<1> QED
  BY <1>1, <1>6, RateLimitAssumption DEF Capacity, AtMost, Saturate

\* new
LEMMA NewWindowBounded ==
    ASSUME NEW limit \in Amount, NEW t \in Nat
    PROVE  NewWindow(limit, t) \in BoundedWindow
  BY RateLimitAssumption DEF NewWindow, BoundedWindow, Window, Amount

\* What every mutation stores, given a capacity within the limit.
LEMMA StoreBounded ==
    ASSUME NEW w \in BoundedWindow, NEW t \in Nat, NEW capacity \in 0..w.limit
    PROVE  /\ Store(w, capacity, t) \in BoundedWindow
           /\ Store(w, capacity, t).capacity = capacity
<1>1. w \in Window /\ w.limit \in Nat /\ w.limit <= MaxUint
  BY RateLimitAssumption DEF BoundedWindow, Window, Amount
<1>2. capacity \in Amount /\ capacity <= w.limit
  BY <1>1, RateLimitAssumption DEF Amount
<1>3. w.limit \in Amount
  BY <1>1 DEF Window
<1> QED
  BY <1>2, <1>3 DEF Store, BoundedWindow, Window

\* consume, under its own check (rate_limit.rs:35-43): a window within its
\* limit stays so, and the capacity read from then on is less by exactly the
\* amount, whatever had been refilled and whether or not the refill saturated.
LEMMA ConsumeExact ==
    ASSUME NEW w \in BoundedWindow, NEW t \in Nat, NEW amount \in Nat,
           Fits(w, amount, t)
    PROVE  /\ Consume(w, amount, t) \in BoundedWindow
           /\ Capacity(Consume(w, amount, t), t) = Capacity(w, t) - amount
<1> DEFINE left == Capacity(w, t) - amount
<1>1. w \in Window /\ w.limit \in Nat /\ w.limit <= MaxUint
  BY RateLimitAssumption DEF BoundedWindow, Window, Amount
<1>2. left \in 0..w.limit
  BY <1>1, CapacityBounded DEF Fits
<1>3. Consume(w, amount, t) \in BoundedWindow
  BY <1>2, StoreBounded DEF Consume
<1>4. /\ Consume(w, amount, t).limit = w.limit /\ Consume(w, amount, t).capacity = left
      /\ Consume(w, amount, t).last_tx_at = t
  BY DEF Consume, Store
\* Nothing is refilled in the instant of the call.
<1>5. Refill(Consume(w, amount, t), t) = 0
  <2>1. SatSub(t, t) = 0 /\ w.limit * 0 = 0 /\ Saturate(0) = 0
    BY <1>1, RateLimitAssumption DEF SatSub, Saturate
  <2>2. 0 \div Day = 0
    BY RateLimitAssumption
  <2> QED
    BY <1>4, <2>1, <2>2 DEF Refill
<1> HIDE DEF left
<1>6. AtMost(Saturate(left + 0), w.limit) = left
  BY <1>1, <1>2, RateLimitAssumption DEF AtMost, Saturate
<1>7. Capacity(Consume(w, amount, t), t) = left
  BY <1>4, <1>5, <1>6 DEF Capacity
<1> QED
  BY <1>3, <1>7 DEF left

\* backflow adds no less than nothing: its result is what a debit may take.
LEMMA BackflowBounded ==
    ASSUME NEW w \in BoundedWindow, NEW t \in Nat, NEW amount \in Nat
    PROVE  /\ Backflow(w, amount, t) \in BoundedWindow
           /\ Backflowed(w, amount, t) \in Nat
           /\ Backflowed(w, amount, t) <= amount
<1> DEFINE capacity == AtMost(Saturate(Capacity(w, t) + amount), w.limit)
<1>1. w \in Window /\ w.limit \in Nat /\ w.limit <= MaxUint
  BY RateLimitAssumption DEF BoundedWindow, Window, Amount
<1>2. Capacity(w, t) \in 0..w.limit
  BY <1>1, CapacityBounded
<1>3. capacity \in 0..w.limit
  BY <1>1, <1>2, RateLimitAssumption DEF AtMost, Saturate
<1>4. /\ capacity - Capacity(w, t) \in Nat
      /\ capacity - Capacity(w, t) <= amount
  BY <1>1, <1>2, RateLimitAssumption DEF AtMost, Saturate
<1> QED
  BY <1>3, <1>4, StoreBounded DEF Backflow, Backflowed

\* debit
LEMMA DebitBounded ==
    ASSUME NEW w \in BoundedWindow, NEW t \in Nat, NEW amount \in Nat
    PROVE  Debit(w, amount, t) \in BoundedWindow
<1>1. w \in Window /\ w.limit \in Nat
  BY RateLimitAssumption DEF BoundedWindow, Window, Amount
<1>2. SatSub(Capacity(w, t), amount) \in 0..w.limit
  BY <1>1, CapacityBounded DEF SatSub
<1> QED
  BY <1>2, StoreBounded DEF Debit

\* set_limit
LEMMA SetLimitBounded ==
    ASSUME NEW w \in BoundedWindow, NEW t \in Nat, NEW limit \in Amount
    PROVE  SetLimit(w, limit, t) \in BoundedWindow
<1>1. w \in Window /\ w.limit \in Nat /\ limit \in Nat /\ limit <= MaxUint
  BY RateLimitAssumption DEF BoundedWindow, Window, Amount
<1>2. Capacity(w, t) \in 0..w.limit
  BY <1>1, CapacityBounded
<1>3. SetLimit(w, limit, t).capacity \in 0..limit
  BY <1>1, <1>2 DEF SetLimit, SatSub
<1> QED
  BY <1>1, <1>3, RateLimitAssumption DEF SetLimit, BoundedWindow, Window, Amount

-----------------------------------------------------------------------------
(* The helpers of the model. *)

\* Rescaling a natural number gives a natural number.
LEMMA ScaleNat ==
    ASSUME NEW amount \in Nat, NEW from \in Decimals, NEW to \in Decimals
    PROVE  Scale(amount, from, to) \in Nat
<1>1. CASE from = to
  BY <1>1 DEF Scale
<1>2. CASE from > to
  <2> DEFINE unit == 10^(from - to)
  <2>1. from - to \in Decimals
    BY <1>2, TrimmedAssumption DEF Decimals
  <2>2. unit \in Nat \ {0}
    BY <2>1, TrimmedAssumption
  <2>3. Scale(amount, from, to) = amount \div unit
    BY <1>2 DEF Scale, Decimals
  <2> HIDE DEF unit
  <2> QED
    BY <2>2, <2>3
<1>3. CASE from < to
  <2> DEFINE unit == 10^(to - from)
  <2>1. to - from \in Decimals
    BY <1>3, TrimmedAssumption DEF Decimals
  <2>2. unit \in Nat \ {0}
    BY <2>1, TrimmedAssumption
  <2>3. Scale(amount, from, to) = amount * unit
    BY <1>3 DEF Scale, Decimals
  <2> HIDE DEF unit
  <2> QED
    BY <2>2, <2>3
<1> QED
  BY <1>1, <1>2, <1>3, TrimmedAssumption DEF Decimals

\* Scaling down and back up never gives more than there was.
LEMMA RoundTrip ==
    ASSUME NEW amount \in Nat, NEW from \in Decimals, NEW to \in Decimals, to <= from
    PROVE  Scale(Scale(amount, from, to), to, from) \in 0..amount
<1>1. CASE from = to
  BY <1>1 DEF Scale
<1>2. CASE from > to
  <2> DEFINE unit == 10^(from - to)
  <2>1. from - to \in Decimals
    BY <1>2, TrimmedAssumption DEF Decimals
  <2>2. unit \in Nat \ {0}
    BY <2>1, TrimmedAssumption
  <2>3. /\ Scale(amount, from, to) = amount \div unit
        /\ Scale(amount \div unit, to, from) = (amount \div unit) * unit
    BY <1>2 DEF Scale, Decimals
  <2> HIDE DEF unit
  <2>4. (amount \div unit) * unit \in 0..amount
    BY <2>2
  <2> QED
    BY <2>3, <2>4
<1> QED
  BY <1>1, <1>2, TrimmedAssumption DEF Decimals

\* What an inbound message unlocks is an amount.
LEMMA UnlockAmountNat ==
    ASSUME NEW d \in Digests
    PROVE  UnlockAmount(d) \in Nat
  BY ScaleNat, NttAssumption, MsgAssumption DEF UnlockAmount, Untrim

\* What an outbound transfer locks is at most what was sent.
LEMMA LockedBounded ==
    ASSUME NEW amount \in Nat, NEW from \in Decimals, NEW to \in Decimals
    PROVE  amount - Dust(amount, from, to) \in 0..amount
<1> DEFINE decimals == Least(TrimmedDecimals, Least(to, from))
<1>1. decimals \in Decimals /\ decimals <= from
  BY TrimmedAssumption DEF Least, Decimals
<1>2. Dust(amount, from, to)
        = amount - Scale(Scale(amount, from, decimals), decimals, from)
  BY DEF Dust, Untrim, TrimmedOf, decimals
<1> HIDE DEF decimals
<1>3. Scale(Scale(amount, from, decimals), decimals, from) \in 0..amount
  BY <1>1, RoundTrip
<1> QED
  BY <1>2, <1>3


-----------------------------------------------------------------------------
(* Every action keeps the type invariant. *)

\* The set updates that many handlers share.
LEMMA PayOutTypes ==
    ASSUME TypeOK, NEW to \in Accounts, NEW credit \in Accounts, NEW amount \in Nat,
           NEW first \in {"register", "transfer"},
           NEW why \in {"unlock", "release", "claim", "refund"},
           NEW call \in 0..MaxCalls, NEW held \in Nat,
           PayOutCrediting(to, credit, amount, first, why, call, held)
    PROVE  payouts' \subseteq Payouts /\ issued' \in Nat
<1> DEFINE new == [no |-> issued + 1, to |-> to, credit |-> credit, amount |-> amount,
                   stage |-> first,
                   why |-> why, call |-> call, held |-> held]
<1>1. issued \in Nat /\ payouts \subseteq Payouts
  BY DEF TypeOK, FlightTypes, WorldTypes
<1>2. new \in Payouts
  BY <1>1 DEF Payouts
<1> QED
  BY <1>1, <1>2 DEF PayOutCrediting

LEMMA MoveToTypes ==
    ASSUME TypeOK, NEW p \in payouts,
           NEW stage \in {"register", "transfer", "paid", "unpaid"}, MoveTo(p, stage)
    PROVE  payouts' \subseteq Payouts
<1>1. p \in Payouts /\ payouts \subseteq Payouts
  BY DEF TypeOK, FlightTypes
<1>2. [p EXCEPT !.stage = stage] \in Payouts
  BY <1>1 DEF Payouts
<1> QED
  BY <1>1, <1>2 DEF MoveTo

\* set_peer
LEMMA SetPeerTypes ==
    ASSUME TypeOK, NEW c \in Chains, NEW pair \in Pairs, NEW limit \in Limits, SetPeer(c, pair, limit)
    PROVE  TypeOK'
  BY NttAssumption, NewWindowBounded, SetLimitBounded
  DEF TypeOK, ContractTypes, FlightTypes, WorldTypes,
         contract, chainsInFlight, token, wormhole, history,
         SetPeer

\* set_outbound_limit
LEMMA SetOutboundLimitTypes ==
    ASSUME TypeOK, NEW limit \in Limits, SetOutboundLimit(limit)
    PROVE  TypeOK'
  BY NttAssumption, SetLimitBounded
  DEF TypeOK, ContractTypes, FlightTypes, WorldTypes,
         contract, chainsInFlight, token, wormhole, history,
         SetOutboundLimit

\* set_inbound_limit
LEMMA SetInboundLimitTypes ==
    ASSUME TypeOK, NEW c \in Chains, NEW limit \in Limits, SetInboundLimit(c, limit)
    PROVE  TypeOK'
  BY NttAssumption, SetLimitBounded
  DEF TypeOK, ContractTypes, FlightTypes, WorldTypes,
         contract, chainsInFlight, token, wormhole, history,
         SetInboundLimit

\* pause, unpause
LEMMA SetPausedTypes ==
    ASSUME TypeOK, NEW value \in BOOLEAN, SetPaused(value)
    PROVE  TypeOK'
  BY DEF TypeOK, ContractTypes, FlightTypes, WorldTypes,
         contract, chainsInFlight, token, wormhole, history,
         SetPaused

\* the joint promise
LEMMA AnswersTypes ==
    ASSUME TypeOK, NEW v \in verifying, NEW verified \in BOOLEAN,
           NEW storage \in {"some", "none", "failed", "malformed"}, Answers(v, verified, storage)
    PROVE  TypeOK'
  BY DEF TypeOK, ContractTypes, FlightTypes, WorldTypes,
         contract, chainsInFlight, token, wormhole, history,
         Answers, Verifying, Stages

\* on_verified, panicking
LEMMA OnVerifiedPanicsTypes ==
    ASSUME TypeOK, NEW v \in verifying, OnVerifiedPanics(v)
    PROVE  TypeOK'
  BY DEF TypeOK, ContractTypes, FlightTypes, WorldTypes,
         contract, chainsInFlight, token, wormhole, history,
         OnVerifiedPanics, Settling, Verifying, Stages

\* on_complete_settled
LEMMA OnCompleteSettledTypes ==
    ASSUME TypeOK, NEW v \in verifying, OnCompleteSettled(v)
    PROVE  TypeOK'
  BY DEF TypeOK, ContractTypes, FlightTypes, WorldTypes,
         contract, chainsInFlight, token, wormhole, history,
         OnCompleteSettled, Refund, Verifying, Stages

\* on_paid, failing
LEMMA OnPaidFailsTypes ==
    ASSUME TypeOK, NEW p \in payouts, OnPaidFails(p)
    PROVE  TypeOK'
  BY DEF TypeOK, ContractTypes, FlightTypes, WorldTypes,
         contract, chainsInFlight, token, wormhole, history,
         OnPaidFails

\* the peer's mint
LEMMA PeerMintsTypes ==
    ASSUME TypeOK, NEW m \in onWire, PeerMints(m)
    PROVE  TypeOK'
  BY DEF TypeOK, ContractTypes, FlightTypes, WorldTypes,
         contract, chainsInFlight, token, wormhole, history,
         PeerMints

\* the peer's burn
LEMMA PeerBurnsTypes ==
    ASSUME TypeOK, NEW d \in Digests, PeerBurns(d)
    PROVE  TypeOK'
  BY UnlockAmountNat, MsgAssumption
  DEF TypeOK, ContractTypes, FlightTypes, WorldTypes,
         contract, chainsInFlight, token, wormhole, history,
         PeerBurns

\* the token's storage_unregister
LEMMA UnregisterTypes ==
    ASSUME TypeOK, NEW a \in Accounts, Unregister(a)
    PROVE  TypeOK'
  BY DEF TypeOK, ContractTypes, FlightTypes, WorldTypes,
         contract, chainsInFlight, token, wormhole, history,
         Unregister

\* the clock
LEMMA TickTypes ==
    ASSUME TypeOK, Tick
    PROVE  TypeOK'
  BY DEF TypeOK, ContractTypes, FlightTypes, WorldTypes,
         contract, chainsInFlight, token, wormhole, history,
         Tick

\* claim
LEMMA ClaimTypes ==
    ASSUME TypeOK, NEW a \in Accounts, Claim(a)
    PROVE  TypeOK'
<1>1. claimable[a] \in Nat
  BY DEF TypeOK, ContractTypes
<1>2. payouts' \subseteq Payouts /\ issued' \in Nat
  <2>1. /\ PayOutCrediting(a, a, claimable[a], "transfer", "claim", NoCall, 0)
        /\ NoCall \in 0..MaxCalls
    BY NttAssumption DEF Claim, PayOut, NoCall
  <2> QED
    BY <1>1, <2>1, PayOutTypes
<1>3. /\ claimable' = [claimable EXCEPT ![a] = 0]
      /\ UNCHANGED <<paused, seq, peers, outbound, inbound, executed, claimEntries,
                     queuedAt>>
      /\ UNCHANGED <<publishing, verifying, registering>>
      /\ UNCHANGED <<custody, balance, registered, onWire, minted, burned, now, free,
                     deposits, unlocks, calls>>
  BY DEF Claim, token, wormhole
<1>4. ContractTypes'
  BY <1>3 DEF TypeOK, ContractTypes
<1>5. FlightTypes'
  BY <1>2, <1>3 DEF TypeOK, FlightTypes
<1>6. WorldTypes'
  BY <1>2, <1>3 DEF TypeOK, WorldTypes
<1> QED
  BY <1>4, <1>5, <1>6 DEF TypeOK

\* storage_deposit
LEMMA TokenRegisterTypes ==
    ASSUME TypeOK, NEW p \in payouts, NEW ok \in BOOLEAN, TokenRegister(p, ok)
    PROVE  TypeOK'
<1>1. payouts' \subseteq Payouts
  BY MoveToTypes DEF TokenRegister
<1>2. p.to \in Accounts
  BY DEF TypeOK, FlightTypes, Payouts
<1>3. registered' \subseteq Accounts /\ free' \in Nat
  <2>1. /\ registered \subseteq Accounts
        /\ free \in Nat /\ free + RegistrationDeposit \in Nat
    BY NttAssumption DEF TypeOK, WorldTypes
  <2>2. /\ registered' \in {registered, registered \cup {p.to}}
        /\ free' \in {free, free + RegistrationDeposit}
    BY DEF TokenRegister
  <2> QED
    BY <1>2, <2>1, <2>2
<1>4. ContractTypes'
  BY DEF TokenRegister, TypeOK, ContractTypes, contract
<1>5. FlightTypes'
  BY <1>1 DEF TokenRegister, TypeOK, FlightTypes
<1>6. WorldTypes'
  BY <1>3 DEF TokenRegister, TypeOK, WorldTypes, wormhole, history
<1> QED
  BY <1>4, <1>5, <1>6 DEF TypeOK

\* ft_transfer
LEMMA TokenTransferTypes ==
    ASSUME TypeOK, NEW p \in payouts, NEW ok \in BOOLEAN, TokenTransfer(p, ok)
    PROVE  TypeOK'
<1>1. payouts' \subseteq Payouts
  BY MoveToTypes DEF TokenTransfer
<1>2. p.to \in Accounts /\ p.amount \in Nat
  BY DEF TypeOK, FlightTypes, Payouts
<1>3. custody' \in Nat /\ balance' \in [Accounts -> Nat]
  <2>1. CASE ok
    BY <1>2, <2>1 DEF TokenTransfer, TypeOK, WorldTypes
  <2>2. CASE ~ok
    BY <2>2 DEF TokenTransfer, TypeOK, WorldTypes
  <2> QED
    BY <2>1, <2>2
<1>4. ContractTypes'
  BY DEF TokenTransfer, TypeOK, ContractTypes, contract
<1>5. FlightTypes'
  BY <1>1 DEF TokenTransfer, TypeOK, FlightTypes
<1>6. WorldTypes'
  BY <1>3 DEF TokenTransfer, TypeOK, WorldTypes, wormhole, history
<1> QED
  BY <1>4, <1>5, <1>6 DEF TypeOK

\* What settling a pay-out costs is NEAR.
LEMMA SettleCostNat ==
    ASSUME TypeOK, NEW p \in payouts
    PROVE  SettleCost(p) \in Nat
<1>1. p.held \in Nat
  BY DEF TypeOK, FlightTypes, Payouts
<1> QED
  BY <1>1, NttAssumption DEF SettleCost, CreditCost, SatSub

\* on_paid
LEMMA OnPaidTypes ==
    ASSUME TypeOK, NEW p \in payouts, OnPaid(p)
    PROVE  TypeOK'
<1>1. p.credit \in Accounts /\ p.amount \in Nat /\ p.call \in 0..MaxCalls
  BY DEF TypeOK, FlightTypes, Payouts
<1>2. SettleCost(p) \in Nat
  BY SettleCostNat
<1>3. claimable' \in [Accounts -> Nat] /\ claimEntries' \subseteq Accounts
  BY <1>1 DEF OnPaid, Credited, TypeOK, ContractTypes
<1>4. free' \in Nat
  BY <1>2 DEF OnPaid, TypeOK, WorldTypes
<1>5. deposits' \in [1..MaxCalls -> Int]
  <2>1. CASE p.call = NoCall
    BY <2>1 DEF OnPaid, TypeOK, WorldTypes
  <2>2. CASE p.call # NoCall
    <3>1. p.call \in 1..MaxCalls
      BY <1>1, <2>2, NttAssumption DEF NoCall
    <3> QED
      BY <1>2, <2>2, <3>1 DEF OnPaid, TypeOK, WorldTypes
  <2> QED
    BY <2>1, <2>2
<1>6. payouts' \subseteq Payouts
  BY DEF OnPaid, TypeOK, FlightTypes
<1>7. ContractTypes'
  BY <1>3 DEF OnPaid, TypeOK, ContractTypes
<1>8. FlightTypes'
  BY <1>6 DEF OnPaid, TypeOK, FlightTypes
<1>9. WorldTypes'
  BY <1>4, <1>5 DEF OnPaid, TypeOK, WorldTypes, token, wormhole
<1> QED
  BY <1>7, <1>8, <1>9 DEF TypeOK

\* ft_on_transfer
LEMMA FtOnTransferTypes ==
    ASSUME TypeOK, NEW a \in Accounts, NEW r \in Accounts, NEW c \in Chains,
           NEW amount \in Transfers, FtOnTransfer(a, r, c, amount)
    PROVE  TypeOK'
<1> DEFINE locked == LockedPart(amount, c)
           new == [id |-> seq, sender |-> a, refundTo |-> r, amount |-> locked,
                   chain |-> c, stage |-> "publish",
                   inboundBackflow |-> Backflowed(inbound[c], locked, now)]
<1>1. peers[c] \in Pairs
  BY DEF FtOnTransfer, TypeOK, ContractTypes
<1>2. locked \in Nat /\ locked <= amount
  <2>1. amount \in Nat /\ PairDecimals[peers[c]] \in Decimals
    BY <1>1, NttAssumption
  <2>2. amount - Dust(amount, TokenDecimals, PairDecimals[peers[c]]) \in 0..amount
    BY <2>1, LockedBounded, NttAssumption
  <2> QED
    BY <2>1, <2>2 DEF LockedPart
<1>3. /\ outbound \in BoundedWindow /\ inbound[c] \in BoundedWindow
      /\ now \in Nat /\ seq \in Nat /\ amount \in Nat /\ balance[a] \in Nat
      /\ custody \in Nat /\ amount <= balance[a]
  BY NttAssumption DEF FtOnTransfer, TypeOK, ContractTypes, WorldTypes
<1>4. /\ Fits(outbound, locked, now)
      /\ outbound' = Consume(outbound, locked, now)
      /\ inbound' = [inbound EXCEPT ![c] = Backflow(inbound[c], locked, now)]
      /\ publishing' = publishing \cup {new}
      /\ custody' = custody + locked
      /\ balance' = [balance EXCEPT ![a] = balance[a] - locked]
      /\ seq' = seq + 1
      /\ UNCHANGED <<paused, peers, executed, claimable, claimEntries, queuedAt>>
      /\ UNCHANGED <<verifying, payouts, registering>>
      /\ UNCHANGED <<registered, onWire, minted, burned, now, free>>
      /\ UNCHANGED <<deposits, unlocks, calls, issued>>
  BY DEF FtOnTransfer, wormhole, history
<1> HIDE DEF locked
<1>5. outbound' \in BoundedWindow
  BY <1>2, <1>3, <1>4, ConsumeExact
<1>6. inbound' \in [Chains -> BoundedWindow]
  <2>1. Backflow(inbound[c], locked, now) \in BoundedWindow
    BY <1>2, <1>3, BackflowBounded
  <2> QED
    BY <2>1, <1>4 DEF TypeOK, ContractTypes
<1>7. publishing' \subseteq Publishing
  <2>1. Backflowed(inbound[c], locked, now) \in Nat
    BY <1>2, <1>3, BackflowBounded
  <2>2. new \in Publishing
    BY <2>1, <1>2, <1>3 DEF Publishing
  <2> QED
    BY <2>2, <1>4 DEF TypeOK, FlightTypes
<1>8. custody' \in Nat /\ balance' \in [Accounts -> Nat]
  BY <1>2, <1>3, <1>4 DEF TypeOK, WorldTypes
<1> HIDE DEF new
<1>9. ContractTypes'
  BY <1>3, <1>4, <1>5, <1>6 DEF TypeOK, ContractTypes
<1>10. FlightTypes'
  BY <1>4, <1>7 DEF TypeOK, FlightTypes
<1>11. WorldTypes'
  BY <1>4, <1>8 DEF TypeOK, WorldTypes
<1> QED
  BY <1>9, <1>10, <1>11 DEF TypeOK

\* publish_message
LEMMA PublishTypes ==
    ASSUME TypeOK, NEW t \in publishing, NEW ok \in BOOLEAN, Publish(t, ok)
    PROVE  TypeOK'
<1>1. t \in Publishing /\ publishing \subseteq Publishing
  BY DEF TypeOK, FlightTypes
<1>2. /\ [t EXCEPT !.stage = IF ok THEN "sent" ELSE "failed"] \in Publishing
      /\ [id |-> t.id, chain |-> t.chain, amount |-> t.amount]
            \in [id : Nat, chain : Chains, amount : Nat]
  BY <1>1 DEF Publishing
<1>3. publishing' \subseteq Publishing
  BY <1>1, <1>2 DEF Publish
<1>4. onWire' \subseteq [id : Nat, chain : Chains, amount : Nat]
  BY <1>2 DEF Publish, TypeOK, WorldTypes
<1> QED
  BY <1>3, <1>4 DEF Publish, TypeOK, ContractTypes, FlightTypes, WorldTypes,
         contract, token, history

\* on_published
LEMMA OnPublishedTypes ==
    ASSUME TypeOK, NEW t \in publishing, OnPublished(t)
    PROVE  TypeOK'
<1>1. /\ t.sender \in Accounts /\ t.refundTo \in Accounts /\ t.amount \in Nat
      /\ t.chain \in Chains /\ t.inboundBackflow \in Nat
  BY DEF TypeOK, FlightTypes, Publishing
<1>2. publishing' \subseteq Publishing
  BY DEF OnPublished, TypeOK, FlightTypes
<1>3. CASE ~Failed(t)
  BY <1>2, <1>3 DEF OnPublished, TypeOK, ContractTypes, FlightTypes, WorldTypes,
         token, wormhole
<1>4. CASE Failed(t)
  <2>1. payouts' \subseteq Payouts /\ issued' \in Nat
    BY <1>1, <1>4, PayOutTypes, NttAssumption DEF OnPublished, NoCall
  <2>a. now \in Nat /\ outbound \in BoundedWindow /\ inbound[t.chain] \in BoundedWindow
    BY <1>1 DEF TypeOK, ContractTypes, WorldTypes
  <2>b. /\ outbound' = Backflow(outbound, t.amount, now)
        /\ inbound' = [inbound EXCEPT ![t.chain] =
                          Debit(inbound[t.chain], t.inboundBackflow, now)]
    BY <1>4 DEF OnPublished
  <2>2. outbound' \in BoundedWindow
    BY <1>1, <2>a, <2>b, BackflowBounded
  <2>3. inbound' \in [Chains -> BoundedWindow]
    <3>1. Debit(inbound[t.chain], t.inboundBackflow, now) \in BoundedWindow
      BY <1>1, <2>a, DebitBounded
    <3> QED
      BY <3>1, <2>b DEF TypeOK, ContractTypes
  <2> QED
    BY <1>2, <2>1, <2>2, <2>3 DEF OnPublished, TypeOK, ContractTypes, FlightTypes,
           WorldTypes, token, wormhole
<1> QED
  BY <1>3, <1>4

\* complete
LEMMA CompleteTypes ==
    ASSUME TypeOK, NEW d \in Digests, NEW deposit \in Deposits, Complete(d, deposit)
    PROVE  TypeOK'
<1> DEFINE new == [no |-> calls + 1, digest |-> d, deposit |-> deposit,
                   stage |-> "asked", verified |-> FALSE, storage |-> "none"]
<1>1. deposit \in Nat /\ calls + 1 \in 1..MaxCalls
  BY NttAssumption DEF Complete, TypeOK, WorldTypes
<1>2. new \in Verifying
  BY <1>1 DEF Verifying, Stages
<1>3. verifying' \subseteq Verifying
  BY <1>2 DEF Complete, TypeOK, FlightTypes
<1> QED
  BY <1>1, <1>3 DEF Complete, TypeOK, ContractTypes, FlightTypes, WorldTypes,
         contract, token, wormhole

\* on_verified: what it uses of the deposit.
LEMMA UsedNat ==
    ASSUME NEW v \in Verifying
    PROVE  Used(v) \in Nat /\ Reserve(v) \in Nat
  BY NttAssumption DEF Used, Reserve

\* on_verified, paying out
LEMMA OnVerifiedUnlocksTypes ==
    ASSUME TypeOK, NEW v \in verifying, OnVerifiedUnlocks(v)
    PROVE  TypeOK'
<1> DEFINE d == v.digest
           c == Msg[d].chain
<1>1. /\ v \in Verifying /\ d \in Digests /\ v.no \in 1..MaxCalls
      /\ v.deposit \in Nat /\ c \in Chains /\ To(d) \in Accounts
  BY MsgAssumption DEF TypeOK, FlightTypes, Verifying, To
<1>2. UnlockAmount(d) \in Nat /\ Used(v) \in Nat /\ Reserve(v) \in Nat
  BY <1>1, UnlockAmountNat, UsedNat
<1>3. /\ v.deposit >= Used(v) + Reserve(v) /\ free >= Used(v)
      /\ Fits(inbound[c], UnlockAmount(d), now)
  BY DEF OnVerifiedUnlocks, Accepts, Released
<1>4. Excess(v) \in Nat
  BY <1>1, <1>2, <1>3 DEF Excess
<1>5. payouts' \subseteq Payouts /\ issued' \in Nat
  <2>1. (IF Registers(v) THEN "register" ELSE "transfer") \in {"register", "transfer"}
    OBVIOUS
  <2> QED
    BY <2>1, <1>1, <1>2, <1>4, PayOutTypes, NttAssumption DEF OnVerifiedUnlocks, PayOut
<1>6. verifying' \subseteq Verifying
  BY <1>1 DEF OnVerifiedUnlocks, Settling, Verifying, Stages, TypeOK, FlightTypes
<1>7. inbound' \in [Chains -> BoundedWindow]
  BY <1>1, <1>2, <1>3, ConsumeExact
  DEF OnVerifiedUnlocks, TypeOK, ContractTypes, WorldTypes
<1>8. outbound' \in BoundedWindow
  BY <1>2, BackflowBounded DEF OnVerifiedUnlocks, TypeOK, ContractTypes, WorldTypes
<1>9. free' \in Nat /\ deposits' \in [1..MaxCalls -> Int]
  <2>1. free \in Nat /\ deposits \in [1..MaxCalls -> Int]
    BY DEF TypeOK, WorldTypes
  <2>2. /\ free' = free - Used(v)
        /\ deposits' = [deposits EXCEPT ![v.no] = deposits[v.no] - Used(v)]
    BY DEF OnVerifiedUnlocks
  <2> QED
    BY <1>1, <1>2, <1>3, <2>1, <2>2
<1>10. unlocks' \in [Digests -> Nat] /\ executed' \subseteq Digests
  BY <1>1 DEF OnVerifiedUnlocks, TypeOK, ContractTypes, WorldTypes
<1>11. /\ UNCHANGED <<paused, seq, peers, claimable, claimEntries, queuedAt>>
       /\ UNCHANGED <<publishing, registering>>
       /\ UNCHANGED <<custody, balance, registered, onWire, minted, burned, now, calls>>
  BY DEF OnVerifiedUnlocks, token, wormhole
<1>12. ContractTypes'
  BY <1>7, <1>8, <1>10, <1>11 DEF TypeOK, ContractTypes
<1>13. FlightTypes'
  BY <1>5, <1>6, <1>11 DEF TypeOK, FlightTypes
<1>14. WorldTypes'
  BY <1>5, <1>9, <1>10, <1>11 DEF TypeOK, WorldTypes
<1> QED
  BY <1>12, <1>13, <1>14 DEF TypeOK

\* on_verified, queueing
LEMMA OnVerifiedQueuesTypes ==
    ASSUME TypeOK, NEW v \in verifying, OnVerifiedQueues(v)
    PROVE  TypeOK'
<1>1. /\ v \in Verifying /\ v.digest \in Digests /\ v.no \in 1..MaxCalls
      /\ v.deposit \in Nat
  BY DEF TypeOK, FlightTypes, Verifying
<1>2. verifying' \subseteq Verifying
  BY <1>1 DEF OnVerifiedQueues, Settling, Verifying, Stages, TypeOK, FlightTypes
<1>3. free' \in Nat /\ deposits' \in [1..MaxCalls -> Int]
  BY <1>1 DEF OnVerifiedQueues, Accepts, TypeOK, WorldTypes
<1>4. /\ executed' \subseteq Digests /\ registering' \subseteq Digests
      /\ queuedAt' \in [Digests -> Nat \cup {NotQueued}]
  BY <1>1 DEF OnVerifiedQueues, TypeOK, ContractTypes, FlightTypes, WorldTypes
<1>5. ContractTypes'
  BY <1>4 DEF OnVerifiedQueues, TypeOK, ContractTypes
<1>6. FlightTypes'
  BY <1>2, <1>4 DEF OnVerifiedQueues, TypeOK, FlightTypes
<1>7. WorldTypes'
  BY <1>3 DEF OnVerifiedQueues, TypeOK, WorldTypes, token, wormhole
<1> QED
  BY <1>5, <1>6, <1>7 DEF TypeOK

\* The queued transfer's registration
LEMMA RegisterQueuedTypes ==
    ASSUME TypeOK, NEW d \in registering, NEW ok \in BOOLEAN, RegisterQueued(d, ok)
    PROVE  TypeOK'
<1>1. To(d) \in Accounts
  BY MsgAssumption DEF TypeOK, FlightTypes, To
<1>2. registered' \subseteq Accounts /\ free' \in Nat
  <2>1. /\ registered \subseteq Accounts
        /\ free \in Nat /\ free + RegistrationDeposit \in Nat
    BY NttAssumption DEF TypeOK, WorldTypes
  <2>2. /\ registered' \in {registered, registered \cup {To(d)}}
        /\ free' \in {free, free + RegistrationDeposit}
    BY DEF RegisterQueued
  <2> QED
    BY <1>1, <2>1, <2>2
<1>3. ContractTypes'
  BY DEF RegisterQueued, TypeOK, ContractTypes, contract
<1>4. FlightTypes'
  BY DEF RegisterQueued, TypeOK, FlightTypes
<1>5. WorldTypes'
  BY <1>2 DEF RegisterQueued, TypeOK, WorldTypes, wormhole, history
<1> QED
  BY <1>3, <1>4, <1>5 DEF TypeOK

\* release_inbound
LEMMA ReleaseInboundTypes ==
    ASSUME TypeOK, NEW d \in Digests, ReleaseInbound(d)
    PROVE  TypeOK'
<1>1. To(d) \in Accounts /\ UnlockAmount(d) \in Nat
  BY MsgAssumption, UnlockAmountNat DEF To
<1>2. payouts' \subseteq Payouts /\ issued' \in Nat
  <2>1. /\ PayOutCrediting(To(d), To(d), UnlockAmount(d), "transfer", "release",
                           NoCall, 0)
        /\ NoCall \in 0..MaxCalls
    BY NttAssumption DEF ReleaseInbound, PayOut, NoCall
  <2> QED
    BY <1>1, <2>1, PayOutTypes
<1>3. queuedAt' \in [Digests -> Nat \cup {NotQueued}]
  BY DEF ReleaseInbound, TypeOK, ContractTypes
<1>4. free' \in Nat
  <2>1. free' = free + QueueCost
    BY DEF ReleaseInbound
  <2> QED
    BY <2>1, NttAssumption DEF TypeOK, WorldTypes
<1>5. unlocks' \in [Digests -> Nat]
  BY DEF ReleaseInbound, TypeOK, WorldTypes
<1> QED
  BY <1>2, <1>3, <1>4, <1>5 DEF ReleaseInbound, TypeOK, ContractTypes, FlightTypes, WorldTypes,
         token, wormhole

LEMMA InitTypes == Init => TypeOK
<1> SUFFICES ASSUME Init PROVE TypeOK
  OBVIOUS
<1>1. 0 \in Amount
  BY RateLimitAssumption DEF Amount
<1>2. \A limit \in Amount : NewWindow(limit, 0) \in BoundedWindow
  BY NewWindowBounded
<1>3. ContractTypes
  BY <1>1, <1>2, NttAssumption DEF Init, ContractTypes, NotQueued
<1>4. FlightTypes
  BY DEF Init, FlightTypes
<1>5. WorldTypes
  BY NttAssumption DEF Init, WorldTypes
<1> QED
  BY <1>3, <1>4, <1>5 DEF TypeOK

LEMMA NextTypes == TypeOK /\ [Next]_vars => TypeOK'
<1> SUFFICES ASSUME TypeOK, [Next]_vars PROVE TypeOK'
  OBVIOUS
<1>1. CASE Owner
  BY <1>1, SetPeerTypes, SetOutboundLimitTypes, SetInboundLimitTypes, SetPausedTypes
  DEF Owner
<1>2. CASE Users
  BY <1>2, FtOnTransferTypes, CompleteTypes, ReleaseInboundTypes, ClaimTypes DEF Users
<1>3. CASE Callbacks
  BY <1>3, OnPublishedTypes, OnVerifiedUnlocksTypes, OnVerifiedQueuesTypes,
     OnVerifiedPanicsTypes, OnCompleteSettledTypes, OnPaidTypes, OnPaidFailsTypes
  DEF Callbacks
<1>4. CASE External
  BY <1>4, PublishTypes, AnswersTypes, TokenRegisterTypes, TokenTransferTypes,
     RegisterQueuedTypes
  DEF External
<1>5. CASE World
  BY <1>5, PeerMintsTypes, PeerBurnsTypes, UnregisterTypes, TickTypes DEF World
<1>6. CASE UNCHANGED vars
  BY <1>6 DEF vars, contract, chainsInFlight, token, wormhole, history,
     TypeOK, ContractTypes, FlightTypes, WorldTypes
<1> QED
  BY <1>1, <1>2, <1>3, <1>4, <1>5, <1>6 DEF Next

\* The contract's state keeps its types through every interleaving of its
\* receipts; in particular its windows stay within their limits, and it never
\* pays out more tokens or NEAR than it has.
THEOREM TypeCorrect == Spec => []TypeOK
  BY InitTypes, NextTypes, PTL DEF Spec

-----------------------------------------------------------------------------
(* Replay protection: a message is unlocked at most once. *)

\* UnlockedOnce is not inductive.  It holds because a digest passes through
\* executed exactly once on its way to an unlock, directly or by the queue,
\* and because the verdict a callback carries speaks of a burned message.
ReplayInv ==
    /\ \A d \in Digests :
          /\ unlocks[d] \in {0, 1}
          /\ d \notin executed => unlocks[d] = 0 /\ queuedAt[d] = NotQueued
          /\ queuedAt[d] # NotQueued => unlocks[d] = 0
    /\ executed \subseteq burned
    /\ \A v \in verifying : v.verified => v.digest \in burned

LEMMA ReplayInit == Init => ReplayInv
  BY DEF Init, ReplayInv

LEMMA ReplayNext == TypeOK /\ ReplayInv /\ [Next]_vars => ReplayInv'
<1> SUFFICES ASSUME TypeOK, ReplayInv, [Next]_vars PROVE ReplayInv'
  OBVIOUS
<1> USE DEF vars, contract, chainsInFlight, token, wormhole, history
<1>1. ASSUME UNCHANGED <<unlocks, executed, queuedAt, verifying, burned>>
      PROVE  ReplayInv'
  BY <1>1 DEF ReplayInv
<1>2. CASE Owner
  BY <1>1, <1>2 DEF Owner, SetPeer, SetOutboundLimit, SetInboundLimit, SetPaused
<1>3. CASE Users
  <2>1. ASSUME NEW a \in Accounts, NEW r \in Accounts, NEW c \in Chains,
               NEW amount \in Transfers, FtOnTransfer(a, r, c, amount)
        PROVE  ReplayInv'
    BY <1>1, <2>1 DEF FtOnTransfer
  <2>2. ASSUME NEW d \in Digests, NEW deposit \in Deposits, Complete(d, deposit)
        PROVE  ReplayInv'
    BY <2>2 DEF Complete, ReplayInv
  <2>3. ASSUME NEW d \in Digests, ReleaseInbound(d)
        PROVE  ReplayInv'
    <3>1. /\ queuedAt[d] # NotQueued
          /\ queuedAt' = [queuedAt EXCEPT ![d] = NotQueued]
          /\ unlocks' = [unlocks EXCEPT ![d] = unlocks[d] + 1]
          /\ UNCHANGED <<executed, verifying, burned>>
      BY <2>3 DEF ReleaseInbound
    <3>2. unlocks \in [Digests -> Nat] /\ queuedAt \in [Digests -> Nat \cup {NotQueued}]
      BY DEF TypeOK, ContractTypes, WorldTypes
    <3> QED
      BY <3>1, <3>2 DEF ReplayInv
  <2>4. ASSUME NEW a \in Accounts, Claim(a)
        PROVE  ReplayInv'
    BY <1>1, <2>4 DEF Claim
  <2> QED
    BY <1>3, <2>1, <2>2, <2>3, <2>4 DEF Users
<1>4. CASE Callbacks
  <2>1. ASSUME NEW t \in publishing, OnPublished(t)
        PROVE  ReplayInv'
    BY <1>1, <2>1 DEF OnPublished
  <2>2. ASSUME NEW v \in verifying, OnVerifiedUnlocks(v)
        PROVE  ReplayInv'
    <3>1. /\ v.verified /\ v.digest \notin executed /\ v.digest \in Digests
          /\ executed' = executed \cup {v.digest}
          /\ unlocks' = [unlocks EXCEPT ![v.digest] = unlocks[v.digest] + 1]
          /\ verifying' = (verifying \ {v}) \cup {[v EXCEPT !.stage = "done"]}
          /\ UNCHANGED <<queuedAt, burned>>
      BY <2>2 DEF OnVerifiedUnlocks, Accepts, Consumable, Settling, TypeOK,
             FlightTypes, Verifying
    <3>2. unlocks \in [Digests -> Nat]
      BY DEF TypeOK, WorldTypes
    <3>3. v \in Verifying
      BY DEF TypeOK, FlightTypes
    <3> QED
      BY <3>1, <3>2, <3>3 DEF ReplayInv, Verifying
  <2>3. ASSUME NEW v \in verifying, OnVerifiedQueues(v)
        PROVE  ReplayInv'
    <3>1. /\ v.verified /\ v.digest \notin executed /\ v.digest \in Digests
          /\ executed' = executed \cup {v.digest}
          /\ queuedAt' = [queuedAt EXCEPT ![v.digest] = now]
          /\ verifying' = (verifying \ {v}) \cup {[v EXCEPT !.stage = "done"]}
          /\ UNCHANGED <<unlocks, burned>>
      BY <2>3 DEF OnVerifiedQueues, Accepts, Consumable, Settling, TypeOK,
             FlightTypes, Verifying
    <3>2. queuedAt \in [Digests -> Nat \cup {NotQueued}]
      BY DEF TypeOK, ContractTypes
    <3>3. v \in Verifying
      BY DEF TypeOK, FlightTypes
    <3> QED
      BY <3>1, <3>2, <3>3 DEF ReplayInv, Verifying
  <2>4. ASSUME NEW v \in verifying, OnVerifiedPanics(v)
        PROVE  ReplayInv'
    <3>1. v \in Verifying
      BY DEF TypeOK, FlightTypes
    <3> QED
      BY <2>4, <3>1 DEF OnVerifiedPanics, Settling, ReplayInv, Verifying
  <2>5. ASSUME NEW v \in verifying, OnCompleteSettled(v)
        PROVE  ReplayInv'
    BY <2>5 DEF OnCompleteSettled, ReplayInv
  <2>6. ASSUME NEW p \in payouts, OnPaid(p) \/ OnPaidFails(p)
        PROVE  ReplayInv'
    BY <1>1, <2>6 DEF OnPaid, OnPaidFails
  <2> QED
    BY <1>4, <2>1, <2>2, <2>3, <2>4, <2>5, <2>6 DEF Callbacks
<1>5. CASE External
  <2>1. ASSUME NEW t \in publishing, NEW ok \in BOOLEAN, Publish(t, ok)
        PROVE  ReplayInv'
    BY <1>1, <2>1 DEF Publish
  <2>2. ASSUME NEW v \in verifying, NEW verified \in BOOLEAN,
               NEW storage \in {"some", "none", "failed", "malformed"},
               Answers(v, verified, storage)
        PROVE  ReplayInv'
    <3>1. v \in Verifying
      BY DEF TypeOK, FlightTypes
    <3> DEFINE new == [v EXCEPT !.stage = "answered", !.verified = verified,
                                !.storage = storage]
    <3>2. new.verified = verified /\ new.digest = v.digest
      BY <3>1 DEF Verifying
    <3>3. verifying' = (verifying \ {v}) \cup {new}
      BY <2>2 DEF Answers
    <3> QED
      BY <2>2, <3>2, <3>3 DEF Answers, ReplayInv
  <2>3. ASSUME NEW p \in payouts, NEW ok \in BOOLEAN,
               TokenRegister(p, ok) \/ TokenTransfer(p, ok)
        PROVE  ReplayInv'
    BY <1>1, <2>3 DEF TokenRegister, TokenTransfer
  <2>4. ASSUME NEW d \in registering, NEW ok \in BOOLEAN, RegisterQueued(d, ok)
        PROVE  ReplayInv'
    BY <1>1, <2>4 DEF RegisterQueued
  <2> QED
    BY <1>5, <2>1, <2>2, <2>3, <2>4 DEF External
<1>6. CASE World
  BY <1>1, <1>6 DEF World, PeerMints, PeerBurns, Unregister, Tick, ReplayInv
<1>7. CASE UNCHANGED vars
  BY <1>1, <1>7
<1> QED
  BY <1>2, <1>3, <1>4, <1>5, <1>6, <1>7 DEF Next

\* A message is unlocked at most once, only if its peer sent it, and never
\* while it waits in the queue: for any number of accounts, messages, callers
\* and any interleaving of complete, on_verified and release_inbound.
THEOREM UnlocksAtMostOnce == Spec => []UnlockedOnce
<1>1. TypeOK /\ ReplayInv => UnlockedOnce
  BY DEF ReplayInv, UnlockedOnce, QueuedDigests, TypeOK, WorldTypes
<1> QED
  BY <1>1, InitTypes, NextTypes, ReplayInit, ReplayNext, PTL DEF Spec
-----------------------------------------------------------------------------
(* What a step may never do. *)

\* Only two receipts unlock a message, and both are named by its digest.
LEMMA UnlockSteps ==
    ASSUME [Next]_vars
    PROVE  \/ UNCHANGED unlocks
           \/ \E v \in verifying : OnVerifiedUnlocks(v)
           \/ \E d \in Digests : ReleaseInbound(d)
<1> USE DEF vars, contract, chainsInFlight, token, wormhole, history
<1>1. CASE Owner
  BY <1>1 DEF Owner, SetPeer, SetOutboundLimit, SetInboundLimit, SetPaused
<1>2. CASE Users
  BY <1>2 DEF Users, FtOnTransfer, Complete, Claim
<1>3. CASE Callbacks
  BY <1>3 DEF Callbacks, OnPublished, OnVerifiedQueues, OnVerifiedPanics,
         OnCompleteSettled, OnPaid, OnPaidFails
<1>4. CASE External
  BY <1>4 DEF External, Publish, Answers, TokenRegister, TokenTransfer, RegisterQueued
<1>5. CASE World
  BY <1>5 DEF World, PeerMints, PeerBurns, Unregister, Tick
<1>6. CASE UNCHANGED vars
  BY <1>6
<1> QED
  BY <1>1, <1>2, <1>3, <1>4, <1>5, <1>6 DEF Next

\* No second complete, limit change or refill pays a queued message before
\* its Day is over: a queued digest is already executed, so only
\* release_inbound can unlock it.
THEOREM QueueDelay == Spec => QueueDelayHonoured
<1>1. TypeOK /\ ReplayInv /\ [Next]_vars
        => [\A d \in QueuedDigests :
              unlocks'[d] > unlocks[d] => now >= queuedAt[d] + Day]_vars
  <2> SUFFICES ASSUME TypeOK, ReplayInv, [Next]_vars, NEW d \in QueuedDigests,
                      unlocks'[d] > unlocks[d]
               PROVE  now >= queuedAt[d] + Day
    OBVIOUS
  <2>1. d \in executed /\ d \in Digests /\ unlocks \in [Digests -> Nat]
    BY DEF ReplayInv, QueuedDigests, TypeOK, WorldTypes
  <2>2. CASE UNCHANGED unlocks
    BY <2>1, <2>2
  <2>3. ASSUME NEW v \in verifying, OnVerifiedUnlocks(v)
        PROVE  FALSE
    <3>1. v.digest # d
      BY <2>1, <2>3 DEF OnVerifiedUnlocks, Accepts, Consumable
    <3>2. unlocks' = [unlocks EXCEPT ![v.digest] = unlocks[v.digest] + 1]
      BY <2>3 DEF OnVerifiedUnlocks
    <3> QED
      BY <2>1, <3>1, <3>2
  <2>4. ASSUME NEW e \in Digests, ReleaseInbound(e)
        PROVE  now >= queuedAt[d] + Day
    <3>1. /\ unlocks' = [unlocks EXCEPT ![e] = unlocks[e] + 1]
          /\ now >= queuedAt[e] + Day
      BY <2>4 DEF ReleaseInbound
    <3> QED
      BY <2>1, <3>1
  <2> QED
    BY <2>2, <2>3, <2>4, UnlockSteps
<1> QED
  BY <1>1, InitTypes, NextTypes, ReplayInit, ReplayNext, PTL DEF Spec, QueueDelayHonoured

\* A message complete accepted under one peer is not consumed any more, neither
\* unlocked nor queued, once that peer is replaced: on_verified reads the peer
\* again.  What was queued before is paid all the same (release_inbound).
THEOREM StalePeer == Spec => StalePeerNeverConsumed
<1>1. [Next]_vars
        => [\A d \in executed' \ executed : peers[Msg[d].chain] = Msg[d].pair]_vars
  <2> SUFFICES ASSUME [Next]_vars, NEW d \in executed' \ executed
               PROVE  peers[Msg[d].chain] = Msg[d].pair
    OBVIOUS
  <2>1. \/ UNCHANGED executed
        \/ \E v \in verifying : OnVerifiedUnlocks(v) \/ OnVerifiedQueues(v)
    <3> USE DEF vars, contract, chainsInFlight, token, wormhole, history
    <3>1. CASE Owner
      BY <3>1 DEF Owner, SetPeer, SetOutboundLimit, SetInboundLimit, SetPaused
    <3>2. CASE Users
      BY <3>2 DEF Users, FtOnTransfer, Complete, Claim, ReleaseInbound
    <3>3. CASE Callbacks
      BY <3>3 DEF Callbacks, OnPublished, OnVerifiedPanics, OnCompleteSettled, OnPaid,
             OnPaidFails
    <3>4. CASE External
      BY <3>4 DEF External, Publish, Answers, TokenRegister, TokenTransfer,
             RegisterQueued
    <3>5. CASE World
      BY <3>5 DEF World, PeerMints, PeerBurns, Unregister, Tick
    <3> QED
      BY <3>1, <3>2, <3>3, <3>4, <3>5 DEF Next
  <2>2. PICK v \in verifying : OnVerifiedUnlocks(v) \/ OnVerifiedQueues(v)
    BY <2>1
  <2>3. executed' = executed \cup {v.digest} /\ Accepts(v)
    BY <2>2 DEF OnVerifiedUnlocks, OnVerifiedQueues
  <2>4. d = v.digest
    BY <2>3
  <2> QED
    BY <2>3, <2>4 DEF Accepts, Consumable, InboundOf
<1> QED
  BY <1>1, PTL DEF Spec, StalePeerNeverConsumed

\* Pay-outs are numbered as they are started.
Numbered == \A p \in payouts : p.no <= issued

\* The stages the token's receipts move a pay-out to.
MovedTo == {"transfer", "paid", "unpaid"}

\* What one step does to the pay-outs: it starts one, moves one on, or ends one.
LEMMA PayoutSteps ==
    ASSUME TypeOK, [Next]_vars
    PROVE  \/ payouts' \subseteq payouts /\ UNCHANGED issued
           \/ \E p \in payouts, stage \in MovedTo : MoveTo(p, stage) /\ UNCHANGED issued
           \/ \E p : /\ payouts' = payouts \cup {p} /\ p.no = issued + 1
                    /\ issued' = issued + 1 /\ (paused => p.why = "refund")
<1> DEFINE StartsNone == payouts' \subseteq payouts /\ UNCHANGED issued
           MovesOne == \E p \in payouts, stage \in MovedTo : MoveTo(p, stage) /\ UNCHANGED issued
           StartsOne == \E p : /\ payouts' = payouts \cup {p} /\ p.no = issued + 1
                               /\ issued' = issued + 1 /\ (paused => p.why = "refund")
<1>a. ASSUME NEW to, NEW credit, NEW amount, NEW first, NEW why, NEW call, NEW held,
             PayOutCrediting(to, credit, amount, first, why, call, held),
             paused => why = "refund"
      PROVE  StartsOne
  <2> DEFINE new == [no |-> issued + 1, to |-> to, credit |-> credit,
                     amount |-> amount, stage |-> first, why |-> why, call |-> call,
                     held |-> held]
  <2>1. payouts' = payouts \cup {new} /\ issued' = issued + 1
    BY <1>a DEF PayOutCrediting
  <2>2. new.no = issued + 1 /\ new.why = why
    OBVIOUS
  <2> QED
    BY <1>a, <2>1, <2>2
<1> HIDE DEF StartsOne
<1> USE DEF vars, contract, chainsInFlight, token, wormhole, history
<1>1. CASE Owner
  BY <1>1 DEF Owner, SetPeer, SetOutboundLimit, SetInboundLimit, SetPaused
<1>2. CASE Users
  <2>1. ASSUME NEW d \in Digests, ReleaseInbound(d) PROVE StartsOne
    BY <2>1, <1>a DEF ReleaseInbound, PayOut
  <2>2. ASSUME NEW a \in Accounts, Claim(a) PROVE StartsOne
    BY <2>2, <1>a DEF Claim, PayOut
  <2>3. ASSUME NEW a \in Accounts, NEW r \in Accounts, NEW c \in Chains,
               NEW amount \in Transfers, FtOnTransfer(a, r, c, amount)
        PROVE  StartsNone
    BY <2>3 DEF FtOnTransfer
  <2>4. ASSUME NEW d \in Digests, NEW deposit \in Deposits, Complete(d, deposit)
        PROVE  StartsNone
    BY <2>4 DEF Complete
  <2> QED
    BY <1>2, <2>1, <2>2, <2>3, <2>4 DEF Users, StartsOne
<1>3. CASE Callbacks
  <2>1. ASSUME NEW t \in publishing, OnPublished(t) PROVE StartsNone \/ StartsOne
    <3>1. CASE Failed(t)
      <4>1. PayOutCrediting(t.refundTo, t.sender, t.amount, "transfer", "refund",
                            NoCall, 0)
        BY <2>1, <3>1 DEF OnPublished
      <4> QED
        BY <4>1, <1>a
    <3>2. CASE ~Failed(t)
      BY <2>1, <3>2 DEF OnPublished
    <3> QED
      BY <3>1, <3>2
  <2>2. ASSUME NEW v \in verifying, OnVerifiedUnlocks(v) PROVE StartsOne
    <3>1. ~paused
      BY <2>2 DEF OnVerifiedUnlocks, Accepts, Consumable
    <3>2. PayOutCrediting(To(v.digest), To(v.digest), UnlockAmount(v.digest),
                          IF Registers(v) THEN "register" ELSE "transfer",
                          "unlock", v.no, Excess(v))
      BY <2>2 DEF OnVerifiedUnlocks, PayOut
    <3> QED
      BY <3>1, <3>2, <1>a
  <2>3. ASSUME NEW v \in verifying,
               OnVerifiedQueues(v) \/ OnVerifiedPanics(v) \/ OnCompleteSettled(v)
        PROVE  StartsNone
    BY <2>3 DEF OnVerifiedQueues, OnVerifiedPanics, OnCompleteSettled
  <2>4. ASSUME NEW p \in payouts, OnPaid(p) \/ OnPaidFails(p) PROVE StartsNone
    BY <2>4 DEF OnPaid, OnPaidFails
  <2> QED
    BY <1>3, <2>1, <2>2, <2>3, <2>4 DEF Callbacks, StartsOne
<1>4. CASE External
  <2>1. ASSUME NEW p \in payouts, NEW ok \in BOOLEAN, TokenRegister(p, ok)
        PROVE  MovesOne
    <3>1. MoveTo(p, "transfer") /\ UNCHANGED issued
      BY <2>1 DEF TokenRegister
    <3>2. "transfer" \in MovedTo
      BY DEF MovedTo
    <3> QED
      BY <3>1, <3>2, Zenon
  <2>2. ASSUME NEW p \in payouts, NEW ok \in BOOLEAN, TokenTransfer(p, ok)
        PROVE  MovesOne
    <3>1. MoveTo(p, IF ok THEN "paid" ELSE "unpaid") /\ UNCHANGED issued
      BY <2>2 DEF TokenTransfer
    <3>2. (IF ok THEN "paid" ELSE "unpaid") \in MovedTo
      BY DEF MovedTo
    <3> QED
      BY <3>1, <3>2, Zenon
  <2>3. ASSUME NEW t \in publishing, NEW ok \in BOOLEAN, Publish(t, ok) PROVE StartsNone
    BY <2>3 DEF Publish
  <2>4. ASSUME NEW v \in verifying, NEW verified \in BOOLEAN,
               NEW storage \in {"some", "none", "failed", "malformed"},
               Answers(v, verified, storage)
        PROVE  StartsNone
    BY <2>4 DEF Answers
  <2>5. ASSUME NEW d \in registering, NEW ok \in BOOLEAN, RegisterQueued(d, ok)
        PROVE  StartsNone
    BY <2>5 DEF RegisterQueued
  <2> QED
    BY <1>4, <2>1, <2>2, <2>3, <2>4, <2>5 DEF External
<1>5. CASE World
  BY <1>5 DEF World, PeerMints, PeerBurns, Unregister, Tick
<1>6. CASE UNCHANGED vars
  BY <1>6
<1> QED
  BY <1>1, <1>2, <1>3, <1>4, <1>5, <1>6 DEF Next, StartsOne

LEMMA MovedKeepsNumber ==
    ASSUME TypeOK, NEW p \in payouts, NEW stage \in MovedTo, MoveTo(p, stage),
           NEW q \in payouts'
    PROVE  \E r \in payouts : q.no = r.no
<1>1. p \in Payouts
  BY DEF TypeOK, FlightTypes
<1>2. [p EXCEPT !.stage = stage].no = p.no
  BY <1>1 DEF Payouts
<1> QED
  BY <1>2 DEF MoveTo

LEMMA NumberedNext == TypeOK /\ Numbered /\ [Next]_vars => Numbered'
<1> SUFFICES ASSUME TypeOK, Numbered, [Next]_vars, NEW q \in payouts'
             PROVE  q.no <= issued'
  BY DEF Numbered
<1>1. issued \in Nat /\ \A p \in payouts : p.no \in Nat
  BY DEF TypeOK, FlightTypes, WorldTypes, Payouts
<1> QED
  BY <1>1, PayoutSteps, MovedKeepsNumber DEF Numbered

\* A pause stops every unlock, release and claim, those of calls accepted
\* before it included; the refund of a failed send is all that still leaves.
THEOREM PauseStops == Spec => PauseStopsUnlocks
<1>1. Init => Numbered
  BY DEF Init, Numbered
<1>2. TypeOK /\ Numbered /\ [Next]_vars
        => [paused => \A p \in payouts' : p.no > issued => p.why = "refund"]_vars
  <2> SUFFICES ASSUME TypeOK, Numbered, [Next]_vars, paused, NEW q \in payouts',
                      q.no > issued
               PROVE  q.why = "refund"
    OBVIOUS
  <2>1. issued \in Nat /\ \A p \in payouts : p.no \in Nat /\ p.no <= issued
    BY DEF TypeOK, FlightTypes, WorldTypes, Payouts, Numbered
  <2> QED
    BY <2>1, PayoutSteps, MovedKeepsNumber
<1> QED
  BY <1>1, <1>2, InitTypes, NextTypes, NumberedNext, PTL DEF Spec, PauseStopsUnlocks

-----------------------------------------------------------------------------
(* Chains in flight are finitely many, and each has a number of its own. *)

Finite ==
    /\ IsFiniteSet(publishing) /\ IsFiniteSet(verifying)
    /\ IsFiniteSet(payouts) /\ IsFiniteSet(onWire)

\* A sequence number names one send, and one message once it is published.
SendsNumbered ==
    /\ \A t \in publishing : t.id < seq
    /\ \A t, u \in publishing : t.id = u.id => t = u
    /\ \A m \in onWire : m.id < seq
    /\ \A t \in publishing, m \in onWire : t.stage = "publish" => m.id # t.id

CallsNumbered ==
    /\ \A v \in verifying : v.no <= calls
    /\ \A v, w \in verifying : v.no = w.no => v = w

\* A pay-out holds NEAR only of a call, and at least the reserve of it.
PayoutsNumbered ==
    /\ \A p \in payouts : p.no <= issued /\ p.call <= calls
    /\ \A p, q \in payouts : p.no = q.no => p = q
    /\ \A p \in payouts : IF p.call = NoCall THEN p.held = 0 ELSE p.held >= ClaimReserve

DistinctInv == Finite /\ SendsNumbered /\ CallsNumbered /\ PayoutsNumbered


LEMMA DistinctInit == Init => DistinctInv
  BY FS_EmptySet
  DEF Init, DistinctInv, Finite, SendsNumbered, CallsNumbered, PayoutsNumbered

-----------------------------------------------------------------------------
(* Sends. *)

LEMMA SendStarts ==
    ASSUME TypeOK, SendsNumbered, NEW t \in Publishing, t.id = seq,
           publishing' = publishing \cup {t}
    PROVE  Starts(publishing, publishing', t)
<1>1. seq \in Nat
  BY DEF TypeOK, ContractTypes
<1> QED
  BY <1>1 DEF SendsNumbered, Starts, Publishing

LEMMA SendMoves ==
    ASSUME TypeOK, SendsNumbered, NEW t \in publishing,
           NEW stage \in {"publish", "sent", "failed"},
           publishing' = (publishing \ {t}) \cup {[t EXCEPT !.stage = stage]}
    PROVE  /\ [t EXCEPT !.stage = stage] \in Publishing
           /\ Moves(publishing, publishing', t, [t EXCEPT !.stage = stage])
<1> DEFINE u == [t EXCEPT !.stage = stage]
<1>1. t \in Publishing
  BY DEF TypeOK, FlightTypes
<1>2. u \in Publishing /\ u.id = t.id
  BY <1>1 DEF Publishing
<1> HIDE DEF u
<1>3. u \notin publishing \ {t}
  BY <1>2 DEF SendsNumbered
<1>4. Moves(publishing, publishing', t, u)
  BY <1>3 DEF Moves, u
<1> QED
  BY <1>2, <1>4 DEF u

\* The message that a published send puts on the wire.
MessageOf(t) == [id |-> t.id, chain |-> t.chain, amount |-> t.amount]
WireMessages == [id : Nat, chain : Chains, amount : Nat]

LEMMA MessageStarts ==
    ASSUME TypeOK, SendsNumbered, NEW t \in publishing, Publish(t, TRUE)
    PROVE  MessageOf(t) \in WireMessages /\ Starts(onWire, onWire', MessageOf(t))
<1>1. t \in Publishing /\ t.stage = "publish" /\ onWire' = onWire \cup {MessageOf(t)}
  BY DEF TypeOK, FlightTypes, Publish, MessageOf
<1>2. MessageOf(t) \in WireMessages /\ MessageOf(t).id = t.id
  BY <1>1 DEF MessageOf, WireMessages, Publishing
<1>3. MessageOf(t) \notin onWire
  BY <1>1, <1>2 DEF SendsNumbered
<1> QED
  BY <1>1, <1>2, <1>3 DEF Starts

LEMMA SendSteps ==
    ASSUME [Next]_vars
    PROVE  \/ UNCHANGED <<publishing, onWire, seq>>
           \/ \E a, r \in Accounts, c \in Chains, amount \in Transfers :
                  FtOnTransfer(a, r, c, amount)
           \/ \E t \in publishing : OnPublished(t) \/ \E ok \in BOOLEAN : Publish(t, ok)
           \/ \E m \in onWire : PeerMints(m)
<1> USE DEF vars, contract, chainsInFlight, token, wormhole, history
<1>1. CASE Owner
  BY <1>1 DEF Owner, SetPeer, SetOutboundLimit, SetInboundLimit, SetPaused
<1>2. CASE Users
  BY <1>2 DEF Users, ReleaseInbound, Complete, Claim
<1>3. CASE Callbacks
  BY <1>3 DEF Callbacks, OnVerifiedUnlocks, OnVerifiedQueues, OnVerifiedPanics,
         OnCompleteSettled, OnPaid, OnPaidFails
<1>4. CASE External
  BY <1>4 DEF External, Answers, TokenRegister, TokenTransfer, RegisterQueued
<1>5. CASE World
  BY <1>5 DEF World, PeerBurns, Unregister, Tick
<1>6. CASE UNCHANGED vars
  BY <1>6
<1> QED
  BY <1>1, <1>2, <1>3, <1>4, <1>5, <1>6 DEF Next

LEMMA SendsNext ==
    ASSUME TypeOK, IsFiniteSet(publishing), IsFiniteSet(onWire), SendsNumbered, [Next]_vars
    PROVE  /\ IsFiniteSet(publishing') /\ IsFiniteSet(onWire')
           /\ SendsNumbered'
<1>1. seq \in Nat /\ publishing \subseteq Publishing
  BY DEF TypeOK, ContractTypes, FlightTypes
<1>2. CASE UNCHANGED <<publishing, onWire, seq>>
  BY <1>2 DEF SendsNumbered
<1>3. ASSUME NEW a \in Accounts, NEW r \in Accounts, NEW c \in Chains,
             NEW amount \in Transfers, FtOnTransfer(a, r, c, amount)
      PROVE  /\ IsFiniteSet(publishing') /\ IsFiniteSet(onWire')
             /\ SendsNumbered'
  <2>1. PICK t : t.id = seq /\ publishing' = publishing \cup {t}
    BY <1>3 DEF FtOnTransfer
  <2>2. UNCHANGED onWire /\ seq' = seq + 1
    BY <1>3 DEF FtOnTransfer, wormhole
  <2>3. IsFiniteSet(publishing')
    BY <2>1, FS_AddElement
  <2>4. /\ \A u \in publishing : u.id \in Nat /\ u.id < seq
        /\ \A m \in onWire : m.id \in Nat /\ m.id < seq
    BY <1>1 DEF SendsNumbered, Publishing, TypeOK, WorldTypes
  <2> QED
    BY <1>1, <2>1, <2>2, <2>3, <2>4 DEF SendsNumbered
<1>4. ASSUME NEW t \in publishing, OnPublished(t)
      PROVE  /\ IsFiniteSet(publishing') /\ IsFiniteSet(onWire')
             /\ SendsNumbered'
  <2>1. publishing' = publishing \ {t} /\ UNCHANGED <<onWire, seq>>
    BY <1>4 DEF OnPublished, wormhole
  <2> QED
    BY <2>1, FS_Subset DEF SendsNumbered
<1>5. ASSUME NEW t \in publishing, NEW ok \in BOOLEAN, Publish(t, ok)
      PROVE  /\ IsFiniteSet(publishing') /\ IsFiniteSet(onWire')
             /\ SendsNumbered'
  <2> DEFINE u == [t EXCEPT !.stage = IF ok THEN "sent" ELSE "failed"]
  <2>1. /\ t.stage = "publish" /\ publishing' = (publishing \ {t}) \cup {u}
        /\ onWire' = IF ok THEN onWire \cup {MessageOf(t)} ELSE onWire
        /\ seq' = seq
    BY <1>5 DEF Publish, MessageOf, contract
  <2>2. u.id = t.id /\ u.stage # "publish" /\ MessageOf(t).id = t.id
    BY <1>1 DEF Publishing, MessageOf
  <2>3. IsFiniteSet(publishing')
    BY <2>1, FS_Subset, FS_AddElement
  <2>4. IsFiniteSet(onWire')
    BY <2>1, FS_AddElement
  <2> HIDE DEF u
  <2>5. /\ \A w \in publishing' : w.id < seq' /\ (w.stage = "publish" => w \in publishing \ {t})
        /\ \A w, x \in publishing' : w.id = x.id => w = x
    BY <2>1, <2>2 DEF SendsNumbered
  <2>6. \A m \in onWire' : m.id < seq' /\ (m \in onWire \/ m.id = t.id)
    BY <2>1, <2>2 DEF SendsNumbered
  <2>7. \A w \in publishing', m \in onWire' : w.stage = "publish" => m.id # w.id
    BY <2>5, <2>6 DEF SendsNumbered
  <2> QED
    BY <2>3, <2>4, <2>5, <2>6, <2>7 DEF SendsNumbered
<1>6. ASSUME NEW m \in onWire, PeerMints(m)
      PROVE  /\ IsFiniteSet(publishing') /\ IsFiniteSet(onWire')
             /\ SendsNumbered'
  <2>1. onWire' = onWire \ {m} /\ UNCHANGED <<publishing, seq>>
    BY <1>6 DEF PeerMints, contract, chainsInFlight
  <2> QED
    BY <2>1, FS_Subset DEF SendsNumbered
<1> QED
  BY <1>2, <1>3, <1>4, <1>5, <1>6, SendSteps

-----------------------------------------------------------------------------
(* Calls of complete. *)

LEMMA CallStarts ==
    ASSUME TypeOK, CallsNumbered, NEW v \in Verifying, v.no = calls + 1,
           verifying' = verifying \cup {v}
    PROVE  Starts(verifying, verifying', v)
<1>1. calls \in Nat
  BY NttAssumption DEF TypeOK, WorldTypes
<1> QED
  BY <1>1 DEF CallsNumbered, Starts, Verifying

\* v becomes w, which is v but for its answers and its stage.
LEMMA CallMoves ==
    ASSUME TypeOK, CallsNumbered, NEW v \in verifying, NEW w \in Verifying, w.no = v.no,
           verifying' = (verifying \ {v}) \cup {w}
    PROVE  Moves(verifying, verifying', v, w)
<1>1. w \notin verifying \ {v}
  BY DEF CallsNumbered
<1> QED
  BY <1>1 DEF Moves

\* Every step of a call: joined by its answers, decided, settled.
CallMoved(v, w) == /\ v \in verifying /\ w \in Verifying /\ w.no = v.no
                   /\ w.digest = v.digest /\ w.deposit = v.deposit
                   /\ verifying' = (verifying \ {v}) \cup {w}

LEMMA AnswersMoves ==
    ASSUME TypeOK, NEW v \in verifying, NEW verified \in BOOLEAN,
           NEW storage \in {"some", "none", "failed", "malformed"},
           Answers(v, verified, storage)
    PROVE  \E w : CallMoved(v, w) /\ w.stage = "answered"
<1> DEFINE w == [v EXCEPT !.stage = "answered", !.verified = verified, !.storage = storage]
<1>1. v \in Verifying
  BY DEF TypeOK, FlightTypes
<1>2. /\ w \in Verifying /\ w.no = v.no /\ w.digest = v.digest
      /\ w.deposit = v.deposit /\ w.stage = "answered"
  BY <1>1 DEF Verifying, Stages
<1>3. verifying' = (verifying \ {v}) \cup {w}
  BY DEF Answers
<1> QED
  BY <1>2, <1>3 DEF CallMoved

LEMMA SettlingMoves ==
    ASSUME TypeOK, NEW v \in verifying, NEW ok \in BOOLEAN, Settling(v, ok)
    PROVE  \E w : CallMoved(v, w) /\ w.stage = IF ok THEN "done" ELSE "panicked"
<1> DEFINE w == [v EXCEPT !.stage = IF ok THEN "done" ELSE "panicked"]
<1>1. v \in Verifying
  BY DEF TypeOK, FlightTypes
<1>2. /\ w \in Verifying /\ w.no = v.no /\ w.digest = v.digest
      /\ w.deposit = v.deposit /\ w.stage = IF ok THEN "done" ELSE "panicked"
  BY <1>1 DEF Verifying, Stages
<1>3. verifying' = (verifying \ {v}) \cup {w}
  BY DEF Settling
<1> QED
  BY <1>2, <1>3 DEF CallMoved

LEMMA CallSteps ==
    ASSUME [Next]_vars
    PROVE  \/ UNCHANGED <<verifying, calls>>
           \/ \E d \in Digests, deposit \in Deposits : Complete(d, deposit)
           \/ \E v \in verifying :
                 \/ OnVerifiedUnlocks(v) \/ OnVerifiedQueues(v) \/ OnVerifiedPanics(v)
                 \/ OnCompleteSettled(v)
                 \/ \E verified \in BOOLEAN,
                       storage \in {"some", "none", "failed", "malformed"} :
                        Answers(v, verified, storage)
<1> USE DEF vars, contract, chainsInFlight, token, wormhole, history
<1>1. CASE Owner
  BY <1>1 DEF Owner, SetPeer, SetOutboundLimit, SetInboundLimit, SetPaused
<1>2. CASE Users
  BY <1>2 DEF Users, FtOnTransfer, ReleaseInbound, Claim
<1>3. CASE Callbacks
  BY <1>3 DEF Callbacks, OnPublished, OnPaid, OnPaidFails
<1>4. CASE External
  BY <1>4 DEF External, Publish, TokenRegister, TokenTransfer, RegisterQueued
<1>5. CASE World
  BY <1>5 DEF World, PeerMints, PeerBurns, Unregister, Tick
<1>6. CASE UNCHANGED vars
  BY <1>6
<1> QED
  BY <1>1, <1>2, <1>3, <1>4, <1>5, <1>6 DEF Next

LEMMA CallsNext ==
    ASSUME TypeOK, IsFiniteSet(verifying), CallsNumbered, [Next]_vars
    PROVE  IsFiniteSet(verifying') /\ CallsNumbered' /\ calls' \in Nat /\ calls <= calls'
<1>1. calls \in Nat /\ \A v \in verifying : v.no \in Nat
  BY NttAssumption DEF TypeOK, WorldTypes, FlightTypes, Verifying
<1>2. CASE UNCHANGED <<verifying, calls>>
  BY <1>1, <1>2 DEF CallsNumbered
<1>3. ASSUME NEW d \in Digests, NEW deposit \in Deposits, Complete(d, deposit)
      PROVE  IsFiniteSet(verifying') /\ CallsNumbered' /\ calls' \in Nat /\ calls <= calls'
  <2>1. PICK v : v.no = calls + 1 /\ verifying' = verifying \cup {v}
    BY <1>3 DEF Complete
  <2>2. calls' = calls + 1
    BY <1>3 DEF Complete
  <2>3. IsFiniteSet(verifying')
    BY <2>1, FS_AddElement
  <2> QED
    BY <1>1, <2>1, <2>2, <2>3 DEF CallsNumbered
<1>4. ASSUME NEW v \in verifying, NEW w, CallMoved(v, w), UNCHANGED calls
      PROVE  IsFiniteSet(verifying') /\ CallsNumbered' /\ calls' \in Nat /\ calls <= calls'
  <2>1. verifying' = (verifying \ {v}) \cup {w} /\ w.no = v.no
    BY <1>4 DEF CallMoved
  <2>2. IsFiniteSet(verifying')
    BY <2>1, FS_Subset, FS_AddElement
  <2> QED
    BY <1>1, <1>4, <2>1, <2>2 DEF CallsNumbered
<1>5. ASSUME NEW v \in verifying, OnCompleteSettled(v)
      PROVE  IsFiniteSet(verifying') /\ CallsNumbered' /\ calls' \in Nat /\ calls <= calls'
  <2>1. verifying' = verifying \ {v} /\ UNCHANGED calls
    BY <1>5 DEF OnCompleteSettled
  <2> QED
    BY <1>1, <2>1, FS_Subset DEF CallsNumbered
<1>6. ASSUME NEW v \in verifying,
             OnVerifiedUnlocks(v) \/ OnVerifiedQueues(v) \/ OnVerifiedPanics(v)
      PROVE  (\E w : CallMoved(v, w)) /\ UNCHANGED calls
  <2>1. \E ok \in BOOLEAN : Settling(v, ok)
    BY <1>6 DEF OnVerifiedUnlocks, OnVerifiedQueues, OnVerifiedPanics
  <2>2. UNCHANGED calls
    BY <1>6 DEF OnVerifiedUnlocks, OnVerifiedQueues, OnVerifiedPanics, history
  <2> QED
    BY <2>1, <2>2, SettlingMoves
<1>7. ASSUME NEW v \in verifying, NEW verified \in BOOLEAN,
             NEW storage \in {"some", "none", "failed", "malformed"},
             Answers(v, verified, storage)
      PROVE  (\E w : CallMoved(v, w)) /\ UNCHANGED calls
  <2>1. UNCHANGED calls
    BY <1>7 DEF Answers, history
  <2> QED
    BY <1>7, <2>1, AnswersMoves
<1> QED
  BY <1>2, <1>3, <1>4, <1>5, <1>6, <1>7, CallSteps

-----------------------------------------------------------------------------
(* Pay-outs. *)

NewPayout(to, credit, amount, first, why, call, held) ==
    [no |-> issued + 1, to |-> to, credit |-> credit, amount |-> amount,
     stage |-> first, why |-> why, call |-> call, held |-> held]

LEMMA PayoutStarts ==
    ASSUME TypeOK, PayoutsNumbered,
           NEW to \in Accounts, NEW credit \in Accounts, NEW amount \in Nat,
           NEW first \in {"register", "transfer"},
           NEW why \in {"unlock", "release", "claim", "refund"},
           NEW call \in 0..MaxCalls, NEW held \in Nat,
           PayOutCrediting(to, credit, amount, first, why, call, held)
    PROVE  LET p == NewPayout(to, credit, amount, first, why, call, held) IN
           /\ p \in Payouts /\ p.no = issued + 1 /\ issued' = issued + 1
           /\ p.stage = first /\ p.amount = amount /\ p.call = call /\ p.held = held
           /\ Starts(payouts, payouts', p)
<1> DEFINE p == NewPayout(to, credit, amount, first, why, call, held)
<1>1. issued \in Nat
  BY DEF TypeOK, WorldTypes
<1>2. /\ p \in Payouts /\ p.no = issued + 1 /\ p.stage = first /\ p.amount = amount
      /\ p.call = call /\ p.held = held
  BY <1>1 DEF Payouts, NewPayout
<1>3. payouts' = payouts \cup {p} /\ issued' = issued + 1
  BY DEF PayOutCrediting, NewPayout
<1> HIDE DEF p
<1>4. p \notin payouts
  BY <1>1, <1>2 DEF PayoutsNumbered
<1>5. Starts(payouts, payouts', p)
  BY <1>3, <1>4 DEF Starts
<1> QED
  BY <1>2, <1>3, <1>5 DEF p

\* p is moved on by a receipt of the token.
LEMMA PayoutMoves ==
    ASSUME TypeOK, PayoutsNumbered, NEW p \in payouts, NEW stage \in MovedTo,
           MoveTo(p, stage)
    PROVE  LET q == [p EXCEPT !.stage = stage] IN
           /\ q \in Payouts /\ q.no = p.no /\ q.stage = stage /\ q.amount = p.amount
           /\ q.call = p.call /\ q.held = p.held
           /\ Moves(payouts, payouts', p, q)
<1> DEFINE q == [p EXCEPT !.stage = stage]
<1>1. p \in Payouts
  BY DEF TypeOK, FlightTypes
<1>2. /\ q \in Payouts /\ q.no = p.no /\ q.stage = stage /\ q.amount = p.amount
      /\ q.call = p.call /\ q.held = p.held
  BY <1>1 DEF Payouts, MovedTo
<1>3. payouts' = (payouts \ {p}) \cup {q}
  BY DEF MoveTo
<1> HIDE DEF q
<1>4. q \notin payouts \ {p}
  BY <1>2 DEF PayoutsNumbered
<1>5. Moves(payouts, payouts', p, q)
  BY <1>3, <1>4 DEF Moves
<1> QED
  BY <1>2, <1>5 DEF q

\* Who starts a pay-out, moves one on, or ends one.
LEMMA PayoutActions ==
    ASSUME [Next]_vars
    PROVE  \/ UNCHANGED <<payouts, issued>>
           \/ \E d \in Digests : ReleaseInbound(d)
           \/ \E a \in Accounts : Claim(a)
           \/ \E t \in publishing : OnPublished(t)
           \/ \E v \in verifying : OnVerifiedUnlocks(v)
           \/ \E p \in payouts :
                 \/ OnPaid(p) \/ OnPaidFails(p)
                 \/ \E ok \in BOOLEAN : TokenRegister(p, ok) \/ TokenTransfer(p, ok)
<1> USE DEF vars, contract, chainsInFlight, token, wormhole, history
<1>1. CASE Owner
  BY <1>1 DEF Owner, SetPeer, SetOutboundLimit, SetInboundLimit, SetPaused
<1>2. CASE Users
  BY <1>2 DEF Users, FtOnTransfer, Complete
<1>3. CASE Callbacks
  BY <1>3 DEF Callbacks, OnVerifiedQueues, OnVerifiedPanics, OnCompleteSettled
<1>4. CASE External
  BY <1>4 DEF External, Publish, Answers, RegisterQueued
<1>5. CASE World
  BY <1>5 DEF World, PeerMints, PeerBurns, Unregister, Tick
<1>6. CASE UNCHANGED vars
  BY <1>6
<1> QED
  BY <1>1, <1>2, <1>3, <1>4, <1>5, <1>6 DEF Next

\* The pay-out each of them starts.
LEMMA ClaimStarts ==
    ASSUME TypeOK, PayoutsNumbered, NEW a \in Accounts, Claim(a)
    PROVE  \E p \in Payouts :
              /\ Starts(payouts, payouts', p) /\ p.no = issued + 1 /\ issued' = issued + 1
              /\ p.stage = "transfer" /\ p.amount = claimable[a]
              /\ p.call = NoCall /\ p.held = 0
<1>1. claimable[a] \in Nat /\ NoCall \in 0..MaxCalls
  BY NttAssumption DEF TypeOK, ContractTypes, NoCall
<1>2. PayOutCrediting(a, a, claimable[a], "transfer", "claim", NoCall, 0)
  BY DEF Claim, PayOut
<1> QED
  BY <1>1, <1>2, PayoutStarts

LEMMA ReleaseStarts ==
    ASSUME TypeOK, PayoutsNumbered, NEW d \in Digests, ReleaseInbound(d)
    PROVE  \E p \in Payouts :
              /\ Starts(payouts, payouts', p) /\ p.no = issued + 1 /\ issued' = issued + 1
              /\ p.stage = "transfer" /\ p.amount = UnlockAmount(d)
              /\ p.call = NoCall /\ p.held = 0
<1>1. To(d) \in Accounts /\ UnlockAmount(d) \in Nat /\ NoCall \in 0..MaxCalls
  BY NttAssumption, MsgAssumption, UnlockAmountNat DEF To, NoCall
<1>2. PayOutCrediting(To(d), To(d), UnlockAmount(d), "transfer", "release", NoCall, 0)
  BY DEF ReleaseInbound, PayOut
<1> QED
  BY <1>1, <1>2, PayoutStarts

LEMMA RefundStarts ==
    ASSUME TypeOK, PayoutsNumbered, NEW t \in publishing, OnPublished(t), Failed(t)
    PROVE  \E p \in Payouts :
              /\ Starts(payouts, payouts', p) /\ p.no = issued + 1 /\ issued' = issued + 1
              /\ p.stage = "transfer" /\ p.amount = t.amount
              /\ p.call = NoCall /\ p.held = 0
<1>1. /\ t.sender \in Accounts /\ t.refundTo \in Accounts /\ t.amount \in Nat
      /\ NoCall \in 0..MaxCalls
  BY NttAssumption DEF TypeOK, FlightTypes, Publishing, NoCall
<1>2. PayOutCrediting(t.refundTo, t.sender, t.amount, "transfer", "refund", NoCall, 0)
  BY DEF OnPublished
<1> QED
  BY <1>1, <1>2, PayoutStarts

LEMMA UnlockStarts ==
    ASSUME TypeOK, PayoutsNumbered, NEW v \in verifying, OnVerifiedUnlocks(v)
    PROVE  /\ v \in Verifying /\ Excess(v) \in Nat /\ Excess(v) >= ClaimReserve
           /\ \E p \in Payouts :
              /\ Starts(payouts, payouts', p) /\ p.no = issued + 1 /\ issued' = issued + 1
              /\ p.stage # "paid" /\ p.amount = UnlockAmount(v.digest)
              /\ p.call = v.no /\ p.held = Excess(v)
<1> DEFINE d == v.digest
           first == IF Registers(v) THEN "register" ELSE "transfer"
<1>1. v \in Verifying /\ d \in Digests /\ v.no \in 0..MaxCalls /\ v.deposit \in Nat
  BY DEF TypeOK, FlightTypes, Verifying
<1>2. To(d) \in Accounts /\ UnlockAmount(d) \in Nat
  BY <1>1, MsgAssumption, UnlockAmountNat DEF To
<1>3. Used(v) \in Nat /\ Reserve(v) \in Nat
  BY <1>1, UsedNat
<1>4. v.deposit >= Used(v) + Reserve(v) /\ Reserve(v) = ClaimReserve
  BY DEF OnVerifiedUnlocks, Accepts, Reserve
<1>5. Excess(v) \in Nat /\ Excess(v) >= ClaimReserve
  BY <1>1, <1>3, <1>4 DEF Excess
<1>6. first \in {"register", "transfer"} /\ first # "paid"
  OBVIOUS
<1>7. PayOutCrediting(To(d), To(d), UnlockAmount(d), first, "unlock", v.no, Excess(v))
  BY DEF OnVerifiedUnlocks, PayOut
<1> HIDE DEF first, d
<1>8. \E p \in Payouts :
         /\ Starts(payouts, payouts', p) /\ p.no = issued + 1 /\ issued' = issued + 1
         /\ p.stage # "paid" /\ p.amount = UnlockAmount(d)
         /\ p.call = v.no /\ p.held = Excess(v)
  BY <1>1, <1>2, <1>5, <1>6, <1>7, PayoutStarts
<1> QED
  BY <1>1, <1>5, <1>8 DEF d

LEMMA PayoutsNext ==
    ASSUME TypeOK, IsFiniteSet(payouts), IsFiniteSet(verifying), CallsNumbered,
           PayoutsNumbered, [Next]_vars
    PROVE  IsFiniteSet(payouts') /\ PayoutsNumbered'
<1>1. /\ issued \in Nat /\ calls \in Nat /\ ClaimReserve \in Nat /\ payouts \subseteq Payouts
      /\ \A p \in Payouts : p.no \in Nat /\ p.call \in Nat /\ p.held \in Nat
  <2>1. MaxCalls \in Nat /\ ClaimReserve \in Nat
    BY NttAssumption
  <2>2. \A p \in Payouts : p.no \in Nat /\ p.call \in Nat /\ p.held \in Nat
    BY <2>1 DEF Payouts
  <2> QED
    BY <2>1, <2>2 DEF TypeOK, FlightTypes, WorldTypes
<1>2. calls' \in Nat /\ calls <= calls'
  BY CallsNext
<1>3. CASE UNCHANGED <<payouts, issued>>
  BY <1>1, <1>2, <1>3 DEF PayoutsNumbered
<1>4. ASSUME NEW p \in Payouts, Starts(payouts, payouts', p), p.no = issued + 1,
             issued' = issued + 1, p.call <= calls,
             IF p.call = NoCall THEN p.held = 0 ELSE p.held >= ClaimReserve
      PROVE  IsFiniteSet(payouts') /\ PayoutsNumbered'
  <2>1. payouts' = payouts \cup {p} /\ IsFiniteSet(payouts')
    BY <1>4, FS_AddElement DEF Starts
  <2>2. \A q \in payouts : /\ q.no \in Nat /\ q.no <= issued
                           /\ q.call \in Nat /\ q.call <= calls
    BY <1>1 DEF PayoutsNumbered
  <2>3. \A q \in payouts' : q.no <= issued' /\ q.call <= calls'
    BY <1>1, <1>2, <1>4, <2>1, <2>2
  <2>4. \A q, r \in payouts' : q.no = r.no => q = r
    BY <1>1, <1>4, <2>1, <2>2 DEF PayoutsNumbered
  <2>5. \A q \in payouts' : IF q.call = NoCall THEN q.held = 0 ELSE q.held >= ClaimReserve
    BY <1>4, <2>1 DEF PayoutsNumbered
  <2> QED
    BY <2>1, <2>3, <2>4, <2>5 DEF PayoutsNumbered
<1>5. NoCall <= calls
  BY <1>1 DEF NoCall
<1>6. ASSUME NEW d \in Digests, ReleaseInbound(d)
      PROVE  IsFiniteSet(payouts') /\ PayoutsNumbered'
  BY <1>4, <1>5, <1>6, ReleaseStarts
<1>7. ASSUME NEW a \in Accounts, Claim(a)
      PROVE  IsFiniteSet(payouts') /\ PayoutsNumbered'
  BY <1>4, <1>5, <1>7, ClaimStarts
<1>8. ASSUME NEW t \in publishing, OnPublished(t)
      PROVE  IsFiniteSet(payouts') /\ PayoutsNumbered'
  <2>1. CASE Failed(t)
    BY <1>4, <1>5, <1>8, <2>1, RefundStarts
  <2>2. CASE ~Failed(t)
    BY <1>3, <1>8, <2>2 DEF OnPublished
  <2> QED
    BY <2>1, <2>2
<1>9. ASSUME NEW v \in verifying, OnVerifiedUnlocks(v)
      PROVE  IsFiniteSet(payouts') /\ PayoutsNumbered'
  <2>1. v.no <= calls /\ v.no # NoCall
    BY DEF CallsNumbered, TypeOK, FlightTypes, Verifying, NoCall
  <2> QED
    BY <1>4, <1>9, <2>1, UnlockStarts
<1>10. ASSUME NEW p \in payouts, OnPaid(p) \/ OnPaidFails(p)
       PROVE  IsFiniteSet(payouts') /\ PayoutsNumbered'
  <2>1. payouts' = payouts \ {p} /\ UNCHANGED <<issued, calls>>
    BY <1>10 DEF OnPaid, OnPaidFails, history
  <2> QED
    BY <2>1, FS_Subset DEF PayoutsNumbered
<1>11. ASSUME NEW p \in payouts, NEW ok \in BOOLEAN,
              TokenRegister(p, ok) \/ TokenTransfer(p, ok)
       PROVE  IsFiniteSet(payouts') /\ PayoutsNumbered'
  <2>1. PICK stage \in MovedTo : MoveTo(p, stage)
    BY <1>11 DEF TokenRegister, TokenTransfer, MovedTo
  <2>2. UNCHANGED <<issued, calls>>
    BY <1>11 DEF TokenRegister, TokenTransfer, history
  <2> DEFINE q == [p EXCEPT !.stage = stage]
  <2>3. q.no = p.no /\ q.call = p.call /\ q.held = p.held /\ Moves(payouts, payouts', p, q)
    BY <2>1, PayoutMoves
  <2> HIDE DEF q
  <2>4. payouts' = (payouts \ {p}) \cup {q}
    BY <2>3 DEF Moves
  <2>5. IsFiniteSet(payouts')
    BY <2>4, FS_Subset, FS_AddElement
  <2> QED
    BY <2>2, <2>3, <2>4, <2>5 DEF PayoutsNumbered
<1> QED
  BY <1>3, <1>6, <1>7, <1>8, <1>9, <1>10, <1>11, PayoutActions

LEMMA DistinctNext == TypeOK /\ DistinctInv /\ [Next]_vars => DistinctInv'
  BY SendsNext, CallsNext, PayoutsNext DEF DistinctInv, Finite

-----------------------------------------------------------------------------
(* What is owed, as sums of fixed weights over the sets that change. *)

MessageWeight == [m \in WireMessages |-> m.amount]
DigestWeight == [d \in Digests |-> UnlockAmount(d)]
PayoutWeight == [p \in Payouts |-> Unpaid(p)]
SendWeight == [t \in Publishing |-> Unsent(t)]

LEMMA Weights ==
    /\ MessageWeight \in [WireMessages -> Nat] /\ DigestWeight \in [Digests -> Nat]
    /\ PayoutWeight \in [Payouts -> Nat] /\ SendWeight \in [Publishing -> Nat]
<1>1. MessageWeight \in [WireMessages -> Nat]
  BY DEF MessageWeight, WireMessages
<1>2. DigestWeight \in [Digests -> Nat]
  BY UnlockAmountNat DEF DigestWeight
<1>3. PayoutWeight \in [Payouts -> Nat]
  BY DEF PayoutWeight, Payouts, Unpaid
<1>4. SendWeight \in [Publishing -> Nat]
  BY DEF SendWeight, Publishing, Unsent
<1> QED
  BY <1>1, <1>2, <1>3, <1>4

MintedSum == SumFunctionOnSet(minted, Chains)
WireSum == SumFunctionOnSet(MessageWeight, onWire)
BurnedSum == SumFunctionOnSet(DigestWeight, burned \ executed)
QueuedSum == SumFunctionOnSet(DigestWeight, QueuedDigests)
ClaimSum == SumFunctionOnSet(claimable, Accounts)
PayoutSum == SumFunctionOnSet(PayoutWeight, payouts)
SendSum == SumFunctionOnSet(SendWeight, publishing)

OwedSums ==
    /\ MintedSum \in Nat /\ WireSum \in Nat /\ BurnedSum \in Nat /\ QueuedSum \in Nat
    /\ ClaimSum \in Nat /\ PayoutSum \in Nat /\ SendSum \in Nat
    /\ Owed = MintedSum + WireSum + BurnedSum + QueuedSum + ClaimSum + PayoutSum + SendSum

\* The sum of a function is that of any extension of it.
LEMMA SumExtends ==
    ASSUME NEW S, IsFiniteSet(S), NEW f, NEW e, DOMAIN e = S, \A x \in S : e[x] = f[x],
           \A x \in S : f[x] \in Nat
    PROVE  SumFunction(e) = SumFunctionOnSet(f, S) /\ SumFunctionOnSet(f, S) \in Nat
<1>1. SumFunctionOnSet(e, S) = SumFunctionOnSet(f, S)
  BY SumCongruence
<1> QED
  BY <1>1, SumNat DEF SumFunction

LEMMA OwedIs == TypeOK /\ Finite => OwedSums
<1> SUFFICES ASSUME TypeOK, Finite PROVE OwedSums
  OBVIOUS
<1>1. SumFunction(minted) = MintedSum /\ MintedSum \in Nat
  BY NttAssumption, SumExtends DEF TypeOK, WorldTypes, MintedSum
<1>2. SumFunction(claimable) = ClaimSum /\ ClaimSum \in Nat
  BY NttAssumption, SumExtends DEF TypeOK, ContractTypes, ClaimSum
<1>3. SumFunction([m \in onWire |-> m.amount]) = WireSum /\ WireSum \in Nat
  <2> DEFINE e == [m \in onWire |-> m.amount]
  <2>1. onWire \subseteq WireMessages /\ IsFiniteSet(onWire)
    BY DEF TypeOK, WorldTypes, WireMessages, Finite
  <2>2. DOMAIN e = onWire /\ \A m \in onWire : e[m] = MessageWeight[m] /\ MessageWeight[m] \in Nat
    BY <2>1, Weights DEF MessageWeight
  <2> HIDE DEF e
  <2>3. SumFunction(e) = WireSum /\ WireSum \in Nat
    BY <2>1, <2>2, SumExtends DEF WireSum
  <2> QED
    BY <2>3 DEF e
<1>4. ASSUME NEW S \in SUBSET Digests
      PROVE  /\ SumFunction([d \in S |-> UnlockAmount(d)]) = SumFunctionOnSet(DigestWeight, S)
             /\ SumFunctionOnSet(DigestWeight, S) \in Nat
  <2> DEFINE e == [d \in S |-> UnlockAmount(d)]
  <2>1. IsFiniteSet(S)
    BY NttAssumption, FS_Subset
  <2>2. DOMAIN e = S /\ \A d \in S : e[d] = DigestWeight[d] /\ DigestWeight[d] \in Nat
    BY Weights DEF DigestWeight
  <2> HIDE DEF e
  <2>3. /\ SumFunction(e) = SumFunctionOnSet(DigestWeight, S)
        /\ SumFunctionOnSet(DigestWeight, S) \in Nat
    BY <2>1, <2>2, SumExtends
  <2> QED
    BY <2>3 DEF e
<1>5. burned \ executed \in SUBSET Digests /\ QueuedDigests \in SUBSET Digests
  BY DEF TypeOK, WorldTypes, QueuedDigests
<1>6. SumFunction([p \in payouts |-> Unpaid(p)]) = PayoutSum /\ PayoutSum \in Nat
  <2> DEFINE e == [p \in payouts |-> Unpaid(p)]
  <2>1. payouts \subseteq Payouts /\ IsFiniteSet(payouts)
    BY DEF TypeOK, FlightTypes, Finite
  <2>2. DOMAIN e = payouts /\ \A p \in payouts : e[p] = PayoutWeight[p] /\ PayoutWeight[p] \in Nat
    BY <2>1, Weights DEF PayoutWeight
  <2> HIDE DEF e
  <2>3. SumFunction(e) = PayoutSum /\ PayoutSum \in Nat
    BY <2>1, <2>2, SumExtends DEF PayoutSum
  <2> QED
    BY <2>3 DEF e
<1>7. SumFunction([t \in publishing |-> Unsent(t)]) = SendSum /\ SendSum \in Nat
  <2> DEFINE e == [t \in publishing |-> Unsent(t)]
  <2>1. publishing \subseteq Publishing /\ IsFiniteSet(publishing)
    BY DEF TypeOK, FlightTypes, Finite
  <2>2. DOMAIN e = publishing /\ \A t \in publishing : e[t] = SendWeight[t] /\ SendWeight[t] \in Nat
    BY <2>1, Weights DEF SendWeight
  <2> HIDE DEF e
  <2>3. SumFunction(e) = SendSum /\ SendSum \in Nat
    BY <2>1, <2>2, SumExtends DEF SendSum
  <2> QED
    BY <2>3 DEF e
<1>8. /\ SumFunction([d \in burned \ executed |-> UnlockAmount(d)]) = BurnedSum
      /\ BurnedSum \in Nat
  BY <1>4, <1>5 DEF BurnedSum
<1>9. /\ SumFunction([d \in QueuedDigests |-> UnlockAmount(d)]) = QueuedSum
      /\ QueuedSum \in Nat
  BY <1>4, <1>5 DEF QueuedSum
<1> QED
  BY <1>1, <1>2, <1>3, <1>6, <1>7, <1>8, <1>9 DEF OwedSums, Owed

LEMMA OwedIsNext == TypeOK' /\ Finite' => OwedSums'
  BY OwedIs, PTL

LEMMA OwedNat == OwedSums => Owed \in Nat
  BY DEF OwedSums

LEMMA OwedNatNext == OwedSums' => (Owed \in Nat)'
  BY OwedNat, PTL

-----------------------------------------------------------------------------
(* What one step does to each sum. *)

LEMMA SumsSame ==
    /\ minted' = minted => MintedSum' = MintedSum
    /\ onWire' = onWire => WireSum' = WireSum
    /\ burned' \ executed' = burned \ executed => BurnedSum' = BurnedSum
    /\ queuedAt' = queuedAt => QueuedSum' = QueuedSum
    /\ claimable' = claimable => ClaimSum' = ClaimSum
    /\ payouts' = payouts => PayoutSum' = PayoutSum
    /\ publishing' = publishing => SendSum' = SendSum
  BY DEF MintedSum, WireSum, BurnedSum, QueuedSum, ClaimSum, PayoutSum, SendSum,
         QueuedDigests

LEMMA PayoutSumStarts ==
    ASSUME TypeOK, Finite, NEW p \in Payouts, Starts(payouts, payouts', p), p.stage # "paid"
    PROVE  PayoutSum' = PayoutSum + p.amount
<1>1. payouts \in SUBSET Payouts /\ IsFiniteSet(payouts)
  BY DEF TypeOK, FlightTypes, Finite
<1>2. PayoutSum' = PayoutSum + PayoutWeight[p]
  BY <1>1, Weights, SumStarts DEF PayoutSum
<1> QED
  BY <1>2 DEF PayoutWeight, Unpaid

LEMMA PayoutSumMoves ==
    ASSUME TypeOK, Finite, NEW p \in payouts, NEW q \in Payouts,
           Moves(payouts, payouts', p, q)
    PROVE  PayoutSum' = PayoutSum - Unpaid(p) + Unpaid(q)
<1>1. payouts \in SUBSET Payouts /\ IsFiniteSet(payouts) /\ p \in Payouts
  BY DEF TypeOK, FlightTypes, Finite
<1>2. PayoutSum' = PayoutSum - PayoutWeight[p] + PayoutWeight[q]
  BY <1>1, Weights, SumMoves DEF PayoutSum
<1> QED
  BY <1>1, <1>2 DEF PayoutWeight

LEMMA PayoutSumEnds ==
    ASSUME TypeOK, Finite, NEW p \in payouts, payouts' = payouts \ {p}
    PROVE  PayoutSum' = PayoutSum - Unpaid(p)
<1>1. payouts \in SUBSET Payouts /\ IsFiniteSet(payouts) /\ p \in Payouts
  BY DEF TypeOK, FlightTypes, Finite
<1>2. PayoutSum' = PayoutSum - PayoutWeight[p]
  BY <1>1, Weights, SumEnds DEF PayoutSum, Ends
<1> QED
  BY <1>1, <1>2 DEF PayoutWeight

LEMMA SendSumStarts ==
    ASSUME TypeOK, Finite, NEW t \in Publishing, Starts(publishing, publishing', t)
    PROVE  SendSum' = SendSum + Unsent(t)
<1>1. publishing \in SUBSET Publishing /\ IsFiniteSet(publishing)
  BY DEF TypeOK, FlightTypes, Finite
<1>2. SendSum' = SendSum + SendWeight[t]
  BY <1>1, Weights, SumStarts DEF SendSum
<1> QED
  BY <1>2 DEF SendWeight

LEMMA SendSumMoves ==
    ASSUME TypeOK, Finite, NEW t \in publishing, NEW u \in Publishing,
           Moves(publishing, publishing', t, u)
    PROVE  SendSum' = SendSum - Unsent(t) + Unsent(u)
<1>1. publishing \in SUBSET Publishing /\ IsFiniteSet(publishing) /\ t \in Publishing
  BY DEF TypeOK, FlightTypes, Finite
<1>2. SendSum' = SendSum - SendWeight[t] + SendWeight[u]
  BY <1>1, Weights, SumMoves DEF SendSum
<1> QED
  BY <1>1, <1>2 DEF SendWeight

LEMMA SendSumEnds ==
    ASSUME TypeOK, Finite, NEW t \in publishing, publishing' = publishing \ {t}
    PROVE  SendSum' = SendSum - Unsent(t)
<1>1. publishing \in SUBSET Publishing /\ IsFiniteSet(publishing) /\ t \in Publishing
  BY DEF TypeOK, FlightTypes, Finite
<1>2. SendSum' = SendSum - SendWeight[t]
  BY <1>1, Weights, SumEnds DEF SendSum, Ends
<1> QED
  BY <1>1, <1>2 DEF SendWeight

LEMMA DigestSumStarts ==
    ASSUME NEW S \in SUBSET Digests, NEW T, NEW d \in Digests, Starts(S, T, d)
    PROVE  SumFunctionOnSet(DigestWeight, T)
             = SumFunctionOnSet(DigestWeight, S) + UnlockAmount(d)
<1>1. IsFiniteSet(S)
  BY NttAssumption, FS_Subset
<1>2. SumFunctionOnSet(DigestWeight, T) = SumFunctionOnSet(DigestWeight, S) + DigestWeight[d]
  BY <1>1, Weights, SumStarts
<1> QED
  BY <1>2 DEF DigestWeight

LEMMA DigestSumEnds ==
    ASSUME NEW S \in SUBSET Digests, NEW T, NEW d \in Digests, Ends(S, T, d)
    PROVE  SumFunctionOnSet(DigestWeight, T)
             = SumFunctionOnSet(DigestWeight, S) - UnlockAmount(d)
<1>1. IsFiniteSet(S)
  BY NttAssumption, FS_Subset
<1>2. SumFunctionOnSet(DigestWeight, T) = SumFunctionOnSet(DigestWeight, S) - DigestWeight[d]
  BY <1>1, Weights, SumEnds
<1> QED
  BY <1>2 DEF DigestWeight

LEMMA ClaimSumPoint ==
    ASSUME claimable \in [Accounts -> Nat], claimable' \in [Accounts -> Nat], NEW a \in Accounts,
           \A x \in Accounts \ {a} : claimable'[x] = claimable[x]
    PROVE  ClaimSum' = ClaimSum - claimable[a] + claimable'[a]
<1>1. \A x \in Accounts : claimable[x] \in Int /\ claimable'[x] \in Int
  OBVIOUS
<1>2. IsFiniteSet(Accounts)
  BY NttAssumption
<1>3. SumFunctionOnSet(claimable', Accounts)
        = SumFunctionOnSet(claimable, Accounts) - claimable[a] + claimable'[a]
  BY <1>1, <1>2, SumPoint
<1> QED
  BY <1>3 DEF ClaimSum

LEMMA MintedSumPoint ==
    ASSUME minted \in [Chains -> Nat], minted' \in [Chains -> Nat], NEW c \in Chains,
           \A x \in Chains \ {c} : minted'[x] = minted[x]
    PROVE  MintedSum' = MintedSum - minted[c] + minted'[c]
<1>1. \A x \in Chains : minted[x] \in Int /\ minted'[x] \in Int
  OBVIOUS
<1>2. IsFiniteSet(Chains)
  BY NttAssumption
<1>3. SumFunctionOnSet(minted', Chains)
        = SumFunctionOnSet(minted, Chains) - minted[c] + minted'[c]
  BY <1>1, <1>2, SumPoint
<1> QED
  BY <1>3 DEF MintedSum

-----------------------------------------------------------------------------
(* Every step but one keeps what the custody has over what is owed. *)

Balanced == custody' - Owed' = custody - Owed

\* What is known of a step: both its states' sums, and the facts about chains.
StepFacts ==
    /\ TypeOK /\ TypeOK' /\ DistinctInv /\ ReplayInv
    /\ OwedSums /\ OwedSums' /\ custody \in Nat /\ custody' \in Nat

LEMMA StepFactsHold ==
    ASSUME TypeOK, DistinctInv, ReplayInv, [Next]_vars PROVE StepFacts
<1>1. TypeOK' /\ DistinctInv'
  BY NextTypes, DistinctNext
<1>2. OwedSums /\ OwedSums'
  BY <1>1, OwedIs, OwedIsNext DEF DistinctInv
<1> QED
  BY <1>1, <1>2 DEF StepFacts, TypeOK, WorldTypes

\* A step that touches nothing of the balance.
Quiet ==
    /\ UNCHANGED custody /\ UNCHANGED minted /\ UNCHANGED onWire /\ UNCHANGED burned
    /\ UNCHANGED executed /\ UNCHANGED queuedAt /\ UNCHANGED claimable
    /\ UNCHANGED payouts /\ UNCHANGED publishing

LEMMA QuietBalance ==
    ASSUME StepFacts, Quiet
    PROVE  Balanced
  BY SumsSame DEF Quiet, StepFacts, OwedSums, Balanced

\* ft_on_transfer: what is locked becomes a send to publish.
LEMMA FtOnTransferBalance ==
    ASSUME StepFacts, NEW a \in Accounts, NEW r \in Accounts, NEW c \in Chains,
           NEW amount \in Transfers, FtOnTransfer(a, r, c, amount)
    PROVE  Balanced
<1> DEFINE locked == LockedPart(amount, c)
           t == [id |-> seq, sender |-> a, refundTo |-> r, amount |-> locked,
                 chain |-> c, stage |-> "publish",
                 inboundBackflow |-> Backflowed(inbound[c], locked, now)]
<1>1. /\ publishing' = publishing \cup {t} /\ custody' = custody + locked
      /\ UNCHANGED <<minted, onWire, burned, executed, queuedAt, claimable, payouts>>
  BY DEF FtOnTransfer, wormhole
<1>2. t \in Publishing
  <2>1. t \in publishing'
    BY <1>1
  <2> HIDE DEF t
  <2> QED
    BY <2>1 DEF StepFacts, TypeOK, FlightTypes
<1>3. t.id = seq /\ Unsent(t) = locked
  BY DEF Unsent
<1>4. locked \in Nat
  <2>1. t.amount \in Nat /\ t.amount = locked
    <3>1. t.amount = locked
      OBVIOUS
    <3> HIDE DEF t
    <3> QED
      BY <1>2, <3>1 DEF Publishing
  <2> QED
    BY <2>1
<1> HIDE DEF t, locked
<1>5. SendSum' = SendSum + locked
  BY <1>1, <1>2, <1>3, SendStarts, SendSumStarts DEF StepFacts, DistinctInv
<1> QED
  BY <1>1, <1>4, <1>5, SumsSame DEF StepFacts, OwedSums, Balanced

\* publish_message: a published send becomes a message on the wire.
LEMMA PublishBalance ==
    ASSUME StepFacts, NEW t \in publishing, NEW ok \in BOOLEAN, Publish(t, ok)
    PROVE  Balanced
<1> DEFINE stage == IF ok THEN "sent" ELSE "failed"
           u == [t EXCEPT !.stage = stage]
<1>1. /\ t \in Publishing /\ t.amount \in Nat /\ t.stage = "publish"
      /\ publishing' = (publishing \ {t}) \cup {u}
      /\ UNCHANGED <<custody, minted, burned, executed, queuedAt, claimable, payouts>>
  BY DEF Publish, StepFacts, TypeOK, FlightTypes, Publishing, contract, token
<1>2. u \in Publishing /\ Moves(publishing, publishing', t, u)
  BY <1>1, SendMoves DEF StepFacts, DistinctInv
<1>3. Unsent(t) = t.amount /\ Unsent(u) = IF ok THEN 0 ELSE t.amount
  BY <1>1 DEF Unsent, Publishing
<1> HIDE DEF u
<1>4. SendSum' = SendSum - Unsent(t) + Unsent(u)
  BY <1>2, SendSumMoves DEF StepFacts, DistinctInv
<1>5. CASE ok
  <2>1. MessageOf(t) \in WireMessages /\ Starts(onWire, onWire', MessageOf(t))
    <3>1. ok = TRUE
      BY <1>5
    <3> QED
      BY <3>1, MessageStarts DEF StepFacts, DistinctInv
  <2>2. onWire \in SUBSET WireMessages /\ IsFiniteSet(onWire)
    BY DEF StepFacts, TypeOK, WorldTypes, WireMessages, DistinctInv, Finite
  <2>3. WireSum' = WireSum + MessageWeight[MessageOf(t)]
    BY <2>1, <2>2, Weights, SumStarts DEF WireSum
  <2>4. MessageWeight[MessageOf(t)] = t.amount
    BY <2>1 DEF MessageWeight, MessageOf
  <2> QED
    BY <1>1, <1>3, <1>4, <1>5, <2>3, <2>4, SumsSame DEF StepFacts, OwedSums, Balanced
<1>6. CASE ~ok
  <2>1. UNCHANGED onWire
    BY <1>6 DEF Publish
  <2> QED
    BY <1>1, <1>3, <1>4, <1>6, <2>1, SumsSame DEF StepFacts, OwedSums, Balanced
<1> QED
  BY <1>5, <1>6

\* on_published: a failed send becomes its refund.
LEMMA OnPublishedBalance ==
    ASSUME StepFacts, NEW t \in publishing, OnPublished(t)
    PROVE  Balanced
<1>1. /\ t.amount \in Nat /\ publishing' = publishing \ {t} /\ t.stage \in {"sent", "failed"}
      /\ UNCHANGED <<custody, minted, onWire, burned, executed, queuedAt, claimable>>
  BY DEF OnPublished, Published, StepFacts, TypeOK, FlightTypes, Publishing, token, wormhole
<1>2. SendSum' = SendSum - Unsent(t)
  BY <1>1, SendSumEnds DEF StepFacts, DistinctInv
<1>3. CASE Failed(t)
  <2>1. PayoutSum' = PayoutSum + t.amount
    <3>1. PICK p \in Payouts : /\ Starts(payouts, payouts', p) /\ p.stage = "transfer"
                              /\ p.amount = t.amount
      BY <1>3, RefundStarts DEF StepFacts, DistinctInv
    <3> QED
      BY <3>1, PayoutSumStarts DEF StepFacts, DistinctInv
  <2>2. Unsent(t) = t.amount
    BY <1>3 DEF Failed, Unsent
  <2> QED
    BY <1>1, <1>2, <2>1, <2>2, SumsSame DEF StepFacts, OwedSums, Balanced
<1>4. CASE ~Failed(t)
  <2>1. UNCHANGED payouts /\ Unsent(t) = 0
    BY <1>1, <1>4 DEF OnPublished, Failed, Unsent
  <2> QED
    BY <1>1, <1>2, <2>1, SumsSame DEF StepFacts, OwedSums, Balanced
<1> QED
  BY <1>3, <1>4

\* on_verified: a burned message is no longer waiting, but being paid or queued.
LEMMA ConsumedSum ==
    ASSUME StepFacts, NEW v \in verifying, Accepts(v), UNCHANGED burned,
           executed' = executed \cup {v.digest}
    PROVE  /\ v.digest \in Digests /\ UnlockAmount(v.digest) \in Nat
           /\ v.digest \notin executed /\ BurnedSum' = BurnedSum - UnlockAmount(v.digest)
<1> DEFINE d == v.digest
<1>1. d \in Digests /\ d \in burned /\ d \notin executed /\ burned \subseteq Digests
  BY DEF StepFacts, TypeOK, FlightTypes, WorldTypes, Verifying, Accepts, Consumable, ReplayInv
<1>2. UnlockAmount(d) \in Nat
  BY <1>1, UnlockAmountNat
<1>3. Ends(burned \ executed, burned' \ executed', d)
  BY <1>1 DEF Ends
<1>4. burned \ executed \in SUBSET Digests
  BY <1>1
<1>5. SumFunctionOnSet(DigestWeight, burned' \ executed')
        = SumFunctionOnSet(DigestWeight, burned \ executed) - UnlockAmount(d)
  BY <1>1, <1>3, <1>4, DigestSumEnds
<1> QED
  BY <1>1, <1>2, <1>5 DEF BurnedSum

LEMMA OnVerifiedUnlocksBalance ==
    ASSUME StepFacts, NEW v \in verifying, OnVerifiedUnlocks(v)
    PROVE  Balanced
<1>1. /\ Accepts(v) /\ executed' = executed \cup {v.digest}
      /\ UNCHANGED <<custody, minted, onWire, burned, queuedAt, claimable, publishing>>
  BY DEF OnVerifiedUnlocks, token, wormhole
<1>2. UnlockAmount(v.digest) \in Nat /\ BurnedSum' = BurnedSum - UnlockAmount(v.digest)
  BY <1>1, ConsumedSum
<1>3. PayoutSum' = PayoutSum + UnlockAmount(v.digest)
  <2>1. PICK p \in Payouts : /\ Starts(payouts, payouts', p) /\ p.stage # "paid"
                            /\ p.amount = UnlockAmount(v.digest)
    BY UnlockStarts DEF StepFacts, DistinctInv
  <2> QED
    BY <2>1, PayoutSumStarts DEF StepFacts, DistinctInv
<1> QED
  BY <1>1, <1>2, <1>3, SumsSame DEF StepFacts, OwedSums, Balanced

LEMMA OnVerifiedQueuesBalance ==
    ASSUME StepFacts, NEW v \in verifying, OnVerifiedQueues(v)
    PROVE  Balanced
<1> DEFINE d == v.digest
<1>1. /\ Accepts(v) /\ executed' = executed \cup {d}
      /\ queuedAt' = [queuedAt EXCEPT ![d] = now]
      /\ UNCHANGED <<custody, minted, onWire, burned, claimable, payouts, publishing>>
  BY DEF OnVerifiedQueues, token, wormhole
<1>2. /\ d \in Digests /\ UnlockAmount(d) \in Nat /\ d \notin executed
      /\ BurnedSum' = BurnedSum - UnlockAmount(d)
  BY <1>1, ConsumedSum
<1>3. Starts(QueuedDigests, QueuedDigests', d)
  <2>1. now # NotQueued /\ queuedAt \in [Digests -> Nat \cup {NotQueued}]
    BY DEF StepFacts, TypeOK, WorldTypes, ContractTypes, NotQueued
  <2>2. queuedAt[d] = NotQueued
    BY <1>2 DEF StepFacts, ReplayInv
  <2> QED
    BY <1>1, <1>2, <2>1, <2>2 DEF Starts, QueuedDigests
<1>4. QueuedSum' = QueuedSum + UnlockAmount(d)
  <2>1. QueuedDigests \in SUBSET Digests
    BY DEF QueuedDigests
  <2> QED
    BY <1>2, <1>3, <2>1, DigestSumStarts DEF QueuedSum
<1> QED
  BY <1>1, <1>2, <1>4, SumsSame DEF StepFacts, OwedSums, Balanced

\* release_inbound: what was queued is being paid.
LEMMA ReleaseBalance ==
    ASSUME StepFacts, NEW d \in Digests, ReleaseInbound(d)
    PROVE  Balanced
<1>1. /\ queuedAt[d] # NotQueued /\ queuedAt' = [queuedAt EXCEPT ![d] = NotQueued]
      /\ UNCHANGED <<custody, minted, onWire, burned, executed, claimable, publishing>>
  BY DEF ReleaseInbound, token, wormhole
<1>2. Ends(QueuedDigests, QueuedDigests', d)
  <2>1. queuedAt \in [Digests -> Nat \cup {NotQueued}]
    BY DEF StepFacts, TypeOK, ContractTypes
  <2> QED
    BY <1>1, <2>1 DEF Ends, QueuedDigests
<1>3. UnlockAmount(d) \in Nat /\ QueuedSum' = QueuedSum - UnlockAmount(d)
  <2>1. QueuedDigests \in SUBSET Digests
    BY DEF QueuedDigests
  <2> QED
    BY <1>2, <2>1, DigestSumEnds, UnlockAmountNat DEF QueuedSum
<1>4. PayoutSum' = PayoutSum + UnlockAmount(d)
  <2>1. PICK p \in Payouts : /\ Starts(payouts, payouts', p) /\ p.stage = "transfer"
                            /\ p.amount = UnlockAmount(d)
    BY ReleaseStarts DEF StepFacts, DistinctInv
  <2> QED
    BY <2>1, PayoutSumStarts DEF StepFacts, DistinctInv
<1> QED
  BY <1>1, <1>3, <1>4, SumsSame DEF StepFacts, OwedSums, Balanced

\* claim: a credit is being paid.
LEMMA ClaimBalance ==
    ASSUME StepFacts, NEW a \in Accounts, Claim(a)
    PROVE  Balanced
<1>1. /\ claimable' = [claimable EXCEPT ![a] = 0]
      /\ UNCHANGED <<custody, minted, onWire, burned, executed, queuedAt, publishing>>
  BY DEF Claim, token, wormhole
<1>2. claimable \in [Accounts -> Nat] /\ claimable' \in [Accounts -> Nat]
  BY DEF StepFacts, TypeOK, ContractTypes
<1>3. claimable'[a] = 0 /\ \A x \in Accounts \ {a} : claimable'[x] = claimable[x]
  BY <1>1, <1>2
<1>4. ClaimSum' = ClaimSum - claimable[a] + claimable'[a]
  BY <1>2, <1>3, ClaimSumPoint
<1>5. PayoutSum' = PayoutSum + claimable[a]
  <2>1. PICK p \in Payouts : /\ Starts(payouts, payouts', p) /\ p.stage = "transfer"
                            /\ p.amount = claimable[a]
    BY ClaimStarts DEF StepFacts, DistinctInv
  <2> QED
    BY <2>1, PayoutSumStarts DEF StepFacts, DistinctInv
<1>6. claimable[a] \in Nat
  BY <1>2
<1> QED
  BY <1>1, <1>3, <1>4, <1>5, <1>6, SumsSame DEF StepFacts, OwedSums, Balanced

\* storage_deposit
LEMMA TokenRegisterBalance ==
    ASSUME StepFacts, NEW p \in payouts, NEW ok \in BOOLEAN, TokenRegister(p, ok)
    PROVE  Balanced
<1> DEFINE q == [p EXCEPT !.stage = "transfer"]
<1>1. /\ p.stage = "register" /\ MoveTo(p, "transfer") /\ "transfer" \in MovedTo
      /\ UNCHANGED <<custody, minted, onWire, burned, executed, queuedAt, claimable, publishing>>
  BY DEF TokenRegister, contract, wormhole, MovedTo
<1>2. /\ q \in Payouts /\ q.stage = "transfer" /\ q.amount = p.amount
      /\ Moves(payouts, payouts', p, q)
  BY <1>1, PayoutMoves DEF StepFacts, DistinctInv
<1> HIDE DEF q
<1>3. Unpaid(p) = p.amount /\ Unpaid(q) = p.amount /\ p.amount \in Nat
  BY <1>1, <1>2 DEF Unpaid, StepFacts, TypeOK, FlightTypes, Payouts
<1>4. PayoutSum' = PayoutSum - Unpaid(p) + Unpaid(q)
  BY <1>2, PayoutSumMoves DEF StepFacts, DistinctInv
<1> QED
  BY <1>1, <1>3, <1>4, SumsSame DEF StepFacts, OwedSums, Balanced

\* ft_transfer: what is paid leaves the custody.
LEMMA TokenTransferBalance ==
    ASSUME StepFacts, NEW p \in payouts, NEW ok \in BOOLEAN, TokenTransfer(p, ok)
    PROVE  Balanced
<1> DEFINE stage == IF ok THEN "paid" ELSE "unpaid"
           q == [p EXCEPT !.stage = stage]
<1>1. /\ p.stage = "transfer" /\ MoveTo(p, stage) /\ stage \in MovedTo
      /\ UNCHANGED <<minted, onWire, burned, executed, queuedAt, claimable, publishing>>
      /\ custody' = IF ok THEN custody - p.amount ELSE custody
  BY DEF TokenTransfer, contract, wormhole, MovedTo
<1>2. /\ q \in Payouts /\ q.stage = stage /\ q.amount = p.amount
      /\ Moves(payouts, payouts', p, q)
  BY <1>1, PayoutMoves DEF StepFacts, DistinctInv
<1> HIDE DEF q
<1>3. /\ Unpaid(p) = p.amount /\ Unpaid(q) = (IF ok THEN 0 ELSE p.amount)
      /\ p.amount \in Nat
  BY <1>1, <1>2 DEF Unpaid, StepFacts, TypeOK, FlightTypes, Payouts
<1>4. PayoutSum' = PayoutSum - Unpaid(p) + Unpaid(q)
  BY <1>2, PayoutSumMoves DEF StepFacts, DistinctInv
<1>5. custody' - custody = PayoutSum' - PayoutSum
  BY <1>1, <1>3, <1>4 DEF StepFacts, OwedSums
<1> QED
  BY <1>1, <1>5, SumsSame DEF StepFacts, OwedSums, Balanced

\* on_paid: a failed payment becomes a credit.
LEMMA OnPaidBalance ==
    ASSUME StepFacts, NEW p \in payouts, OnPaid(p)
    PROVE  Balanced
<1>1. /\ p.credit \in Accounts /\ p.amount \in Nat /\ p.stage \in {"paid", "unpaid"}
      /\ payouts' = payouts \ {p}
      /\ UNCHANGED <<custody, minted, onWire, burned, executed, queuedAt, publishing>>
  BY DEF OnPaid, Transferred, StepFacts, TypeOK, FlightTypes, Payouts, token, wormhole
<1>2. PayoutSum' = PayoutSum - Unpaid(p)
  BY <1>1, PayoutSumEnds DEF StepFacts, DistinctInv
<1>3. CASE p.stage = "unpaid"
  <2> DEFINE a == p.credit
  <2>1. claimable' = [claimable EXCEPT ![a] = claimable[a] + p.amount]
    BY <1>3 DEF OnPaid, Credited
  <2>2. claimable \in [Accounts -> Nat] /\ claimable' \in [Accounts -> Nat]
    BY DEF StepFacts, TypeOK, ContractTypes
  <2>3. /\ claimable'[a] = claimable[a] + p.amount
        /\ \A x \in Accounts \ {a} : claimable'[x] = claimable[x]
        /\ claimable[a] \in Nat
    BY <1>1, <2>1, <2>2
  <2>4. ClaimSum' = ClaimSum - claimable[a] + claimable'[a]
    BY <1>1, <2>2, <2>3, ClaimSumPoint
  <2>5. Unpaid(p) = p.amount
    BY <1>3 DEF Unpaid
  <2> QED
    BY <1>1, <1>2, <2>3, <2>4, <2>5, SumsSame DEF StepFacts, OwedSums, Balanced
<1>4. CASE p.stage = "paid"
  <2>1. UNCHANGED claimable /\ Unpaid(p) = 0
    BY <1>4 DEF OnPaid, Unpaid
  <2> QED
    BY <1>1, <1>2, <2>1, SumsSame DEF StepFacts, OwedSums, Balanced
<1> QED
  BY <1>1, <1>3, <1>4

\* on_paid without the NEAR for the credit: what was unpaid is owed no more.
LEMMA OnPaidFailsBalance ==
    ASSUME StepFacts, NEW p \in payouts, OnPaidFails(p)
    PROVE  \E k \in Nat : custody' - Owed' = custody - Owed + k
<1>1. /\ p.amount \in Nat /\ payouts' = payouts \ {p}
      /\ UNCHANGED <<custody, minted, onWire, burned, executed, queuedAt, claimable, publishing>>
  BY DEF OnPaidFails, StepFacts, TypeOK, FlightTypes, Payouts, contract, token, wormhole
<1>2. Unpaid(p) \in Nat
  BY <1>1 DEF Unpaid
<1>3. PayoutSum' = PayoutSum - Unpaid(p)
  BY <1>1, PayoutSumEnds DEF StepFacts, DistinctInv
<1>4. custody' - Owed' = custody - Owed + Unpaid(p)
  BY <1>1, <1>2, <1>3, SumsSame DEF StepFacts, OwedSums
<1> QED
  BY <1>2, <1>4, Zenon

\* The peer mints what was on the wire, and burns what it minted.
LEMMA PeerMintsBalance ==
    ASSUME StepFacts, NEW m \in onWire, PeerMints(m)
    PROVE  Balanced
<1>1. /\ onWire' = onWire \ {m}
      /\ minted' = [minted EXCEPT ![m.chain] = minted[m.chain] + m.amount]
      /\ UNCHANGED <<custody, burned, executed, queuedAt, claimable, payouts, publishing>>
  BY DEF PeerMints, contract, chainsInFlight, token
<1>2. /\ onWire \in SUBSET WireMessages /\ IsFiniteSet(onWire)
      /\ m \in WireMessages /\ m.chain \in Chains /\ m.amount \in Nat
  BY DEF StepFacts, TypeOK, WorldTypes, WireMessages, DistinctInv, Finite
<1>3. WireSum' = WireSum - m.amount
  <2>1. Ends(onWire, onWire', m)
    BY <1>1 DEF Ends
  <2>2. WireSum' = WireSum - MessageWeight[m]
    BY <1>2, <2>1, Weights, SumEnds DEF WireSum
  <2> QED
    BY <1>2, <2>2 DEF MessageWeight
<1>4. minted \in [Chains -> Nat] /\ minted' \in [Chains -> Nat]
  BY DEF StepFacts, TypeOK, WorldTypes
<1>5. /\ minted'[m.chain] = minted[m.chain] + m.amount /\ minted[m.chain] \in Nat
      /\ \A x \in Chains \ {m.chain} : minted'[x] = minted[x]
  BY <1>1, <1>2, <1>4
<1>6. MintedSum' = MintedSum - minted[m.chain] + minted'[m.chain]
  BY <1>2, <1>4, <1>5, MintedSumPoint
<1> QED
  BY <1>1, <1>2, <1>3, <1>5, <1>6, SumsSame DEF StepFacts, OwedSums, Balanced

LEMMA PeerBurnsBalance ==
    ASSUME StepFacts, NEW d \in Digests, PeerBurns(d)
    PROVE  Balanced
<1> DEFINE c == Msg[d].chain
<1>1. /\ d \notin burned /\ burned' = burned \cup {d}
      /\ minted' = [minted EXCEPT ![c] = minted[c] - UnlockAmount(d)]
      /\ UNCHANGED <<custody, onWire, executed, queuedAt, claimable, payouts, publishing>>
  BY DEF PeerBurns, contract, chainsInFlight, token
<1>2. c \in Chains /\ UnlockAmount(d) \in Nat
  BY MsgAssumption, UnlockAmountNat
<1>3. BurnedSum' = BurnedSum + UnlockAmount(d)
  <2>1. burned \ executed \in SUBSET Digests /\ executed \subseteq burned
    BY DEF StepFacts, TypeOK, WorldTypes, ReplayInv
  <2>2. Starts(burned \ executed, burned' \ executed', d)
    BY <1>1, <2>1 DEF Starts
  <2> QED
    BY <2>1, <2>2, DigestSumStarts DEF BurnedSum
<1>4. minted \in [Chains -> Nat] /\ minted' \in [Chains -> Nat]
  BY DEF StepFacts, TypeOK, WorldTypes
<1>5. /\ minted'[c] = minted[c] - UnlockAmount(d) /\ minted[c] \in Nat
      /\ \A x \in Chains \ {c} : minted'[x] = minted[x]
  BY <1>1, <1>2, <1>4
<1> HIDE DEF c
<1>6. MintedSum' = MintedSum - minted[c] + minted'[c]
  BY <1>2, <1>4, <1>5, MintedSumPoint
<1> QED
  BY <1>1, <1>2, <1>3, <1>5, <1>6, SumsSame DEF StepFacts, OwedSums, Balanced

\* The one step that is not balanced leaves more than is owed.
LEMMA BalanceNext ==
    ASSUME TypeOK, DistinctInv, ReplayInv, [Next]_vars
    PROVE  /\ StepFacts
           /\ Balanced \/ \E p \in payouts : OnPaidFails(p)
<1>1. StepFacts
  BY StepFactsHold
<1>2. Quiet => Balanced
  BY <1>1, QuietBalance
<1>3. CASE Owner
  <2>1. Quiet
    BY <1>3 DEF Owner, SetPeer, SetOutboundLimit, SetInboundLimit, SetPaused,
           chainsInFlight, token, wormhole, Quiet
  <2> QED
    BY <1>1, <1>2, <2>1
<1>4. CASE Users
  <2>1. ASSUME NEW d \in Digests, NEW deposit \in Deposits, Complete(d, deposit)
        PROVE  Quiet
    BY <2>1 DEF Complete, contract, token, wormhole, Quiet
  <2> QED
    BY <1>1, <1>2, <1>4, <2>1, FtOnTransferBalance, ReleaseBalance, ClaimBalance DEF Users
<1>5. CASE Callbacks
  <2>1. ASSUME NEW v \in verifying, OnVerifiedPanics(v) \/ OnCompleteSettled(v)
        PROVE  Quiet
    BY <2>1 DEF OnVerifiedPanics, OnCompleteSettled, contract, token, wormhole, Quiet
  <2> QED
    BY <1>1, <1>2, <1>5, <2>1, OnPublishedBalance, OnVerifiedUnlocksBalance,
       OnVerifiedQueuesBalance, OnPaidBalance
    DEF Callbacks
<1>6. CASE External
  <2>1. ASSUME NEW v \in verifying, NEW verified \in BOOLEAN,
               NEW storage \in {"some", "none", "failed", "malformed"},
               Answers(v, verified, storage)
        PROVE  Quiet
    BY <2>1 DEF Answers, contract, token, wormhole, Quiet
  <2>2. ASSUME NEW d \in registering, NEW ok \in BOOLEAN, RegisterQueued(d, ok)
        PROVE  Quiet
    BY <2>2 DEF RegisterQueued, contract, wormhole, Quiet
  <2> QED
    BY <1>1, <1>2, <1>6, <2>1, <2>2, PublishBalance, TokenRegisterBalance,
       TokenTransferBalance
    DEF External
<1>7. CASE World
  <2>1. ASSUME NEW a \in Accounts, Unregister(a) PROVE Quiet
    BY <2>1 DEF Unregister, contract, chainsInFlight, wormhole, Quiet
  <2>2. CASE Tick
    <3>1. Quiet
      BY <2>2 DEF Tick, contract, chainsInFlight, token, wormhole, Quiet
    <3> QED
      BY <1>1, <1>2, <3>1
  <2> QED
    BY <1>1, <1>2, <1>7, <2>1, <2>2, PeerMintsBalance, PeerBurnsBalance DEF World
<1>8. CASE UNCHANGED vars
  <2>1. Quiet
    BY <1>8 DEF vars, contract, chainsInFlight, token, wormhole, Quiet
  <2> QED
    BY <1>1, <1>2, <2>1
<1> QED
  BY <1>1, <1>3, <1>4, <1>5, <1>6, <1>7, <1>8 DEF Next

LEMMA OwedAtInit == Init => custody = 0 /\ Owed = 0
<1> SUFFICES ASSUME Init PROVE custody = 0 /\ Owed = 0
  OBVIOUS
<1>1. TypeOK /\ Finite
  BY InitTypes, DistinctInit DEF DistinctInv
<1>2. OwedSums
  BY <1>1, OwedIs
<1>3. MintedSum = 0 /\ ClaimSum = 0
  BY NttAssumption, SumZero DEF Init, MintedSum, ClaimSum
<1>4. burned \ executed = {} /\ QueuedDigests = {}
  BY DEF Init, QueuedDigests
<1>5. WireSum = 0 /\ BurnedSum = 0 /\ QueuedSum = 0 /\ PayoutSum = 0 /\ SendSum = 0
  BY <1>4, SumEmpty DEF Init, WireSum, BurnedSum, QueuedSum, PayoutSum, SendSum
<1> QED
  BY <1>2, <1>3, <1>5 DEF Init, OwedSums

LEMMA StillCovers ==
    ASSUME NEW before \in Nat, NEW after \in Nat, NEW owed \in Nat, NEW owedAfter \in Nat,
           NEW k \in Nat, after - owedAfter = before - owed + k, before >= owed
    PROVE  after >= owedAfter
  OBVIOUS

\* Collateral, for any number of accounts, peers, messages, callers and any
\* interleaving of their receipts, failed ones included: the tokens held
\* cover what is minted on the peers and all that is burned, queued,
\* claimable or in flight.
THEOREM CustodyBacked == Spec => []Backed
<1>1. Init => Backed
  BY OwedAtInit DEF Backed
<1>2. TypeOK /\ DistinctInv /\ ReplayInv /\ Backed /\ [Next]_vars => Backed'
  <2> SUFFICES ASSUME TypeOK, DistinctInv, ReplayInv, Backed, [Next]_vars
               PROVE  Backed'
    OBVIOUS
  <2>1. StepFacts
    BY BalanceNext
  <2>2. Owed \in Nat /\ custody \in Nat /\ custody' \in Nat
    BY <2>1, OwedNat DEF StepFacts
  <2>3. Owed' \in Nat
    BY <2>1, OwedNatNext DEF StepFacts
  <2>4. PICK k \in Nat : custody' - Owed' = custody - Owed + k
    <3>1. CASE Balanced
      <4>1. custody' - Owed' = custody - Owed + 0
        BY <2>2, <3>1 DEF Balanced
      <4> QED
        BY <4>1, Zenon
    <3>2. ASSUME NEW p \in payouts, OnPaidFails(p)
          PROVE  \E k \in Nat : custody' - Owed' = custody - Owed + k
      BY <2>1, <3>2, OnPaidFailsBalance
    <3> QED
      BY <3>1, <3>2, BalanceNext
  <2>5. custody' >= Owed'
    BY <2>2, <2>3, <2>4, StillCovers, Zenon DEF Backed
  <2> QED
    BY <2>5 DEF Backed
<1> QED
  BY <1>1, <1>2, InitTypes, NextTypes, DistinctInit, DistinctNext, ReplayInit, ReplayNext,
     PTL DEF Spec

\* Only a settlement without the NEAR for its entry ever changes what the
\* custody has over what is owed.
THEOREM LostOnlyWithoutNear ==
    Spec => [][custody' - Owed' = custody - Owed \/ \E p \in payouts : OnPaidFails(p)]_vars
<1>1. TypeOK /\ DistinctInv /\ ReplayInv /\ [Next]_vars
        => [custody' - Owed' = custody - Owed \/ \E p \in payouts : OnPaidFails(p)]_vars
  BY BalanceNext DEF Balanced
<1> QED
  BY <1>1, InitTypes, NextTypes, DistinctInit, DistinctNext, ReplayInit, ReplayNext,
     PTL DEF Spec

-----------------------------------------------------------------------------
(* What the chains in flight hold of each call's deposit. *)

CallNos == 1..MaxCalls
CallWeight(n) == [v \in Verifying |-> Unspent(v, n)]
KeptWeight(n) == [p \in Payouts |-> Kept(p, n)]

CallSum(n) == SumFunctionOnSet(CallWeight(n), verifying)
KeptSum(n) == SumFunctionOnSet(KeptWeight(n), payouts)

LEMMA HeldWeights ==
    ASSUME NEW n \in CallNos
    PROVE  CallWeight(n) \in [Verifying -> Nat] /\ KeptWeight(n) \in [Payouts -> Nat]
<1>1. CallWeight(n) \in [Verifying -> Nat]
  BY DEF CallWeight, Verifying, Unspent
<1>2. KeptWeight(n) \in [Payouts -> Nat]
  BY DEF KeptWeight, Payouts, Kept
<1> QED
  BY <1>1, <1>2

HeldSums ==
    \A n \in CallNos : /\ CallSum(n) \in Nat /\ KeptSum(n) \in Nat
                       /\ HeldFor(n) = CallSum(n) + KeptSum(n)

LEMMA HeldIs == TypeOK /\ Finite => HeldSums
<1> SUFFICES ASSUME TypeOK, Finite, NEW n \in CallNos
             PROVE  /\ CallSum(n) \in Nat /\ KeptSum(n) \in Nat
                    /\ HeldFor(n) = CallSum(n) + KeptSum(n)
  BY DEF HeldSums
<1>1. SumFunction([v \in verifying |-> Unspent(v, n)]) = CallSum(n) /\ CallSum(n) \in Nat
  <2> DEFINE e == [v \in verifying |-> Unspent(v, n)]
  <2>1. verifying \subseteq Verifying /\ IsFiniteSet(verifying)
    BY DEF TypeOK, FlightTypes, Finite
  <2>2. /\ DOMAIN e = verifying
        /\ \A v \in verifying : e[v] = CallWeight(n)[v] /\ CallWeight(n)[v] \in Nat
    <3>1. \A v \in verifying : e[v] = CallWeight(n)[v]
      BY <2>1 DEF CallWeight
    <3> HIDE DEF e
    <3>2. \A v \in verifying : CallWeight(n)[v] \in Nat
      BY <2>1, HeldWeights
    <3>3. DOMAIN e = verifying
      BY DEF e
    <3> QED
      BY <3>1, <3>2, <3>3
  <2> HIDE DEF e
  <2>3. SumFunction(e) = CallSum(n) /\ CallSum(n) \in Nat
    BY <2>1, <2>2, SumExtends DEF CallSum
  <2> QED
    BY <2>3 DEF e
<1>2. SumFunction([p \in payouts |-> Kept(p, n)]) = KeptSum(n) /\ KeptSum(n) \in Nat
  <2> DEFINE e == [p \in payouts |-> Kept(p, n)]
  <2>1. payouts \subseteq Payouts /\ IsFiniteSet(payouts)
    BY DEF TypeOK, FlightTypes, Finite
  <2>2. /\ DOMAIN e = payouts
        /\ \A p \in payouts : e[p] = KeptWeight(n)[p] /\ KeptWeight(n)[p] \in Nat
    <3>1. \A p \in payouts : e[p] = KeptWeight(n)[p]
      BY <2>1 DEF KeptWeight
    <3> HIDE DEF e
    <3>2. \A p \in payouts : KeptWeight(n)[p] \in Nat
      BY <2>1, HeldWeights
    <3>3. DOMAIN e = payouts
      BY DEF e
    <3> QED
      BY <3>1, <3>2, <3>3
  <2> HIDE DEF e
  <2>3. SumFunction(e) = KeptSum(n) /\ KeptSum(n) \in Nat
    BY <2>1, <2>2, SumExtends DEF KeptSum
  <2> QED
    BY <2>3 DEF e
<1> QED
  BY <1>1, <1>2 DEF HeldFor

LEMMA HeldIsNext == TypeOK' /\ Finite' => HeldSums'
  BY HeldIs, PTL

\* What one step does to these sums.
LEMMA CallSumStarts ==
    ASSUME TypeOK, Finite, NEW n \in CallNos, NEW v \in Verifying,
           Starts(verifying, verifying', v)
    PROVE  CallSum(n)' = CallSum(n) + Unspent(v, n)
<1>1. verifying \in SUBSET Verifying /\ IsFiniteSet(verifying)
  BY DEF TypeOK, FlightTypes, Finite
<1>2. CallSum(n)' = CallSum(n) + CallWeight(n)[v]
  BY <1>1, HeldWeights, SumStarts DEF CallSum
<1> QED
  BY <1>2 DEF CallWeight

LEMMA CallSumMoves ==
    ASSUME TypeOK, Finite, NEW n \in CallNos, NEW v \in verifying, NEW w \in Verifying,
           Moves(verifying, verifying', v, w)
    PROVE  CallSum(n)' = CallSum(n) - Unspent(v, n) + Unspent(w, n)
<1>1. verifying \in SUBSET Verifying /\ IsFiniteSet(verifying) /\ v \in Verifying
  BY DEF TypeOK, FlightTypes, Finite
<1>2. CallSum(n)' = CallSum(n) - CallWeight(n)[v] + CallWeight(n)[w]
  BY <1>1, HeldWeights, SumMoves DEF CallSum
<1> QED
  BY <1>1, <1>2 DEF CallWeight

LEMMA CallSumEnds ==
    ASSUME TypeOK, Finite, NEW n \in CallNos, NEW v \in verifying,
           verifying' = verifying \ {v}
    PROVE  CallSum(n)' = CallSum(n) - Unspent(v, n)
<1>1. verifying \in SUBSET Verifying /\ IsFiniteSet(verifying) /\ v \in Verifying
  BY DEF TypeOK, FlightTypes, Finite
<1>2. CallSum(n)' = CallSum(n) - CallWeight(n)[v]
  BY <1>1, HeldWeights, SumEnds DEF CallSum, Ends
<1> QED
  BY <1>1, <1>2 DEF CallWeight

LEMMA KeptSumStarts ==
    ASSUME TypeOK, Finite, NEW n \in CallNos, NEW p \in Payouts,
           Starts(payouts, payouts', p)
    PROVE  KeptSum(n)' = KeptSum(n) + Kept(p, n)
<1>1. payouts \in SUBSET Payouts /\ IsFiniteSet(payouts)
  BY DEF TypeOK, FlightTypes, Finite
<1>2. KeptSum(n)' = KeptSum(n) + KeptWeight(n)[p]
  BY <1>1, HeldWeights, SumStarts DEF KeptSum
<1> QED
  BY <1>2 DEF KeptWeight

LEMMA KeptSumMoves ==
    ASSUME TypeOK, Finite, NEW n \in CallNos, NEW p \in payouts, NEW q \in Payouts,
           Moves(payouts, payouts', p, q)
    PROVE  KeptSum(n)' = KeptSum(n) - Kept(p, n) + Kept(q, n)
<1>1. payouts \in SUBSET Payouts /\ IsFiniteSet(payouts) /\ p \in Payouts
  BY DEF TypeOK, FlightTypes, Finite
<1>2. KeptSum(n)' = KeptSum(n) - KeptWeight(n)[p] + KeptWeight(n)[q]
  BY <1>1, HeldWeights, SumMoves DEF KeptSum
<1> QED
  BY <1>1, <1>2 DEF KeptWeight

LEMMA KeptSumEnds ==
    ASSUME TypeOK, Finite, NEW n \in CallNos, NEW p \in payouts, payouts' = payouts \ {p}
    PROVE  KeptSum(n)' = KeptSum(n) - Kept(p, n)
<1>1. payouts \in SUBSET Payouts /\ IsFiniteSet(payouts) /\ p \in Payouts
  BY DEF TypeOK, FlightTypes, Finite
<1>2. KeptSum(n)' = KeptSum(n) - KeptWeight(n)[p]
  BY <1>1, HeldWeights, SumEnds DEF KeptSum, Ends
<1> QED
  BY <1>1, <1>2 DEF KeptWeight

LEMMA HeldSame ==
    ASSUME NEW n \in CallNos
    PROVE  /\ verifying' = verifying => CallSum(n)' = CallSum(n)
           /\ payouts' = payouts => KeptSum(n)' = KeptSum(n)
  BY DEF CallSum, KeptSum

-----------------------------------------------------------------------------
(* The contract's NEAR against the deposits it still holds. *)

Entries == ClaimCost * Cardinality(claimEntries)
HeldFn == [n \in CallNos |-> HeldFor(n)]
Held == SumFunctionOnSet(HeldFn, CallNos)

\* Every deposit is on hand but for what the entries took of it.
Funding == free + Entries >= InitialFree + Held

DepositFacts ==
    /\ TypeOK /\ TypeOK' /\ DistinctInv /\ DistinctInv' /\ HeldSums /\ HeldSums'

LEMMA DepositFactsHold ==
    ASSUME TypeOK, DistinctInv, [Next]_vars PROVE DepositFacts
  BY NextTypes, DistinctNext, HeldIs, HeldIsNext DEF DepositFacts, DistinctInv

LEMMA HeldForNat == HeldSums => \A n \in CallNos : HeldFor(n) \in Nat
  BY DEF HeldSums

LEMMA HeldForNatNext == HeldSums' => (\A n \in CallNos : HeldFor(n) \in Nat)'
  BY HeldForNat, PTL

LEMMA CallNosFinite == IsFiniteSet(CallNos) /\ NoCall \notin CallNos
  BY NttAssumption, FS_Interval DEF CallNos, NoCall

LEMMA HeldNat == HeldSums => Held \in Nat
<1> SUFFICES ASSUME HeldSums PROVE Held \in Nat
  OBVIOUS
<1>1. \A n \in CallNos : HeldFn[n] \in Nat
  BY HeldForNat DEF HeldFn
<1> QED
  BY <1>1, CallNosFinite, SumNat DEF Held

\* One call's share changes by d.
HeldChange(n, d) ==
    \A m \in CallNos : HeldFor(m)' = HeldFor(m) + IF m = n THEN d ELSE 0

LEMMA HeldPoint ==
    ASSUME DepositFacts, NEW n \in CallNos, NEW d \in Int, HeldChange(n, d)
    PROVE  Held' = Held + d
<1>1. \A m \in CallNos : /\ HeldFn[m] = HeldFor(m) /\ HeldFn'[m] = HeldFor(m)'
                         /\ HeldFor(m) \in Int
  BY HeldForNat DEF HeldFn, DepositFacts
<1>2. \A m \in CallNos : HeldFn[m] \in Int /\ HeldFn'[m] \in Int
  BY <1>1 DEF HeldChange
<1>3. \A m \in CallNos \ {n} : HeldFn'[m] = HeldFn[m]
  BY <1>1 DEF HeldChange
<1>4. HeldFn'[n] = HeldFn[n] + d
  BY <1>1 DEF HeldChange
<1>5. Held' = Held - HeldFn[n] + HeldFn'[n]
  BY <1>2, <1>3, CallNosFinite, SumPoint DEF Held
<1>6. Held \in Int
  BY HeldNat DEF DepositFacts
<1> QED
  BY <1>2, <1>4, <1>5, <1>6

LEMMA EntriesNat == TypeOK => Entries \in Nat /\ free \in Nat /\ IsFiniteSet(claimEntries)
<1> SUFFICES ASSUME TypeOK PROVE Entries \in Nat /\ free \in Nat /\ IsFiniteSet(claimEntries)
  OBVIOUS
<1>1. IsFiniteSet(claimEntries)
  BY NttAssumption, FS_Subset DEF TypeOK, ContractTypes
<1>2. Cardinality(claimEntries) \in Nat /\ ClaimCost \in Nat
  BY <1>1, FS_CardinalityType, NttAssumption
<1> QED
  BY <1>1, <1>2 DEF Entries, TypeOK, WorldTypes

\* What a step does to the deposits on hand, and to the account of each.
DepositStep ==
    \E d \in Int, k \in Nat :
        Held' = Held + d /\ free' + Entries' = free + Entries + d + k

\* What a step keeps for both invariants.
Fed == DepositStep /\ (DepositAccounted => DepositAccounted')

\* A step that moves no deposit, and may bring NEAR in.
LEMMA NothingHeld ==
    ASSUME DepositFacts, NEW k \in Nat, free' + Entries' = free + Entries + k,
           UNCHANGED deposits, \A m \in CallNos : HeldFor(m)' = HeldFor(m)
    PROVE  Fed
<1>1. HeldFn' = HeldFn
  BY DEF HeldFn
<1>2. Held' = Held /\ Held \in Nat
  BY <1>1, HeldNat DEF Held, DepositFacts
<1>3. Held' = Held + 0
  BY <1>2
<1>4. free + Entries + k = free + Entries + 0 + k /\ 0 \in Int
  BY EntriesNat DEF DepositFacts
<1>5. DepositStep
  BY <1>3, <1>4, Zenon DEF DepositStep
<1>6. DepositAccounted => DepositAccounted'
  BY DEF DepositAccounted, CallNos
<1> QED
  BY <1>5, <1>6 DEF Fed

LEMMA NearIn ==
    ASSUME DepositFacts, NEW k \in Nat, free' = free + k, UNCHANGED <<claimEntries, deposits>>,
           \A m \in CallNos : HeldFor(m)' = HeldFor(m)
    PROVE  Fed
<1>1. Entries' = Entries /\ Entries \in Nat /\ free \in Nat
  BY EntriesNat DEF Entries, DepositFacts
<1>2. free' + Entries' = free + Entries + k
  BY <1>1
<1> QED
  BY <1>2, NothingHeld

LEMMA OneHeld ==
    ASSUME DepositFacts, NEW n \in CallNos, NEW d \in Int, HeldChange(n, d),
           NEW k \in Nat, free' + Entries' = free + Entries + d + k
    PROVE  DepositStep
  BY HeldPoint, Zenon DEF DepositStep

\* The account of call n moves with what is held of it.
LEMMA OneAccounted ==
    ASSUME DepositFacts, NEW n \in CallNos, NEW d \in Int, HeldChange(n, d),
           DepositAccounted, deposits' = [deposits EXCEPT ![n] = @ + d]
    PROVE  DepositAccounted'
<1>1. \A m \in CallNos : deposits[m] = HeldFor(m) /\ m \in DOMAIN deposits
  BY DEF DepositAccounted, CallNos, DepositFacts, TypeOK, WorldTypes
<1>2. \A m \in CallNos : deposits'[m] = deposits[m] + IF m = n THEN d ELSE 0
  <2>1. \A m \in CallNos : deposits[m] \in Int
    BY DEF CallNos, DepositFacts, TypeOK, WorldTypes
  <2> QED
    BY <1>1, <2>1
<1>3. \A m \in CallNos : deposits'[m] = HeldFor(m)'
  BY <1>1, <1>2 DEF HeldChange
<1> QED
  BY <1>3 DEF DepositAccounted, CallNos

\* Both shares of a call, before and after.
LEMMA HeldParts ==
    ASSUME DepositFacts, NEW n \in CallNos
    PROVE  /\ HeldFor(n) = CallSum(n) + KeptSum(n) /\ HeldFor(n)' = CallSum(n)' + KeptSum(n)'
           /\ CallSum(n) \in Nat /\ KeptSum(n) \in Nat
  BY DEF DepositFacts, HeldSums

LEMMA IdleHeld ==
    UNCHANGED <<verifying, payouts>> => \A m \in CallNos : HeldFor(m)' = HeldFor(m)
  BY DEF HeldFor

\* Pay-outs that hold nothing of a deposit.
LEMMA PlainPayoutHeld ==
    ASSUME DepositFacts, UNCHANGED verifying, NEW p \in Payouts,
           Starts(payouts, payouts', p), p.call = NoCall
    PROVE  \A m \in CallNos : HeldFor(m)' = HeldFor(m)
<1> SUFFICES ASSUME NEW m \in CallNos PROVE HeldFor(m)' = HeldFor(m)
  OBVIOUS
<1>1. Kept(p, m) = 0
  BY CallNosFinite DEF Kept
<1>2. KeptSum(m)' = KeptSum(m) + Kept(p, m)
  BY KeptSumStarts DEF DepositFacts, DistinctInv
<1>3. CallSum(m)' = CallSum(m)
  BY HeldSame
<1> QED
  BY <1>1, <1>2, <1>3, HeldParts

LEMMA MovedPayoutHeld ==
    ASSUME DepositFacts, UNCHANGED verifying, NEW p \in payouts, NEW stage \in MovedTo,
           MoveTo(p, stage)
    PROVE  \A m \in CallNos : HeldFor(m)' = HeldFor(m)
<1> DEFINE q == [p EXCEPT !.stage = stage]
<1> SUFFICES ASSUME NEW m \in CallNos PROVE HeldFor(m)' = HeldFor(m)
  OBVIOUS
<1>1. q \in Payouts /\ q.call = p.call /\ q.held = p.held /\ Moves(payouts, payouts', p, q)
  BY PayoutMoves DEF DepositFacts, DistinctInv
<1> HIDE DEF q
<1>2. Kept(q, m) = Kept(p, m) /\ Kept(p, m) \in Nat
  BY <1>1 DEF Kept, DepositFacts, TypeOK, FlightTypes, Payouts
<1>3. KeptSum(m)' = KeptSum(m) - Kept(p, m) + Kept(q, m)
  BY <1>1, KeptSumMoves DEF DepositFacts, DistinctInv
<1>4. CallSum(m)' = CallSum(m)
  BY HeldSame
<1> QED
  BY <1>2, <1>3, <1>4, HeldParts

\* A call moved on to w: its share of its own deposit becomes w's.
LEMMA MovedCallSum ==
    ASSUME DepositFacts, NEW v, NEW w, CallMoved(v, w), NEW m \in CallNos
    PROVE  CallSum(m)' = CallSum(m) - Unspent(v, m) + Unspent(w, m)
<1>1. v \in verifying /\ w \in Verifying /\ w.no = v.no
      /\ verifying' = (verifying \ {v}) \cup {w}
  BY DEF CallMoved
<1>2. Moves(verifying, verifying', v, w)
  BY <1>1, CallMoves DEF DepositFacts, DistinctInv
<1> QED
  BY <1>1, <1>2, CallSumMoves DEF DepositFacts, DistinctInv

LEMMA PendingCallHeld ==
    ASSUME DepositFacts, UNCHANGED payouts, NEW v, NEW w, CallMoved(v, w),
           v.stage # "done", w.stage # "done"
    PROVE  \A m \in CallNos : HeldFor(m)' = HeldFor(m)
<1> SUFFICES ASSUME NEW m \in CallNos PROVE HeldFor(m)' = HeldFor(m)
  OBVIOUS
<1>1. v \in Verifying /\ w.no = v.no /\ w.deposit = v.deposit
  BY DEF CallMoved, DepositFacts, TypeOK, FlightTypes
<1>2. Unspent(w, m) = Unspent(v, m) /\ Unspent(v, m) \in Nat
  BY <1>1 DEF Unspent, Verifying
<1>3. CallSum(m)' = CallSum(m) - Unspent(v, m) + Unspent(w, m)
  BY MovedCallSum
<1>4. KeptSum(m)' = KeptSum(m)
  BY HeldSame
<1> QED
  BY <1>2, <1>3, <1>4, HeldParts

\* complete: the whole deposit is held, for a call no chain holds anything of.
LEMMA FreshCall ==
    ASSUME DepositFacts, NEW n \in CallNos, n = calls + 1
    PROVE  CallSum(n) = 0 /\ KeptSum(n) = 0
<1>1. calls \in Nat
  BY NttAssumption DEF DepositFacts, TypeOK, WorldTypes
<1>2. verifying \subseteq Verifying /\ \A v \in verifying : v.no \in Nat /\ v.no <= calls
  BY NttAssumption DEF DepositFacts, DistinctInv, CallsNumbered, TypeOK, FlightTypes, Verifying
<1>3. payouts \subseteq Payouts /\ \A p \in payouts : p.call \in Nat /\ p.call <= calls
  BY NttAssumption DEF DepositFacts, DistinctInv, PayoutsNumbered, TypeOK, FlightTypes, Payouts
<1>4. \A v \in verifying : CallWeight(n)[v] = 0
  <2>1. \A v \in verifying : v.no # n
    BY <1>1, <1>2
  <2> QED
    BY <1>2, <2>1 DEF CallWeight, Unspent
<1>5. \A p \in payouts : KeptWeight(n)[p] = 0
  <2>1. \A p \in payouts : p.call # n
    BY <1>1, <1>3
  <2> QED
    BY <1>3, <2>1 DEF KeptWeight, Kept
<1>6. IsFiniteSet(verifying) /\ IsFiniteSet(payouts)
  BY DEF DepositFacts, DistinctInv, Finite
<1> QED
  BY <1>4, <1>5, <1>6, SumZero DEF CallSum, KeptSum

LEMMA CompleteFed ==
    ASSUME DepositFacts, NEW d \in Digests, NEW deposit \in Deposits, Complete(d, deposit)
    PROVE  Fed
<1> DEFINE n == calls + 1
           v == [no |-> n, digest |-> d, deposit |-> deposit,
                 stage |-> "asked", verified |-> FALSE, storage |-> "none"]
<1>1. /\ verifying' = verifying \cup {v} /\ UNCHANGED <<payouts, claimEntries>>
      /\ free' = free + deposit /\ deposits' = [deposits EXCEPT ![n] = deposit]
      /\ calls < MaxCalls
  BY DEF Complete, contract
<1>2. n \in CallNos /\ deposit \in Nat /\ deposit \in Int
  <2>1. calls \in Nat /\ MaxCalls \in Nat
    BY NttAssumption DEF DepositFacts, TypeOK, WorldTypes
  <2> QED
    BY <1>1, <2>1, NttAssumption DEF CallNos
<1>3. v \in Verifying /\ v.no = n /\ v.deposit = deposit /\ v.stage = "asked"
  BY <1>2 DEF Verifying, Stages, CallNos
<1>4. CallSum(n) = 0 /\ KeptSum(n) = 0
  BY <1>2, FreshCall
<1>5. v.no = calls + 1
  OBVIOUS
<1> HIDE DEF v
<1>6. Starts(verifying, verifying', v)
  BY <1>1, <1>3, <1>5, CallStarts DEF DepositFacts, DistinctInv
<1> HIDE DEF n
<1>7. HeldChange(n, deposit)
  <2> SUFFICES ASSUME NEW m \in CallNos
               PROVE  HeldFor(m)' = HeldFor(m) + IF m = n THEN deposit ELSE 0
    BY DEF HeldChange
  <2>1. Unspent(v, m) = IF m = n THEN deposit ELSE 0
    BY <1>3 DEF Unspent
  <2>2. CallSum(m)' = CallSum(m) + Unspent(v, m)
    BY <1>3, <1>6, CallSumStarts DEF DepositFacts, DistinctInv
  <2>3. KeptSum(m)' = KeptSum(m)
    BY <1>1, HeldSame
  <2> QED
    BY <1>2, <2>1, <2>2, <2>3, HeldParts
<1>8. free' + Entries' = free + Entries + deposit + 0
  <2>1. Entries' = Entries /\ Entries \in Nat /\ free \in Nat
    BY <1>1, EntriesNat DEF Entries, DepositFacts
  <2> QED
    BY <1>1, <1>2, <2>1
<1>9. DepositStep
  BY <1>2, <1>7, <1>8, OneHeld
<1>10. HeldFor(n) = 0
  BY <1>2, <1>4, HeldParts
<1>11. ASSUME DepositAccounted PROVE DepositAccounted'
  <2>1. deposits[n] + deposit = deposit
    BY <1>2, <1>10, <1>11 DEF DepositAccounted, CallNos
  <2>2. deposits' = [deposits EXCEPT ![n] = @ + deposit]
    BY <1>1, <2>1, Zenon
  <2> QED
    BY <1>2, <1>7, <1>11, <2>2, OneAccounted, Zenon
<1> QED
  BY <1>9, <1>11 DEF Fed

\* A step that takes d from a deposit held, and from its account.
LEMMA OneFed ==
    ASSUME DepositFacts, NEW n \in CallNos, NEW d \in Nat, HeldChange(n, -d), NEW k \in Nat,
           free' + Entries' = free + Entries - d + k,
           deposits' = [deposits EXCEPT ![n] = @ - d]
    PROVE  Fed
<1>1. -d \in Int
  OBVIOUS
<1>2. free' + Entries' = free + Entries + (-d) + k
  <2>1. free + Entries - d + k = free + Entries + (-d) + k
    BY EntriesNat DEF DepositFacts
  <2> QED
    BY <2>1
<1>3. DepositStep
  BY <1>1, <1>2, OneHeld
<1>4. DepositAccounted => DepositAccounted'
  <2>1. deposits[n] \in Int
    BY DEF DepositFacts, TypeOK, WorldTypes, CallNos
  <2>2. deposits[n] - d = deposits[n] + (-d)
    BY <2>1
  <2>3. deposits' = [deposits EXCEPT ![n] = @ + (-d)]
    BY <2>2, Zenon
  <2> QED
    BY <1>1, <2>3, OneAccounted, Zenon
<1> QED
  BY <1>3, <1>4 DEF Fed

\* on_verified: the deposit less what was used of it passes to the pay-out.
LEMMA OnVerifiedUnlocksFed ==
    ASSUME DepositFacts, NEW v \in verifying, OnVerifiedUnlocks(v)
    PROVE  Fed
<1> DEFINE n == v.no
<1>1. /\ free' = free - Used(v) /\ deposits' = [deposits EXCEPT ![n] = @ - Used(v)]
      /\ UNCHANGED claimEntries /\ v.stage = "answered" /\ Settling(v, TRUE)
  BY DEF OnVerifiedUnlocks
<1>2. v \in Verifying /\ n \in CallNos /\ v.deposit \in Nat
  BY DEF DepositFacts, TypeOK, FlightTypes, Verifying, CallNos
<1>3. Used(v) \in Nat /\ -Used(v) \in Int
  BY <1>2, UsedNat
<1>4. PICK w : CallMoved(v, w) /\ w.stage = "done"
  BY <1>1, SettlingMoves DEF DepositFacts
<1>5. PICK p \in Payouts : Starts(payouts, payouts', p) /\ p.call = n /\ p.held = Excess(v)
  BY UnlockStarts DEF DepositFacts, DistinctInv
<1>6. HeldChange(n, -Used(v))
  <2> SUFFICES ASSUME NEW m \in CallNos
               PROVE  HeldFor(m)' = HeldFor(m) + IF m = n THEN -Used(v) ELSE 0
    BY DEF HeldChange
  <2>1. w.no = n /\ w.stage = "done"
    BY <1>4 DEF CallMoved
  <2>2. Unspent(v, m) = (IF m = n THEN v.deposit ELSE 0) /\ Unspent(w, m) = 0
    BY <1>1, <2>1 DEF Unspent
  <2>3. Kept(p, m) = IF m = n THEN v.deposit - Used(v) ELSE 0
    BY <1>5 DEF Kept, Excess
  <2>4. CallSum(m)' = CallSum(m) - Unspent(v, m) + Unspent(w, m)
    BY <1>4, MovedCallSum
  <2>5. KeptSum(m)' = KeptSum(m) + Kept(p, m)
    BY <1>5, KeptSumStarts DEF DepositFacts, DistinctInv
  <2> HIDE DEF n
  <2> QED
    BY <1>2, <1>3, <2>2, <2>3, <2>4, <2>5, HeldParts
<1>7. free' + Entries' = free + Entries - Used(v) + 0
  <2>1. Entries' = Entries /\ Entries \in Nat /\ free \in Nat
    BY <1>1, EntriesNat DEF Entries, DepositFacts
  <2> QED
    BY <1>1, <1>3, <2>1
<1> HIDE DEF n
<1> QED
  BY <1>1, <1>2, <1>3, <1>6, <1>7, OneFed

\* on_verified queues the message: nothing of the deposit is left.
LEMMA OnVerifiedQueuesFed ==
    ASSUME DepositFacts, NEW v \in verifying, OnVerifiedQueues(v)
    PROVE  Fed
<1> DEFINE n == v.no
<1>1. /\ free' = free - v.deposit /\ deposits' = [deposits EXCEPT ![n] = @ - v.deposit]
      /\ UNCHANGED <<payouts, claimEntries>> /\ v.stage = "answered" /\ Settling(v, TRUE)
  BY DEF OnVerifiedQueues
<1>2. v \in Verifying /\ n \in CallNos /\ v.deposit \in Nat
  BY DEF DepositFacts, TypeOK, FlightTypes, Verifying, CallNos
<1>3. PICK w : CallMoved(v, w) /\ w.stage = "done"
  BY <1>1, SettlingMoves DEF DepositFacts
<1>4. HeldChange(n, -v.deposit)
  <2> SUFFICES ASSUME NEW m \in CallNos
               PROVE  HeldFor(m)' = HeldFor(m) + IF m = n THEN -v.deposit ELSE 0
    BY DEF HeldChange
  <2>1. w.no = n /\ w.stage = "done"
    BY <1>3 DEF CallMoved
  <2>2. Unspent(v, m) = (IF m = n THEN v.deposit ELSE 0) /\ Unspent(w, m) = 0
    BY <1>1, <2>1 DEF Unspent
  <2>3. CallSum(m)' = CallSum(m) - Unspent(v, m) + Unspent(w, m)
    BY <1>3, MovedCallSum
  <2>4. KeptSum(m)' = KeptSum(m)
    BY <1>1, HeldSame
  <2> HIDE DEF n
  <2> QED
    BY <1>2, <2>2, <2>3, <2>4, HeldParts
<1>5. free' + Entries' = free + Entries - v.deposit + 0
  <2>1. Entries' = Entries /\ Entries \in Nat /\ free \in Nat
    BY <1>1, EntriesNat DEF Entries, DepositFacts
  <2> QED
    BY <1>1, <1>2, <2>1
<1> HIDE DEF n
<1> QED
  BY <1>1, <1>2, <1>4, <1>5, OneFed

\* A step short of NEAR ends a call without its account: what was held is
\* still on hand.
LEMMA OneForgotten ==
    ASSUME DepositFacts, NEW n \in CallNos, NEW d \in Nat, HeldChange(n, -d),
           UNCHANGED <<free, claimEntries>>
    PROVE  DepositStep
<1>1. Entries' = Entries /\ Entries \in Nat /\ free \in Nat
  BY EntriesNat DEF Entries, DepositFacts
<1>2. free' + Entries' = free + Entries + (-d) + d /\ -d \in Int
  BY <1>1
<1> QED
  BY <1>2, OneHeld

\* on_complete_settled: a call that panicked gives its whole deposit back.
LEMMA OnCompleteSettledHeld ==
    ASSUME DepositFacts, NEW v \in verifying, OnCompleteSettled(v)
    PROVE  /\ v.no \in CallNos /\ Refund(v) \in Nat /\ Refund(v) <= HeldFor(v.no)
           /\ HeldChange(v.no, -Refund(v))
<1> DEFINE n == v.no
<1>1. v.stage \in {"done", "panicked"} /\ verifying' = verifying \ {v} /\ UNCHANGED payouts
  BY DEF OnCompleteSettled, chainsInFlight
<1>2. v \in Verifying /\ n \in CallNos /\ v.deposit \in Nat
  BY DEF DepositFacts, TypeOK, FlightTypes, Verifying, CallNos
<1>3. Refund(v) \in Nat
  BY <1>2 DEF Refund
<1>4. \A m \in CallNos : Unspent(v, m) = IF m = n THEN Refund(v) ELSE 0
  BY <1>1, <1>2 DEF Unspent, Refund
<1> HIDE DEF n
<1>5. \A m \in CallNos : HeldFor(m)' = HeldFor(m) + IF m = n THEN -Refund(v) ELSE 0
  <2> SUFFICES ASSUME NEW m \in CallNos
               PROVE  HeldFor(m)' = HeldFor(m) + IF m = n THEN -Refund(v) ELSE 0
    OBVIOUS
  <2>1. CallSum(m)' = CallSum(m) - Unspent(v, m)
    BY <1>1, CallSumEnds DEF DepositFacts, DistinctInv
  <2>2. KeptSum(m)' = KeptSum(m)
    BY <1>1, HeldSame
  <2> QED
    BY <1>3, <1>4, <2>1, <2>2, HeldParts
<1>6. Refund(v) <= HeldFor(n)
  <2>1. verifying \subseteq Verifying /\ IsFiniteSet(verifying)
    BY DEF DepositFacts, TypeOK, FlightTypes, DistinctInv, Finite
  <2>2. \A u \in verifying : CallWeight(n)[u] \in Nat
    BY <1>2, <2>1, HeldWeights
  <2>3. CallWeight(n)[v] <= CallSum(n)
    BY <2>1, <2>2, SumLeast DEF CallSum
  <2>4. CallWeight(n)[v] = Refund(v)
    BY <1>2, <1>4 DEF CallWeight
  <2> QED
    BY <1>2, <1>3, <2>3, <2>4, HeldParts
<1> QED
  BY <1>2, <1>3, <1>5, <1>6 DEF n, HeldChange

LEMMA OnCompleteSettledFed ==
    ASSUME DepositFacts, NEW v \in verifying, OnCompleteSettled(v)
    PROVE  /\ DepositStep
           /\ Refund(v) <= free => Fed
<1>1. /\ v.no \in CallNos /\ Refund(v) \in Nat /\ HeldChange(v.no, -Refund(v))
  BY OnCompleteSettledHeld
<1>2. UNCHANGED claimEntries
  BY DEF OnCompleteSettled, contract
<1>3. CASE Refund(v) <= free
  <2>1. /\ free' = free - Refund(v)
        /\ deposits' = [deposits EXCEPT ![v.no] = @ - Refund(v)]
    BY <1>3 DEF OnCompleteSettled
  <2>2. free' + Entries' = free + Entries - Refund(v) + 0
    <3>1. Entries' = Entries /\ Entries \in Nat /\ free \in Nat
      BY <1>2, EntriesNat DEF Entries, DepositFacts
    <3> QED
      BY <1>1, <2>1, <3>1
  <2>3. Fed
    BY <1>1, <2>1, <2>2, OneFed
  <2> QED
    BY <2>3 DEF Fed
<1>4. CASE ~(Refund(v) <= free)
  <2>1. UNCHANGED free
    BY <1>4 DEF OnCompleteSettled
  <2> QED
    BY <1>1, <1>2, <1>4, <2>1, OneForgotten
<1> QED
  BY <1>3, <1>4

\* What the entry of a refused payment adds.
LEMMA EntriesAdd ==
    ASSUME TypeOK, NEW a \in Accounts, claimEntries' = claimEntries \cup {a}
    PROVE  Entries' = Entries + (IF a \in claimEntries THEN 0 ELSE ClaimCost)
<1>1. IsFiniteSet(claimEntries) /\ ClaimCost \in Nat /\ Entries \in Nat
  BY EntriesNat, NttAssumption
<1>2. CASE a \in claimEntries
  <2>1. claimEntries' = claimEntries
    BY <1>2
  <2>2. Entries' = Entries
    BY <2>1 DEF Entries
  <2> QED
    BY <1>1, <1>2, <2>2
<1>3. CASE a \notin claimEntries
  <2> DEFINE c == Cardinality(claimEntries)
  <2>1. Cardinality(claimEntries \cup {a}) = c + 1 /\ c \in Nat
    BY <1>1, <1>3, FS_AddElement, FS_CardinalityType
  <2>2. ClaimCost * (c + 1) = ClaimCost * c + ClaimCost
    <3> HIDE DEF c
    <3> QED
      BY <1>1, <2>1
  <2>3. Entries' = ClaimCost * Cardinality(claimEntries \cup {a})
    BY DEF Entries
  <2>4. Entries' = ClaimCost * c + ClaimCost
    BY <2>1, <2>2, <2>3, Zenon
  <2> QED
    BY <1>3, <2>4, Zenon DEF Entries
<1> QED
  BY <1>2, <1>3

\* on_paid and its failure: the pay-out's share of its call's deposit ends.
LEMMA PaidHeld ==
    ASSUME DepositFacts, NEW p \in payouts, payouts' = payouts \ {p}, UNCHANGED verifying
    PROVE  /\ p \in Payouts /\ p.held \in Nat
           /\ p.call = NoCall => \A m \in CallNos : HeldFor(m)' = HeldFor(m)
           /\ p.call # NoCall => /\ p.call \in CallNos /\ p.held >= ClaimReserve
                                 /\ HeldChange(p.call, -p.held) /\ p.held <= HeldFor(p.call)
<1> DEFINE n == p.call
<1>1. p \in Payouts /\ p.held \in Nat /\ n \in 0..MaxCalls
  BY DEF DepositFacts, TypeOK, FlightTypes, Payouts
<1>2. n # NoCall => n \in CallNos
  BY <1>1, NttAssumption DEF NoCall, CallNos
<1>3. \A m \in CallNos : Kept(p, m) = IF m = n THEN p.held ELSE 0
  BY DEF Kept
<1>4. n # NoCall => p.held >= ClaimReserve
  BY DEF DepositFacts, DistinctInv, PayoutsNumbered
<1> HIDE DEF n
<1>5. \A m \in CallNos : HeldFor(m)' = HeldFor(m) + IF m = n THEN -p.held ELSE 0
  <2> SUFFICES ASSUME NEW m \in CallNos
               PROVE  HeldFor(m)' = HeldFor(m) + IF m = n THEN -p.held ELSE 0
    OBVIOUS
  <2>1. KeptSum(m)' = KeptSum(m) - Kept(p, m)
    BY KeptSumEnds DEF DepositFacts, DistinctInv
  <2>2. CallSum(m)' = CallSum(m)
    BY HeldSame
  <2> QED
    BY <1>1, <1>3, <2>1, <2>2, HeldParts
<1>6. ASSUME n = NoCall, NEW m \in CallNos PROVE HeldFor(m)' = HeldFor(m)
  <2>1. m # n
    BY <1>6, CallNosFinite
  <2>2. HeldFor(m) \in Nat
    BY HeldForNat DEF DepositFacts
  <2> QED
    BY <1>5, <2>1, <2>2
<1>7. ASSUME n # NoCall PROVE p.held <= HeldFor(n)
  <2>1. payouts \subseteq Payouts /\ IsFiniteSet(payouts) /\ n \in CallNos
    BY <1>2, <1>7 DEF DepositFacts, TypeOK, FlightTypes, DistinctInv, Finite
  <2>2. \A q \in payouts : KeptWeight(n)[q] \in Nat
    BY <2>1, HeldWeights
  <2>3. KeptWeight(n)[p] <= KeptSum(n)
    BY <2>1, <2>2, SumLeast DEF KeptSum
  <2>4. KeptWeight(n)[p] = p.held
    BY <1>1, <1>3, <2>1 DEF KeptWeight
  <2> QED
    BY <1>1, <2>1, <2>3, <2>4, HeldParts
<1> QED
  BY <1>1, <1>2, <1>4, <1>5, <1>6, <1>7 DEF n, HeldChange

LEMMA CreditCostIs ==
    ASSUME TypeOK, NEW p \in Payouts
    PROVE  CreditCost(p) \in Nat /\ CreditCost(p) <= ClaimCost
<1>1. ClaimCost \in Nat
  BY NttAssumption
<1> QED
  BY <1>1 DEF CreditCost

LEMMA OnPaidFed ==
    ASSUME DepositFacts, NEW p \in payouts, OnPaid(p)
    PROVE  Fed
<1>1. /\ payouts' = payouts \ {p} /\ UNCHANGED verifying /\ free' = free - SettleCost(p)
      /\ Transferred(p)
  BY DEF OnPaid
<1>2. p \in Payouts /\ p.held \in Nat /\ p.credit \in Accounts
  BY <1>1, PaidHeld DEF Payouts
<1>3. /\ CreditCost(p) \in Nat /\ CreditCost(p) <= ClaimCost
      /\ ClaimCost \in Nat /\ ClaimReserve \in Nat /\ ClaimCost <= ClaimReserve
  <2>1. ClaimCost \in Nat /\ ClaimReserve \in Nat /\ ClaimCost <= ClaimReserve
    BY NttAssumption
  <2> QED
    BY <1>2, <2>1, CreditCostIs DEF DepositFacts
<1>4. Entries' = Entries + CreditCost(p) /\ Entries \in Nat /\ free \in Nat
  <2>1. Entries \in Nat /\ free \in Nat
    BY EntriesNat DEF DepositFacts
  <2>2. CASE p.stage = "unpaid"
    <3>1. claimEntries' = claimEntries \cup {p.credit}
      BY <2>2 DEF OnPaid
    <3>2. Entries' = Entries + (IF p.credit \in claimEntries THEN 0 ELSE ClaimCost)
      BY <1>2, <3>1, EntriesAdd DEF DepositFacts
    <3>3. CreditCost(p) = IF p.credit \in claimEntries THEN 0 ELSE ClaimCost
      BY <2>2 DEF CreditCost
    <3> QED
      BY <2>1, <3>2, <3>3
  <2>3. CASE p.stage # "unpaid"
    <3>1. claimEntries' = claimEntries /\ CreditCost(p) = 0
      BY <2>3 DEF OnPaid, CreditCost
    <3>2. Entries' = Entries
      BY <3>1 DEF Entries
    <3> QED
      BY <2>1, <3>1, <3>2
  <2> QED
    BY <2>2, <2>3
<1>5. CASE p.call = NoCall
  <2>1. p.held = 0
    BY <1>5 DEF DepositFacts, DistinctInv, PayoutsNumbered
  <2>2. SettleCost(p) = CreditCost(p)
    BY <1>3, <2>1 DEF SettleCost, SatSub
  <2>3. free' + Entries' = free + Entries + 0
    BY <1>1, <1>3, <1>4, <2>2
  <2>4. deposits' = deposits /\ \A m \in CallNos : HeldFor(m)' = HeldFor(m)
    BY <1>1, <1>5, PaidHeld DEF OnPaid
  <2> QED
    BY <2>3, <2>4, NothingHeld
<1>6. CASE p.call # NoCall
  <2>1. p.call \in CallNos /\ p.held >= ClaimReserve /\ HeldChange(p.call, -p.held)
    BY <1>1, <1>6, PaidHeld
  <2>2. SettleCost(p) = p.held
    BY <1>2, <1>3, <2>1 DEF SettleCost, SatSub
  <2>3. free' + Entries' = free + Entries - p.held + CreditCost(p)
    BY <1>1, <1>2, <1>3, <1>4, <2>2
  <2>4. deposits' = [deposits EXCEPT ![p.call] = @ - p.held]
    BY <1>6, <2>2 DEF OnPaid
  <2> QED
    BY <1>2, <1>3, <2>1, <2>3, <2>4, OneFed
<1> QED
  BY <1>5, <1>6

LEMMA OnPaidFailsFed ==
    ASSUME DepositFacts, NEW p \in payouts, OnPaidFails(p)
    PROVE  DepositStep
<1>1. /\ payouts' = payouts \ {p} /\ UNCHANGED <<verifying, free, claimEntries, deposits>>
  BY DEF OnPaidFails, contract, history
<1>2. CASE p.call = NoCall
  <2>1. \A m \in CallNos : HeldFor(m)' = HeldFor(m)
    BY <1>1, <1>2, PaidHeld
  <2>2. free' = free + 0
    BY <1>1, EntriesNat DEF DepositFacts
  <2> QED
    BY <1>1, <2>1, <2>2, NearIn DEF Fed
<1>3. CASE p.call # NoCall
  BY <1>1, <1>3, PaidHeld, OneForgotten
<1> QED
  BY <1>2, <1>3

\* Everything else moves no deposit.
Idle == UNCHANGED verifying /\ UNCHANGED payouts /\ UNCHANGED deposits /\ UNCHANGED claimEntries

LEMMA IdleFed ==
    ASSUME DepositFacts, Idle, NEW k \in Nat, free' = free + k PROVE Fed
  BY IdleHeld, NearIn DEF Idle

LEMMA IdleFreeFed == ASSUME DepositFacts, Idle, UNCHANGED free PROVE Fed
<1>1. free' = free + 0
  BY EntriesNat DEF DepositFacts
<1> QED
  BY <1>1, IdleFed

LEMMA PlainPayoutFed ==
    ASSUME DepositFacts, UNCHANGED <<verifying, claimEntries, deposits>>,
           NEW k \in Nat, free' = free + k,
           NEW p \in Payouts, Starts(payouts, payouts', p), p.call = NoCall
    PROVE  Fed
  BY PlainPayoutHeld, NearIn

LEMMA MovedPayoutFed ==
    ASSUME DepositFacts, UNCHANGED <<verifying, claimEntries, deposits>>,
           NEW k \in Nat, free' = free + k,
           NEW p \in payouts, NEW stage \in MovedTo, MoveTo(p, stage)
    PROVE  Fed
  BY MovedPayoutHeld, NearIn

LEMMA PendingCallFed ==
    ASSUME DepositFacts, UNCHANGED <<payouts, claimEntries, deposits, free>>,
           NEW v, NEW w, CallMoved(v, w), v.stage # "done", w.stage # "done"
    PROVE  Fed
<1>1. free' = free + 0
  BY EntriesNat DEF DepositFacts
<1> QED
  BY <1>1, PendingCallHeld, NearIn

LEMMA ReleaseFed ==
    ASSUME DepositFacts, NEW d \in Digests, ReleaseInbound(d) PROVE Fed
<1>1. UNCHANGED <<verifying, claimEntries, deposits>> /\ free' = free + QueueCost
  BY DEF ReleaseInbound
<1>2. QueueCost \in Nat
  BY NttAssumption
<1> QED
  BY <1>1, <1>2, ReleaseStarts, PlainPayoutFed DEF DepositFacts, DistinctInv

LEMMA ClaimFed ==
    ASSUME DepositFacts, NEW a \in Accounts, Claim(a) PROVE Fed
<1>1. UNCHANGED <<verifying, claimEntries, deposits>> /\ free' = free + 0
  BY EntriesNat DEF Claim, DepositFacts
<1> QED
  BY <1>1, ClaimStarts, PlainPayoutFed DEF DepositFacts, DistinctInv

LEMMA OnPublishedFed ==
    ASSUME DepositFacts, NEW t \in publishing, OnPublished(t) PROVE Fed
<1>1. UNCHANGED <<verifying, claimEntries, deposits, free>>
  BY DEF OnPublished
<1>2. CASE Failed(t)
  <2>1. free' = free + 0
    BY <1>1, EntriesNat DEF DepositFacts
  <2> QED
    BY <1>1, <1>2, <2>1, RefundStarts, PlainPayoutFed DEF DepositFacts, DistinctInv
<1>3. CASE ~Failed(t)
  <2>1. UNCHANGED payouts
    BY <1>3 DEF OnPublished
  <2> QED
    BY <1>1, <2>1, IdleFreeFed DEF Idle
<1> QED
  BY <1>2, <1>3

\* The token sends a deposit back, or keeps it.
LEMMA RegistrationBack ==
    ASSUME TypeOK, free' = free \/ free' = free + RegistrationDeposit
    PROVE  \E k \in Nat : free' = free + k
<1>1. free \in Nat /\ RegistrationDeposit \in Nat
  BY NttAssumption, EntriesNat
<1>2. CASE free' = free
  <2>1. free' = free + 0 /\ 0 \in Nat
    BY <1>1, <1>2
  <2> QED
    BY <2>1, Zenon
<1> QED
  BY <1>1, <1>2

LEMMA TokenFed ==
    ASSUME DepositFacts, NEW p \in payouts, NEW ok \in BOOLEAN,
           TokenRegister(p, ok) \/ TokenTransfer(p, ok)
    PROVE  Fed
<1>1. UNCHANGED <<verifying, claimEntries, deposits>>
  BY DEF TokenRegister, TokenTransfer, contract, history
<1>2. free' = free \/ free' = free + RegistrationDeposit
  BY DEF TokenRegister, TokenTransfer
<1>3. PICK stage \in MovedTo : MoveTo(p, stage)
  BY DEF TokenRegister, TokenTransfer, MovedTo
<1>4. PICK k \in Nat : free' = free + k
  BY <1>2, RegistrationBack DEF DepositFacts
<1> QED
  BY <1>1, <1>3, <1>4, MovedPayoutFed

LEMMA RegisterQueuedFed ==
    ASSUME DepositFacts, NEW d \in registering, NEW ok \in BOOLEAN, RegisterQueued(d, ok)
    PROVE  Fed
<1>1. Idle
  BY DEF RegisterQueued, contract, history, Idle
<1>2. free' = free \/ free' = free + RegistrationDeposit
  BY DEF RegisterQueued
<1>3. PICK k \in Nat : free' = free + k
  BY <1>2, RegistrationBack DEF DepositFacts
<1> QED
  BY <1>1, <1>3, IdleFed

LEMMA AnswersFed ==
    ASSUME DepositFacts, NEW v \in verifying, NEW verified \in BOOLEAN,
           NEW storage \in {"some", "none", "failed", "malformed"},
           Answers(v, verified, storage)
    PROVE  Fed
<1>1. UNCHANGED <<payouts, claimEntries, deposits, free>> /\ v.stage = "asked"
  BY DEF Answers, contract, history
<1>2. PICK w : CallMoved(v, w) /\ w.stage = "answered"
  BY AnswersMoves DEF DepositFacts
<1> QED
  BY <1>1, <1>2, PendingCallFed

LEMMA OnVerifiedPanicsFed ==
    ASSUME DepositFacts, NEW v \in verifying, OnVerifiedPanics(v) PROVE Fed
<1>1. /\ UNCHANGED <<payouts, claimEntries, deposits, free>>
      /\ v.stage = "answered" /\ Settling(v, FALSE)
  BY DEF OnVerifiedPanics, contract, history
<1>2. PICK w : CallMoved(v, w) /\ w.stage = "panicked"
  BY <1>1, SettlingMoves DEF DepositFacts
<1> QED
  BY <1>1, <1>2, PendingCallFed

\* A receipt that fails for want of NEAR.
ShortOfNear ==
    \/ \E p \in payouts : OnPaidFails(p)
    \/ \E v \in verifying : OnCompleteSettled(v) /\ ~(Refund(v) <= free)

LEMMA DepositsNext ==
    ASSUME TypeOK, DistinctInv, [Next]_vars
    PROVE  DepositFacts /\ DepositStep /\ (Fed \/ ShortOfNear)
<1>1. DepositFacts
  BY DepositFactsHold
<1>2. Idle /\ UNCHANGED free => Fed
  BY <1>1, IdleFreeFed
<1>3. CASE Owner
  <2>1. Idle /\ UNCHANGED free
    BY <1>3 DEF Owner, SetPeer, SetOutboundLimit, SetInboundLimit, SetPaused,
           chainsInFlight, history, Idle
  <2> QED
    BY <1>1, <1>2, <2>1 DEF Fed
<1>4. CASE Users
  <2>1. ASSUME NEW a \in Accounts, NEW r \in Accounts, NEW c \in Chains,
               NEW amount \in Transfers, FtOnTransfer(a, r, c, amount)
        PROVE  Idle /\ UNCHANGED free
    BY <2>1 DEF FtOnTransfer, history, Idle
  <2>2. Fed
    BY <1>1, <1>2, <1>4, <2>1, CompleteFed, ReleaseFed, ClaimFed DEF Users
  <2> QED
    BY <1>1, <2>2 DEF Fed
<1>5. CASE Callbacks
  <2>1. ASSUME NEW v \in verifying, OnCompleteSettled(v)
        PROVE  DepositStep /\ (Fed \/ ShortOfNear)
    BY <1>1, <2>1, OnCompleteSettledFed DEF ShortOfNear
  <2>2. ASSUME NEW p \in payouts, OnPaidFails(p)
        PROVE  DepositStep /\ ShortOfNear
    BY <1>1, <2>2, OnPaidFailsFed DEF ShortOfNear
  <2>3. Fed \/ (DepositStep /\ (Fed \/ ShortOfNear))
    BY <1>1, <1>5, <2>1, <2>2, OnPublishedFed, OnVerifiedUnlocksFed, OnVerifiedQueuesFed,
       OnVerifiedPanicsFed, OnPaidFed
    DEF Callbacks
  <2> QED
    BY <1>1, <2>3 DEF Fed
<1>6. CASE External
  <2>1. ASSUME NEW t \in publishing, NEW ok \in BOOLEAN, Publish(t, ok)
        PROVE  Idle /\ UNCHANGED free
    BY <2>1 DEF Publish, contract, history, Idle
  <2>2. Fed
    BY <1>1, <1>2, <1>6, <2>1, AnswersFed, TokenFed, RegisterQueuedFed DEF External
  <2> QED
    BY <1>1, <2>2 DEF Fed
<1>7. CASE World
  <2>1. Idle /\ UNCHANGED free
    BY <1>7 DEF World, PeerMints, PeerBurns, Unregister, Tick, contract, chainsInFlight,
           history, Idle
  <2> QED
    BY <1>1, <1>2, <2>1 DEF Fed
<1>8. CASE UNCHANGED vars
  <2>1. Idle /\ UNCHANGED free
    BY <1>8 DEF vars, contract, chainsInFlight, history, Idle
  <2> QED
    BY <1>1, <1>2, <2>1 DEF Fed
<1> QED
  BY <1>3, <1>4, <1>5, <1>6, <1>7, <1>8, <1>1 DEF Next

-----------------------------------------------------------------------------
(* The deposits are on hand. *)

LEMMA NothingHeldAtInit == Init => Held = 0 /\ \A n \in CallNos : HeldFor(n) = 0
<1> SUFFICES ASSUME Init PROVE Held = 0 /\ \A n \in CallNos : HeldFor(n) = 0
  OBVIOUS
<1>1. HeldSums
  BY InitTypes, DistinctInit, HeldIs DEF DistinctInv
<1>2. \A n \in CallNos : CallSum(n) = 0 /\ KeptSum(n) = 0
  BY SumEmpty DEF Init, CallSum, KeptSum
<1>3. \A n \in CallNos : HeldFor(n) = 0
  BY <1>1, <1>2 DEF HeldSums
<1>4. \A n \in CallNos : HeldFn[n] = 0
  BY <1>3 DEF HeldFn
<1> QED
  BY <1>3, <1>4, CallNosFinite, SumZero DEF Held

LEMMA FundingInit == Init => Funding
<1> SUFFICES ASSUME Init PROVE Funding
  OBVIOUS
<1>1. TypeOK /\ Held = 0 /\ free = InitialFree
  BY InitTypes, NothingHeldAtInit DEF Init
<1>2. Entries \in Nat /\ InitialFree \in Nat
  BY <1>1, EntriesNat, NttAssumption
<1> QED
  BY <1>1, <1>2 DEF Funding

LEMMA FundingSum ==
    ASSUME NEW x \in Nat, NEW held \in Int, NEW y \in Nat, NEW z \in Int, NEW w \in Int,
           NEW d \in Int, NEW k \in Nat,
           x >= y + held, z = held + d, w = x + d + k
    PROVE  w >= y + z
  OBVIOUS

LEMMA FundingNext == TypeOK /\ DistinctInv /\ Funding /\ [Next]_vars => Funding'
<1> SUFFICES ASSUME TypeOK, DistinctInv, Funding, [Next]_vars PROVE Funding'
  OBVIOUS
<1>1. DepositFacts /\ DepositStep
  BY DepositsNext
<1>2. PICK d \in Int, k \in Nat :
        Held' = Held + d /\ free' + Entries' = free + Entries + d + k
  BY <1>1, Zenon DEF DepositStep
<1>3. free + Entries \in Nat /\ Held \in Int /\ InitialFree \in Nat
  BY <1>1, EntriesNat, HeldNat, NttAssumption DEF DepositFacts
<1>4. Held + d \in Int /\ free + Entries + d + k \in Int
  BY <1>3
<1>5. free + Entries + d + k >= InitialFree + (Held + d)
  BY <1>3, <1>4, FundingSum DEF Funding
<1>6. free' + Entries' >= InitialFree + Held'
  BY <1>2, <1>5, Zenon
<1> QED
  BY <1>6, Zenon DEF Funding

\* The NEAR a caller deposits is there until its call is settled: of what
\* every call in flight still holds, the contract lacks at most the storage
\* of the claimable entries, however receipts interleave or fail.
THEOREM DepositsStayOnHand == Spec => []DepositsOnHand
<1>1. TypeOK /\ DistinctInv /\ Funding => DepositsOnHand
  <2> SUFFICES ASSUME TypeOK, DistinctInv, Funding PROVE DepositsOnHand
    OBVIOUS
  <2>1. HeldSums /\ Held \in Nat
    BY HeldIs, HeldNat DEF DistinctInv
  <2>2. Entries \in Nat /\ free \in Nat /\ InitialFree \in Nat
    BY EntriesNat, NttAssumption
  <2>3. free + Entries >= Held
    BY <2>1, <2>2 DEF Funding
  <2>4. Held = SumFunction([n \in 1..MaxCalls |-> HeldFor(n)])
    BY DEF Held, HeldFn, CallNos, SumFunction, SumFunctionOnSet, FoldFunction
  <2> QED
    BY <2>3, <2>4 DEF DepositsOnHand, Entries
<1> QED
  BY <1>1, FundingInit, FundingNext, InitTypes, NextTypes, DistinctInit, DistinctNext,
     PTL DEF Spec

\* The owner funds the contract for an entry of every account: "the NEAR for
\* the entries" of NothingLost.
Funded == InitialFree >= ClaimCost * Cardinality(Accounts)

LEMMA EntriesBounded ==
    ASSUME Funded, TypeOK, Funding, HeldSums
    PROVE  /\ Held \in Nat /\ Held <= free
           /\ \A a \in Accounts \ claimEntries : ClaimCost <= free
<1>1. /\ ClaimCost \in Nat /\ InitialFree \in Nat /\ Entries \in Nat /\ free \in Nat
      /\ Held \in Nat /\ IsFiniteSet(claimEntries) /\ IsFiniteSet(Accounts)
      /\ claimEntries \subseteq Accounts
  BY NttAssumption, EntriesNat, HeldNat DEF TypeOK, ContractTypes
<1>2. /\ Cardinality(claimEntries) \in Nat /\ Cardinality(Accounts) \in Nat
      /\ Cardinality(claimEntries) <= Cardinality(Accounts)
  BY <1>1, FS_CardinalityType, FS_Subset
<1>3. \A m, n, c \in Nat : m <= n => c * m <= c * n
  OBVIOUS
<1>4. Entries <= ClaimCost * Cardinality(Accounts) /\ ClaimCost * Cardinality(Accounts) \in Nat
  BY <1>1, <1>2, <1>3 DEF Entries
<1>5. Held <= free
  BY <1>1, <1>4 DEF Funding, Funded
<1>6. ASSUME NEW a \in Accounts \ claimEntries PROVE ClaimCost <= free
  <2> DEFINE some == claimEntries \cup {a}
  <2>1. some \subseteq Accounts /\ Cardinality(some) = Cardinality(claimEntries) + 1
    BY <1>1, FS_AddElement
  <2>2. Cardinality(claimEntries) + 1 <= Cardinality(Accounts)
    BY <1>1, <2>1, FS_Subset
  <2>3. ClaimCost * (Cardinality(claimEntries) + 1) <= ClaimCost * Cardinality(Accounts)
    BY <1>1, <1>2, <1>3, <2>2
  <2>4. \A c, m \in Nat : c * (m + 1) = c * m + c
    OBVIOUS
  <2>5. Entries + ClaimCost <= ClaimCost * Cardinality(Accounts)
    BY <1>1, <1>2, <2>3, <2>4 DEF Entries
  <2> QED
    BY <1>1, <1>4, <2>5 DEF Funding, Funded
<1> QED
  BY <1>1, <1>5, <1>6

LEMMA HeldForBounded ==
    ASSUME HeldSums, NEW n \in CallNos PROVE HeldFor(n) \in Nat /\ HeldFor(n) <= Held
<1>1. \A m \in CallNos : HeldFn[m] = HeldFor(m) /\ HeldFn[m] \in Nat
  BY HeldForNat DEF HeldFn
<1>2. HeldFn[n] <= Held
  BY <1>1, CallNosFinite, SumLeast DEF Held
<1> QED
  BY <1>1, <1>2

\* Then no receipt is ever short of it.
LEMMA NeverShort ==
    ASSUME Funded, DepositFacts, Funding PROVE ~ShortOfNear
<1>1. /\ Held \in Nat /\ Held <= free /\ free \in Nat
      /\ \A a \in Accounts \ claimEntries : ClaimCost <= free
  BY EntriesBounded, EntriesNat DEF DepositFacts
<1>2. ASSUME NEW p \in payouts, OnPaidFails(p) PROVE FALSE
  <2>1. /\ payouts' = payouts \ {p} /\ UNCHANGED verifying
        /\ SettleCost(p) > free /\ Transferred(p)
    BY <1>2 DEF OnPaidFails
  <2>2. p \in Payouts /\ p.held \in Nat /\ p.credit \in Accounts
    BY <2>1, PaidHeld DEF Payouts
  <2>3. /\ CreditCost(p) \in Nat /\ CreditCost(p) <= ClaimCost /\ CreditCost(p) <= free
        /\ ClaimCost \in Nat /\ ClaimReserve \in Nat /\ ClaimCost <= ClaimReserve
    <3>1. ClaimCost \in Nat /\ ClaimReserve \in Nat /\ ClaimCost <= ClaimReserve
      BY NttAssumption
    <3> QED
      BY <1>1, <2>2, <3>1 DEF CreditCost
  <2>4. CASE p.call = NoCall
    <3>1. p.held = 0
      BY <2>4 DEF DepositFacts, DistinctInv, PayoutsNumbered
    <3>2. SettleCost(p) = CreditCost(p)
      BY <2>3, <3>1 DEF SettleCost, SatSub
    <3> QED
      BY <1>1, <2>1, <2>3, <3>2
  <2>5. CASE p.call # NoCall
    <3>1. p.call \in CallNos /\ p.held >= ClaimReserve /\ p.held <= HeldFor(p.call)
      BY <2>1, <2>5, PaidHeld
    <3>2. SettleCost(p) = p.held
      BY <2>2, <2>3, <3>1 DEF SettleCost, SatSub
    <3>3. HeldFor(p.call) \in Nat /\ HeldFor(p.call) <= Held
      BY <3>1, HeldForBounded DEF DepositFacts
    <3> QED
      BY <1>1, <2>1, <2>2, <3>1, <3>2, <3>3
  <2> QED
    BY <2>4, <2>5
<1>3. ASSUME NEW v \in verifying, OnCompleteSettled(v), ~(Refund(v) <= free) PROVE FALSE
  <2>1. v.no \in CallNos /\ Refund(v) \in Nat /\ Refund(v) <= HeldFor(v.no)
    BY <1>3, OnCompleteSettledHeld
  <2>2. HeldFor(v.no) \in Nat /\ HeldFor(v.no) <= Held
    BY <2>1, HeldForBounded DEF DepositFacts
  <2> QED
    BY <1>1, <1>3, <2>1, <2>2
<1> QED
  BY <1>2, <1>3 DEF ShortOfNear

\* With the entries funded, each deposit is exactly accounted for to the end:
\* what is left of it is what its chain of receipts still holds, so no path
\* refunds it twice and none keeps it.
THEOREM DepositsAccountedFor == Funded => (Spec => []DepositAccounted)
<1> SUFFICES ASSUME Funded PROVE Spec => []DepositAccounted
  OBVIOUS
<1>1. Init => DepositAccounted
  BY NothingHeldAtInit DEF Init, DepositAccounted, CallNos
<1>2. TypeOK /\ DistinctInv /\ Funding /\ DepositAccounted /\ [Next]_vars => DepositAccounted'
  BY DepositsNext, NeverShort DEF Fed
<1> QED
  BY <1>1, <1>2, FundingInit, FundingNext, InitTypes, NextTypes, DistinctInit, DistinctNext,
     PTL DEF Spec

\* With the entries funded, nothing is lost between receipts: the tokens held
\* are at all times exactly what the contract owes.
THEOREM NothingEverLost == Funded => (Spec => []NothingLost)
<1> SUFFICES ASSUME Funded PROVE Spec => []NothingLost
  OBVIOUS
<1>1. Init => NothingLost
  BY OwedAtInit DEF NothingLost
<1>2. TypeOK /\ DistinctInv /\ ReplayInv /\ Funding /\ NothingLost /\ [Next]_vars => NothingLost'
  <2> SUFFICES ASSUME TypeOK, DistinctInv, ReplayInv, Funding, NothingLost, [Next]_vars
               PROVE  NothingLost'
    OBVIOUS
  <2>1. ~ShortOfNear
    BY DepositsNext, NeverShort
  <2>2. StepFacts /\ Balanced
    BY <2>1, BalanceNext DEF ShortOfNear
  <2>3. custody' \in Int /\ custody - Owed = 0
    BY <2>2, OwedNat DEF NothingLost, StepFacts
  <2>4. Owed' \in Nat
    BY <2>2, OwedNatNext DEF StepFacts
  <2>5. custody' - Owed' = 0
    BY <2>2, <2>3, Zenon DEF Balanced
  <2>6. \A m, n \in Int : m - n = 0 => m = n
    OBVIOUS
  <2>7. \A n \in Nat : n \in Int
    OBVIOUS
  <2>8. custody' = Owed'
    BY <2>3, <2>4, <2>5, <2>6, <2>7, Zenon
  <2> QED
    BY <2>8 DEF NothingLost
<1> QED
  BY <1>1, <1>2, FundingInit, FundingNext, InitTypes, NextTypes, DistinctInit, DistinctNext,
     ReplayInit, ReplayNext, PTL DEF Spec
-----------------------------------------------------------------------------
(* One window under every sequence of calls (RateLimitWindow).              *)

\* The refill of a stretch of time, the full division.
Refilled(limit, time) == (limit * time) \div Day

LEMMA Division ==
    ASSUME NEW n \in Nat
    PROVE  /\ n \div Day \in Nat
           /\ Day * (n \div Day) <= n /\ n < Day * (n \div Day) + Day
  BY RateLimitAssumption

LEMMA Cancel ==
    ASSUME NEW m \in Int, NEW n \in Int, Day * m < Day * n
    PROVE  m < n
<1> SUFFICES ASSUME n <= m PROVE FALSE
  OBVIOUS
<1>1. Day \in Nat
  BY RateLimitAssumption
<1>2. m - n \in Nat /\ Day * (m - n) \in Nat
  BY <1>1
<1>3. Day * m = Day * n + Day * (m - n)
  BY <1>1
<1> QED
  BY <1>1, <1>2, <1>3

\* Restarting the division, as each mutation does, loses at most one.
LEMMA SplitRefill ==
    ASSUME NEW a \in Nat, NEW b \in Nat
    PROVE  /\ (a \div Day) + (b \div Day) <= (a + b) \div Day
           /\ (a + b) \div Day <= (a \div Day) + (b \div Day) + 1
<1> DEFINE p == a \div Day
           q == b \div Day
           r == (a + b) \div Day
<1>1. /\ p \in Nat /\ Day * p <= a /\ a < Day * p + Day
      /\ q \in Nat /\ Day * q <= b /\ b < Day * q + Day
      /\ r \in Nat /\ Day * r <= a + b /\ a + b < Day * r + Day
  BY Division
<1> HIDE DEF p, q, r
<1>2. Day \in Nat
  BY RateLimitAssumption
<1>3. /\ Day * (p + q) = Day * p + Day * q
      /\ Day * (p + q + 2) = Day * p + Day * q + 2 * Day
      /\ Day * (r + 1) = Day * r + Day
  BY <1>1, <1>2
<1>4. Day * (p + q) < Day * (r + 1) /\ Day * r < Day * (p + q + 2)
  BY <1>1, <1>2, <1>3
<1>5. p + q < r + 1 /\ r < p + q + 2
  BY <1>1, <1>4, Cancel
<1> QED
  BY <1>1, <1>5 DEF p, q, r

\* While a full window's refill fits u128, saturation is out of sight.
LEMMA CapacityIs ==
    ASSUME NEW v \in BoundedWindow, NEW t \in Nat, v.last_tx_at <= t,
           v.limit * Day <= MaxUint
    PROVE  /\ Refilled(v.limit, t - v.last_tx_at) \in Nat
           /\ Capacity(v, t) = AtMost(v.capacity + Refilled(v.limit, t - v.last_tx_at), v.limit)
<1> DEFINE time == t - v.last_tx_at
           product == v.limit * time
<1>1. /\ v.limit \in Nat /\ v.limit <= MaxUint /\ v.capacity \in Nat /\ v.capacity <= v.limit
      /\ v.last_tx_at \in Nat /\ time \in Nat /\ product \in Nat
      /\ Day \in Nat /\ MaxUint \in Nat
  BY RateLimitAssumption DEF BoundedWindow, Window, Amount
<1>2. SatSub(t, v.last_tx_at) = time
  BY <1>1 DEF SatSub
<1>3. Refilled(v.limit, time) = product \div Day /\ product \div Day \in Nat
  BY <1>1, Division DEF Refilled
<1> HIDE DEF time, product
<1>4. CASE product <= MaxUint
  <2>1. Refill(v, t) = product \div Day
    BY <1>1, <1>2, <1>4 DEF Refill, Saturate, product
  <2> QED
    BY <1>1, <1>3, <2>1 DEF Capacity, AtMost, Saturate, time
<1>5. CASE product > MaxUint
  <2>1. Refill(v, t) = MaxUint \div Day
    BY <1>1, <1>2, <1>5 DEF Refill, Saturate, product
  <2>2. \A n \in Nat : n >= v.limit * Day => n \div Day >= v.limit
    <3> SUFFICES ASSUME NEW n \in Nat, n >= v.limit * Day PROVE n \div Day >= v.limit
      OBVIOUS
    <3>1. n \div Day \in Nat /\ n < Day * (n \div Day) + Day
      BY Division
    <3>2. Day * v.limit < Day * ((n \div Day) + 1)
      <4>1. Day * ((n \div Day) + 1) = Day * (n \div Day) + Day
        BY <1>1, <3>1
      <4> QED
        BY <1>1, <3>1, <4>1
    <3>3. v.limit < (n \div Day) + 1
      BY <1>1, <3>1, <3>2, Cancel
    <3> QED
      BY <1>1, <3>1, <3>3
  <2>3. MaxUint \div Day >= v.limit /\ product \div Day >= v.limit
    BY <1>1, <1>5, <2>2
  <2>4. MaxUint \div Day \in Nat
    BY <1>1, Division
  <2> QED
    BY <1>1, <1>3, <2>1, <2>3, <2>4 DEF Capacity, AtMost, Saturate, time
<1> QED
  BY <1>1, <1>4, <1>5

\* What the time since the last call adds, in shares of a Day.
LEMMA CapacityGrows ==
    ASSUME NEW v \in BoundedWindow, NEW t \in Nat, v.last_tx_at <= t
    PROVE  Day * Capacity(v, t) <= Day * v.capacity + v.limit * (t - v.last_tx_at)
<1> DEFINE product == v.limit * (t - v.last_tx_at)
<1>1. /\ v.limit \in Nat /\ v.capacity \in Nat /\ v.last_tx_at \in Nat /\ product \in Nat
      /\ Day \in Nat /\ MaxUint \in Nat
  BY RateLimitAssumption DEF BoundedWindow, Window, Amount
<1>2. SatSub(t, v.last_tx_at) = t - v.last_tx_at
  BY <1>1 DEF SatSub
<1> HIDE DEF product
<1>3. Saturate(product) \in Nat /\ Saturate(product) <= product
  BY <1>1 DEF Saturate
<1>4. Refill(v, t) = Saturate(product) \div Day
  BY <1>2 DEF Refill, product
<1>5. Refill(v, t) \in Nat /\ Day * Refill(v, t) <= product
  BY <1>1, <1>3, <1>4, Division
<1>6. Capacity(v, t) \in Nat /\ Capacity(v, t) <= v.capacity + Refill(v, t)
  BY <1>1, <1>5 DEF Capacity, AtMost, Saturate
<1>7. Day * Capacity(v, t) <= Day * (v.capacity + Refill(v, t))
  <2>1. \A m, n \in Nat : m <= n => Day * m <= Day * n
    BY <1>1
  <2> QED
    BY <1>1, <1>5, <1>6, <2>1
<1>8. Day * (v.capacity + Refill(v, t)) = Day * v.capacity + Day * Refill(v, t)
  BY <1>1, <1>5
<1> QED
  BY <1>1, <1>5, <1>6, <1>7, <1>8 DEF product

-----------------------------------------------------------------------------
(* The types, and what a call does to the window and to the account of it.  *)

LEMMA LimitsNat == WindowLimits \subseteq Nat /\ Amounts \subseteq Nat \ {0}
  BY RateLimitAssumption, WindowAssumption DEF Amount

\* What was taken out of the window itself: what a debit missed aside.
Drained == [t \in 0..MaxWindowTime |-> net[t] - excess[t]]

WindowTypes ==
    /\ window \in BoundedWindow /\ window.limit \in WindowLimits /\ window.last_tx_at <= clock
    /\ shadow \in BoundedWindow /\ shadow.limit = window.limit /\ shadow.last_tx_at <= clock
    /\ clock \in 0..MaxWindowTime
    /\ net \in [0..MaxWindowTime -> Int] /\ excess \in [0..MaxWindowTime -> Nat]
    /\ phase \in [Locks -> {"none", "locked", "failed"}] /\ applied \in [Locks -> Nat]

LEMMA LimitNat ==
    ASSUME WindowTypes
    PROVE  window.limit \in Nat /\ window.limit \in WindowLimits /\ clock \in Nat
<1>1. window.limit \in WindowLimits /\ clock \in 0..MaxWindowTime
  BY DEF WindowTypes
<1>2. clock \in Nat
  BY <1>1, WindowAssumption
<1> QED
  BY <1>1, <1>2, LimitsNat

\* d is taken out now, or put back.
Outflow(d) ==
    /\ clock' = clock
    /\ window' \in BoundedWindow /\ window'.limit \in WindowLimits /\ window'.last_tx_at = clock
    /\ Drained' = [Drained EXCEPT ![clock] = @ + d]
    /\ net' \in [0..MaxWindowTime -> Int] /\ excess' \in [0..MaxWindowTime -> Nat]
    /\ window'.capacity + d <= Capacity(window, clock)

\* The two accounts and the one they make.
LEMMA BothAccounts ==
    ASSUME WindowTypes, NEW d \in Int, NEW x \in Nat,
           net' = [net EXCEPT ![clock] = @ + d], excess' = [excess EXCEPT ![clock] = @ + x]
    PROVE  /\ Drained' = [Drained EXCEPT ![clock] = @ + (d - x)]
           /\ net' \in [0..MaxWindowTime -> Int] /\ excess' \in [0..MaxWindowTime -> Nat]
<1>1. /\ net \in [0..MaxWindowTime -> Int] /\ excess \in [0..MaxWindowTime -> Nat]
      /\ clock \in 0..MaxWindowTime
  BY DEF WindowTypes
<1>2. net' \in [0..MaxWindowTime -> Int] /\ excess' \in [0..MaxWindowTime -> Nat]
  BY <1>1
<1>3. \A t \in 0..MaxWindowTime :
          net'[t] - excess'[t] = IF t = clock THEN (net[t] - excess[t]) + (d - x)
                                              ELSE net[t] - excess[t]
  BY <1>1
<1>4. Drained' = [t \in 0..MaxWindowTime |-> IF t = clock THEN Drained[t] + (d - x)
                                                          ELSE Drained[t]]
  BY <1>3 DEF Drained
<1>5. [Drained EXCEPT ![clock] = @ + (d - x)]
          = [t \in 0..MaxWindowTime |-> IF t = clock THEN Drained[t] + (d - x) ELSE Drained[t]]
  BY <1>1 DEF Drained
<1> QED
  BY <1>2, <1>4, <1>5

LEMMA DrainedInt ==
    ASSUME WindowTypes PROVE Drained \in [0..MaxWindowTime -> Int]
<1>1. net \in [0..MaxWindowTime -> Int] /\ excess \in [0..MaxWindowTime -> Nat]
  BY DEF WindowTypes
<1>2. \A t \in 0..MaxWindowTime : net[t] - excess[t] \in Int
  BY <1>1
<1> QED
  BY <1>2 DEF Drained

\* A call that leaves the excess alone.
LEMMA OneAccount ==
    ASSUME WindowTypes, NEW d \in Int, net' = [net EXCEPT ![clock] = @ + d], excess' = excess
    PROVE  /\ Drained' = [Drained EXCEPT ![clock] = @ + d]
           /\ net' \in [0..MaxWindowTime -> Int] /\ excess' \in [0..MaxWindowTime -> Nat]
<1>1. excess \in [0..MaxWindowTime -> Nat] /\ clock \in 0..MaxWindowTime
  BY DEF WindowTypes
<1>2. excess' = [excess EXCEPT ![clock] = @ + 0]
  BY <1>1
<1>3. 0 \in Nat /\ d - 0 = d
  OBVIOUS
<1>4. /\ Drained' = [Drained EXCEPT ![clock] = @ + (d - 0)]
      /\ net' \in [0..MaxWindowTime -> Int] /\ excess' \in [0..MaxWindowTime -> Nat]
  BY <1>2, <1>3, BothAccounts
<1> QED
  BY <1>3, <1>4

LEMMA Stored ==
    ASSUME NEW v, NEW c, NEW t
    PROVE  /\ Store(v, c, t).limit = v.limit /\ Store(v, c, t).capacity = c
           /\ Store(v, c, t).last_tx_at = t
  BY DEF Store

\* What each method stores.
LEMMA Methods ==
    ASSUME NEW v \in BoundedWindow, NEW n \in Nat, NEW t \in Nat
    PROVE  /\ Capacity(v, t) \in 0..v.limit /\ v.limit \in Amount
           /\ Fits(v, n, t) => Consume(v, n, t) = Store(v, Capacity(v, t) - n, t)
                               /\ Consume(v, n, t) \in BoundedWindow
           /\ Backflow(v, n, t) = Store(v, AtMost(Capacity(v, t) + n, v.limit), t)
           /\ Backflow(v, n, t) \in BoundedWindow
           /\ Debit(v, n, t) = Store(v, SatSub(Capacity(v, t), n), t)
           /\ Debit(v, n, t) \in BoundedWindow
<1>1. Capacity(v, t) \in 0..v.limit /\ v.limit \in Amount
  BY CapacityBounded, RateLimitAssumption DEF BoundedWindow, Window, Amount
<1>2. AtMost(Saturate(Capacity(v, t) + n), v.limit) = AtMost(Capacity(v, t) + n, v.limit)
  BY <1>1, RateLimitAssumption DEF AtMost, Saturate, Amount
<1>3. Backflow(v, n, t) \in BoundedWindow
  BY BackflowBounded
<1>4. Debit(v, n, t) \in BoundedWindow
  BY <1>1, DebitBounded
<1>5. ASSUME Fits(v, n, t) PROVE Consume(v, n, t) \in BoundedWindow
  BY <1>5, ConsumeExact
<1> QED
  BY <1>1, <1>2, <1>3, <1>4, <1>5 DEF Consume, Backflow, Debit

Calls ==
    \/ \E amount \in Amounts : Take(amount) \/ Return(amount)
    \/ \E l \in Locks, amount \in Amounts : Lock(l, amount)
    \/ \E l \in Locks : PublishFails(l)
    \/ \E limit \in WindowLimits : ChangeLimit(limit)

\* What each call does, in the terms of RateLimit.
LEMMA CallsAre ==
    ASSUME NEW n, NEW l
    PROVE  /\ Take(n) => /\ Fits(window, n, clock)
                         /\ window' = Consume(window, n, clock)
                         /\ shadow' = Debit(shadow, n, clock)
                         /\ net' = [net EXCEPT ![clock] = @ + n] /\ excess' = excess
                         /\ clock' = clock /\ phase' = phase /\ applied' = applied
           /\ Return(n) =>
                 /\ window' = Backflow(window, n, clock) /\ shadow' = Backflow(shadow, n, clock)
                 /\ net' = [net EXCEPT ![clock] = @ - Backflowed(window, n, clock)]
                 /\ excess' = excess
                 /\ clock' = clock /\ phase' = phase /\ applied' = applied
           /\ Lock(l, n) =>
                 /\ phase[l] = "none"
                 /\ window' = Backflow(window, n, clock) /\ shadow' = shadow
                 /\ net' = [net EXCEPT ![clock] = @ - Backflowed(window, n, clock)]
                 /\ excess' = excess /\ phase' = [phase EXCEPT ![l] = "locked"]
                 /\ applied' = [applied EXCEPT ![l] = Backflowed(window, n, clock)]
                 /\ clock' = clock
           /\ PublishFails(l) =>
                 /\ phase[l] = "locked" /\ phase' = [phase EXCEPT ![l] = "failed"]
                 /\ window' = Debit(window, applied[l], clock)
                 /\ net' = [net EXCEPT ![clock] = @ + applied[l]]
                 /\ excess' = [excess EXCEPT ![clock] =
                                   @ + SatSub(applied[l], Capacity(window, clock))]
                 /\ shadow' = shadow /\ clock' = clock /\ applied' = applied
           /\ ChangeLimit(n) =>
                 /\ window' = SetLimit(window, n, clock) /\ shadow' = SetLimit(shadow, n, clock)
                 /\ net' = [net EXCEPT ![clock] = @ - SatSub(n, window.limit)]
                 /\ excess' = excess
                 /\ clock' = clock /\ phase' = phase /\ applied' = applied
  BY DEF Take, Return, Lock, PublishFails, ChangeLimit

\* What a backflow adds, and stores.
LEMMA BackflowIs ==
    ASSUME NEW v \in BoundedWindow, NEW n \in Nat, NEW t \in Nat
    PROVE  /\ Backflowed(v, n, t) = AtMost(Capacity(v, t) + n, v.limit) - Capacity(v, t)
           /\ Backflowed(v, n, t) \in Nat
           /\ Backflow(v, n, t).capacity = Capacity(v, t) + Backflowed(v, n, t)
           /\ Backflow(v, n, t).limit = v.limit /\ Backflow(v, n, t).last_tx_at = t
<1>1. /\ v.limit \in Nat /\ Capacity(v, t) \in 0..v.limit
      /\ Backflow(v, n, t) = Store(v, AtMost(Capacity(v, t) + n, v.limit), t)
  <2>1. v.limit \in Nat
    BY RateLimitAssumption DEF BoundedWindow, Window, Amount
  <2> QED
    BY <2>1, Methods
<1>2. /\ Backflow(v, n, t).capacity = AtMost(Capacity(v, t) + n, v.limit)
      /\ Backflow(v, n, t).limit = v.limit /\ Backflow(v, n, t).last_tx_at = t
  BY <1>1, Stored
<1> QED
  BY <1>1, <1>2 DEF Backflowed, AtMost

LEMMA CallOutflow ==
    ASSUME WindowTypes, Calls PROVE \E d \in Int : Outflow(d)
<1>1. /\ clock \in Nat /\ clock \in 0..MaxWindowTime
      /\ window \in BoundedWindow /\ window.limit \in WindowLimits /\ window.limit \in Nat
      /\ Capacity(window, clock) \in 0..window.limit
  <2>1. /\ clock \in Nat /\ clock \in 0..MaxWindowTime
        /\ window \in BoundedWindow /\ window.limit \in WindowLimits
    BY WindowAssumption DEF WindowTypes
  <2>2. window.limit \in Nat
    BY <2>1, LimitsNat
  <2>3. Capacity(window, clock) \in 0..window.limit
    BY <2>1, Methods
  <2> QED
    BY <2>1, <2>2, <2>3 DEF WindowTypes
<1>2. ASSUME NEW n \in Amounts, Take(n) PROVE Outflow(n) /\ n \in Int
  <2>1. n \in Nat
    BY LimitsNat
  <2>2. /\ Fits(window, n, clock) /\ window' = Consume(window, n, clock) /\ clock' = clock
        /\ net' = [net EXCEPT ![clock] = @ + n] /\ excess' = excess
    BY <1>2, CallsAre
  <2>3. window' \in BoundedWindow /\ window' = Store(window, Capacity(window, clock) - n, clock)
    BY <1>1, <2>1, <2>2, Methods
  <2>4. /\ Drained' = [Drained EXCEPT ![clock] = @ + n]
        /\ net' \in [0..MaxWindowTime -> Int] /\ excess' \in [0..MaxWindowTime -> Nat]
    <3>1. n \in Int
      BY <2>1
    <3> QED
      BY <2>2, <3>1, OneAccount
  <2> QED
    BY <1>1, <2>1, <2>2, <2>3, <2>4, Stored DEF Outflow
<1>3. ASSUME NEW n \in Amounts, Return(n) \/ \E l \in Locks : Lock(l, n)
      PROVE  \E d \in Int : Outflow(d)
  <2>1. n \in Nat
    BY LimitsNat
  <2> DEFINE d == -Backflowed(window, n, clock)
  <2>2. /\ window' = Backflow(window, n, clock) /\ clock' = clock /\ excess' = excess
        /\ net' = [net EXCEPT ![clock] = @ - Backflowed(window, n, clock)]
    BY <1>3, CallsAre
  <2>3. /\ window' \in BoundedWindow /\ window'.limit = window.limit
        /\ window'.last_tx_at = clock /\ d \in Int
        /\ window'.capacity + d <= Capacity(window, clock)
    <3>1. Backflow(window, n, clock) \in BoundedWindow
      BY <1>1, <2>1, Methods
    <3>2. /\ Backflowed(window, n, clock) \in Nat /\ window'.limit = window.limit
          /\ window'.capacity = Capacity(window, clock) + Backflowed(window, n, clock)
          /\ window'.last_tx_at = clock
      BY <1>1, <2>1, <2>2, BackflowIs
    <3> QED
      BY <1>1, <2>2, <3>1, <3>2
  <2>4. net' = [net EXCEPT ![clock] = @ + d]
    <3>1. net[clock] \in Int /\ Backflowed(window, n, clock) \in Int
      <4>1. net[clock] \in Int
        BY <1>1 DEF WindowTypes
      <4> QED
        BY <1>1, <2>1, <4>1, BackflowIs
    <3>2. net[clock] - Backflowed(window, n, clock) = net[clock] + d
      BY <3>1
    <3> QED
      BY <2>2, <3>2
  <2> HIDE DEF d
  <2>5. /\ Drained' = [Drained EXCEPT ![clock] = @ + d]
        /\ net' \in [0..MaxWindowTime -> Int] /\ excess' \in [0..MaxWindowTime -> Nat]
    BY <2>2, <2>3, <2>4, OneAccount
  <2> QED
    BY <1>1, <2>2, <2>3, <2>5 DEF Outflow
\* The debit takes what it finds; the excess is the rest.
<1>4. ASSUME NEW l \in Locks, PublishFails(l) PROVE \E d \in Int : Outflow(d)
  <2> DEFINE c == Capacity(window, clock)
             x == SatSub(applied[l], c)
             d == applied[l] - x
  <2>1. /\ window' = Debit(window, applied[l], clock) /\ clock' = clock
        /\ net' = [net EXCEPT ![clock] = @ + applied[l]]
        /\ excess' = [excess EXCEPT ![clock] = @ + x]
    BY <1>4, CallsAre
  <2>2. applied[l] \in Nat /\ c \in Nat /\ x \in Nat /\ d \in Int
    BY <1>1 DEF WindowTypes, SatSub
  <2>3. /\ window' \in BoundedWindow /\ window' = Store(window, SatSub(c, applied[l]), clock)
    BY <1>1, <2>1, <2>2, Methods
  <2>4. /\ window'.limit = window.limit /\ window'.last_tx_at = clock
        /\ window'.capacity = SatSub(c, applied[l])
    BY <2>3, Stored
  <2>5. window'.capacity + d <= c
    BY <2>2, <2>4 DEF SatSub
  <2>6. /\ Drained' = [Drained EXCEPT ![clock] = @ + d]
        /\ net' \in [0..MaxWindowTime -> Int] /\ excess' \in [0..MaxWindowTime -> Nat]
    <3>1. applied[l] \in Int
      BY <2>2
    <3> HIDE DEF x
    <3> QED
      BY <2>1, <2>2, <3>1, BothAccounts
  <2> QED
    BY <1>1, <2>1, <2>2, <2>3, <2>4, <2>5, <2>6 DEF Outflow
<1>5. ASSUME NEW n \in WindowLimits, ChangeLimit(n) PROVE \E d \in Int : Outflow(d)
  <2>1. n \in Nat /\ n \in Amount
    BY LimitsNat, WindowAssumption
  <2>2. /\ window' = SetLimit(window, n, clock) /\ clock' = clock
        /\ net' = [net EXCEPT ![clock] = @ - SatSub(n, window.limit)] /\ excess' = excess
    BY <1>5, CallsAre
  <2>3. window' \in BoundedWindow /\ window'.limit = n /\ window'.last_tx_at = clock
    BY <1>1, <2>1, <2>2, SetLimitBounded DEF SetLimit
  <2>6. PICK d \in Int : d = -SatSub(n, window.limit)
    BY <1>1, <2>1 DEF SatSub
  <2>4. window'.capacity + d <= Capacity(window, clock)
    BY <1>1, <2>1, <2>2, <2>6 DEF SetLimit, SatSub
  <2>5. net' = [net EXCEPT ![clock] = @ + d]
    <3>1. SatSub(n, window.limit) \in Int /\ net[clock] \in Int
      BY <1>1, <2>1 DEF SatSub, WindowTypes
    <3>2. net[clock] - SatSub(n, window.limit) = net[clock] + d
      BY <2>6, <3>1
    <3> QED
      BY <2>2, <3>2
  <2>7. /\ Drained' = [Drained EXCEPT ![clock] = @ + d]
        /\ net' \in [0..MaxWindowTime -> Int] /\ excess' \in [0..MaxWindowTime -> Nat]
    BY <2>2, <2>5, OneAccount
  <2> QED
    BY <1>5, <2>2, <2>3, <2>4, <2>7 DEF Outflow
<1> QED
  BY <1>2, <1>3, <1>4, <1>5 DEF Calls

-----------------------------------------------------------------------------
(* Throughput. *)

Out(from, to) == SumFunctionOnSet(Drained, from..to)

\* Nothing was taken since the last call; until a Day after `from', what was
\* taken since and what is left come out of a full window and the refill of
\* the time between.
Flow ==
    /\ \A t \in 0..MaxWindowTime : t > window.last_tx_at => Drained[t] = 0
    /\ \A from \in 0..clock :
           clock <= from + Day =>
               Day * (Out(from, clock) + window.capacity)
                   <= Day * Peak + Peak * SatSub(window.last_tx_at, from)
Throughput ==
    \A from \in 0..clock : Out(from, AtMost(clock, from + Day)) <= 2 * Peak

LEMMA PeakIs ==
    Peak \in Nat /\ \A limit \in WindowLimits : limit <= Peak
<1> DEFINE below == {n \in Nat : \E limit \in WindowLimits : n = MaxUint - limit}
<1>1. MaxUint \in Nat /\ \A limit \in WindowLimits : limit \in Nat /\ limit <= MaxUint
  BY RateLimitAssumption, WindowAssumption DEF Amount
<1>2. MaxUint - InitialLimit \in below
  BY <1>1, WindowAssumption
<1>3. PICK n \in below : \A m \in below : n <= m
  BY <1>2, LeastExists
<1>4. PICK top \in WindowLimits : n = MaxUint - top
  OBVIOUS
<1>5. \A limit \in WindowLimits : top >= limit
  BY <1>1, <1>3, <1>4
<1>6. Peak \in WindowLimits /\ \A limit \in WindowLimits : Peak >= limit
  BY <1>4, <1>5 DEF Peak, Peak, Max
<1> QED
  BY <1>1, <1>6

LEMMA OutInt ==
    ASSUME WindowTypes, NEW from \in Nat, NEW to \in 0..MaxWindowTime
    PROVE  Out(from, to) \in Int /\ IsFiniteSet(from..to)
<1>1. IsFiniteSet(from..to)
  <2>1. from \in Int /\ to \in Int
    BY WindowAssumption
  <2> QED
    BY <2>1, FS_Interval
<1>2. \A t \in from..to : Drained[t] \in Int
  BY DrainedInt, WindowAssumption
<1> QED
  BY <1>1, <1>2, SumInt DEF Out

LEMMA NothingOut ==
    ASSUME WindowTypes, NEW from \in Nat, NEW to \in 0..MaxWindowTime,
           \A t \in from..to : Drained[t] = 0
    PROVE  Out(from, to) = 0
  BY OutInt, SumZero DEF Out

\* The account of one more tick.
LEMMA OutTick ==
    ASSUME WindowTypes, NEW from \in Nat, NEW to \in 0..MaxWindowTime, from <= to,
           to + 1 \in 0..MaxWindowTime
    PROVE  Out(from, to + 1) = Out(from, to) + Drained[to + 1]
<1>1. from..(to + 1) = (from..to) \cup {to + 1} /\ to + 1 \notin from..to
  BY WindowAssumption
<1>2. \A t \in (from..to) \cup {to + 1} : Drained[t] \in Int
  BY DrainedInt, WindowAssumption
<1>3. IsFiniteSet(from..to)
  BY OutInt
<1>4. SumFunctionOnSet(Drained, (from..to) \cup {to + 1}) = SumFunctionOnSet(Drained, from..to) + Drained[to + 1]
  BY <1>1, <1>2, <1>3, SumAdd
<1> QED
  BY <1>1, <1>4 DEF Out

LEMMA ThroughputInit ==
    ASSUME WindowInit PROVE WindowTypes /\ Flow /\ Throughput
<1>1. /\ window = NewWindow(InitialLimit, 0) /\ shadow = window /\ clock = 0
      /\ net = [t \in 0..MaxWindowTime |-> 0]
      /\ excess = net /\ phase = [l \in Locks |-> "none"] /\ applied = [l \in Locks |-> 0]
  BY DEF WindowInit
<1>2. /\ InitialLimit \in Amount /\ InitialLimit \in Nat
      /\ InitialLimit \in WindowLimits /\ MaxWindowTime \in Nat
  BY LimitsNat, WindowAssumption
<1>3. /\ window \in BoundedWindow /\ window.limit = InitialLimit
      /\ window.capacity = InitialLimit /\ window.last_tx_at = 0
  BY <1>1, <1>2, NewWindowBounded DEF NewWindow
<1>4. WindowTypes
  BY <1>1, <1>2, <1>3 DEF WindowTypes
<1>5. Day \in Nat \ {0} /\ Peak \in Nat /\ InitialLimit <= Peak
  BY <1>2, PeakIs, RateLimitAssumption
<1>6. Out(0, 0) = 0 /\ \A t \in 0..MaxWindowTime : Drained[t] = 0
  <2>1. \A t \in 0..MaxWindowTime : Drained[t] = 0
    BY <1>1 DEF Drained
  <2> QED
    BY <1>2, <1>4, <2>1, NothingOut
<1>7. Flow
  <2>1. Day * (Out(0, 0) + window.capacity) <= Day * Peak + Peak * SatSub(0, 0)
    <3>1. Day * InitialLimit <= Day * Peak
      BY <1>2, <1>5
    <3>2. Out(0, 0) + window.capacity = InitialLimit /\ Peak * SatSub(0, 0) = 0
      BY <1>2, <1>3, <1>5, <1>6 DEF SatSub
    <3> QED
      BY <1>2, <1>5, <3>1, <3>2
  <2> QED
    BY <1>1, <1>3, <1>6, <2>1 DEF Flow
<1>8. Throughput
  <2>1. AtMost(0, 0 + Day) = 0
    BY <1>5 DEF AtMost
  <2>2. \A from \in 0..0 : from = 0
    OBVIOUS
  <2> QED
    BY <1>1, <1>5, <1>6, <2>1, <2>2 DEF Throughput
<1> QED
  BY <1>4, <1>7, <1>8

LEMMA ProductGrows ==
    ASSUME NEW m \in Nat, NEW n \in Nat, m <= n, NEW k \in Nat
    PROVE  m * k <= n * k
<1>1. n - m \in Nat /\ (n - m) * k \in Nat
  OBVIOUS
<1>2. n * k = m * k + (n - m) * k
  OBVIOUS
<1>3. n * k \in Int /\ m * k \in Int
  OBVIOUS
<1> QED
  BY <1>1, <1>2, <1>3

LEMMA WithinTwo ==
    ASSUME NEW out \in Int, NEW left \in Nat, NEW peak \in Nat, NEW time \in Nat, time <= Day,
           Day * (out + left) <= Day * peak + peak * time
    PROVE  out <= 2 * peak
<1>1. Day \in Nat
  BY RateLimitAssumption
<1>2. peak * time <= peak * Day
  <2>1. Day - time \in Nat /\ peak * (Day - time) \in Nat
    BY <1>1
  <2>2. peak * Day = peak * time + peak * (Day - time)
    BY <1>1
  <2>3. peak * time \in Int /\ peak * Day \in Int
    BY <1>1
  <2> QED
    BY <2>1, <2>2, <2>3
<1>3. Day * (2 * peak + 1) = Day * peak + peak * Day + Day
  BY <1>1
<1>4. Day * (out + left) < Day * (2 * peak + 1)
  <2>1. /\ Day * (out + left) \in Int /\ peak * time \in Int /\ peak * Day \in Int
        /\ Day * peak \in Int /\ Day > 0
    BY <1>1, RateLimitAssumption
  <2> QED
    BY <1>1, <1>2, <1>3, <2>1
<1>5. out + left < 2 * peak + 1
  BY <1>4, Cancel
<1> QED
  BY <1>5

\* A call: what is taken now comes out of what is left, refilled since the last.
LEMMA ThroughputCall ==
    ASSUME WindowTypes, WindowTypes', Flow, Throughput, NEW d \in Int, Outflow(d)
    PROVE  Flow' /\ Throughput'
<1>1. /\ clock \in Nat /\ clock \in 0..MaxWindowTime
      /\ window \in BoundedWindow /\ window.limit \in WindowLimits
      /\ window.last_tx_at <= clock /\ Drained \in [0..MaxWindowTime -> Int] /\ MaxWindowTime \in Nat
  BY DrainedInt, WindowAssumption DEF WindowTypes
<1>2. /\ clock' = clock /\ window'.last_tx_at = clock /\ window' \in BoundedWindow
      /\ Drained' = [Drained EXCEPT ![clock] = @ + d] /\ window'.capacity + d <= Capacity(window, clock)
      /\ window'.limit \in WindowLimits
  BY DEF Outflow
<1>3. /\ window.last_tx_at \in Nat /\ window.capacity \in Nat /\ window.limit \in Nat
      /\ window.capacity <= window.limit /\ window'.capacity \in Nat
  BY <1>1, <1>2, RateLimitAssumption DEF BoundedWindow, Window, Amount
<1>4. /\ Capacity(window, clock) \in Nat /\ Capacity(window, clock) <= Peak
      /\ Peak \in Nat /\ window.limit <= Peak /\ Day \in Nat \ {0}
  <2>1. Capacity(window, clock) \in 0..window.limit
    BY <1>1, Methods
  <2>2. Peak \in Nat /\ window.limit <= Peak /\ Day \in Nat \ {0}
    BY <1>1, PeakIs, RateLimitAssumption
  <2> QED
    BY <1>3, <2>1, <2>2
<1>5. ASSUME NEW from \in 0..clock, NEW to \in 0..MaxWindowTime
      PROVE  Out(from, to)' = Out(from, to) + IF clock \in from..to THEN d ELSE 0
  <2> DEFINE S == from..to
  <2>1. IsFiniteSet(S) /\ Out(from, to) \in Int /\ from \in Nat
    BY <1>1, OutInt
  <2>2. \A t \in S : Drained[t] \in Int /\ Drained'[t] \in Int
    BY <1>1, <1>2, <2>1
  <2>3. Out(from, to)' = SumFunctionOnSet(Drained', S)
    BY DEF Out
  <2>4. CASE clock \in S
    <3>1. \A t \in S \ {clock} : Drained'[t] = Drained[t]
      BY <1>1, <1>2, <2>1
    <3>2. Drained'[clock] = Drained[clock] + d /\ Drained[clock] \in Int
      BY <1>1, <1>2
    <3> HIDE DEF S
    <3>3. SumFunctionOnSet(Drained', S) = SumFunctionOnSet(Drained, S) - Drained[clock] + Drained'[clock]
      BY <2>1, <2>2, <2>4, <3>1, SumPoint
    <3> USE DEF S
    <3> QED
      BY <1>1, <2>1, <2>3, <2>4, <3>2, <3>3 DEF Out
  <2>5. CASE clock \notin S
    <3>1. \A t \in S : Drained'[t] = Drained[t]
      BY <1>1, <1>2, <2>1, <2>5
    <3>2. SumFunctionOnSet(Drained', S) = SumFunctionOnSet(Drained, S)
      BY <2>1, <3>1, SumCongruence
    <3> QED
      BY <2>1, <2>3, <2>5, <3>2 DEF Out
  <2> QED
    BY <2>4, <2>5
<1>6. ASSUME NEW from \in 0..clock, clock <= from + Day
      PROVE  /\ Out(from, clock)' \in Int
             /\ Day * (Out(from, clock)' + window'.capacity)
                    <= Day * Peak + Peak * SatSub(clock, from)
  <2> DEFINE out == Out(from, clock)
             last == window.last_tx_at
  <2>1. out \in Int /\ from \in Nat
    BY <1>1, OutInt
  <2>2. Out(from, clock)' = out + d
    <3>1. clock \in from..clock
      BY <1>1, <2>1
    <3>2. SumFunctionOnSet(Drained', from..clock) = SumFunctionOnSet(Drained, from..clock) + d
      BY <1>1, <1>5, <3>1 DEF Out
    <3> QED
      BY <1>2, <3>2 DEF Out
  <2>3. out + d + window'.capacity <= out + Capacity(window, clock)
    BY <1>2, <1>3, <1>4, <2>1
  <2>4. Day * (out + d + window'.capacity) <= Day * (out + Capacity(window, clock))
    <3>1. \A m, n \in Int : m <= n => Day * m <= Day * n
      BY <1>4
    <3> QED
      BY <1>3, <1>4, <2>1, <2>3, <3>1
  <2>5. Day * (out + Capacity(window, clock)) <= Day * Peak + Peak * SatSub(clock, from)
    <3>1. CASE from <= last
      <4>1. Day * (out + window.capacity) <= Day * Peak + Peak * (last - from)
        <5>1. SatSub(last, from) = last - from
          BY <1>3, <2>1, <3>1 DEF SatSub
        <5> QED
          BY <1>6, <5>1 DEF Flow
      <4>2. Day * Capacity(window, clock) <= Day * window.capacity + window.limit * (clock - last)
        BY <1>1, CapacityGrows
      <4>3. SatSub(clock, from) = clock - from
        BY <1>1, <2>1 DEF SatSub
      <4>4. Day * (out + Capacity(window, clock)) <= Day * Peak + Peak * (clock - from)
        <5>1. /\ last \in Nat /\ last <= clock
              /\ Day * Capacity(window, clock)
                     <= Day * window.capacity + window.limit * (clock - last)
          BY <1>1, <1>3, <4>2
        <5> DEFINE full == Capacity(window, clock)
                   left == window.capacity
                   limit == window.limit
                   peak == Peak
        <5>2. /\ out \in Int /\ left \in Nat /\ full \in Nat /\ limit \in Nat /\ peak \in Nat
              /\ from \in Nat /\ last \in Nat /\ clock \in Nat
              /\ limit <= peak /\ from <= last /\ last <= clock
          BY <1>1, <1>3, <1>4, <2>1, <3>1, <5>1
        <5>3. /\ Day * (out + left) <= Day * peak + peak * (last - from)
              /\ Day * full <= Day * left + limit * (clock - last)
          BY <4>1, <5>1
        <5> HIDE DEF out, last, full, left, limit, peak
        <5>4. Day * (out + full) <= Day * peak + peak * (clock - from)
          <6>1. Day \in Nat /\ clock - last \in Nat /\ last - from \in Nat
            BY <5>2, RateLimitAssumption
          <6>2. limit * (clock - last) <= peak * (clock - last)
            BY <5>2, <6>1, ProductGrows
          <6>3. /\ Day * (out + full) = Day * out + Day * full
                /\ Day * (out + left) = Day * out + Day * left
            BY <5>2, <6>1
          <6>4. peak * (clock - from) = peak * (last - from) + peak * (clock - last)
            BY <5>2
          <6>5. /\ Day * out \in Int /\ Day * full \in Int /\ Day * left \in Int
                /\ Day * peak \in Int /\ peak * (last - from) \in Int
                /\ peak * (clock - last) \in Int /\ limit * (clock - last) \in Int
            BY <5>2, <6>1
          <6> QED
            BY <5>3, <6>2, <6>3, <6>4, <6>5
        <5> QED
          BY <5>4 DEF full, peak
      <4> QED
        BY <4>3, <4>4
    <3>2. CASE last < from
      <4>1. out = 0
        <5>1. \A t \in from..clock : Drained[t] = 0
          BY <1>1, <1>3, <2>1, <3>2 DEF Flow
        <5> QED
          BY <1>1, <2>1, <5>1, NothingOut
      <4>2. Day * Capacity(window, clock) <= Day * Peak
        BY <1>4
      <4>3. /\ Peak * SatSub(clock, from) \in Nat /\ Day * Peak \in Nat
            /\ Day * Capacity(window, clock) \in Nat
        BY <1>1, <1>4, <2>1 DEF SatSub
      <4>4. out + Capacity(window, clock) = Capacity(window, clock)
        BY <1>4, <4>1
      <4> QED
        BY <4>2, <4>3, <4>4
    <3> QED
      BY <1>3, <2>1, <3>1, <3>2
  <2>6. /\ Day * (out + d + window'.capacity) \in Int
        /\ Day * (out + Capacity(window, clock)) \in Int
        /\ Day * Peak + Peak * SatSub(clock, from) \in Int
    <3>1. SatSub(clock, from) \in Nat
      BY <1>1, <2>1 DEF SatSub
    <3>2. out + d + window'.capacity \in Int /\ out + Capacity(window, clock) \in Int
      BY <1>3, <1>4, <2>1
    <3> QED
      BY <1>4, <3>1, <3>2
  <2>7. Out(from, clock)' \in Int
    BY <2>1, <2>2
  <2> QED
    BY <2>2, <2>4, <2>5, <2>6, <2>7
<1>7. Flow'
  <2>1. \A t \in 0..MaxWindowTime : t > clock => Drained'[t] = 0
    BY <1>1, <1>2, <1>3 DEF Flow
  <2> QED
    BY <1>2, <1>6, <2>1 DEF Flow
<1>8. Throughput'
  <2> SUFFICES ASSUME NEW from \in 0..clock
               PROVE  Out(from, AtMost(clock, from + Day))' <= 2 * Peak
    BY <1>2 DEF Throughput
  <2>1. from \in Nat
    BY <1>1
  <2>2. CASE clock <= from + Day
    <3> DEFINE out == Out(from, clock)'
    <3>1. AtMost(clock, from + Day) = clock
      BY <1>1, <1>4, <2>1, <2>2 DEF AtMost
    <3>2. out \in Int /\ Day * (out + window'.capacity) <= Day * Peak + Peak * SatSub(clock, from)
      BY <1>6, <2>2
    <3>3. SatSub(clock, from) \in Nat /\ SatSub(clock, from) <= Day
      BY <1>1, <1>4, <2>1, <2>2 DEF SatSub
    <3>4. out <= 2 * Peak
      BY <1>3, <1>4, <3>2, <3>3, WithinTwo
    <3> QED
      BY <1>2, <3>1, <3>4 DEF Out
  <2>3. CASE from + Day < clock
    <3> DEFINE to == from + Day
    <3>1. AtMost(clock, to) = to /\ to \in 0..MaxWindowTime /\ clock \notin from..to
      BY <1>1, <1>4, <2>1, <2>3 DEF AtMost
    <3>2. Out(from, to) \in Int /\ Out(from, to) <= 2 * Peak
      BY <1>1, <2>1, <3>1, OutInt DEF Throughput
    <3>3. SumFunctionOnSet(Drained', from..to) = SumFunctionOnSet(Drained, from..to) + 0
      BY <1>5, <3>1 DEF Out
    <3>4. SumFunctionOnSet(Drained', from..to) <= 2 * Peak
      BY <3>2, <3>3 DEF Out
    <3> QED
      BY <1>2, <3>1, <3>4 DEF Out
  <2> QED
    BY <1>1, <1>4, <2>1, <2>2, <2>3
<1> QED
  BY <1>7, <1>8

LEMMA ThroughputTick ==
    ASSUME WindowTypes, WindowTypes', Flow, Throughput, WindowTick
    PROVE  Flow' /\ Throughput'
<1>1. /\ clock' = clock + 1 /\ clock < MaxWindowTime
      /\ window' = window /\ Drained' = Drained
  BY DEF WindowTick, Drained
<1>2. /\ clock \in Nat /\ clock \in 0..MaxWindowTime
      /\ MaxWindowTime \in Nat /\ clock + 1 \in 0..MaxWindowTime
      /\ window \in BoundedWindow /\ window.limit \in WindowLimits /\ window.last_tx_at <= clock
  BY <1>1, WindowAssumption DEF WindowTypes
<1>3. window.last_tx_at \in Nat /\ window.capacity \in Nat /\ window.capacity <= window.limit
  BY <1>2, RateLimitAssumption DEF BoundedWindow, Window, Amount
<1>4. Peak \in Nat /\ window.capacity <= Peak /\ Day \in Nat \ {0}
  <2>1. Peak \in Nat /\ window.limit <= Peak /\ window.limit \in Nat
    BY <1>2, PeakIs, LimitNat
  <2> QED
    BY <1>3, <2>1, RateLimitAssumption
<1>5. Drained[clock + 1] = 0
  BY <1>2, <1>3 DEF Flow
<1>6. Out(clock + 1, clock + 1) = 0
  BY <1>2, <1>5, NothingOut
<1>7. ASSUME NEW from \in 0..clock
      PROVE  Out(from, clock + 1) = Out(from, clock) /\ Out(from, clock) \in Int /\ from \in Nat
  BY <1>2, <1>5, OutInt, OutTick
<1>8. Flow'
  <2> SUFFICES ASSUME NEW from \in 0..(clock + 1), clock + 1 <= from + Day
               PROVE  Day * (Out(from, clock + 1) + window.capacity)
                          <= Day * Peak + Peak * SatSub(window.last_tx_at, from)
    BY <1>1 DEF Flow, Out
  <2>1. CASE from \in 0..clock
    BY <1>2, <1>4, <1>7, <2>1 DEF Flow
  <2>2. CASE from = clock + 1
    <3>1. SatSub(window.last_tx_at, from) = 0
      BY <1>2, <1>3, <2>2 DEF SatSub
    <3>2. Out(from, clock + 1) + window.capacity = window.capacity /\ Peak * 0 = 0
      BY <1>3, <1>4, <1>6, <2>2
    <3>3. Day * window.capacity <= Day * Peak
      BY <1>3, <1>4
    <3>4. Day * window.capacity \in Int /\ Day * Peak \in Int
      BY <1>3, <1>4
    <3> QED
      BY <3>1, <3>2, <3>3, <3>4
  <2> QED
    BY <1>2, <2>1, <2>2
<1>9. Throughput'
  <2> SUFFICES ASSUME NEW from \in 0..(clock + 1)
               PROVE  Out(from, AtMost(clock + 1, from + Day)) <= 2 * Peak
    BY <1>1 DEF Throughput, Out
  <2>1. CASE from \in 0..clock
    <3>1. Out(from, AtMost(clock, from + Day)) <= 2 * Peak
      BY <2>1 DEF Throughput
    <3>2. CASE clock + 1 <= from + Day
      <4>1. AtMost(clock, from + Day) = clock /\ AtMost(clock + 1, from + Day) = clock + 1
        BY <1>2, <1>4, <2>1, <3>2 DEF AtMost
      <4> QED
        BY <1>7, <2>1, <3>1, <4>1
    <3>3. CASE from + Day <= clock
      <4>1. AtMost(clock, from + Day) = from + Day /\ AtMost(clock + 1, from + Day) = from + Day
        BY <1>2, <1>4, <2>1, <3>3 DEF AtMost
      <4> QED
        BY <3>1, <4>1
    <3> QED
      BY <1>2, <1>4, <2>1, <3>2, <3>3
  <2>2. CASE from = clock + 1
    <3>1. AtMost(clock + 1, from + Day) = clock + 1
      BY <1>2, <1>4, <2>2 DEF AtMost
    <3> QED
      BY <1>4, <1>6, <2>2, <3>1
  <2> QED
    BY <1>2, <2>1, <2>2
<1> QED
  BY <1>8, <1>9

-----------------------------------------------------------------------------
(* A publish that failed. *)

\* A full window's refill fits u128: limits up to 2^128 / 86400.
Moderate == \A limit \in WindowLimits : limit * Day <= MaxUint

Behind(n) == \A t \in Nat : t >= clock => Capacity(shadow, t) <= Capacity(window, t) + n
Ahead(n) == \A t \in Nat : t >= clock => Capacity(window, t) <= Capacity(shadow, t) + n
Undone ==
    /\ Ahead(Lent("locked"))
    /\ Behind(Lent("failed") + Cardinality(InPhase("failed")))

LEMMA LentNat ==
    ASSUME WindowTypes, NEW st
    PROVE  /\ IsFiniteSet(InPhase(st)) /\ Cardinality(InPhase(st)) \in Nat
           /\ Lent(st) \in Nat
<1>1. IsFiniteSet(InPhase(st)) /\ Cardinality(InPhase(st)) \in Nat
  <2>1. InPhase(st) \subseteq Locks
    BY DEF InPhase
  <2> QED
    BY <2>1, WindowAssumption, FS_Subset, FS_CardinalityType
<1>2. \A l \in InPhase(st) : applied[l] \in Nat
  BY DEF WindowTypes, InPhase
<1> QED
  BY <1>1, <1>2, SumNat DEF Lent

\* A lock that opens lends what its backflow added.
LEMMA LentOpens ==
    ASSUME WindowTypes, NEW l \in Locks, NEW g \in Nat, phase[l] = "none",
           phase' = [phase EXCEPT ![l] = "locked"], applied' = [applied EXCEPT ![l] = g]
    PROVE  /\ Lent("locked")' = Lent("locked") + g
           /\ Lent("failed")' = Lent("failed") /\ InPhase("failed")' = InPhase("failed")
<1>1. phase \in [Locks -> {"none", "locked", "failed"}] /\ applied \in [Locks -> Nat]
  BY DEF WindowTypes
<1> DEFINE S == InPhase("locked")
           F == InPhase("failed")
<1>2. IsFiniteSet(S) /\ IsFiniteSet(F) /\ S \subseteq Locks /\ F \subseteq Locks
  BY LentNat DEF InPhase
<1>3. l \notin S /\ l \notin F /\ InPhase("locked")' = S \cup {l} /\ InPhase("failed")' = F
  BY <1>1 DEF InPhase
<1> HIDE DEF S, F
<1>4. applied'[l] = g /\ \A x \in Locks : x # l => applied'[x] = applied[x]
  BY <1>1
<1>5. \A x \in S \cup {l} : applied'[x] \in Int
  BY <1>1, <1>2, <1>4
<1>6. SumFunctionOnSet(applied', S \cup {l}) = SumFunctionOnSet(applied', S) + applied'[l]
  BY <1>2, <1>3, <1>5, SumAdd
<1>7. (\A x \in S : applied'[x] = applied[x]) /\ (\A x \in F : applied'[x] = applied[x])
  BY <1>2, <1>3, <1>4
<1>8. /\ SumFunctionOnSet(applied', S) = SumFunctionOnSet(applied, S)
      /\ SumFunctionOnSet(applied', F) = SumFunctionOnSet(applied, F)
  BY <1>2, <1>7, SumCongruence
<1> QED
  BY <1>3, <1>4, <1>6, <1>8 DEF Lent, S, F

\* What a lock whose publish fails had lent moves to the failed.
LEMMA LentFails ==
    ASSUME WindowTypes, NEW l \in Locks, phase[l] = "locked",
           phase' = [phase EXCEPT ![l] = "failed"], applied' = applied
    PROVE  /\ applied[l] \in Nat
           /\ Lent("locked") = applied[l] + Lent("locked")' /\ Lent("locked")' \in Nat
           /\ Lent("failed")' = Lent("failed") + applied[l]
           /\ Cardinality(InPhase("failed"))' = Cardinality(InPhase("failed")) + 1
<1>1. phase \in [Locks -> {"none", "locked", "failed"}] /\ applied \in [Locks -> Nat]
  BY DEF WindowTypes
<1> DEFINE S == InPhase("locked")
           F == InPhase("failed")
<1>2. IsFiniteSet(S) /\ IsFiniteSet(F) /\ S \subseteq Locks /\ F \subseteq Locks
  BY LentNat DEF InPhase
<1>3. /\ l \in S /\ l \notin F
      /\ InPhase("locked")' = S \ {l} /\ InPhase("failed")' = F \cup {l}
  BY <1>1 DEF InPhase
<1> HIDE DEF S, F
<1>4. (\A x \in S : applied[x] \in Int) /\ (\A x \in F \cup {l} : applied[x] \in Int)
  BY <1>1, <1>2
<1>5. SumFunctionOnSet(applied, S) = applied[l] + SumFunctionOnSet(applied, S \ {l})
  BY <1>2, <1>3, <1>4, SumRemove
<1>6. SumFunctionOnSet(applied, F \cup {l}) = SumFunctionOnSet(applied, F) + applied[l]
  BY <1>2, <1>3, <1>4, SumAdd
<1>7. Cardinality(F \cup {l}) = Cardinality(F) + 1
  BY <1>2, <1>3, FS_AddElement
<1>8. SumFunctionOnSet(applied, S \ {l}) \in Nat
  <2>1. IsFiniteSet(S \ {l}) /\ \A x \in S \ {l} : applied[x] \in Nat
    BY <1>1, <1>2, FS_Subset
  <2> QED
    BY <2>1, SumNat
<1> QED
  BY <1>1, <1>3, <1>5, <1>6, <1>7, <1>8 DEF Lent, S, F

\* Storing in between loses at most one to truncation.
LEMMA SplitCapacity ==
    ASSUME NEW v \in BoundedWindow, NEW u \in BoundedWindow, v.limit * Day <= MaxUint,
           NEW s \in Nat, NEW t \in Nat, v.last_tx_at <= s, s <= t,
           u.limit = v.limit, u.last_tx_at = s, u.capacity = Capacity(v, s)
    PROVE  Capacity(u, t) <= Capacity(v, t) /\ Capacity(v, t) <= Capacity(u, t) + 1
<1> DEFINE limit == v.limit
           c == v.capacity
           p == limit * (s - v.last_tx_at)
           q == limit * (t - s)
<1>1. /\ limit \in Nat /\ c \in Nat /\ c <= limit /\ v.last_tx_at \in Nat /\ Day \in Nat
      /\ s - v.last_tx_at \in Nat /\ t - s \in Nat /\ v.last_tx_at <= t
  BY RateLimitAssumption DEF BoundedWindow, Window, Amount
<1>2. p \in Nat /\ q \in Nat
  BY <1>1
<1>3. limit * (t - v.last_tx_at) = p + q
  BY <1>1
<1> HIDE DEF p, q
<1>4. /\ (p \div Day) \in Nat /\ (q \div Day) \in Nat /\ ((p + q) \div Day) \in Nat
      /\ (p \div Day) + (q \div Day) <= (p + q) \div Day
      /\ (p + q) \div Day <= (p \div Day) + (q \div Day) + 1
  <2>1. p + q \in Nat
    BY <1>2
  <2>2. (p \div Day) \in Nat /\ (q \div Day) \in Nat /\ ((p + q) \div Day) \in Nat
    BY <1>2, <2>1, Division
  <2> QED
    BY <1>2, <2>2, SplitRefill
<1>5. Capacity(v, s) = AtMost(c + (p \div Day), limit)
  BY <1>1, CapacityIs DEF Refilled, p
<1>6. Capacity(v, t) = AtMost(c + ((p + q) \div Day), limit)
  <2>1. Refilled(v.limit, t - v.last_tx_at) = (p + q) \div Day
    BY <1>3 DEF Refilled
  <2> QED
    BY <1>1, <2>1, CapacityIs
<1>7. Capacity(u, t) = AtMost(Capacity(v, s) + (q \div Day), limit)
  BY <1>1, CapacityIs DEF Refilled, q
<1> HIDE DEF limit, c
<1> QED
  BY <1>1, <1>4, <1>5, <1>6, <1>7 DEF AtMost

\* Two windows stored at one time come no further apart.
LEMMA StayApart ==
    ASSUME NEW v \in BoundedWindow, NEW u \in BoundedWindow, v.limit * Day <= MaxUint,
           NEW t \in Nat, u.last_tx_at <= t, u.last_tx_at = v.last_tx_at, u.limit = v.limit,
           NEW n \in Nat, v.capacity <= u.capacity + n
    PROVE  Capacity(v, t) <= Capacity(u, t) + n
<1> DEFINE r == Refilled(v.limit, t - v.last_tx_at)
<1>1. /\ v.limit \in Nat /\ v.capacity \in Nat /\ u.capacity \in Nat
  BY RateLimitAssumption DEF BoundedWindow, Window, Amount
<1>2. /\ r \in Nat /\ Capacity(v, t) = AtMost(v.capacity + r, v.limit)
      /\ Capacity(u, t) = AtMost(u.capacity + r, v.limit)
  BY CapacityIs
<1> HIDE DEF r
<1> QED
  BY <1>1, <1>2 DEF AtMost

LEMMA TypesCall ==
    ASSUME WindowTypes, Calls PROVE WindowTypes'
<1>1. /\ clock \in Nat /\ window \in BoundedWindow /\ shadow \in BoundedWindow
      /\ shadow.limit = window.limit /\ clock \in 0..MaxWindowTime
      /\ phase \in [Locks -> {"none", "locked", "failed"}] /\ applied \in [Locks -> Nat]
      /\ window.last_tx_at <= clock /\ shadow.last_tx_at <= clock
  BY WindowAssumption DEF WindowTypes
<1>2. PICK d \in Int : Outflow(d)
  BY CallOutflow
<1>3. /\ window' \in BoundedWindow /\ window'.limit \in WindowLimits /\ window'.last_tx_at <= clock'
      /\ clock' = clock /\ clock' \in 0..MaxWindowTime
      /\ net' \in [0..MaxWindowTime -> Int] /\ excess' \in [0..MaxWindowTime -> Nat]
  BY <1>1, <1>2 DEF Outflow
<1>4. ASSUME NEW n \in Amounts, Take(n) \/ Return(n)
      PROVE  /\ shadow' \in BoundedWindow /\ shadow'.limit = window'.limit
             /\ shadow'.last_tx_at <= clock' /\ phase' = phase /\ applied' = applied
  <2>1. n \in Nat
    BY LimitsNat
  <2>2. CASE Take(n)
    <3>1. /\ Fits(window, n, clock) /\ phase' = phase /\ applied' = applied
          /\ window' = Consume(window, n, clock) /\ shadow' = Debit(shadow, n, clock)
      BY <2>2, CallsAre
    <3>2. /\ window' = Store(window, Capacity(window, clock) - n, clock)
          /\ shadow' = Store(shadow, SatSub(Capacity(shadow, clock), n), clock)
          /\ shadow' \in BoundedWindow
      BY <1>1, <2>1, <3>1, Methods
    <3>3. window'.limit = window.limit /\ shadow'.limit = shadow.limit /\ shadow'.last_tx_at = clock
      BY <3>2, Stored
    <3> QED
      BY <1>1, <1>3, <3>1, <3>2, <3>3
  <2>3. CASE Return(n)
    <3>1. /\ window' = Backflow(window, n, clock) /\ shadow' = Backflow(shadow, n, clock)
          /\ phase' = phase /\ applied' = applied
      BY <2>3, CallsAre
    <3>2. /\ window' = Store(window, AtMost(Capacity(window, clock) + n, window.limit), clock)
          /\ shadow' = Store(shadow, AtMost(Capacity(shadow, clock) + n, shadow.limit), clock)
          /\ shadow' \in BoundedWindow
      BY <1>1, <2>1, <3>1, Methods
    <3>3. window'.limit = window.limit /\ shadow'.limit = shadow.limit /\ shadow'.last_tx_at = clock
      BY <3>2, Stored
    <3> QED
      BY <1>1, <1>3, <3>1, <3>2, <3>3
  <2> QED
    BY <1>4, <2>2, <2>3
<1>5. ASSUME NEW l \in Locks, NEW n \in Amounts, Lock(l, n)
      PROVE  /\ shadow' = shadow /\ window'.limit = window.limit
             /\ phase' \in [Locks -> {"none", "locked", "failed"}] /\ applied' \in [Locks -> Nat]
  <2>1. n \in Nat
    BY LimitsNat
  <2>2. /\ window' = Backflow(window, n, clock) /\ shadow' = shadow
        /\ phase' = [phase EXCEPT ![l] = "locked"]
        /\ applied' = [applied EXCEPT ![l] = Backflowed(window, n, clock)]
    BY <1>5, CallsAre
  <2>3. Backflowed(window, n, clock) \in Nat /\ window'.limit = window.limit
    BY <1>1, <2>1, <2>2, BackflowIs
  <2> QED
    BY <1>1, <2>2, <2>3
<1>6. ASSUME NEW l \in Locks, PublishFails(l)
      PROVE  /\ shadow' = shadow /\ window'.limit = window.limit
             /\ phase' \in [Locks -> {"none", "locked", "failed"}] /\ applied' = applied
  <2>1. /\ window' = Debit(window, applied[l], clock) /\ shadow' = shadow
        /\ phase' = [phase EXCEPT ![l] = "failed"] /\ applied' = applied
    BY <1>6, CallsAre
  <2>2. window' = Store(window, SatSub(Capacity(window, clock), applied[l]), clock)
    BY <1>1, <2>1, Methods
  <2> QED
    BY <1>1, <2>1, <2>2, Stored
<1>7. ASSUME NEW n \in WindowLimits, ChangeLimit(n)
      PROVE  /\ shadow' \in BoundedWindow /\ shadow'.limit = window'.limit
             /\ shadow'.last_tx_at <= clock' /\ phase' = phase /\ applied' = applied
  <2>1. /\ window' = SetLimit(window, n, clock) /\ shadow' = SetLimit(shadow, n, clock)
        /\ phase' = phase /\ applied' = applied
    BY <1>7, CallsAre
  <2>2. shadow' \in BoundedWindow
    BY <1>1, <2>1, SetLimitBounded, WindowAssumption
  <2>3. window'.limit = n /\ shadow'.limit = n /\ shadow'.last_tx_at = clock
    BY <2>1 DEF SetLimit
  <2> QED
    BY <1>1, <1>3, <2>1, <2>2, <2>3
<1>8. /\ shadow' \in BoundedWindow /\ shadow'.limit = window'.limit /\ shadow'.last_tx_at <= clock'
      /\ phase' \in [Locks -> {"none", "locked", "failed"}] /\ applied' \in [Locks -> Nat]
  <2>1. CASE \E n \in Amounts : Take(n) \/ Return(n)
    BY <1>1, <1>4, <2>1
  <2>2. CASE \E l \in Locks, n \in Amounts : Lock(l, n)
    BY <1>1, <1>3, <1>5, <2>2
  <2>3. CASE \E l \in Locks : PublishFails(l)
    BY <1>1, <1>3, <1>6, <2>3
  <2>4. CASE \E n \in WindowLimits : ChangeLimit(n)
    BY <1>1, <1>7, <2>4
  <2> QED
    BY <2>1, <2>2, <2>3, <2>4 DEF Calls
<1> QED
  BY <1>3, <1>8 DEF WindowTypes

\* A call both windows see leaves them no further apart than it found them.
LEMMA BothCall ==
    ASSUME WindowTypes,
           \/ \E a \in Amounts : Take(a) \/ Return(a)
           \/ \E limit \in WindowLimits : ChangeLimit(limit),
           NEW n \in Nat
    PROVE  /\ phase' = phase /\ applied' = applied /\ clock' = clock
           /\ window'.last_tx_at = clock /\ shadow'.last_tx_at = clock
           /\ Capacity(window, clock) <= Capacity(shadow, clock) + n
                  => window'.capacity <= shadow'.capacity + n
           /\ Capacity(shadow, clock) <= Capacity(window, clock) + n
                  => shadow'.capacity <= window'.capacity + n
<1> DEFINE c == Capacity(window, clock)
           e == Capacity(shadow, clock)
<1>1. /\ clock \in Nat /\ window \in BoundedWindow /\ shadow \in BoundedWindow
      /\ shadow.limit = window.limit /\ window.limit \in Nat
  BY LimitNat DEF WindowTypes
<1>2. c \in Nat /\ e \in Nat /\ c <= window.limit /\ e <= window.limit
  <2>1. Capacity(window, clock) \in 0..window.limit /\ Capacity(shadow, clock) \in 0..shadow.limit
    BY <1>1, Methods
  <2> QED
    BY <1>1, <2>1
<1>3. CASE \E a \in Amounts : Take(a)
  <2>1. PICK a \in Amounts : Take(a)
    BY <1>3
  <2>2. a \in Nat
    BY LimitsNat
  <2>3. /\ Fits(window, a, clock) /\ phase' = phase /\ applied' = applied /\ clock' = clock
        /\ window' = Consume(window, a, clock) /\ shadow' = Debit(shadow, a, clock)
    BY <2>1, CallsAre
  <2>4. window' = Store(window, c - a, clock) /\ shadow' = Store(shadow, SatSub(e, a), clock)
    BY <1>1, <2>2, <2>3, Methods
  <2>5. /\ window'.capacity = c - a /\ shadow'.capacity = SatSub(e, a) /\ a <= c
        /\ window'.last_tx_at = clock /\ shadow'.last_tx_at = clock
    BY <2>3, <2>4, Stored DEF Fits
  <2>6. /\ c <= e + n => window'.capacity <= shadow'.capacity + n
        /\ e <= c + n => shadow'.capacity <= window'.capacity + n
    <3> HIDE DEF c, e
    <3> QED
      BY <1>2, <2>2, <2>5 DEF SatSub
  <2> QED
    BY <2>3, <2>5, <2>6
<1>4. CASE \E a \in Amounts : Return(a)
  <2>1. PICK a \in Amounts : Return(a)
    BY <1>4
  <2>2. a \in Nat
    BY LimitsNat
  <2>3. /\ phase' = phase /\ applied' = applied /\ clock' = clock
        /\ window' = Backflow(window, a, clock) /\ shadow' = Backflow(shadow, a, clock)
    BY <2>1, CallsAre
  <2>4. /\ window' = Store(window, AtMost(c + a, window.limit), clock)
        /\ shadow' = Store(shadow, AtMost(e + a, shadow.limit), clock)
    BY <1>1, <2>2, <2>3, Methods
  <2>5. /\ window'.capacity = AtMost(c + a, window.limit)
        /\ shadow'.capacity = AtMost(e + a, window.limit)
        /\ window'.last_tx_at = clock /\ shadow'.last_tx_at = clock
    BY <1>1, <2>4, Stored
  <2> HIDE DEF c, e
  <2>6. /\ c <= e + n => window'.capacity <= shadow'.capacity + n
        /\ e <= c + n => shadow'.capacity <= window'.capacity + n
    BY <1>1, <1>2, <2>2, <2>5 DEF AtMost
  <2> QED
    BY <2>3, <2>5, <2>6 DEF c, e
<1>5. CASE \E limit \in WindowLimits : ChangeLimit(limit)
  <2>1. PICK limit \in WindowLimits : ChangeLimit(limit)
    BY <1>5
  <2>2. limit \in Nat
    BY LimitsNat
  <2>3. /\ phase' = phase /\ applied' = applied /\ clock' = clock
        /\ window' = SetLimit(window, limit, clock) /\ shadow' = SetLimit(shadow, limit, clock)
    BY <2>1, CallsAre
  <2>4. /\ window'.capacity = IF limit < window.limit THEN SatSub(c, window.limit - limit)
                                                       ELSE c + (limit - window.limit)
        /\ shadow'.capacity = IF limit < window.limit THEN SatSub(e, window.limit - limit)
                                                  ELSE e + (limit - window.limit)
        /\ window'.last_tx_at = clock /\ shadow'.last_tx_at = clock
    BY <1>1, <2>3 DEF SetLimit
  <2> HIDE DEF c, e
  <2>5. /\ c <= e + n => window'.capacity <= shadow'.capacity + n
        /\ e <= c + n => shadow'.capacity <= window'.capacity + n
    BY <1>1, <1>2, <2>2, <2>4 DEF SatSub
  <2> QED
    BY <2>3, <2>4, <2>5 DEF c, e
<1> QED
  BY <1>3, <1>4, <1>5

\* Two windows just stored, no further apart now and at any later time.
LEMMA ApartLater ==
    ASSUME Moderate, NEW v \in BoundedWindow, NEW u \in BoundedWindow, v.limit \in WindowLimits,
           u.limit = v.limit, NEW s \in Nat, u.last_tx_at = s, v.last_tx_at = s,
           NEW n \in Nat, v.capacity <= u.capacity + n, NEW t \in Nat, t >= s
    PROVE  Capacity(v, t) <= Capacity(u, t) + n
<1>1. v.limit * Day <= MaxUint
  BY DEF Moderate
<1> QED
  BY <1>1, StayApart

\* A window and the window that stores its capacity now.
LEMMA StoredNow ==
    ASSUME Moderate, NEW v \in BoundedWindow, v.limit \in WindowLimits,
           NEW s \in Nat, v.last_tx_at <= s
    PROVE  \E u \in BoundedWindow :
               /\ u.limit = v.limit /\ u.last_tx_at = s /\ u.capacity = Capacity(v, s)
               /\ \A t \in Nat : t >= s => /\ Capacity(u, t) <= Capacity(v, t)
                                           /\ Capacity(v, t) <= Capacity(u, t) + 1
<1> DEFINE u == Store(v, Capacity(v, s), s)
<1>1. u \in BoundedWindow /\ u.limit = v.limit /\ u.last_tx_at = s /\ u.capacity = Capacity(v, s)
  <2>1. Capacity(v, s) \in 0..v.limit
    BY Methods
  <2>2. u \in BoundedWindow
    BY <2>1, StoreBounded
  <2> QED
    BY <2>2, Stored
<1> HIDE DEF u
<1>2. v.limit * Day <= MaxUint
  BY DEF Moderate
<1>3. \A t \in Nat : t >= s => /\ Capacity(u, t) <= Capacity(v, t)
                               /\ Capacity(v, t) <= Capacity(u, t) + 1
  BY <1>1, <1>2, SplitCapacity
<1> QED
  BY <1>1, <1>3

\* A window not stored and one just stored that has one more than it: the
\* rounding of storing is paid for.
LEMMA OneMore ==
    ASSUME Moderate, NEW v \in BoundedWindow, NEW w \in BoundedWindow, v.limit \in WindowLimits,
           w.limit = v.limit, NEW s \in Nat, v.last_tx_at <= s, w.last_tx_at = s,
           NEW n \in Nat, Capacity(v, s) + 1 <= w.capacity + n, NEW t \in Nat, t >= s
    PROVE  Capacity(v, t) <= Capacity(w, t) + n
<1> DEFINE e == Capacity(v, s)
           r == Refilled(v.limit, t - s)
<1>1. PICK u \in BoundedWindow :
          /\ u.limit = v.limit /\ u.last_tx_at = s /\ u.capacity = e
          /\ Capacity(v, t) <= Capacity(u, t) + 1
  BY StoredNow
<1>2. v.limit * Day <= MaxUint
  BY DEF Moderate
<1>3. /\ r \in Nat /\ Capacity(u, t) = AtMost(e + r, v.limit)
      /\ Capacity(w, t) = AtMost(w.capacity + r, v.limit)
  BY <1>1, <1>2, CapacityIs
<1>4. v.limit \in Nat /\ e \in Nat /\ w.capacity \in Nat /\ Capacity(v, t) \in 0..v.limit
  <2>1. e \in 0..v.limit /\ Capacity(v, t) \in 0..v.limit
    BY Methods
  <2>2. v.limit \in Nat /\ w.capacity \in Nat
    BY RateLimitAssumption DEF BoundedWindow, Window, Amount
  <2> QED
    BY <2>1, <2>2
<1> HIDE DEF e, r
<1>5. e + 1 <= w.capacity + n
  BY DEF e
<1> QED
  BY <1>1, <1>3, <1>4, <1>5 DEF AtMost

LEMMA UndoneCall ==
    ASSUME Moderate, WindowTypes, WindowTypes', Undone, Calls
    PROVE  Undone'
<1> DEFINE c == Capacity(window, clock)
           e == Capacity(shadow, clock)
           lent == Lent("locked")
           lost == Lent("failed") + Cardinality(InPhase("failed"))
<1>1. /\ clock \in Nat /\ window \in BoundedWindow /\ shadow \in BoundedWindow
      /\ shadow.limit = window.limit
      /\ window.limit \in WindowLimits /\ window.limit \in Nat
      /\ shadow.last_tx_at <= clock /\ lent \in Nat /\ lost \in Nat
  BY LimitNat, LentNat DEF WindowTypes
<1>2. /\ window' \in BoundedWindow /\ shadow' \in BoundedWindow
      /\ shadow'.limit = window'.limit /\ window'.limit \in WindowLimits
  BY DEF WindowTypes
<1>3. c \in Nat /\ e \in Nat /\ c <= window.limit /\ e <= window.limit
  <2>1. Capacity(window, clock) \in 0..window.limit /\ Capacity(shadow, clock) \in 0..shadow.limit
    BY <1>1, Methods
  <2> QED
    BY <1>1, <2>1
<1>9. c <= e + lent /\ e <= c + lost
  BY <1>1 DEF Undone, Ahead, Behind
<1>4. CASE \/ \E a \in Amounts : Take(a) \/ Return(a)
           \/ \E limit \in WindowLimits : ChangeLimit(limit)
  <2>1. /\ phase' = phase /\ applied' = applied /\ clock' = clock
        /\ window'.last_tx_at = clock /\ shadow'.last_tx_at = clock
    <3>1. 0 \in Nat
      OBVIOUS
    <3> QED
      BY <1>4, <3>1, BothCall
  <2>2. window'.capacity <= shadow'.capacity + lent /\ shadow'.capacity <= window'.capacity + lost
    <3> HIDE DEF lent, lost
    <3> QED
      BY <1>1, <1>4, <1>9, BothCall
  <2>3. \A t \in Nat : t >= clock => Capacity(window', t) <= Capacity(shadow', t) + lent
    <3> HIDE DEF lent, lost
    <3> QED
      BY <1>1, <1>2, <2>1, <2>2, ApartLater
  <2>4. \A t \in Nat : t >= clock => Capacity(shadow', t) <= Capacity(window', t) + lost
    <3> HIDE DEF lent, lost
    <3> QED
      BY <1>1, <1>2, <2>1, <2>2, ApartLater
  <2>5. Lent("locked")' = lent /\ (Lent("failed") + Cardinality(InPhase("failed")))' = lost
    BY <2>1 DEF Lent, InPhase
  <2> QED
    BY <2>1, <2>3, <2>4, <2>5 DEF Undone, Ahead, Behind
\* The window the lock leaves alone, stored now: what window' is compared with.
<1>5. PICK u \in BoundedWindow :
          /\ u.limit = shadow.limit /\ u.last_tx_at = clock /\ u.capacity = e
          /\ \A t \in Nat : t >= clock => /\ Capacity(u, t) <= Capacity(shadow, t)
                                          /\ Capacity(shadow, t) <= Capacity(u, t) + 1
  BY <1>1, StoredNow
<1>6. \A t \in Nat : /\ Capacity(window', t) \in Int /\ Capacity(u, t) \in Int
                     /\ Capacity(shadow, t) \in Int
  <2> TAKE t \in Nat
  <2>1. \A v \in BoundedWindow : v.limit \in Nat
    BY RateLimitAssumption DEF BoundedWindow, Window, Amount
  <2>2. \A v \in BoundedWindow : Capacity(v, t) \in 0..v.limit
    BY Methods
  <2> QED
    BY <1>1, <1>2, <1>5, <2>1, <2>2
<1>7. CASE \E l \in Locks, a \in Amounts : Lock(l, a)
  <2>1. PICK l \in Locks, a \in Amounts : Lock(l, a)
    BY <1>7
  <2> DEFINE g == Backflowed(window, a, clock)
  <2>2. a \in Nat \ {0}
    BY LimitsNat
  <2>3. /\ phase[l] = "none" /\ window' = Backflow(window, a, clock) /\ shadow' = shadow
        /\ clock' = clock /\ phase' = [phase EXCEPT ![l] = "locked"]
        /\ applied' = [applied EXCEPT ![l] = g]
    BY <2>1, CallsAre
  <2>4. /\ g \in Nat /\ g = AtMost(c + a, window.limit) - c
        /\ window'.capacity = c + g /\ window'.limit = window.limit /\ window'.last_tx_at = clock
    <3>1. a \in Nat
      BY <2>2
    <3> HIDE DEF lent, lost
    <3>2. window \in BoundedWindow /\ clock \in Nat
      BY <1>1
    <3>3. /\ Backflowed(window, a, clock) \in Nat
          /\ Backflowed(window, a, clock) = AtMost(Capacity(window, clock) + a, window.limit)
                                                - Capacity(window, clock)
          /\ Backflow(window, a, clock).capacity
                 = Capacity(window, clock) + Backflowed(window, a, clock)
          /\ Backflow(window, a, clock).limit = window.limit
          /\ Backflow(window, a, clock).last_tx_at = clock
      BY <3>1, <3>2, BackflowIs
    <3> QED
      BY <2>3, <3>3
  <2> HIDE DEF g
  <2>5. Lent("locked")' = lent + g /\ (Lent("failed") + Cardinality(InPhase("failed")))' = lost
    BY <2>3, <2>4, LentOpens
  <2> HIDE DEF lent, lost
  <2>6. \A t \in Nat : t >= clock => Capacity(window', t) <= Capacity(shadow, t) + (lent + g)
    <3>1. window'.capacity <= u.capacity + (lent + g) /\ lent + g \in Nat
      <4> HIDE DEF c, e
      <4> QED
        BY <1>1, <1>3, <1>5, <1>9, <2>4
    <3>2. \A t \in Nat : t >= clock => Capacity(window', t) <= Capacity(u, t) + (lent + g)
      BY <1>1, <1>2, <1>5, <2>4, <3>1, ApartLater
    <3> QED
      BY <1>1, <1>5, <1>6, <2>4, <3>2
  <2>7. \A t \in Nat : t >= clock => Capacity(shadow, t) <= Capacity(window', t) + lost
    <3>1. CASE g # 0
      <4>1. e + 1 <= window'.capacity + lost
        <5> HIDE DEF c, e
        <5> QED
          BY <1>1, <1>3, <1>9, <2>4, <3>1
      <4>2. Capacity(shadow, clock) + 1 <= window'.capacity + lost
        BY <4>1
      <4> QED
        BY <1>1, <1>2, <2>4, <4>2, OneMore
    \* The window is full, and stays so.
    <3>2. CASE g = 0
      <4>1. window'.capacity = window'.limit
        <5> HIDE DEF c, e
        <5> QED
          BY <1>1, <1>3, <2>2, <2>4, <3>2 DEF AtMost
      <4>2. ASSUME NEW t \in Nat, t >= clock
            PROVE  Capacity(shadow, t) <= Capacity(window', t) + lost
        <5>1. Capacity(window', t) = AtMost(window'.capacity + Refilled(window'.limit, t - clock),
                                            window'.limit)
              /\ Refilled(window'.limit, t - clock) \in Nat
          BY <1>1, <1>2, <2>4, <4>2, CapacityIs DEF Moderate
        <5>2. Capacity(window', t) = window.limit
          BY <1>1, <2>4, <4>1, <5>1 DEF AtMost
        <5>3. Capacity(shadow, t) \in 0..shadow.limit
          BY <1>1, Methods
        <5> QED
          BY <1>1, <5>2, <5>3
      <4> QED
        BY <4>2
    <3> QED
      BY <3>1, <3>2
  <2> QED
    BY <2>3, <2>5, <2>6, <2>7 DEF Undone, Ahead, Behind
<1>8. CASE \E l \in Locks : PublishFails(l)
  <2>1. PICK l \in Locks : PublishFails(l)
    BY <1>8
  <2> DEFINE g == applied[l]
             rest == Lent("locked")'
  <2>2. /\ phase[l] = "locked" /\ phase' = [phase EXCEPT ![l] = "failed"] /\ applied' = applied
        /\ window' = Debit(window, g, clock) /\ shadow' = shadow /\ clock' = clock
    BY <2>1, CallsAre
  <2>3. /\ g \in Nat /\ rest \in Nat /\ lent = g + rest
        /\ Lent("failed")' = Lent("failed") + g
        /\ Cardinality(InPhase("failed"))' = Cardinality(InPhase("failed")) + 1
    BY <2>2, LentFails
  <2>4. (Lent("failed") + Cardinality(InPhase("failed")))' = lost + g + 1
    <3>1. Lent("failed") \in Nat /\ Cardinality(InPhase("failed")) \in Nat
      BY LentNat
    <3> QED
      BY <2>3, <3>1
  <2> HIDE DEF g, rest, lent, lost
  <2>5. window' = Store(window, SatSub(c, g), clock)
    BY <1>1, <2>2, <2>3, Methods
  <2>6. /\ window'.capacity = SatSub(c, g)
        /\ window'.limit = window.limit /\ window'.last_tx_at = clock
    BY <2>5, Stored
  <2>7. /\ window'.capacity <= u.capacity + rest /\ lost + g \in Nat
        /\ u.capacity <= window'.capacity + (lost + g)
    <3> HIDE DEF c, e
    <3> QED
      BY <1>1, <1>3, <1>5, <1>9, <2>3, <2>6 DEF SatSub
  <2>8. \A t \in Nat : t >= clock => Capacity(window', t) <= Capacity(u, t) + rest
    BY <1>1, <1>2, <1>5, <2>3, <2>6, <2>7, ApartLater
  <2>9. \A t \in Nat : t >= clock => Capacity(u, t) <= Capacity(window', t) + (lost + g)
    BY <1>1, <1>2, <1>5, <2>3, <2>6, <2>7, ApartLater
  <2>10. \A t \in Nat : t >= clock =>
            /\ Capacity(window', t) <= Capacity(shadow, t) + rest
            /\ Capacity(shadow, t) <= Capacity(window', t) + (lost + g + 1)
    BY <1>1, <1>5, <1>6, <2>3, <2>8, <2>9
  <2> QED
    BY <2>2, <2>4, <2>10 DEF Undone, Ahead, Behind, rest
<1> QED
  BY <1>4, <1>7, <1>8 DEF Calls

LEMMA TickKeeps ==
    ASSUME WindowTypes, WindowTick
    PROVE  WindowTypes' /\ (Undone => Undone')
<1>1. /\ clock' = clock + 1 /\ clock < MaxWindowTime
      /\ window' = window /\ shadow' = shadow /\ net' = net /\ excess' = excess
      /\ phase' = phase /\ applied' = applied
  BY DEF WindowTick
<1>2. clock \in Nat /\ clock' \in 0..MaxWindowTime /\ clock' >= clock
  BY <1>1, WindowAssumption DEF WindowTypes
<1>3. window.last_tx_at \in Nat /\ shadow.last_tx_at \in Nat
  BY RateLimitAssumption DEF WindowTypes, BoundedWindow, Window, Amount
<1>4. WindowTypes'
  BY <1>1, <1>2, <1>3 DEF WindowTypes
<1>5. \A t \in Nat : t >= clock' => t >= clock
  BY <1>1, <1>2
<1> QED
  BY <1>1, <1>4, <1>5 DEF Undone, Ahead, Behind, Lent, InPhase

LEMMA UndoneInit ==
    ASSUME WindowInit PROVE Undone
<1>1. window = NewWindow(InitialLimit, 0) /\ shadow = window /\ phase = [l \in Locks |-> "none"]
  BY DEF WindowInit
<1>2. window \in BoundedWindow /\ window.limit \in Nat
  BY <1>1, NewWindowBounded, LimitsNat, WindowAssumption DEF NewWindow
<1>3. \A t \in Nat : Capacity(window, t) \in Nat
  <2>1. \A t \in Nat : Capacity(window, t) \in 0..window.limit
    BY <1>2, Methods
  <2> QED
    BY <1>2, <2>1
<1>4. InPhase("locked") = {} /\ InPhase("failed") = {}
  BY <1>1 DEF InPhase
<1>5. Lent("locked") = 0 /\ Lent("failed") = 0 /\ Cardinality(InPhase("failed")) = 0
  BY <1>4, SumEmpty, FS_EmptySet DEF Lent
<1> QED
  BY <1>1, <1>3, <1>5 DEF Undone, Ahead, Behind

LEMMA WindowSteps ==
    ASSUME [WindowNext]_windowVars
    PROVE  Calls \/ WindowTick \/ UNCHANGED windowVars
  BY DEF WindowNext, Calls

\* The types and the account hold of every step.
LEMMA ThroughputStep ==
    ASSUME WindowTypes, Flow, Throughput, [WindowNext]_windowVars
    PROVE  WindowTypes' /\ Flow' /\ Throughput'
<1>1. CASE Calls
  <2>1. WindowTypes'
    BY <1>1, TypesCall
  <2>2. PICK d \in Int : Outflow(d)
    BY <1>1, CallOutflow
  <2> QED
    BY <2>1, <2>2, ThroughputCall
<1>2. CASE WindowTick
  BY <1>2, TickKeeps, ThroughputTick
<1>3. CASE UNCHANGED windowVars
  BY <1>3 DEF windowVars, WindowTypes, Flow, Throughput, Out, Drained
<1> QED
  BY <1>1, <1>2, <1>3, WindowSteps

LEMMA UndoneStep ==
    ASSUME Moderate, WindowTypes, Undone, [WindowNext]_windowVars
    PROVE  WindowTypes' /\ Undone'
<1>1. CASE Calls
  BY <1>1, TypesCall, UndoneCall
<1>2. CASE WindowTick
  BY <1>2, TickKeeps
<1>3. CASE UNCHANGED windowVars
  BY <1>3 DEF windowVars, WindowTypes, Drained, Undone, Ahead, Behind, Lent, InPhase
<1> QED
  BY <1>1, <1>2, <1>3, WindowSteps

\* The limiter's promise (rate_limit.rs:1-3): over any stretch of one Day, what
\* left the window less what flowed back is at most a full window and one
\* refill of it, and what failed publishes found spent: whatever the limits,
\* the amounts, the order of the calls and the locks that fail.
THEOREM ThroughputAlways == WindowSpec => []ThroughputBounded
<1>1. WindowInit => WindowTypes /\ Flow /\ Throughput
  BY ThroughputInit
<1>2. WindowTypes /\ Flow /\ Throughput /\ [WindowNext]_windowVars
          => WindowTypes' /\ Flow' /\ Throughput'
  BY ThroughputStep
<1>3. WindowTypes /\ Throughput => ThroughputBounded
  <2> SUFFICES ASSUME WindowTypes, Throughput, NEW from \in 0..clock
               PROVE  SumFunctionOnSet(net, from..AtMost(clock, from + Day))
                          <= 2 * Peak
                             + SumFunctionOnSet(excess, from..AtMost(clock, from + Day))
    BY DEF ThroughputBounded
  <2> DEFINE to == AtMost(clock, from + Day)
             S == from..to
  <2>1. /\ from \in Nat /\ clock \in 0..MaxWindowTime /\ to \in 0..MaxWindowTime
        /\ net \in [0..MaxWindowTime -> Int] /\ excess \in [0..MaxWindowTime -> Nat]
    BY WindowAssumption, RateLimitAssumption DEF WindowTypes, AtMost
  <2>2. Out(from, to) <= 2 * Peak /\ IsFiniteSet(S)
    BY <2>1, OutInt DEF Throughput
  <2>3. \A t \in S : /\ net[t] \in Int /\ excess[t] \in Int
                     /\ Drained[t] = net[t] - excess[t]
    BY <2>1, WindowAssumption DEF Drained
  <2> HIDE DEF to
  <2>4. /\ SumFunctionOnSet(net, S) \in Int /\ SumFunctionOnSet(excess, S) \in Int
        /\ Out(from, to) = SumFunctionOnSet(net, S) - SumFunctionOnSet(excess, S)
    BY <2>2, <2>3, SumInt, SumDifference DEF Out
  <2> QED
    BY <2>2, <2>4, PeakIs DEF to
<1> QED
  BY <1>1, <1>2, <1>3, PTL DEF WindowSpec

\* A failed publish is undone (on_published, outbound.rs:129-130), now and at
\* any later time, however many locks fail in whatever order and whatever was
\* spent between: the window is never ahead of one that never saw the locks by
\* more than the open ones gave, nor behind by more than the failed ones gave
\* and a unit each.  The limits are such that a Day's refill fits u128: above
\* them the refill itself saturates.
THEOREM FailedPublishUndoneAlways ==
    Moderate => (WindowSpec => []FailedPublishUndone)
<1> SUFFICES ASSUME Moderate PROVE WindowSpec => []FailedPublishUndone
  OBVIOUS
<1>1. WindowInit => WindowTypes /\ Undone
  BY ThroughputInit, UndoneInit
<1>2. WindowTypes /\ Undone /\ [WindowNext]_windowVars
          => WindowTypes' /\ Undone'
  BY UndoneStep
<1>3. WindowTypes /\ Undone => FailedPublishUndone
  <2> SUFFICES ASSUME WindowTypes, Undone PROVE FailedPublishUndone
    OBVIOUS
  <2> DEFINE lost == Lent("failed") + Cardinality(InPhase("failed"))
  <2>1. /\ clock \in Nat /\ Lent("failed") \in Nat /\ Cardinality(InPhase("failed")) \in Nat
        /\ shadow \in BoundedWindow /\ window \in BoundedWindow
    BY LimitNat, LentNat DEF WindowTypes
  <2>2. /\ Capacity(window, clock) <= Capacity(shadow, clock) + Lent("locked")
        /\ Capacity(shadow, clock) <= Capacity(window, clock) + lost
    BY <2>1 DEF Undone, Ahead, Behind
  <2>3. Capacity(window, clock) \in Nat
    <3>1. window.limit \in Nat /\ Capacity(window, clock) \in 0..window.limit
      BY <2>1, LimitNat, Methods
    <3> QED
      BY <3>1
  <2>4. Capacity(window, clock) + lost
            = Capacity(window, clock) + Lent("failed") + Cardinality(InPhase("failed"))
    BY <2>1, <2>3
  <2> QED
    BY <2>2, <2>4 DEF FailedPublishUndone
<1> QED
  BY <1>1, <1>2, <1>3, PTL DEF WindowSpec

=============================================================================
