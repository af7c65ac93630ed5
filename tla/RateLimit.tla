----------------------------- MODULE RateLimit -----------------------------
(***************************************************************************)
(* The rate limiter of the NEAR NTT manager (rate_limit.rs): a capacity    *)
(* that refills linearly to `limit' over one Day.  A window is a record of *)
(* the three fields the contract stores; every operator is the method of   *)
(* the same name, as a function from the stored window to the new one.     *)
(***************************************************************************)
EXTENDS Integers

CONSTANTS
    Day,      \* RATE_LIMIT_DURATION, in ticks of the block clock
    MaxUint   \* u128::MAX: the saturating operations stop here

ASSUME RateLimitAssumption == Day \in Nat \ {0} /\ MaxUint \in Nat \ {0}

Amount == 0..MaxUint

\* A stored window.  The capacity is what was left at last_tx_at.
Window == [limit : Amount, capacity : Amount, last_tx_at : Nat]

\* A window whose capacity is within its limit: what every method keeps.
BoundedWindow == {w \in Window : w.capacity <= w.limit}

Saturate(n) == IF n > MaxUint THEN MaxUint ELSE n

SatSub(m, n) == IF m > n THEN m - n ELSE 0

AtMost(n, bound) == IF n < bound THEN n ELSE bound

NewWindow(limit, now) == [limit |-> limit, capacity |-> limit, last_tx_at |-> now]

\* What the elapsed time has refilled, before the cap.
Refill(w, now) == Saturate(w.limit * SatSub(now, w.last_tx_at)) \div Day

Capacity(w, now) == AtMost(Saturate(w.capacity + Refill(w, now)), w.limit)

\* Mutant: the time of the last transaction is not moved.
StoreKeepsTime(w, capacity, now) == [w EXCEPT !.capacity = capacity]

\* Every mutation stores the capacity it computed and the time it did so.
Store(w, capacity, now) ==
    [limit |-> w.limit, capacity |-> capacity, last_tx_at |-> now]

\* Mutant: the check is dropped.
FitsAlways(w, amount, now) == TRUE

Fits(w, amount, now) == amount <= Capacity(w, now)

\* consume; the caller checks Fits, whose failure changes nothing.
Consume(w, amount, now) == Store(w, Capacity(w, now) - amount, now)

\* backflow, and the amount it really added (its return value).
Backflow(w, amount, now) ==
    Store(w, AtMost(Saturate(Capacity(w, now) + amount), w.limit), now)

\* Mutant: nothing is taken back.
BackflowedNothing(w, amount, now) == 0

Backflowed(w, amount, now) == Backflow(w, amount, now).capacity - Capacity(w, now)

Debit(w, amount, now) == Store(w, SatSub(Capacity(w, now), amount), now)

SetLimit(w, limit, now) ==
    [limit      |-> limit,
     capacity   |-> IF limit < w.limit
                    THEN SatSub(Capacity(w, now), w.limit - limit)
                    ELSE Capacity(w, now) + (limit - w.limit),
     last_tx_at |-> now]
=============================================================================
