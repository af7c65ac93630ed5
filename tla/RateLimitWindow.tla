-------------------------- MODULE RateLimitWindow --------------------------
(***************************************************************************)
(* One window of the NEAR NTT manager driven through every method of       *)
(* rate_limit.rs.  `Locks' are the transfers of the opposite direction     *)
(* whose publish may fail: a lock flows back into the window, and when its *)
(* publish fails the backflow is debited (outbound.rs), by then perhaps    *)
(* spent.  Beside the window runs a second one, `shadow', that sees the    *)
(* same calls without these locks: comparing the two says what a failed    *)
(* publish really did.  A lock that is published is a Return.              *)
(***************************************************************************)
EXTENDS RateLimit, FiniteSetsExt, Functions

CONSTANTS
    WindowLimits,    \* the limits the owner may set
    InitialLimit,    \* the limit the window starts with
    Amounts,         \* the amounts of the transfers
    Locks,           \* the locks whose publish may fail
    MaxWindowTime,   \* bound of the clock
    MaxWindowCalls   \* bound on the calls

ASSUME WindowAssumption ==
    /\ WindowLimits \subseteq Amount /\ IsFiniteSet(WindowLimits)
    /\ InitialLimit \in WindowLimits
    \* outbound.rs refuses an amount that trims to nothing.
    /\ Amounts \subseteq Amount \ {0}
    /\ IsFiniteSet(Locks)
    /\ MaxWindowTime \in Nat /\ MaxWindowCalls \in Nat

VARIABLES
    window,   \* the window of the contract
    shadow,   \* the same window, had none of the Locks been sent
    clock,    \* the block clock
    phase,    \* of each lock: before it, its publish open, its publish failed
    applied,  \* of each lock: what its backflow added, as `backflow' returned
    net,      \* history: per tick, what was taken out less what was put back
    excess,   \* history: per tick, what a debit did not find any more
    made      \* the calls made, for the bound

windowVars == <<window, shadow, clock, phase, applied, net, excess, made>>

\* The largest limit the window ever has, in this run.
Peak == Max(WindowLimits)

InPhase(s) == {l \in Locks : phase[l] = s}

\* What the locks of a phase gave the window.
Lent(s) == SumFunctionOnSet(applied, InPhase(s))

WindowInit ==
    /\ window = NewWindow(InitialLimit, 0)
    /\ shadow = window
    /\ clock = 0
    /\ phase = [l \in Locks |-> "none"]
    /\ applied = [l \in Locks |-> 0]
    /\ net = [t \in 0..MaxWindowTime |-> 0]
    /\ excess = net
    /\ made = 0

Call == made < MaxWindowCalls /\ made' = made + 1

\* A transfer in the window's direction.  The shadow is debited what it has:
\* the transfer may have fitted thanks to a lock alone.
Take(amount) ==
    /\ Call
    /\ Fits(window, amount, clock)
    /\ window' = Consume(window, amount, clock)
    /\ shadow' = Debit(shadow, amount, clock)
    /\ net' = [net EXCEPT ![clock] = @ + amount]
    /\ UNCHANGED <<clock, phase, applied, excess>>

\* A transfer in the opposite direction whose publish succeeds.
Return(amount) ==
    /\ Call
    /\ window' = Backflow(window, amount, clock)
    /\ shadow' = Backflow(shadow, amount, clock)
    /\ net' = [net EXCEPT ![clock] = @ - Backflowed(window, amount, clock)]
    /\ UNCHANGED <<clock, phase, applied, excess>>

\* ft_on_transfer: the lock flows back into the window, and keeps what
\* backflow returned.
Lock(l, amount) ==
    /\ Call
    /\ phase[l] = "none"
    /\ window' = Backflow(window, amount, clock)
    /\ net' = [net EXCEPT ![clock] = @ - Backflowed(window, amount, clock)]
    /\ phase' = [phase EXCEPT ![l] = "locked"]
    /\ applied' = [applied EXCEPT ![l] = Backflowed(window, amount, clock)]
    /\ UNCHANGED <<shadow, clock, excess>>

\* on_published(Err): the recorded backflow is taken back, as far as it is
\* still there.  The account takes back all of it.
PublishFails(l) ==
    /\ Call
    /\ phase[l] = "locked"
    /\ window' = Debit(window, applied[l], clock)
    /\ phase' = [phase EXCEPT ![l] = "failed"]
    /\ net' = [net EXCEPT ![clock] = @ + applied[l]]
    /\ excess' = [excess EXCEPT ![clock] = @ + SatSub(applied[l], Capacity(window, clock))]
    /\ UNCHANGED <<shadow, clock, applied>>

ChangeLimit(limit) ==
    /\ Call
    /\ window' = SetLimit(window, limit, clock)
    /\ shadow' = SetLimit(shadow, limit, clock)
    /\ net' = [net EXCEPT ![clock] = @ - SatSub(limit, window.limit)]
    /\ UNCHANGED <<clock, phase, applied, excess>>

WindowTick ==
    /\ clock < MaxWindowTime
    /\ clock' = clock + 1
    /\ UNCHANGED <<window, shadow, phase, applied, net, excess, made>>

WindowNext ==
    \/ \E amount \in Amounts : Take(amount)
    \/ \E amount \in Amounts : Return(amount)
    \/ \E l \in Locks, amount \in Amounts : Lock(l, amount)
    \/ \E l \in Locks : PublishFails(l)
    \/ \E limit \in WindowLimits : ChangeLimit(limit)
    \/ WindowTick

WindowSpec == WindowInit /\ [][WindowNext]_windowVars

-----------------------------------------------------------------------------
\* The limiter's promise (rate_limit.rs:1-3, "refills linearly to `limit'
\* over 24 h"): over any stretch of one Day, what left the window less what
\* flowed back and stayed is at most a full window plus the refill of that
\* Day, and what failed publishes of that Day could not take back any more,
\* since it had been spent (rate_limit.rs:54).  Every mutation must move
\* last_tx_at, or the same hours would refill twice.
ThroughputBounded ==
    \A from \in 0..clock :
        LET day == from..AtMost(clock, from + Day)
        IN  SumFunctionOnSet(net, day) <= 2 * Peak + SumFunctionOnSet(excess, day)

\* A failed publish is undone (on_published, outbound.rs:129-130): the window
\* is ahead of one that never saw the locks by no more than what open locks
\* gave it, so a failed lock leaves nothing behind, whatever was spent between;
\* and it is behind by no more than what the failed locks gave, and one unit
\* for each, what restarting the refill's division can lose to truncation
\* (backflow's comment, rate_limit.rs:45-46: a debit "takes back no more").
FailedPublishUndone ==
    /\ Capacity(window, clock) <= Capacity(shadow, clock) + Lent("locked")
    /\ Capacity(shadow, clock) <= Capacity(window, clock)
                                      + Lent("failed") + Cardinality(InPhase("failed"))

=============================================================================
