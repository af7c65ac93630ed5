----------------------------- MODULE Governance -----------------------------
(***************************************************************************)
(* Cross-chain governance as a whole: OpenGov publishing through its       *)
(* dispatchers, anyone carrying VAAs to the executor, the Technical        *)
(* Committee's Safes, and time.                                            *)
(***************************************************************************)
EXTENDS GovernanceDispatcher, GovernanceExecutor

Lanes == {"governance", "committee"}
ActionIds == [lane : Lanes, emitter : Dispatchers \cup {Self}, nonce : Nat,
              content : Contents]
Kinds == {"call", "setVetoer", "setSourceDispatcher", "setTiming", "cancel", "upgrade"}

ASSUME TimingAssumption ==
    /\ {MinVetoPeriod, MinGracePeriod, MaxGracePeriod, TechnicalCommitteeDelay,
        CancelMargin, MaxTimestamp, MaxTime, MaxCommittee, MaxBalance} \subseteq Nat
    /\ CancelMargin > 0 /\ MaxVetoPeriod >= MinVetoPeriod
    /\ FirstVetoPeriod \in MinVetoPeriod..MaxVetoPeriod
    /\ FirstGracePeriod \in MinGracePeriod..MaxGracePeriod

ASSUME ContentAssumption ==
    /\ FirstDispatcher \in Dispatchers /\ FirstSafe \in Safes
    /\ Here \in Destinations
    /\ Self \notin Emitters
    /\ \A c \in Contents :
           /\ DOMAIN CallsOf[c] = 1..Len(CallsOf[c]) /\ Len(CallsOf[c]) \in Nat
           /\ ValueOf(c) \in Nat
           /\ (\A i \in DOMAIN CallsOf[c] : CallsOf[c][i].value = 0) => ValueOf(c) = 0
    /\ \A c \in Contents : \A i \in DOMAIN CallsOf[c] :
           LET call == CallsOf[c][i] IN
           /\ call.kind \in Kinds
           /\ call.kind = "setVetoer" => call.to \in Safes
           /\ call.kind = "setSourceDispatcher" => call.to \in Dispatchers
           /\ call.kind = "setTiming" => call.veto \in Nat /\ call.grace \in Nat
           /\ call.kind = "cancel" => call.nonce \in Nat /\ call.content \in Contents

vars == <<dispatcherVars, executorVars>>

Init == DispatcherInit /\ ExecutorInit

-----------------------------------------------------------------------------
Publishers ==
    /\ \/ \E d \in Dispatchers, e \in Destinations, c \in Contents :
              PublishAction(d, e, c)
       \/ \E c \in Contents :
              StrangerPublishes([destination |-> Here, nonce |-> 1, content |-> c])
       \/ \E m \in published : Republish(m)
    /\ UNCHANGED executorVars

Transactions ==
    /\ \/ \E m \in published : Queue(m)
       \/ \E s \in Callers, c \in Contents : QueueTechnicalCommitteeAction(s, c)
       \/ \E s \in Callers, id \in Ids : Veto(s, id)
       \/ \E s \in Callers, id \in Ids : Execute(s, id)
       \/ Receive(1)
    /\ UNCHANGED dispatcherVars

Time == Tick /\ UNCHANGED dispatcherVars

Next == Publishers \/ Transactions \/ Time

Spec == Init /\ [][Next]_vars

\* c is a governance action whose sole call, of no value, cancels id.
Cancellation(c, id) ==
    /\ c.lane = "governance" /\ Len(CallsOf[c.content]) = 1
    /\ CallsOf[c.content][1].value = 0 /\ Cancels(c.content) = {id}

\* A cancellation anyone could execute now.
CancellationWaits ==
    \E c, id \in Ids :
        /\ Cancellation(c, id)
        /\ Status(c) = "pending" /\ Due(Anyone, c)
        /\ Covered(c.content) /\ BatchSucceeds(c)

\* Somebody executes a ready cancellation before the next instant: execution
\* is permissionless, so one diligent account is enough.
KeeperNext == Publishers \/ Transactions \/ (~CancellationWaits /\ Time)

KeeperSpec == Init /\ [][KeeperNext]_vars

-----------------------------------------------------------------------------
(* Properties; the numbers are those of docs/governance/spec.md, "Security   *)
(* invariants".                                                              *)

ActionRecord == [queuedAt : Nat, executableAt : Nat, expiresAt : Nat,
                 status : {"pending", "vetoed", "executed"}]

DispatcherTypes ==
    /\ nextGovernanceNonce \in [Dispatchers -> Nat \ {0}]
    /\ published \subseteq Message
    /\ sequence \in Nat

\* The timing an executed setTiming leaves is within the bounds (13).
ExecutorTypes ==
    /\ sourceDispatcher \in Dispatchers /\ vetoer \in Safes
    /\ ValidTiming(vetoPeriod, executionGracePeriod)
    /\ vetoPeriod \in Nat /\ executionGracePeriod \in Nat
    /\ consumedVaas \subseteq published
    /\ Ids \subseteq ActionIds /\ actions \in [Ids -> ActionRecord]
    /\ governanceVetoProtected \subseteq Ids
    /\ technicalCommitteeNonce \in Nat
    /\ balance \in Nat /\ implementation \in Nat /\ now \in Nat
    /\ DOMAIN executedBy \subseteq {id \in Ids : Status(id) = "executed"}
    /\ executedBy \in [DOMAIN executedBy ->
                           [caller : Callers, safe : Safes, at : Nat]]

\* Type invariant: with it, no batch spends more than the executor holds, and
\* the timing stays within its floors and ceilings.
TypeOK == DispatcherTypes /\ ExecutorTypes

\* (1, 2) Every governance action is one OpenGov published, through a
\* dispatcher, under a nonce it has used: no stranger's message, whatever the
\* rotation of dispatchers, and never another action under the same nonce.
OnlyPublishedActions ==
    \A id \in Ids : id.lane = "governance" =>
        /\ id.emitter \in Dispatchers /\ id.nonce < nextGovernanceNonce[id.emitter]
        /\ \A other \in Ids : /\ other.lane = "governance"
                              /\ other.emitter = id.emitter /\ other.nonce = id.nonce
                              => other = id

Unvetoed ==
    \A c \in Ids : (\E id \in Cancels(c.content) : Cancellation(c, id)) => Status(c) # "vetoed"
ReadyFirst ==
    \A c, id \in Ids :
        /\ Cancellation(c, id)
        /\ actions[c].queuedAt < actions[id].queuedAt + CancelMargin
        => actions[c].executableAt < actions[id].executableAt
\* (6) The committee never vetoes the cancellation of its own action, and, as
\* MAX_VETO_PERIOD's comment has it (GovernanceExecutor.sol:24-26), one queued
\* within the margin of the action is ready before that action matures,
\* whatever setTiming does before, between and after.
CancellationsStand == Unvetoed /\ ReadyFirst

\* With one diligent keeper, a committee action whose cancellation was queued
\* in its first days never executes, whatever the committee vetoes, executes
\* early or queues.
CancelledInTimeNeverExecutes ==
    \A c, id \in Ids :
        /\ Cancellation(c, id)
        /\ actions[c].queuedAt >= actions[id].queuedAt
        /\ actions[c].queuedAt < actions[id].queuedAt + CancelMargin
        => Status(id) # "executed"

\* (4, 5) No action executed before its lane's delay, counted from when it was
\* queued, or after its deadline, whatever the timing became meanwhile; only
\* a governance action in the hands of the Safe of that moment is exempt.
ReviewedBeforeExecution ==
    \A id \in DOMAIN executedBy :
        LET run == executedBy[id]  record == actions[id] IN
        /\ run.at <= record.expiresAt
        /\ \/ id.lane = "committee" /\ run.at >= record.queuedAt + TechnicalCommitteeDelay
           \/ id.lane = "governance" /\ run.at >= record.queuedAt + MinVetoPeriod
           \/ id.lane = "governance" /\ run.caller = run.safe

\* (7) Vetoed, expired and executed are final: nothing such an action is ever
\* changes, though its VAA and other envelopes of it can be presented again.
Final(id) == \/ Status(id) \in {"vetoed", "executed"}
             \/ Status(id) = "pending" /\ now > actions[id].expiresAt

FinalStays == [][\A id \in Ids : Final(id) => actions'[id] = actions[id]]_vars
=============================================================================
