------------------------- MODULE GovernanceExecutor -------------------------
(***************************************************************************)
(* The destination end of cross-chain governance, one executor.  Two lanes *)
(* lead to the same atomic batch of calls:                                 *)
(*   governance  queue(vaa), reviewed for vetoPeriod; the Technical        *)
(*               Committee may veto it or execute it early                 *)
(*   committee   queueTechnicalCommitteeAction, TECHNICAL_COMMITTEE_DELAY; *)
(*               only an executed action (onlySelf) may cancel it          *)
(* Every entry point is nonReentrant and an EVM transaction is atomic, so  *)
(* one call is one step, and a call that reverts is no step.               *)
(***************************************************************************)
EXTENDS Integers, FiniteSetsExt, Sequences

CONSTANTS
    Here,               \* this executor, as messages name it
    Safes,              \* Technical Committee Safes, now or later
    Anyone,             \* any other caller
    FirstDispatcher, FirstSafe, FirstVetoPeriod, FirstGracePeriod,
    CallsOf,            \* content -> its calls
    MinVetoPeriod, MinGracePeriod, MaxGracePeriod,
    TechnicalCommitteeDelay,
    CancelMargin,       \* MAX_VETO_PERIOD = TECHNICAL_COMMITTEE_DELAY - this
    MaxTimestamp,       \* type(uint48).max
    MaxTime, MaxCommittee, MaxBalance   \* bounds

MaxVetoPeriod == TechnicalCommitteeDelay - CancelMargin

VARIABLES
    sourceDispatcher, vetoer, vetoPeriod, executionGracePeriod,
    consumedVaas,
    actions,                  \* action id -> its record
    governanceVetoProtected,  \* ids
    technicalCommitteeNonce,
    balance, implementation,  \* native balance; upgrades so far
    now,
    executedBy                \* history: who executed an action, as what, when

config == <<sourceDispatcher, vetoer, vetoPeriod, executionGracePeriod,
            implementation>>
executorVars == <<config, consumedVaas, actions, governanceVetoProtected,
                  technicalCommitteeNonce, balance, now, executedBy>>

Callers == Safes \cup {Anyone}
Self == "self"

\* An action id hashes the lane, the source, the nonce and the calls.
GovernanceId(emitter, payload) ==
    [lane |-> "governance", emitter |-> emitter, nonce |-> payload.nonce,
     content |-> payload.content]
CommitteeId(nonce, content) ==
    [lane |-> "committee", emitter |-> Self, nonce |-> nonce, content |-> content]

Ids == DOMAIN actions
Status(id) == IF id \in Ids THEN actions[id].status ELSE "unknown"

Record(queued, ready, expires, status) ==
    [queuedAt |-> queued, executableAt |-> ready, expiresAt |-> expires,
     status |-> status]
WithStatus(r, status) == Record(r.queuedAt, r.executableAt, r.expiresAt, status)

CallsTo(content, kind) ==
    {i \in DOMAIN CallsOf[content] : CallsOf[content][i].kind = kind}

\* The last of several calls to a setter decides.
LastCallTo(content, kind) ==
    {CallsOf[content][i] : i \in {j \in CallsTo(content, kind) :
                                      \A k \in CallsTo(content, kind) : k <= j}}

ValueOf(content) ==
    MapThenSumSet(LAMBDA i : CallsOf[content][i].value, DOMAIN CallsOf[content])

Cancels(content) ==
    {CommitteeId(CallsOf[content][i].nonce, CallsOf[content][i].content) :
         i \in CallsTo(content, "cancel")}

\* Mutant: the review may be as long as the committee's own delay.
ValidTimingNoCeiling(veto, grace) ==
    /\ veto >= MinVetoPeriod
    /\ MinGracePeriod <= grace /\ grace <= MaxGracePeriod

ValidTiming(veto, grace) ==
    /\ MinVetoPeriod <= veto /\ veto <= MaxVetoPeriod
    /\ MinGracePeriod <= grace /\ grace <= MaxGracePeriod

-----------------------------------------------------------------------------
ExecutorInit ==
    /\ sourceDispatcher = FirstDispatcher /\ vetoer = FirstSafe
    /\ vetoPeriod = FirstVetoPeriod /\ executionGracePeriod = FirstGracePeriod
    /\ consumedVaas = {}
    /\ actions = <<>> /\ governanceVetoProtected = {}
    /\ technicalCommitteeNonce = 0
    /\ balance = 0 /\ implementation = 0
    /\ now = 0 /\ executedBy = <<>>

\* A new pending record, ready after `delay' and expiring a grace period on.
Enqueue(id, delay) ==
    LET ready == now + delay
        record == Record(now, ready, ready + executionGracePeriod, "pending")
    IN  /\ ready + executionGracePeriod <= MaxTimestamp
        /\ actions' = [i \in Ids \cup {id} |-> IF i = id THEN record ELSE actions[i]]

\* Mutant: a cancellation is not recognised.
NeverProtected(content) == FALSE

IsTechnicalCommitteeVeto(content) ==
    /\ Len(CallsOf[content]) = 1
    /\ CallsOf[content][1].kind = "cancel" /\ CallsOf[content][1].value = 0

\* Mutants: queue without its check of the action id, or of the emitter.
AcceptsVaaTwice(m) ==
    /\ m.emitter = sourceDispatcher /\ m \notin consumedVaas
    /\ m.payload.destination = Here
AcceptsAnyEmitter(m) ==
    /\ m \notin consumedVaas /\ m.payload.destination = Here
    /\ Status(GovernanceId(m.emitter, m.payload)) = "unknown"

AcceptsVaa(m) ==
    /\ m.emitter = sourceDispatcher
    /\ m \notin consumedVaas
    /\ m.payload.destination = Here
    /\ Status(GovernanceId(m.emitter, m.payload)) = "unknown"

\* queue: permissionless; the review clock starts here.
Queue(m) ==
    /\ AcceptsVaa(m)
    /\ Enqueue(GovernanceId(m.emitter, m.payload), vetoPeriod)
    /\ consumedVaas' = consumedVaas \cup {m}
    /\ governanceVetoProtected' =
           governanceVetoProtected \cup
           {id \in {GovernanceId(m.emitter, m.payload)} :
                IsTechnicalCommitteeVeto(id.content)}
    /\ UNCHANGED <<config, technicalCommitteeNonce, balance, now, executedBy>>

QueueTechnicalCommitteeAction(caller, content) ==
    /\ technicalCommitteeNonce < MaxCommittee
    /\ caller = vetoer
    /\ Enqueue(CommitteeId(technicalCommitteeNonce + 1, content),
               TechnicalCommitteeDelay)
    /\ technicalCommitteeNonce' = technicalCommitteeNonce + 1
    /\ UNCHANGED <<config, consumedVaas, governanceVetoProtected, balance, now,
                   executedBy>>

Vetoable(id) ==
    /\ id.lane = "governance"
    /\ id \notin governanceVetoProtected
    /\ Status(id) = "pending"
    /\ now <= actions[id].expiresAt

Veto(caller, id) ==
    /\ caller = vetoer
    /\ Vetoable(id)
    /\ actions' = [actions EXCEPT ![id] = WithStatus(actions[id], "vetoed")]
    /\ UNCHANGED <<config, consumedVaas, governanceVetoProtected,
                   technicalCommitteeNonce, balance, now, executedBy>>

\* Mutant: the committee fast-tracks its own lane too.
DueOwnFastTrack(caller, id) ==
    /\ now < actions[id].executableAt => caller = vetoer
    /\ now <= actions[id].expiresAt

\* executableAt <= now <= expiresAt, unless the committee fast-tracks.
Due(caller, id) ==
    /\ now < actions[id].executableAt => id.lane = "governance" /\ caller = vetoer
    /\ now <= actions[id].expiresAt

\* vetoTechnicalCommitteeAction, reached by an executed call only.
Cancellable(id) ==
    /\ Status(id) = "pending" /\ id.lane = "committee"
    /\ now <= actions[id].expiresAt

\* Mutant: the preflight of the native balance is dropped.
CoveredAlways(content) == TRUE

Covered(content) == ValueOf(content) <= balance

\* No call of the batch reverts.  Setters are not payable; an upgrade is a
\* zero-value call on its own; the same action is not cancelled twice, and
\* an action that is executing is no longer pending.
BatchSucceeds(id) ==
    LET calls == CallsOf[id.content] IN
    /\ \A i \in DOMAIN calls : calls[i].kind # "call" => calls[i].value = 0
    /\ CallsTo(id.content, "upgrade") # {} => Len(calls) = 1
    /\ \A i \in CallsTo(id.content, "setTiming") :
           ValidTiming(calls[i].veto, calls[i].grace)
    /\ \A c \in Cancels(id.content) : c # id /\ Cancellable(c)
    /\ Cardinality(Cancels(id.content)) = Cardinality(CallsTo(id.content, "cancel"))

\* What the calls to the executor itself leave of its configuration.
SelfAdministers(content) ==
    /\ IF CallsTo(content, "setVetoer") = {} THEN UNCHANGED vetoer
       ELSE \E call \in LastCallTo(content, "setVetoer") : vetoer' = call.to
    /\ IF CallsTo(content, "setSourceDispatcher") = {} THEN UNCHANGED sourceDispatcher
       ELSE \E call \in LastCallTo(content, "setSourceDispatcher") :
                sourceDispatcher' = call.to
    /\ IF CallsTo(content, "setTiming") = {}
       THEN UNCHANGED <<vetoPeriod, executionGracePeriod>>
       ELSE \E call \in LastCallTo(content, "setTiming") :
                vetoPeriod' = call.veto /\ executionGracePeriod' = call.grace
    /\ implementation' = implementation
                         + (IF CallsTo(content, "upgrade") = {} THEN 0 ELSE 1)

\* execute: permissionless once due; all calls or none.
Execute(caller, id) ==
    /\ Status(id) = "pending"
    /\ Due(caller, id)
    /\ Covered(id.content)
    /\ BatchSucceeds(id)
    /\ actions' = [i \in Ids |->
                       IF i = id THEN WithStatus(actions[i], "executed")
                       ELSE IF i \in Cancels(id.content)
                            THEN WithStatus(actions[i], "vetoed")
                       ELSE actions[i]]
    /\ SelfAdministers(id.content)
    /\ balance' = balance - ValueOf(id.content)
    /\ executedBy' = [i \in DOMAIN executedBy \cup {id} |->
                          IF i = id THEN [caller |-> caller, safe |-> vetoer, at |-> now]
                                    ELSE executedBy[i]]
    /\ UNCHANGED <<consumedVaas, governanceVetoProtected, technicalCommitteeNonce,
                   now>>

\* receive: anyone may fund the executor.
Receive(value) ==
    /\ balance + value <= MaxBalance
    /\ balance' = balance + value
    /\ UNCHANGED <<config, consumedVaas, actions, governanceVetoProtected,
                   technicalCommitteeNonce, now, executedBy>>

Tick ==
    /\ now < MaxTime
    /\ now' = now + 1
    /\ UNCHANGED <<config, consumedVaas, actions, governanceVetoProtected,
                   technicalCommitteeNonce, balance, executedBy>>
=============================================================================
