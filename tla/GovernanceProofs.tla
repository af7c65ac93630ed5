-------------------------- MODULE GovernanceProofs --------------------------
(***************************************************************************)
(* Theorems about Governance, for every set of dispatchers, Safes and      *)
(* contents, every timing and every bound.  The inductive invariant adds   *)
(* to TypeOK where action ids come from and how their records were timed.  *)
(***************************************************************************)
EXTENDS Governance, FiniteSetTheorems, TLAPS

\* A nonce of a dispatcher is used once, for one payload.
NoncesUsedOnce ==
    \A m \in published : m.emitter \in Dispatchers =>
        /\ m.payload.nonce < nextGovernanceNonce[m.emitter]
        /\ \A n \in published :
               n.emitter = m.emitter /\ n.payload.nonce = m.payload.nonce
               => n.payload = m.payload

\* A governance action was published; a committee action took its turn.
Origin ==
    \A id \in Ids :
        /\ id.lane = "governance" =>
               \E m \in published : /\ m.emitter \in Dispatchers
                                    /\ id = GovernanceId(m.emitter, m.payload)
        /\ id.lane = "committee" => id.emitter = Self /\ id.nonce <= technicalCommitteeNonce

\* The window of a record was fixed, within the bounds, when it was queued.
Timed ==
    \A id \in Ids :
        LET r == actions[id] IN
        /\ r.executableAt <= r.expiresAt
        /\ id.lane = "committee" => r.executableAt = r.queuedAt + TechnicalCommitteeDelay
        /\ id.lane = "governance" => /\ r.executableAt >= r.queuedAt + MinVetoPeriod
                                     /\ r.executableAt <= r.queuedAt + MaxVetoPeriod

\* Every governance action that cancels is protected from the committee.
Protected ==
    \A id \in Ids : id.lane = "governance" /\ IsTechnicalCommitteeVeto(id.content)
                    => id \in governanceVetoProtected /\ Status(id) # "vetoed"

IInv == TypeOK /\ NoncesUsedOnce /\ Origin /\ Timed /\ Protected /\ ReviewedBeforeExecution

-----------------------------------------------------------------------------
(* The records of the model.                                                *)

\* Record and WithStatus keep every field but the one they are given.
LEMMA RecordFields ==
    ASSUME NEW q, NEW r, NEW e, NEW s, NEW t
    PROVE /\ Record(q, r, e, s).queuedAt = q /\ Record(q, r, e, s).executableAt = r
          /\ Record(q, r, e, s).expiresAt = e /\ Record(q, r, e, s).status = s
          /\ WithStatus(Record(q, r, e, s), t) = Record(q, r, e, t)
BY DEF Record, WithStatus

\* A status change keeps a record well typed and its times.
LEMMA WithStatusType ==
    ASSUME NEW r \in ActionRecord, NEW s \in {"pending", "vetoed", "executed"}
    PROVE /\ WithStatus(r, s) \in ActionRecord
          /\ WithStatus(r, s).queuedAt = r.queuedAt
          /\ WithStatus(r, s).executableAt = r.executableAt
          /\ WithStatus(r, s).expiresAt = r.expiresAt
          /\ WithStatus(r, s).status = s
BY DEF ActionRecord, WithStatus, Record

\* The two lanes' ids never collide, whatever they carry.
LEMMA IdTypes ==
    /\ \A n \in Nat, c \in Contents :
           /\ CommitteeId(n, c) \in ActionIds /\ CommitteeId(n, c).lane = "committee"
           /\ CommitteeId(n, c).emitter = Self /\ CommitteeId(n, c).nonce = n
           /\ CommitteeId(n, c).content = c
    /\ \A d \in Dispatchers, p \in Payload :
           /\ GovernanceId(d, p) \in ActionIds /\ GovernanceId(d, p).lane = "governance"
           /\ GovernanceId(d, p).emitter = d /\ GovernanceId(d, p).nonce = p.nonce
           /\ GovernanceId(d, p).content = p.content
BY DEF CommitteeId, GovernanceId, ActionIds, Lanes, Payload

\* What a batch cancels belongs to the committee's lane.
LEMMA CancelsCommittee ==
    ASSUME NEW c \in Contents, NEW id \in Cancels(c)
    PROVE id \in ActionIds /\ id.lane = "committee"
BY IdTypes, ContentAssumption DEF Cancels, CallsTo

\* The timing an executed batch leaves has passed the bounds.
LEMMA SelfAdministration ==
    ASSUME TypeOK, NEW id \in Ids, BatchSucceeds(id), SelfAdministers(id.content)
    PROVE /\ sourceDispatcher' \in Dispatchers /\ vetoer' \in Safes
          /\ ValidTiming(vetoPeriod', executionGracePeriod')
          /\ vetoPeriod' \in Nat /\ executionGracePeriod' \in Nat
          /\ implementation' \in Nat
<1> DEFINE c == id.content
<1>1. c \in Contents
  BY DEF TypeOK, ExecutorTypes, ActionIds
<1>2. vetoer' \in Safes
  <2>1. CASE CallsTo(c, "setVetoer") = {}
    BY <2>1 DEF SelfAdministers, TypeOK, ExecutorTypes
  <2>2. CASE CallsTo(c, "setVetoer") # {}
    <3>1. PICK i \in CallsTo(c, "setVetoer") : vetoer' = CallsOf[c][i].to
      BY <2>2 DEF SelfAdministers, LastCallTo
    <3> QED BY <1>1, <3>1, ContentAssumption DEF CallsTo
  <2> QED BY <2>1, <2>2
<1>3. sourceDispatcher' \in Dispatchers
  <2>1. CASE CallsTo(c, "setSourceDispatcher") = {}
    BY <2>1 DEF SelfAdministers, TypeOK, ExecutorTypes
  <2>2. CASE CallsTo(c, "setSourceDispatcher") # {}
    <3>1. PICK i \in CallsTo(c, "setSourceDispatcher") :
              sourceDispatcher' = CallsOf[c][i].to
      BY <2>2 DEF SelfAdministers, LastCallTo
    <3> QED BY <1>1, <3>1, ContentAssumption DEF CallsTo
  <2> QED BY <2>1, <2>2
<1>4. /\ ValidTiming(vetoPeriod', executionGracePeriod')
      /\ vetoPeriod' \in Nat /\ executionGracePeriod' \in Nat
  <2>1. CASE CallsTo(c, "setTiming") = {}
    BY <2>1 DEF SelfAdministers, TypeOK, ExecutorTypes
  <2>2. CASE CallsTo(c, "setTiming") # {}
    <3>1. PICK i \in CallsTo(c, "setTiming") :
              /\ vetoPeriod' = CallsOf[c][i].veto
              /\ executionGracePeriod' = CallsOf[c][i].grace
      BY <2>2 DEF SelfAdministers, LastCallTo
    <3>2. ValidTiming(CallsOf[c][i].veto, CallsOf[c][i].grace)
      BY DEF BatchSucceeds
    <3>3. CallsOf[c][i].veto \in Nat /\ CallsOf[c][i].grace \in Nat
      BY <1>1, ContentAssumption DEF CallsTo
    <3> QED BY <3>1, <3>2, <3>3
  <2> QED BY <2>1, <2>2
<1>5. implementation' \in Nat
  BY DEF SelfAdministers, TypeOK, ExecutorTypes
<1> QED BY <1>2, <1>3, <1>4, <1>5

-----------------------------------------------------------------------------
(* The invariant holds at the start and is kept by every action.            *)

LEMMA InitIInv == Init => IInv
<1> SUFFICES ASSUME Init PROVE IInv
  OBVIOUS
<1> USE DEF Init, DispatcherInit, ExecutorInit
<1>1. Ids = {} /\ actions \in [Ids -> ActionRecord]
  BY DEF Ids
<1>2. ValidTiming(vetoPeriod, executionGracePeriod)
      /\ vetoPeriod \in Nat /\ executionGracePeriod \in Nat
  BY TimingAssumption DEF ValidTiming, MaxVetoPeriod
<1>3. TypeOK
  BY <1>1, <1>2, ContentAssumption DEF TypeOK, DispatcherTypes, ExecutorTypes
<1> QED BY <1>1, <1>3 DEF IInv, NoncesUsedOnce, Origin, Timed, Protected,
                          ReviewedBeforeExecution

\* Nothing a publisher does is seen by the executor before it is queued.
LEMMA PublishersKeep ==
    ASSUME IInv, Publishers
    PROVE IInv'
<1>1. /\ UNCHANGED executorVars /\ published \subseteq published'
      /\ published' \subseteq Message /\ sequence' \in Nat
      /\ nextGovernanceNonce' \in [Dispatchers -> Nat \ {0}]
      /\ \A d \in Dispatchers : nextGovernanceNonce[d] <= nextGovernanceNonce'[d]
      /\ NoncesUsedOnce'
  <2> USE DEF IInv, TypeOK, DispatcherTypes, PublishMessage
  <2>1. CASE \E d \in Dispatchers, e \in Destinations, c \in Contents :
                 PublishAction(d, e, c)
    <3>1. PICK d \in Dispatchers, e \in Destinations, c \in Contents :
                   PublishAction(d, e, c)
      BY <2>1
    <3> DEFINE p == [destination |-> e, nonce |-> nextGovernanceNonce[d], content |-> c]
               m == [emitter |-> d, sequence |-> sequence, payload |-> p]
    <3>2. p \in Payload /\ m \in Message
      BY DEF Payload, Message, Emitters
    <3>3. published' = published \cup {m}
          /\ nextGovernanceNonce' = [nextGovernanceNonce EXCEPT ![d] = @ + 1]
      BY <3>1 DEF PublishAction
    <3>4. /\ nextGovernanceNonce' \in [Dispatchers -> Nat \ {0}]
          /\ nextGovernanceNonce'[d] = nextGovernanceNonce[d] + 1
          /\ \A k \in Dispatchers \ {d} : nextGovernanceNonce'[k] = nextGovernanceNonce[k]
      BY <3>3
    <3>5. \A n \in published : n.payload.nonce \in Nat
      BY DEF Message, Payload
    <3>6. NoncesUsedOnce'
      BY <3>2, <3>3, <3>4, <3>5 DEF NoncesUsedOnce, Payload
    <3> QED BY <3>1, <3>2, <3>3, <3>4, <3>6 DEF Publishers, PublishAction
  <2>2. CASE \E c \in Contents :
                 StrangerPublishes([destination |-> Here, nonce |-> 1, content |-> c])
    <3>1. PICK c \in Contents :
              StrangerPublishes([destination |-> Here, nonce |-> 1, content |-> c])
      BY <2>2
    <3> DEFINE p == [destination |-> Here, nonce |-> 1, content |-> c]
               m == [emitter |-> Stranger, sequence |-> sequence, payload |-> p]
    <3>2. m \in Message /\ published' = published \cup {m}
          /\ nextGovernanceNonce' = nextGovernanceNonce
      BY <3>1, ContentAssumption DEF StrangerPublishes, Message, Payload, Emitters
    <3>3. NoncesUsedOnce'
      BY <3>2, DispatcherAssumption DEF NoncesUsedOnce
    <3> QED BY <3>1, <3>2, <3>3 DEF Publishers, StrangerPublishes
  <2>3. CASE \E m \in published : Republish(m)
    <3>1. PICK n \in published : Republish(n)
      BY <2>3
    <3> DEFINE m == [emitter |-> n.emitter, sequence |-> sequence, payload |-> n.payload]
    <3>2. m \in Message /\ published' = published \cup {m}
          /\ nextGovernanceNonce' = nextGovernanceNonce
      BY <3>1 DEF Republish, Message
    <3>3. NoncesUsedOnce'
      BY <3>2 DEF NoncesUsedOnce
    <3> QED BY <3>1, <3>2, <3>3 DEF Publishers, Republish
  <2> QED BY <2>1, <2>2, <2>3 DEF Publishers
<1>2. TypeOK'
  BY <1>1 DEF executorVars, config, IInv, TypeOK, DispatcherTypes, ExecutorTypes,
              Ids, Status
<1>3. Origin'
  BY <1>1 DEF executorVars, IInv, Origin, Ids
<1>4. Timed' /\ Protected' /\ ReviewedBeforeExecution'
  BY <1>1 DEF executorVars, config, IInv, Timed, Protected, ReviewedBeforeExecution,
              Ids, Status
<1> QED BY <1>1, <1>2, <1>3, <1>4 DEF IInv

\* A new pending record, ready after `delay': what Enqueue does to the rest.
LEMMA Enqueued ==
    ASSUME IInv, NEW id \in ActionIds, id \notin Ids, NEW delay \in Nat, Enqueue(id, delay)
    PROVE /\ Ids' = Ids \cup {id} /\ actions' \in [Ids' -> ActionRecord]
          /\ \A i \in Ids : actions'[i] = actions[i] /\ Status(i)' = Status(i)
          /\ actions'[id].queuedAt = now /\ actions'[id].executableAt = now + delay
          /\ actions'[id].expiresAt >= now + delay
          /\ Status(id)' = "pending"
<1> DEFINE ready == now + delay
           record == Record(now, ready, ready + executionGracePeriod, "pending")
<1>1. now \in Nat /\ executionGracePeriod \in Nat /\ actions \in [Ids -> ActionRecord]
  BY DEF IInv, TypeOK, ExecutorTypes
<1>2. record \in ActionRecord
  BY <1>1 DEF ActionRecord, Record
<1>3. actions' = [i \in Ids \cup {id} |-> IF i = id THEN record ELSE actions[i]]
  BY DEF Enqueue
<1>4. /\ Ids' = Ids \cup {id} /\ actions'[id] = record
      /\ \A i \in Ids : actions'[i] = actions[i]
  BY <1>3 DEF Ids
<1>5. actions' \in [Ids' -> ActionRecord]
  BY <1>1, <1>2, <1>3, <1>4
<1>6. /\ record.queuedAt = now /\ record.executableAt = now + delay
      /\ record.expiresAt = now + delay + executionGracePeriod
      /\ record.status = "pending"
  BY RecordFields
<1>7. record.expiresAt >= now + delay
  BY <1>1, <1>6
<1> QED BY <1>4, <1>5, <1>6, <1>7 DEF Status

LEMMA QueueKeeps ==
    ASSUME IInv, NEW m \in published, Queue(m), UNCHANGED dispatcherVars
    PROVE IInv'
<1> DEFINE id == GovernanceId(m.emitter, m.payload)
<1>1. /\ m \in Message /\ m.payload \in Payload /\ m.emitter \in Dispatchers
      /\ vetoPeriod \in Nat /\ vetoPeriod >= MinVetoPeriod /\ vetoPeriod <= MaxVetoPeriod
      /\ now \in Nat
  BY DEF IInv, TypeOK, DispatcherTypes, ExecutorTypes, Message, Queue, AcceptsVaa, ValidTiming
<1>2. id \in ActionIds /\ id.lane = "governance" /\ id.content = m.payload.content
  BY <1>1, IdTypes
<1>3. id \notin Ids
  BY DEF Queue, AcceptsVaa, Status, IInv, TypeOK, ExecutorTypes, ActionRecord
<1>4. /\ Ids' = Ids \cup {id} /\ actions' \in [Ids' -> ActionRecord]
      /\ \A i \in Ids : actions'[i] = actions[i] /\ Status(i)' = Status(i)
      /\ actions'[id].queuedAt = now /\ actions'[id].executableAt = now + vetoPeriod
      /\ actions'[id].expiresAt >= now + vetoPeriod
      /\ Status(id)' = "pending"
  BY <1>1, <1>2, <1>3, Enqueued DEF Queue
<1>5. /\ consumedVaas' = consumedVaas \cup {m}
      /\ governanceVetoProtected \subseteq governanceVetoProtected'
      /\ governanceVetoProtected' \subseteq governanceVetoProtected \cup {id}
      /\ IsTechnicalCommitteeVeto(id.content) => id \in governanceVetoProtected'
      /\ UNCHANGED <<sourceDispatcher, vetoer, vetoPeriod, executionGracePeriod,
                     implementation, technicalCommitteeNonce, balance, now, executedBy>>
  BY DEF Queue, config
<1>6. UNCHANGED <<nextGovernanceNonce, published, sequence>>
  BY DEF dispatcherVars
<1>7. TypeOK'
  BY <1>2, <1>4, <1>5, <1>6
     DEF IInv, TypeOK, DispatcherTypes, ExecutorTypes, ValidTiming
<1>8. NoncesUsedOnce' /\ Origin'
  BY <1>1, <1>2, <1>4, <1>5, <1>6 DEF IInv, NoncesUsedOnce, Origin
<1>9. Timed'
  <2>1. MinVetoPeriod \in Nat /\ MaxVetoPeriod \in Int
    BY TimingAssumption DEF MaxVetoPeriod
  <2>2. /\ now + vetoPeriod >= now + MinVetoPeriod
        /\ now + vetoPeriod <= now + MaxVetoPeriod
    BY <1>1, <2>1
  <2>3. actions'[id].executableAt <= actions'[id].expiresAt
    BY <1>4
  <2> QED BY <1>2, <1>4, <2>2, <2>3 DEF IInv, Timed
<1>10. Protected'
  BY <1>4, <1>5 DEF IInv, Protected
<1>11. ReviewedBeforeExecution'
  BY <1>4, <1>5 DEF IInv, TypeOK, ExecutorTypes, ReviewedBeforeExecution
<1> QED BY <1>7, <1>8, <1>9, <1>10, <1>11 DEF IInv

LEMMA CommitteeKeeps ==
    ASSUME IInv, NEW s \in Callers, NEW c \in Contents,
           QueueTechnicalCommitteeAction(s, c), UNCHANGED dispatcherVars
    PROVE IInv'
<1>0. PICK n \in Nat : n = technicalCommitteeNonce + 1
  BY DEF IInv, TypeOK, ExecutorTypes
<1> DEFINE id == CommitteeId(n, c)
<1>1. n = technicalCommitteeNonce + 1 /\ technicalCommitteeNonce \in Nat /\ n \in Nat /\ now \in Nat
      /\ TechnicalCommitteeDelay \in Nat
  BY <1>0, TimingAssumption DEF IInv, TypeOK, ExecutorTypes
<1>2. id \in ActionIds /\ id.lane = "committee" /\ id.emitter = Self /\ id.nonce = n
  BY <1>1, IdTypes
<1>3. id \notin Ids
  BY <1>1, <1>2 DEF IInv, Origin
<1>4. /\ Ids' = Ids \cup {id} /\ actions' \in [Ids' -> ActionRecord]
      /\ \A i \in Ids : actions'[i] = actions[i] /\ Status(i)' = Status(i)
      /\ actions'[id].queuedAt = now
      /\ actions'[id].executableAt = now + TechnicalCommitteeDelay
      /\ actions'[id].expiresAt >= now + TechnicalCommitteeDelay
      /\ Status(id)' = "pending"
  <2>1. Enqueue(id, TechnicalCommitteeDelay)
    BY <1>0 DEF QueueTechnicalCommitteeAction
  <2> QED BY <1>1, <1>2, <1>3, <2>1, Enqueued
<1>5. /\ technicalCommitteeNonce' = n
      /\ UNCHANGED <<sourceDispatcher, vetoer, vetoPeriod, executionGracePeriod,
                     implementation, consumedVaas, governanceVetoProtected, balance,
                     now, executedBy>>
  BY <1>0 DEF QueueTechnicalCommitteeAction, config
<1>6. UNCHANGED <<nextGovernanceNonce, published, sequence>>
  BY DEF dispatcherVars
<1>7. TypeOK'
  BY <1>1, <1>2, <1>4, <1>5, <1>6
     DEF IInv, TypeOK, DispatcherTypes, ExecutorTypes, ValidTiming
<1>8. NoncesUsedOnce'
  BY <1>6 DEF IInv, NoncesUsedOnce
<1>9. Origin'
  <2>1. \A i \in Ids : i.lane = "committee" => i.nonce <= n
    BY <1>1 DEF IInv, Origin, TypeOK, ExecutorTypes, ActionIds
  <2> QED BY <1>1, <1>2, <1>4, <1>5, <1>6, <2>1 DEF IInv, Origin
<1>10. Timed'
  BY <1>1, <1>2, <1>4 DEF IInv, Timed
<1>11. Protected'
  BY <1>2, <1>4, <1>5 DEF IInv, Protected
<1>12. ReviewedBeforeExecution'
  BY <1>4, <1>5 DEF IInv, TypeOK, ExecutorTypes, ReviewedBeforeExecution
<1> QED BY <1>7, <1>8, <1>9, <1>10, <1>11, <1>12 DEF IInv

LEMMA VetoKeeps ==
    ASSUME IInv, NEW s \in Callers, NEW id \in Ids, Veto(s, id), UNCHANGED dispatcherVars
    PROVE IInv'
<1>1. /\ id \notin governanceVetoProtected /\ id.lane = "governance"
      /\ Status(id) = "pending" /\ actions \in [Ids -> ActionRecord]
  BY DEF Veto, Vetoable, IInv, TypeOK, ExecutorTypes
<1>2. actions' = [actions EXCEPT ![id] = WithStatus(actions[id], "vetoed")]
  BY DEF Veto
<1>3. /\ Ids' = Ids /\ actions' \in [Ids -> ActionRecord]
      /\ \A i \in Ids \ {id} : actions'[i] = actions[i] /\ Status(i)' = Status(i)
      /\ \A i \in Ids : /\ actions'[i].queuedAt = actions[i].queuedAt
                        /\ actions'[i].executableAt = actions[i].executableAt
                        /\ actions'[i].expiresAt = actions[i].expiresAt
  BY <1>1, <1>2, WithStatusType DEF Ids, Status
<1>4. UNCHANGED <<sourceDispatcher, vetoer, vetoPeriod, executionGracePeriod,
                  implementation, consumedVaas, governanceVetoProtected,
                  technicalCommitteeNonce, balance, now, executedBy,
                  nextGovernanceNonce, published, sequence>>
  BY DEF Veto, config, dispatcherVars
<1>5. id \notin DOMAIN executedBy
  BY <1>1 DEF IInv, TypeOK, ExecutorTypes
<1>6. TypeOK'
  BY <1>3, <1>4, <1>5 DEF IInv, TypeOK, DispatcherTypes, ExecutorTypes, ValidTiming
<1>7. NoncesUsedOnce' /\ Origin'
  BY <1>3, <1>4 DEF IInv, NoncesUsedOnce, Origin
<1>8. Timed' /\ ReviewedBeforeExecution'
  BY <1>3, <1>4 DEF IInv, TypeOK, ExecutorTypes, Timed, ReviewedBeforeExecution
<1>9. Protected'
  BY <1>1, <1>3, <1>4 DEF IInv, Protected
<1> QED BY <1>6, <1>7, <1>8, <1>9 DEF IInv

LEMMA ExecuteKeeps ==
    ASSUME IInv, NEW s \in Callers, NEW id \in Ids, Execute(s, id), UNCHANGED dispatcherVars
    PROVE IInv'
<1> DEFINE C == Cancels(id.content)
           run == [caller |-> s, safe |-> vetoer, at |-> now]
<1>1. /\ Status(id) = "pending" /\ actions \in [Ids -> ActionRecord]
      /\ id.content \in Contents /\ vetoer \in Safes /\ now \in Nat /\ balance \in Nat
  BY DEF Execute, IInv, TypeOK, ExecutorTypes, ActionIds
<1>2. \A c \in C : /\ c \in Ids /\ c # id /\ c.lane = "committee"
                   /\ Status(c) = "pending"
  BY <1>1, CancelsCommittee DEF Execute, BatchSucceeds, Cancellable, Status
<1>3. actions' = [i \in Ids |->
                     IF i = id THEN WithStatus(actions[i], "executed")
                     ELSE IF i \in C THEN WithStatus(actions[i], "vetoed")
                     ELSE actions[i]]
  BY DEF Execute
<1>4. /\ Ids' = Ids /\ actions' \in [Ids -> ActionRecord]
      /\ \A i \in Ids : i \notin C \cup {id} =>
             actions'[i] = actions[i] /\ Status(i)' = Status(i)
      /\ Status(id)' = "executed"
      /\ \A i \in Ids : /\ actions'[i].queuedAt = actions[i].queuedAt
                        /\ actions'[i].executableAt = actions[i].executableAt
                        /\ actions'[i].expiresAt = actions[i].expiresAt
  BY <1>1, <1>2, <1>3, WithStatusType DEF Ids, Status
<1>5. UNCHANGED <<consumedVaas, governanceVetoProtected, technicalCommitteeNonce, now,
                  nextGovernanceNonce, published, sequence>>
  BY DEF Execute, dispatcherVars
<1>6. /\ executedBy' = [i \in DOMAIN executedBy \cup {id} |->
                           IF i = id THEN run ELSE executedBy[i]]
      /\ id \notin DOMAIN executedBy
      /\ \A i \in DOMAIN executedBy : i \in Ids \ C /\ Status(i) = "executed"
  BY <1>1, <1>2 DEF Execute, IInv, TypeOK, ExecutorTypes
<1>7. /\ DOMAIN executedBy' = DOMAIN executedBy \cup {id}
      /\ executedBy' \in [DOMAIN executedBy' -> [caller : Callers, safe : Safes, at : Nat]]
      /\ executedBy'[id] = run
      /\ \A i \in DOMAIN executedBy : executedBy'[i] = executedBy[i]
  BY <1>1, <1>6 DEF IInv, TypeOK, ExecutorTypes
<1>8. /\ sourceDispatcher' \in Dispatchers /\ vetoer' \in Safes
      /\ ValidTiming(vetoPeriod', executionGracePeriod')
      /\ vetoPeriod' \in Nat /\ executionGracePeriod' \in Nat
      /\ implementation' \in Nat
  BY SelfAdministration DEF Execute, IInv
<1>9. balance' \in Nat
  BY <1>1, ContentAssumption DEF Execute, Covered
<1>10. TypeOK'
  BY <1>4, <1>5, <1>6, <1>7, <1>8, <1>9
     DEF IInv, TypeOK, DispatcherTypes, ExecutorTypes, ValidTiming
<1>11. NoncesUsedOnce' /\ Origin'
  BY <1>4, <1>5 DEF IInv, NoncesUsedOnce, Origin
<1>12. Timed'
  BY <1>4 DEF IInv, Timed
<1>13. Protected'
  BY <1>2, <1>4, <1>5 DEF IInv, Protected
<1>14. ReviewedBeforeExecution'
  <2>1. /\ now <= actions[id].expiresAt
        /\ \/ id.lane = "committee" /\ now >= actions[id].queuedAt + TechnicalCommitteeDelay
           \/ id.lane = "governance" /\ now >= actions[id].queuedAt + MinVetoPeriod
           \/ id.lane = "governance" /\ s = vetoer
    <3>1. actions[id] \in ActionRecord /\ id.lane \in Lanes
      BY <1>1 DEF IInv, TypeOK, ExecutorTypes, ActionIds
    <3>2. /\ id.lane = "committee" =>
                actions[id].executableAt = actions[id].queuedAt + TechnicalCommitteeDelay
          /\ id.lane = "governance" =>
                actions[id].executableAt >= actions[id].queuedAt + MinVetoPeriod
      BY DEF IInv, Timed
    <3>3. Due(s, id)
      BY DEF Execute
    <3>4. /\ actions[id].executableAt \in Nat /\ actions[id].queuedAt \in Nat
          /\ MinVetoPeriod \in Nat
      BY <3>1, TimingAssumption DEF ActionRecord
    <3> QED BY <1>1, <3>1, <3>2, <3>3, <3>4 DEF Due, Lanes
  <2> QED BY <1>4, <1>6, <1>7, <2>1 DEF IInv, ReviewedBeforeExecution
<1> QED BY <1>10, <1>11, <1>12, <1>13, <1>14 DEF IInv

\* Steps that touch neither records nor configuration.
LEMMA QuietKeeps ==
    ASSUME IInv, UNCHANGED dispatcherVars,
           \/ Receive(1)
           \/ Tick
           \/ UNCHANGED executorVars
    PROVE IInv'
<1>1. /\ UNCHANGED <<sourceDispatcher, vetoer, vetoPeriod, executionGracePeriod,
                     implementation, consumedVaas, actions, governanceVetoProtected,
                     technicalCommitteeNonce, executedBy,
                     nextGovernanceNonce, published, sequence>>
      /\ balance' \in Nat /\ now' \in Nat
  BY DEF Receive, Tick, executorVars, config, dispatcherVars, IInv, TypeOK, ExecutorTypes
<1>2. TypeOK'
  BY <1>1 DEF IInv, TypeOK, DispatcherTypes, ExecutorTypes, ValidTiming, Ids, Status
<1>3. NoncesUsedOnce' /\ Origin' /\ Timed' /\ Protected' /\ ReviewedBeforeExecution'
  BY <1>1 DEF IInv, NoncesUsedOnce, Origin, Timed, Protected, ReviewedBeforeExecution,
              Ids, Status
<1> QED BY <1>2, <1>3 DEF IInv

LEMMA NextKeeps == IInv /\ [Next]_vars => IInv'
<1> SUFFICES ASSUME IInv, [Next]_vars PROVE IInv'
  OBVIOUS
<1>1. CASE Publishers
  BY <1>1, PublishersKeep
<1>2. CASE Transactions
  <2> UNCHANGED dispatcherVars
    BY <1>2 DEF Transactions
  <2>1. CASE \E m \in published : Queue(m)
    BY <2>1, QueueKeeps
  <2>2. CASE \E s \in Callers, c \in Contents : QueueTechnicalCommitteeAction(s, c)
    BY <2>2, CommitteeKeeps
  <2>3. CASE \E s \in Callers, id \in Ids : Veto(s, id)
    BY <2>3, VetoKeeps
  <2>4. CASE \E s \in Callers, id \in Ids : Execute(s, id)
    BY <2>4, ExecuteKeeps
  <2>5. CASE Receive(1)
    BY <2>5, QuietKeeps
  <2> QED BY <1>2, <2>1, <2>2, <2>3, <2>4, <2>5 DEF Transactions
<1>3. CASE Time
  BY <1>3, QuietKeeps DEF Time
<1>4. CASE UNCHANGED vars
  BY <1>4, QuietKeeps DEF vars
<1> QED BY <1>1, <1>2, <1>3, <1>4 DEF Next

-----------------------------------------------------------------------------
(* The theorems.                                                            *)

LEMMA Inductive == Spec => []IInv
<1>1. Init => IInv
  BY InitIInv
<1>2. IInv /\ [Next]_vars => IInv'
  BY NextKeeps
<1> QED BY <1>1, <1>2, PTL DEF Spec

\* Type correctness; with it no batch spends more native balance than the
\* executor holds, and no self-administered timing leaves its bounds.
THEOREM GovernanceTypes == Spec => []TypeOK
<1>1. IInv => TypeOK
  BY DEF IInv
<1> QED BY <1>1, Inductive, PTL

\* However dispatchers rotate and whatever strangers publish or anyone
\* replays, a queued governance action is one OpenGov published, and the only
\* one of its dispatcher and nonce.
THEOREM OnlyPublished == Spec => []OnlyPublishedActions
<1>1. IInv => OnlyPublishedActions
  <2> SUFFICES ASSUME IInv, NEW id \in Ids, id.lane = "governance"
               PROVE /\ id.emitter \in Dispatchers
                     /\ id.nonce < nextGovernanceNonce[id.emitter]
                     /\ \A other \in Ids :
                            /\ other.lane = "governance"
                            /\ other.emitter = id.emitter /\ other.nonce = id.nonce
                            => other = id
    BY DEF OnlyPublishedActions
  <2>1. PICK m \in published : m.emitter \in Dispatchers /\ id = GovernanceId(m.emitter, m.payload)
    BY DEF IInv, Origin
  <2>2. id.emitter = m.emitter /\ id.nonce = m.payload.nonce
    BY <2>1 DEF GovernanceId
  <2>3. m.payload.nonce < nextGovernanceNonce[m.emitter]
    BY <2>1 DEF IInv, NoncesUsedOnce
  <2>4. ASSUME NEW other \in Ids, other.lane = "governance",
               other.emitter = id.emitter, other.nonce = id.nonce
        PROVE other = id
    <3>1. PICK n \in published : other = GovernanceId(n.emitter, n.payload)
      BY <2>4 DEF IInv, Origin
    <3>2. n.emitter = m.emitter /\ n.payload.nonce = m.payload.nonce
      BY <2>2, <2>4, <3>1 DEF GovernanceId
    <3>3. n.payload = m.payload
      BY <2>1, <3>2 DEF IInv, NoncesUsedOnce
    <3> QED BY <2>1, <3>1, <3>2, <3>3
  <2> QED BY <2>1, <2>2, <2>3, <2>4
<1> QED BY <1>1, Inductive, PTL

\* No action executes before its lane's delay or after its deadline, however
\* often timing and Safe change between queueing and execution.
THEOREM Reviewed == Spec => []ReviewedBeforeExecution
<1>1. IInv => ReviewedBeforeExecution
  BY DEF IInv
<1> QED BY <1>1, Inductive, PTL

\* What a cancellation is, read off its calls.
LEMMA CancellationCall ==
    ASSUME IInv, NEW c \in Ids, NEW id, Cancellation(c, id)
    PROVE /\ c.content \in Contents /\ IsTechnicalCommitteeVeto(c.content)
          /\ DOMAIN CallsOf[c.content] = {1}
          /\ id \in ActionIds /\ id.lane = "committee"
<1>1. c.content \in Contents
  BY DEF IInv, TypeOK, ExecutorTypes, ActionIds
<1>2. DOMAIN CallsOf[c.content] = {1}
  BY <1>1, ContentAssumption DEF Cancellation
<1>3. id \in Cancels(c.content)
  BY DEF Cancellation
<1>4. CallsOf[c.content][1].kind = "cancel"
  BY <1>2, <1>3 DEF Cancels, CallsTo
<1> QED BY <1>1, <1>2, <1>3, <1>4, CancelsCommittee DEF Cancellation, IsTechnicalCommitteeVeto

\* The committee cannot veto the cancellation of its own action.
LEMMA NotVetoed == IInv => Unvetoed
<1> SUFFICES ASSUME IInv, NEW c \in Ids, NEW id, Cancellation(c, id)
             PROVE Status(c) # "vetoed"
  BY DEF Unvetoed
<1> QED BY CancellationCall DEF IInv, Protected, Cancellation

\* A cancellation queued within the margin is executable before the
\* committee action it cancels, whatever the review period became.
LEMMA ReadyInTime == IInv => ReadyFirst
<1> SUFFICES ASSUME IInv, NEW c \in Ids, NEW id \in Ids, Cancellation(c, id),
                    actions[c].queuedAt < actions[id].queuedAt + CancelMargin
             PROVE actions[c].executableAt < actions[id].executableAt
  BY DEF ReadyFirst
<1>1. actions[c] \in ActionRecord /\ actions[id] \in ActionRecord
  BY DEF IInv, TypeOK, ExecutorTypes
<1>2. actions[id].executableAt = actions[id].queuedAt + TechnicalCommitteeDelay
  BY CancellationCall DEF IInv, Timed
<1>3. actions[c].executableAt <= actions[c].queuedAt + MaxVetoPeriod
  BY DEF IInv, Timed, Cancellation
<1>4. TechnicalCommitteeDelay \in Nat /\ CancelMargin \in Nat
  BY TimingAssumption
<1> QED BY <1>1, <1>2, <1>3, <1>4 DEF MaxVetoPeriod, ActionRecord

\* A cancellation is never vetoed and matures first, for every value of the
\* periods within the code's bounds.
THEOREM CancellationsProtected == Spec => []CancellationsStand
<1>1. IInv => CancellationsStand
  BY NotVetoed, ReadyInTime DEF CancellationsStand
<1> QED BY <1>1, Inductive, PTL

\* Vetoed, expired and executed actions never change again, though their VAAs
\* and other envelopes of them stay available to everyone.
THEOREM FinalForever == Spec => FinalStays
<1>1. IInv /\ [Next]_vars => [\A id \in Ids : Final(id) => actions'[id] = actions[id]]_vars
  <2> SUFFICES ASSUME IInv, Next, NEW id \in Ids, Final(id)
               PROVE actions'[id] = actions[id]
    OBVIOUS
  <2>1. \/ actions' = actions
        \/ \E m \in published : Queue(m)
        \/ \E s \in Callers, c \in Contents : QueueTechnicalCommitteeAction(s, c)
        \/ \E s \in Callers, i \in Ids : Veto(s, i)
        \/ \E s \in Callers, i \in Ids : Execute(s, i)
    BY DEF Next, Publishers, Transactions, Time, Tick, Receive, executorVars
  <2>2. ASSUME NEW m \in published, Queue(m) PROVE actions'[id] = actions[id]
    <3>1. Status(GovernanceId(m.emitter, m.payload)) = "unknown"
      BY <2>2 DEF Queue, AcceptsVaa
    <3>2. GovernanceId(m.emitter, m.payload) \notin Ids
      BY <3>1 DEF Status, IInv, TypeOK, ExecutorTypes, ActionRecord
    <3> QED BY <2>2, <3>2 DEF Queue, Enqueue
  <2>3. ASSUME NEW s \in Callers, NEW c \in Contents, QueueTechnicalCommitteeAction(s, c)
        PROVE actions'[id] = actions[id]
    <3>1. CommitteeId(technicalCommitteeNonce + 1, c) # id
      BY IdTypes DEF IInv, Origin, TypeOK, ExecutorTypes, CommitteeId
    <3> QED BY <2>3, <3>1 DEF QueueTechnicalCommitteeAction, Enqueue
  <2>4. ASSUME NEW s \in Callers, NEW i \in Ids, Veto(s, i)
        PROVE actions'[id] = actions[id]
    <3>1. i # id
      BY <2>4 DEF Veto, Vetoable, Final, IInv, TypeOK, ExecutorTypes, ActionRecord
    <3> QED BY <2>4, <3>1 DEF Veto, IInv, TypeOK, ExecutorTypes
  <2>5. ASSUME NEW s \in Callers, NEW i \in Ids, Execute(s, i)
        PROVE actions'[id] = actions[id]
    <3>0. \A k \in Ids : now \in Nat /\ actions[k].expiresAt \in Nat
      BY DEF IInv, TypeOK, ExecutorTypes, ActionRecord
    <3>1. i # id
      BY <2>5, <3>0 DEF Execute, Due, Final
    <3>2. id \notin Cancels(i.content)
      BY <2>5, <3>0 DEF Execute, BatchSucceeds, Cancellable, Final
    <3> QED BY <2>5, <3>1, <3>2 DEF Execute
  <2> QED BY <2>1, <2>2, <2>3, <2>4, <2>5
<1> QED BY <1>1, Inductive, PTL DEF Spec, FinalStays

-----------------------------------------------------------------------------
(* A diligent keeper.  The keeper's step relation is part of Next, so the    *)
(* invariant above holds; what it adds is that a ready cancellation does not *)
(* wait.                                                                     *)

InTime(c, id) ==
    /\ Cancellation(c, id)
    /\ actions[c].queuedAt >= actions[id].queuedAt
    /\ actions[c].queuedAt < actions[id].queuedAt + CancelMargin

\* An executed batch has vetoed what it cancels.
CancellationsWork ==
    \A c \in Ids : Status(c) = "executed" => \A id \in Cancels(c.content) : Status(id) = "vetoed"

\* The committee's lane has no early execution.
ExecutedLate ==
    \A id \in Ids : id.lane = "committee" /\ Status(id) = "executed"
                    => now >= actions[id].queuedAt + TechnicalCommitteeDelay

NotOverdue ==
    \A c, id \in Ids : InTime(c, id) =>
        /\ Status(id) # "executed"
        /\ Status(c) = "pending" /\ Status(id) = "pending" => now <= actions[c].executableAt

KInv == IInv /\ CancellationsWork /\ ExecutedLate /\ NotOverdue

\* What a step leaves of the records, and which steps execute.
LEMMA Kept ==
    ASSUME IInv, [Next]_vars
    PROVE /\ Ids \subseteq Ids'
          /\ \A i \in Ids : /\ actions'[i].queuedAt = actions[i].queuedAt
                            /\ actions'[i].executableAt = actions[i].executableAt
                            /\ actions'[i].expiresAt = actions[i].expiresAt
                            /\ Status(i) \in {"vetoed", "executed"} => Status(i)' = Status(i)
                            /\ Status(i)' = "pending" => Status(i) = "pending"
          /\ \A i \in Ids' \ Ids : Status(i)' = "pending" /\ actions'[i].queuedAt = now'
          /\ \A i \in Ids : Status(i)' = "executed" =>
                 Status(i) = "executed" \/ \E s \in Callers : Execute(s, i)
          /\ now' = now \/ Time
<1> DEFINE Same(i) == /\ actions'[i].queuedAt = actions[i].queuedAt
                      /\ actions'[i].executableAt = actions[i].executableAt
                      /\ actions'[i].expiresAt = actions[i].expiresAt
           Grown == /\ Ids \subseteq Ids'
                    /\ \A i \in Ids : actions'[i] = actions[i] /\ Status(i)' = Status(i)
                    /\ \A i \in Ids' \ Ids : /\ Status(i)' = "pending"
                                             /\ actions'[i].queuedAt = now'
<1>0. actions \in [Ids -> ActionRecord] /\ now \in Nat /\ vetoPeriod \in Nat
      /\ TechnicalCommitteeDelay \in Nat
  BY TimingAssumption DEF IInv, TypeOK, ExecutorTypes
<1>1. CASE actions' = actions /\ (now' = now \/ Time)
  BY <1>1 DEF Ids, Status
<1>2. ASSUME NEW m \in published, Queue(m) PROVE Grown /\ now' = now
  <2> DEFINE id == GovernanceId(m.emitter, m.payload)
  <2>1. m.payload \in Payload /\ m.emitter \in Dispatchers
    BY <1>2 DEF IInv, TypeOK, DispatcherTypes, ExecutorTypes, Message, Queue, AcceptsVaa
  <2>2. id \in ActionIds /\ id \notin Ids
    BY <1>2, <2>1, IdTypes
       DEF Queue, AcceptsVaa, Status, IInv, TypeOK, ExecutorTypes, ActionRecord
  <2> QED BY <1>0, <1>2, <2>2, Enqueued DEF Queue
<1>3. ASSUME NEW s \in Callers, NEW c \in Contents, QueueTechnicalCommitteeAction(s, c)
      PROVE Grown /\ now' = now
  <2>1. PICK n \in Nat : n = technicalCommitteeNonce + 1
    BY DEF IInv, TypeOK, ExecutorTypes
  <2>2. CommitteeId(n, c) \in ActionIds /\ CommitteeId(n, c) \notin Ids
    BY <2>1, IdTypes DEF IInv, Origin, TypeOK, ExecutorTypes
  <2>3. Enqueue(CommitteeId(n, c), TechnicalCommitteeDelay) /\ now' = now
    BY <1>3, <2>1 DEF QueueTechnicalCommitteeAction
  <2> QED BY <1>0, <2>2, <2>3, Enqueued
<1>4. CASE Grown /\ now' = now
  BY <1>4
<1>5. ASSUME NEW s \in Callers, NEW id \in Ids, Veto(s, id)
      PROVE /\ Ids' = Ids /\ now' = now
            /\ \A i \in Ids : /\ Same(i)
                              /\ Status(i)' # Status(i) => /\ Status(i) = "pending"
                                                           /\ Status(i)' = "vetoed"
  BY <1>0, <1>5, WithStatusType DEF Veto, Vetoable, Ids, Status
<1>6. ASSUME NEW s \in Callers, NEW id \in Ids, Execute(s, id)
      PROVE /\ Ids' = Ids /\ now' = now
            /\ \A i \in Ids : /\ Same(i)
                              /\ Status(i)' # Status(i) =>
                                     /\ Status(i) = "pending"
                                     /\ \/ i = id /\ Status(i)' = "executed"
                                        \/ Status(i)' = "vetoed"
  <2>1. \A c \in Cancels(id.content) : Status(c) = "pending"
    BY <1>6 DEF Execute, BatchSucceeds, Cancellable
  <2> QED BY <1>0, <1>6, <2>1, WithStatusType DEF Execute, Ids, Status
<1>7. \/ actions' = actions /\ (now' = now \/ Time)
      \/ \E m \in published : Queue(m)
      \/ \E s \in Callers, c \in Contents : QueueTechnicalCommitteeAction(s, c)
      \/ \E s \in Callers, i \in Ids : Veto(s, i)
      \/ \E s \in Callers, i \in Ids : Execute(s, i)
  BY DEF Next, Publishers, Transactions, Time, Tick, Receive, vars, executorVars
<1>8. CASE \E s \in Callers, i \in Ids : Veto(s, i)
  BY <1>5, <1>8
<1>9. CASE \E s \in Callers, i \in Ids : Execute(s, i)
  <2>1. PICK s \in Callers, id \in Ids : Execute(s, id)
    BY <1>9
  <2> QED BY <1>6, <2>1
<1> QED BY <1>1, <1>2, <1>3, <1>4, <1>7, <1>8, <1>9

\* A pending cancellation of a pending action runs once it is due.
LEMMA CancellationRuns ==
    ASSUME IInv, NEW c \in Ids, NEW id \in Ids, Cancellation(c, id),
           Status(c) = "pending", Status(id) = "pending",
           actions[c].executableAt < actions[id].executableAt,
           now = actions[c].executableAt
    PROVE CancellationWaits
<1>1. /\ c.content \in Contents /\ IsTechnicalCommitteeVeto(c.content)
      /\ DOMAIN CallsOf[c.content] = {1} /\ id.lane = "committee"
      /\ c.lane = "governance"
  BY CancellationCall DEF Cancellation
<1>2. actions[c] \in ActionRecord /\ actions[id] \in ActionRecord
      /\ actions[c].executableAt <= actions[c].expiresAt
      /\ actions[id].executableAt <= actions[id].expiresAt
  BY DEF IInv, TypeOK, ExecutorTypes, Timed
<1>3. Due(Anyone, c) /\ Cancellable(id)
  BY <1>1, <1>2 DEF Due, Cancellable, ActionRecord
<1>4. Covered(c.content)
  <2>1. ValueOf(c.content) = 0
    BY <1>1, ContentAssumption DEF IsTechnicalCommitteeVeto
  <2> QED BY <2>1 DEF Covered, IInv, TypeOK, ExecutorTypes
<1>5. BatchSucceeds(c)
  <2>1. /\ CallsTo(c.content, "cancel") = {1} /\ CallsTo(c.content, "upgrade") = {}
        /\ CallsTo(c.content, "setTiming") = {}
        /\ Cancels(c.content) = {id} /\ c # id
    BY <1>1 DEF CallsTo, IsTechnicalCommitteeVeto, Cancellation
  <2>2. Cardinality(Cancels(c.content)) = Cardinality(CallsTo(c.content, "cancel"))
    BY <2>1, FS_Singleton
  <2> QED BY <1>1, <1>3, <2>1, <2>2 DEF BatchSucceeds, IsTechnicalCommitteeVeto
<1> QED BY <1>3, <1>4, <1>5 DEF CancellationWaits

LEMMA KeeperKeeps == KInv /\ [KeeperNext]_vars => KInv'
<1> SUFFICES ASSUME KInv, [KeeperNext]_vars PROVE KInv'
  OBVIOUS
<1>1. IInv /\ [Next]_vars
  BY DEF KInv, KeeperNext, Next
<1>2. IInv'
  BY <1>1, NextKeeps
<1>3. now \in Nat /\ now' \in Nat /\ now' >= now
  BY <1>1, <1>2, Kept DEF IInv, TypeOK, ExecutorTypes, Time, Tick
<1>4. CancellationsWork'
  <2> SUFFICES ASSUME NEW c \in Ids', Status(c)' = "executed", NEW id \in Cancels(c.content)
               PROVE Status(id)' = "vetoed"
    BY DEF CancellationsWork
  <2>1. c \in Ids
    BY <1>1, Kept
  <2>2. CASE Status(c) = "executed"
    <3>1. Status(id) = "vetoed"
      BY <2>1, <2>2 DEF KInv, CancellationsWork
    <3>2. id \in Ids
      BY <3>1 DEF Status
    <3> QED BY <1>1, <3>1, <3>2, Kept
  <2>3. ASSUME NEW s \in Callers, Execute(s, c) PROVE Status(id)' = "vetoed"
    <3>1. id # c /\ id \in Ids /\ actions[id] \in ActionRecord
      BY <1>1, <2>3 DEF Execute, BatchSucceeds, Cancellable, Status, IInv, TypeOK, ExecutorTypes
    <3>2. actions'[id] = WithStatus(actions[id], "vetoed") /\ id \in Ids'
      BY <2>3, <3>1 DEF Execute, Ids
    <3> QED BY <3>1, <3>2, WithStatusType DEF Status
  <2> QED BY <1>1, <2>1, <2>2, <2>3, Kept
<1>5. \A id \in Ids : id.lane = "committee" /\ Status(id)' = "executed" =>
          now >= actions[id].queuedAt + TechnicalCommitteeDelay
  <2> SUFFICES ASSUME NEW id \in Ids, id.lane = "committee", Status(id)' = "executed"
               PROVE now >= actions[id].queuedAt + TechnicalCommitteeDelay
    OBVIOUS
  <2>1. CASE Status(id) = "executed"
    BY <2>1 DEF KInv, ExecutedLate
  <2>2. ASSUME NEW s \in Callers, Execute(s, id)
        PROVE now >= actions[id].queuedAt + TechnicalCommitteeDelay
    <3>1. actions[id].executableAt = actions[id].queuedAt + TechnicalCommitteeDelay
      BY <1>1 DEF IInv, Timed
    <3>2. actions[id].executableAt \in Nat
      BY <1>1 DEF IInv, TypeOK, ExecutorTypes, ActionRecord
    <3> QED BY <1>3, <2>2, <3>1, <3>2 DEF Execute, Due
  <2> QED BY <1>1, <2>1, <2>2, Kept
<1>6. ExecutedLate'
  <2>1. \A id \in Ids : actions[id].queuedAt + TechnicalCommitteeDelay \in Nat
    BY <1>1, TimingAssumption DEF IInv, TypeOK, ExecutorTypes, ActionRecord
  <2>2. \A id \in Ids' : Status(id)' = "executed" =>
            id \in Ids /\ actions'[id].queuedAt = actions[id].queuedAt
    BY <1>1, Kept
  <2> QED BY <1>3, <1>5, <2>1, <2>2 DEF ExecutedLate
<1>7. NotOverdue'
  <2> SUFFICES ASSUME NEW c \in Ids', NEW id \in Ids', InTime(c, id)'
               PROVE /\ Status(id)' # "executed"
                     /\ Status(c)' = "pending" /\ Status(id)' = "pending"
                        => now' <= actions'[c].executableAt
    BY DEF NotOverdue
  <2>1. /\ Cancellation(c, id) /\ id.lane = "committee" /\ c.lane = "governance"
        /\ actions'[c].queuedAt >= actions'[id].queuedAt
        /\ actions'[c].queuedAt < actions'[id].queuedAt + CancelMargin
        /\ actions'[c] \in ActionRecord /\ actions'[id] \in ActionRecord
    <3>1. Cancellation(c, id)
      BY DEF InTime, Cancellation
    <3>2. id \in Cancels(c.content) /\ c.content \in Contents
      BY <1>2, <3>1 DEF Cancellation, IInv, TypeOK, ExecutorTypes, ActionIds
    <3> QED BY <1>2, <3>1, <3>2, CancelsCommittee
            DEF InTime, Cancellation, IInv, TypeOK, ExecutorTypes
  <2>2. /\ TechnicalCommitteeDelay \in Nat /\ CancelMargin \in Nat /\ MinVetoPeriod \in Nat
        /\ TechnicalCommitteeDelay >= CancelMargin
    BY TimingAssumption DEF MaxVetoPeriod
  <2>3. actions'[c].executableAt >= actions'[c].queuedAt
    <3>1. actions'[c].executableAt >= actions'[c].queuedAt + MinVetoPeriod
      BY <1>2, <2>1 DEF IInv, Timed
    <3> QED BY <2>1, <2>2, <3>1 DEF ActionRecord
  <2>4. c \in Ids /\ id \in Ids =>
            InTime(c, id) /\ actions[c].executableAt < actions[id].executableAt
    BY <1>1, <2>1, Kept, ReadyInTime DEF InTime, ReadyFirst
  <2>5. Status(id)' # "executed"
    <3> SUFFICES ASSUME Status(id)' = "executed" PROVE FALSE
      OBVIOUS
    <3>1. id \in Ids /\ actions'[id].queuedAt = actions[id].queuedAt
      BY <1>1, Kept
    <3>2. now >= actions'[id].queuedAt + TechnicalCommitteeDelay
      BY <1>5, <2>1, <3>1
    <3>3. CASE c \notin Ids
      <4>1. actions'[c].queuedAt = now'
        BY <1>1, <3>3, Kept
      <4> QED BY <1>3, <2>1, <2>2, <3>2, <4>1 DEF ActionRecord
    <3>4. CASE c \in Ids
      <4>1. Status(id) # "executed"
        BY <2>4, <3>1, <3>4 DEF KInv, NotOverdue
      <4>2. PICK s \in Callers : Execute(s, id)
        BY <1>1, <3>1, <4>1, Kept
      <4>3. Status(id) = "pending" /\ now >= actions[id].executableAt
        <5>1. actions[id].executableAt \in Nat
          BY <1>1, <3>1 DEF IInv, TypeOK, ExecutorTypes, ActionRecord
        <5> QED BY <1>3, <2>1, <4>2, <5>1 DEF Execute, Due
      <4>4. Status(c) \in {"pending", "vetoed", "executed"}
        BY <1>1, <3>4 DEF Status, IInv, TypeOK, ExecutorTypes, ActionRecord
      <4>5. Status(c) # "vetoed"
        BY <1>1, <2>1, <3>4, CancellationCall DEF IInv, Protected
      <4>6. Status(c) # "executed"
        BY <2>1, <3>4, <4>3 DEF KInv, CancellationsWork, Cancellation
      <4>7. now <= actions[c].executableAt
        BY <2>4, <3>1, <3>4, <4>3, <4>4, <4>5, <4>6 DEF KInv, NotOverdue
      <4>8. actions[c].executableAt \in Nat /\ actions[id].executableAt \in Nat
        BY <1>1, <3>1, <3>4 DEF IInv, TypeOK, ExecutorTypes, ActionRecord
      <4> QED BY <1>3, <2>4, <3>1, <3>4, <4>3, <4>7, <4>8
    <3> QED BY <3>3, <3>4
  <2>6. ASSUME Status(c)' = "pending", Status(id)' = "pending"
        PROVE now' <= actions'[c].executableAt
    <3>1. CASE c \notin Ids
      BY <1>1, <2>3, <3>1, Kept
    <3>2. CASE id \notin Ids
      <4>1. actions'[id].queuedAt = now'
        BY <1>1, <3>2, Kept
      <4> QED BY <1>3, <2>1, <2>3, <4>1 DEF ActionRecord
    <3>3. CASE c \in Ids /\ id \in Ids
      <4>1. /\ Status(c) = "pending" /\ Status(id) = "pending"
            /\ actions'[c].executableAt = actions[c].executableAt
        BY <1>1, <2>6, <3>3, Kept
      <4>2. now <= actions[c].executableAt
        BY <2>4, <3>3, <4>1 DEF KInv, NotOverdue
      <4>3. CASE now' = now
        BY <4>1, <4>2, <4>3
      <4>4. CASE now' # now
        <5>1. ~CancellationWaits /\ now' = now + 1
          BY <4>4, <1>3 DEF KeeperNext, Publishers, Transactions, Time, Tick, vars, executorVars,
                      Queue, QueueTechnicalCommitteeAction, Veto, Execute, Receive
        <5>2. now # actions[c].executableAt
          BY <1>1, <2>1, <2>4, <3>3, <4>1, <5>1, CancellationRuns
        <5> QED BY <1>3, <2>1, <4>1, <4>2, <5>1, <5>2 DEF ActionRecord
      <4> QED BY <4>3, <4>4
    <3> QED BY <3>1, <3>2, <3>3
  <2> QED BY <2>5, <2>6
<1> QED BY <1>2, <1>4, <1>6, <1>7 DEF KInv

\* With one diligent account, a committee action whose cancellation OpenGov
\* had queued within the margin never executes.
THEOREM CancelledInTime == KeeperSpec => []CancelledInTimeNeverExecutes
<1>1. Init => KInv
  <2> SUFFICES ASSUME Init PROVE KInv
    OBVIOUS
  <2>1. Ids = {}
    BY DEF Init, ExecutorInit, Ids
  <2> QED BY <2>1, InitIInv DEF KInv, CancellationsWork, ExecutedLate, NotOverdue
<1>2. KInv /\ [KeeperNext]_vars => KInv'
  BY KeeperKeeps
<1>3. KInv => CancelledInTimeNeverExecutes
  BY DEF KInv, NotOverdue, InTime, CancelledInTimeNeverExecutes
<1> QED BY <1>1, <1>2, <1>3, PTL DEF KeeperSpec
=============================================================================
