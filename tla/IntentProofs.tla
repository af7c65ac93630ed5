---------------------------- MODULE IntentProofs ----------------------------
(***************************************************************************)
(* The intent relayer over its queue and its contracts, for all orders,    *)
(* callers, amounts and attempts, and any number of failures:              *)
(*   - the receiver holds what was released and not forwarded, beside what *)
(*     came or was swept otherwise, and an instruction forwards its own    *)
(*     settlement's amount, once;                                          *)
(*   - a task is in one place, and its attempts never pass Retries;        *)
(*   - no gap opens in the nonces below the queue's own;                   *)
(*   - an acked job is a proven outcome.                                   *)
(*                                                                         *)
(* Each rests on the shape of the queue (Shape).  The balance needs that   *)
(* what is processed was released (Settled), so that nothing left for a    *)
(* settlement still on the rail, and that no sequence has two instructions *)
(* signed (SignedOnce), whatever was reorganised: an instruction not yet   *)
(* processed is then one of a settlement nobody forwarded.  The ack needs  *)
(* that a successful receipt is a consumed instruction (in Sound): the     *)
(* queue learns of the delivery from a receipt that is older than the      *)
(* state it acks in.                                                       *)
(***************************************************************************)
EXTENDS IntentRelay, SumLemmas

Jobs == [at : {"none", "waiting", "queued", "awaiting", "acked", "failed"},
         attempts : Nat, sent : Nat \cup {-1},
         receipt : {"none", "success", "reverted", "replaced"}]
Shape ==
    /\ nonce \in Nat /\ mined \in Nat /\ awaits \in BOOLEAN
    /\ job \in [Tasks -> Jobs]
    /\ pending \in Seq(Tasks)
    /\ \/ processing = Nobody
       \/ processing \in [task : Tasks, at : {"simulate", "send"}]
    /\ pool \in [DOMAIN pool -> Tasks \cup {NoTask}]

IntentTypes ==
    /\ amount \in [Orders -> Nat] /\ forwarded \in [Orders -> Nat]
    /\ settlement \in [Orders -> {"none", "published", "signed", "queued", "released"}]
    /\ age \in [Orders -> {"exclusive", "open", "stale"}]
    /\ published \in [Orders -> Nat]
Numbered == \A o \in Orders : Placed(o) => published[o] # 0
\* The instruction signed for a sequence is the last one published under it.
SignedOnce ==
    /\ \A v \in signed : v[1] \in Orders /\ Signed(v[1]) /\ v = Instruction(v[1])
    /\ processed \subseteq signed
Settled == \A o \in Orders : Processed(o) => settlement[o] = "released"
IntentInv == IntentTypes /\ Numbered /\ SignedOnce /\ Settled /\ ForwardedOnce
InTheReceiver == balance \in Nat /\ stray \in Int /\ balance = Held + stray

Sound(j, o) ==
    /\ j.receipt = "success" => Processed(o)
    /\ j.at = "acked" => \/ Processed(o)
                         \/ ~awaits /\ (age[o] = "stale" \/ j.sent >= 0)
Outcomes == \A o \in Orders : Sound(job[o], o)

\* The places of a task: queued exactly while it waits or is processed, and in
\* one place at a time.
Waits(t) == \E i \in DOMAIN pending : pending[i] = t
OnePlace ==
    /\ \A t \in Tasks : (job[t].at = "queued") <=> (processing.task = t \/ Waits(t))
    /\ \A i \in DOMAIN pending : pending[i] # processing.task
    /\ \A i, j \in DOMAIN pending : pending[i] = pending[j] => i = j
\* Attempts are left until a job fails, and a hash is one of a broadcast.
Counted(j) ==
    /\ j.attempts \in 0..Retries /\ (j.at # "failed" => j.attempts < Retries)
    /\ j.at = "awaiting" => j.sent >= 0
Jobbed == \A t \in Tasks : Counted(job[t])
\* The queue's side: flags, and nonces in the pool.
QueueTypes == /\ up \in BOOLEAN /\ lost \in BOOLEAN /\ cheap \in BOOLEAN
              /\ DOMAIN pool \subseteq Nat

\* The contracts' side.
ContractTypes ==
    /\ amount \in [Orders -> Amounts \cup {0}]
    /\ authorizedRelayer \subseteq Callers /\ refusing \subseteq Orders
    /\ configured \in BOOLEAN /\ limited \in BOOLEAN
    /\ disturbances \in 0..MaxDisturbances

Types == OnePlace /\ Jobbed /\ QueueTypes /\ ContractTypes

IInv == Shape /\ Types /\ IntentInv /\ InTheReceiver /\ NoGap /\ Outcomes

-----------------------------------------------------------------------------
(* The shape of the queue. *)

LEMMA RetriesNatural == Retries \in Nat /\ NoTask \notin Tasks
  BY QueueAssumption

LEMMA UnsentJob ==
    ASSUME NEW stage \in {"none", "waiting", "failed"}, NEW n \in Nat
    PROVE  /\ Unsent(stage, n) \in Jobs
           /\ Unsent(stage, n).receipt = "none" /\ Unsent(stage, n).at = stage
  BY DEF Unsent, Jobs

\* A job goes on to another stage.
LEMMA JobMoves ==
    ASSUME NEW t \in Tasks, job \in [Tasks -> Jobs],
           NEW stage \in {"none", "waiting", "queued", "awaiting", "acked", "failed"}
    PROVE  /\ JobAt(t, stage) \in [Tasks -> Jobs]
           /\ JobAt(t, stage)[t].at = stage
           /\ JobAt(t, stage)[t].receipt = job[t].receipt
           /\ JobAt(t, stage)[t].sent = job[t].sent
           /\ \A u \in Tasks \ {t} : JobAt(t, stage)[u] = job[u]
  BY DEF JobAt, Jobs

LEMMA ThrownJob ==
    ASSUME NEW t \in Tasks, job \in [Tasks -> Jobs]
    PROVE  /\ Thrown(t) \in [Tasks -> Jobs]
           /\ Thrown(t)[t].at \in {"waiting", "failed"}
           /\ Thrown(t)[t].receipt = "none"
           /\ \A u \in Tasks \ {t} : Thrown(t)[u] = job[u]
<1> DEFINE n == job[t].attempts + 1
           stage == IF n < Retries THEN "waiting" ELSE "failed"
<1>1. n \in Nat /\ stage \in {"none", "waiting", "failed"} /\ stage # "none"
  BY DEF Jobs
<1>2. Thrown(t) = [job EXCEPT ![t] = Unsent(stage, n)]
  BY DEF Thrown
<1> HIDE DEF n, stage
<1> QED
  BY <1>1, <1>2, UnsentJob

LEMMA Submitting ==
    ASSUME Shape, processing.at \in {"simulate", "send"}
    PROVE  processing.task \in Tasks
  BY DEF Shape, Nobody

\* What no submission touches.
LEMMA ShapeStays ==
    ASSUME Shape, UNCHANGED queueVars PROVE Shape'
  BY DEF Shape, queueVars, walletVars

LEMMA HandlersShape ==
    ASSUME Shape, NEW t \in Tasks,
           \/ Arrives(t) \/ HandlerAcks(t) \/ HandlerThrows(t) \/ Add(t)
           \/ ReceiptRead(t) \/ ReceiptTimesOut(t)
    PROVE  Shape'
<1>1. job' \in [Tasks -> Jobs]
  BY JobMoves, ThrownJob
     DEF Shape, Arrives, HandlerAcks, HandlerThrows, Add, ReceiptRead, ReceiptTimesOut, Acked
<1>2. pending' \in Seq(Tasks)
  BY DEF Shape, Arrives, HandlerAcks, HandlerThrows, Add, ReceiptRead, ReceiptTimesOut
<1>3. UNCHANGED <<awaits, processing, nonce, mined, pool>>
  BY DEF Arrives, HandlerAcks, HandlerThrows, Add, ReceiptRead, ReceiptTimesOut, walletVars
<1> QED
  BY <1>1, <1>2, <1>3 DEF Shape

LEMMA DrainShape == ASSUME Shape, Drain PROVE Shape'
<1>1. Head(pending) \in Tasks /\ Tail(pending) \in Seq(Tasks)
  BY DEF Shape, Drain
<1> QED
  BY <1>1 DEF Shape, Drain, walletVars

LEMMA SimulateShape == ASSUME Shape, NEW outcome, Simulate(outcome) PROVE Shape'
<1> DEFINE t == processing.task
<1>1. t \in Tasks
  BY Submitting DEF Simulate
<1>2. job' \in [Tasks -> Jobs]
  BY <1>1, JobMoves, ThrownJob DEF Shape, Simulate, Resolves, Rejects, Acked
<1>3. processing' = Nobody \/ processing' \in [task : Tasks, at : {"simulate", "send"}]
  BY <1>1 DEF Simulate, Resolves, Rejects
<1>4. UNCHANGED <<awaits, pending, nonce, mined, pool>>
  BY DEF Simulate, walletVars
<1> QED
  BY <1>2, <1>3, <1>4 DEF Shape

LEMMA PoolGrows ==
    ASSUME Shape, NEW t \in Tasks \cup {NoTask}, NEW n,
           pool' = [m \in DOMAIN pool \cup {n} |-> IF m = n THEN t ELSE pool[m]]
    PROVE  /\ pool' \in [DOMAIN pool' -> Tasks \cup {NoTask}]
           /\ DOMAIN pool' = DOMAIN pool \cup {n}
  BY DEF Shape

LEMMA BroadcastPool ==
    ASSUME Shape, NEW t \in Tasks, Broadcast(t)
    PROVE  /\ pool' \in [DOMAIN pool' -> Tasks \cup {NoTask}]
           /\ DOMAIN pool' = DOMAIN pool \cup {nonce} /\ UNCHANGED mined
           /\ lost => lost'
<1>1. pool' = [m \in DOMAIN pool \cup {nonce} |-> IF m = nonce THEN t ELSE pool[m]]
  BY DEF Broadcast
<1>2. UNCHANGED mined /\ (lost => lost')
  BY DEF Broadcast
<1>3. /\ pool' \in [DOMAIN pool' -> Tasks \cup {NoTask}]
      /\ DOMAIN pool' = DOMAIN pool \cup {nonce}
  BY <1>1, PoolGrows
<1> QED
  BY <1>2, <1>3

LEMMA SendsShape == ASSUME Shape, Sends PROVE Shape'
<1>1. processing.task \in Tasks
  BY Submitting DEF Sends
<1>2. pool' \in [DOMAIN pool' -> Tasks \cup {NoTask}] /\ UNCHANGED mined
  BY <1>1, BroadcastPool DEF Sends
<1>3. job' \in [Tasks -> Jobs]
  BY <1>1 DEF Shape, Sends, Jobs
<1> QED
  BY <1>2, <1>3 DEF Shape, Sends

LEMMA SendFailsShape ==
    ASSUME Shape, Refused \/ FailsUnsent \/ FailsSent PROVE Shape'
<1>1. processing.task \in Tasks
  BY Submitting DEF Refused, FailsUnsent, FailsSent, SendFails
<1>2. /\ SendFails
      /\ mined' = mined /\ pool' \in [DOMAIN pool' -> Tasks \cup {NoTask}]
  BY <1>1, BroadcastPool DEF Refused, FailsUnsent, FailsSent, walletVars, Shape
<1>3. job' \in [Tasks -> Jobs]
  BY <1>1, <1>2, ThrownJob DEF Shape, SendFails, Rejects
<1> QED
  BY <1>2, <1>3 DEF Shape, SendFails, Rejects, NonceAfterFailure

LEMMA ReloadShape == ASSUME Shape, Reload PROVE Shape'
<1>1. processing.task \in Tasks
  BY Submitting DEF Reload
<1>2. <<processing.task>> \in Seq(Tasks) /\ pending \in Seq(Tasks)
  BY <1>1 DEF Shape
<1>3. pending' \in Seq(Tasks)
  BY <1>2 DEF Reload, Requeued
<1> QED
  BY <1>3 DEF Shape, Reload, walletVars

LEMMA MineShape == ASSUME Shape, NEW ok \in BOOLEAN, Mine(ok) PROVE Shape'
<1>1. pool' \in [DOMAIN pool' -> Tasks \cup {NoTask}]
  BY DEF Shape, Mine
<1>2. ASSUME NEW t \in Tasks PROVE job'[t] \in Jobs
  <2>1. job[t] \in Jobs
    BY DEF Shape
  <2>2. PICK j \in Jobs : j = job[t]
    BY <2>1
  <2>3. \A r \in {"success", "reverted", "replaced"} : [j EXCEPT !.receipt = r] \in Jobs
    BY DEF Jobs
  <2>4. \/ job'[t] = j
        \/ \E r \in {"success", "reverted", "replaced"} : job'[t] = [j EXCEPT !.receipt = r]
    BY <2>2 DEF Mine
  <2> QED
    BY <2>3, <2>4
<1>3. job' \in [Tasks -> Jobs]
  BY <1>2 DEF Mine
<1> QED
  BY <1>1, <1>3 DEF Shape, Mine

LEMMA OthersShape ==
    ASSUME Shape, Start \/ (\E n \in DOMAIN pool : Evict(n)) \/ (\E n \in mined..nonce : OtherSends(n))
    PROVE  Shape'
<1>1. CASE Start
  BY <1>1 DEF Shape, Start, walletVars
<1>2. CASE \E n \in DOMAIN pool : Evict(n)
  BY <1>2 DEF Shape, Evict
<1>3. ASSUME NEW n \in mined..nonce, OtherSends(n) PROVE Shape'
  BY <1>3, PoolGrows DEF Shape, OtherSends
<1> QED
  BY <1>1, <1>2, <1>3

LEMMA CrashShape == ASSUME Shape, Crash PROVE Shape'
<1>1. ASSUME NEW t \in Tasks PROVE job'[t] \in Jobs
  BY <1>1, UnsentJob DEF Shape, Crash, Jobs
<1>2. job' \in [Tasks -> Jobs]
  BY <1>1 DEF Crash
<1> QED
  BY <1>2 DEF Shape, Crash, walletVars

\* Every step keeps the shape.
LEMMA ShapeStep == ASSUME Shape, [Next]_vars PROVE Shape'
<1>1. CASE Relayer
  <2>1. ASSUME NEW o \in Orders, Handle(o) \/ ReceiptRead(o) \/ (Stuck(o) /\ ReceiptTimesOut(o))
        PROVE  Shape'
    BY <2>1, RelayAssumption, HandlersShape DEF Handle
  <2>2. CASE Drain \/ Sends \/ Reload
    BY <2>2, DrainShape, SendsShape, ReloadShape
  <2>3. CASE Reads
    BY <2>3, SimulateShape DEF Reads
  <2>4. CASE Refused \/ Start
    BY <2>4, SendFailsShape, OthersShape
  <2> QED
    BY <1>1, <2>1, <2>2, <2>3, <2>4 DEF Relayer
<1>2. CASE Chain
  <2> DEFINE ok == pool[mined] # NoTask /\ Quote(pool[mined]) = "ok"
  <2>1. Mine(ok) /\ ok \in BOOLEAN
    BY <1>2 DEF Chain, Mines
  <2> HIDE DEF ok
  <2> QED
    BY <2>1, MineShape
<1>3. CASE Faults
  <2>1. ASSUME NEW o \in Orders, HandlerThrows(o) \/ ReceiptTimesOut(o) PROVE Shape'
    BY <2>1, RelayAssumption, HandlersShape
  <2>2. CASE FailsUnsent \/ FailsSent \/ Crash
    BY <2>2, SendFailsShape, CrashShape
  <2>3. CASE \/ \E n \in DOMAIN pool : Evict(n)
             \/ \E n \in mined..nonce : OtherSends(n)
    BY <2>3, OthersShape
  <2> QED
    BY <1>3, <2>1, <2>2, <2>3 DEF Faults
<1>4. CASE GasPrice \/ (World /\ UNCHANGED <<queueVars, cheap>>) \/ UNCHANGED vars
  BY <1>4, ShapeStays DEF GasPrice, vars
<1>5. ASSUME NEW o \in Orders, Hear(o) PROVE Shape'
  BY <1>5, RelayAssumption, HandlersShape DEF Hear
<1> QED
  BY <1>1, <1>2, <1>3, <1>4, <1>5 DEF Next

-----------------------------------------------------------------------------
(* The places of a task. *)

\* The queue as a sequence: its end, its first and what comes in front of it.
LEMMA SeqAppend ==
    ASSUME NEW S, NEW q \in Seq(S), NEW t \in S
    PROVE  /\ DOMAIN Append(q, t) = DOMAIN q \cup {Len(q) + 1}
           /\ Append(q, t)[Len(q) + 1] = t
           /\ \A i \in DOMAIN q : Append(q, t)[i] = q[i] /\ i # Len(q) + 1
  OBVIOUS
LEMMA SeqTail ==
    ASSUME NEW S, NEW q \in Seq(S), q # <<>>
    PROVE  /\ \A i \in DOMAIN Tail(q) : i + 1 \in DOMAIN q /\ i + 1 # 1 /\ Tail(q)[i] = q[i + 1]
           /\ \A i \in DOMAIN q \ {1} : i - 1 \in DOMAIN Tail(q) /\ Tail(q)[i - 1] = q[i]
           /\ 1 \in DOMAIN q /\ Head(q) = q[1]
           /\ DOMAIN q \subseteq Nat /\ DOMAIN Tail(q) \subseteq Nat
  OBVIOUS
LEMMA SeqCons ==
    ASSUME NEW S, NEW q \in Seq(S), NEW t \in S
    PROVE  LET r == <<t>> \o q IN
           /\ 1 \in DOMAIN r /\ r[1] = t
           /\ \A i \in DOMAIN r : i # 1 => i - 1 \in DOMAIN q /\ r[i] = q[i - 1]
           /\ \A i \in DOMAIN q : i + 1 \in DOMAIN r /\ r[i + 1] = q[i] /\ i + 1 # 1
           /\ DOMAIN q \subseteq Nat /\ DOMAIN r \subseteq Nat
<1> DEFINE r == <<t>> \o q
<1>1. r \in Seq(S) /\ Len(r) = Len(q) + 1 /\ r[1] = t
  OBVIOUS
<1>2. \A i \in 2..Len(r) : r[i] = q[i - 1]
  OBVIOUS
<1> QED
  BY <1>1, <1>2

\* No task enters or leaves the queue.
LEMMA PlacesStay ==
    ASSUME OnePlace, UNCHANGED pending, processing'.task = processing.task,
           \A t \in Tasks : (job'[t].at = "queued") <=> (job[t].at = "queued")
    PROVE  OnePlace'
  BY DEF OnePlace, Waits

LEMMA AddPlace == ASSUME Shape, OnePlace, NEW t \in Tasks, Add(t) PROVE OnePlace'
<1>1. /\ job[t].at = "waiting" /\ job'[t].at = "queued"
      /\ \A u \in Tasks \ {t} : job'[u] = job[u]
  BY JobMoves DEF Shape, Add
<1>2. /\ DOMAIN pending' = DOMAIN pending \cup {Len(pending) + 1}
      /\ pending'[Len(pending) + 1] = t
      /\ \A i \in DOMAIN pending : pending'[i] = pending[i] /\ i # Len(pending) + 1
  BY SeqAppend DEF Shape, Add
<1>3. processing' = processing /\ processing.task # t /\ \A i \in DOMAIN pending : pending[i] # t
  BY <1>1 DEF OnePlace, Waits, Add
<1> QED
  BY <1>1, <1>2, <1>3 DEF OnePlace, Waits

LEMMA DrainPlace == ASSUME Shape, OnePlace, Drain PROVE OnePlace'
<1>1. /\ \A i \in DOMAIN pending' : i + 1 \in DOMAIN pending /\ i + 1 # 1
                                     /\ pending'[i] = pending[i + 1]
      /\ \A i \in DOMAIN pending \ {1} : i - 1 \in DOMAIN pending' /\ pending'[i - 1] = pending[i]
      /\ 1 \in DOMAIN pending /\ processing'.task = pending[1]
      /\ DOMAIN pending \subseteq Nat /\ DOMAIN pending' \subseteq Nat
  BY SeqTail DEF Shape, Drain
<1>2. job' = job /\ processing.task = NoTask /\ NoTask \notin Tasks
  BY RetriesNatural DEF Drain, Nobody
<1>3. \A u \in Tasks : Waits(u) <=> (u = processing'.task \/ Waits(u)')
  BY <1>1 DEF Waits
<1>4. \A i \in DOMAIN pending' : pending'[i] # processing'.task
  BY <1>1 DEF OnePlace
<1>5. \A i, j \in DOMAIN pending' : pending'[i] = pending'[j] => i = j
  <2>1. ASSUME NEW i \in DOMAIN pending', NEW j \in DOMAIN pending', pending'[i] = pending'[j]
        PROVE  i = j
    <3>1. i + 1 = j + 1
      BY <1>1, <2>1 DEF OnePlace
    <3>2. i \in Nat /\ j \in Nat
      BY <1>1
    <3> QED
      BY <3>1, <3>2
  <2> QED
    BY <2>1
<1>6. \A u \in Tasks : (job'[u].at = "queued") <=> (processing'.task = u \/ Waits(u)')
  BY <1>2, <1>3 DEF OnePlace
<1> QED
  BY <1>4, <1>5, <1>6 DEF OnePlace

\* The task being processed leaves for another stage.
LEMMA ProcessedPlace ==
    ASSUME Shape, OnePlace, UNCHANGED pending, processing' = Nobody,
           processing.task \in Tasks, job'[processing.task].at # "queued",
           \A u \in Tasks \ {processing.task} : job'[u] = job[u]
    PROVE  OnePlace'
<1>1. processing'.task \notin Tasks /\ \A i \in DOMAIN pending : pending[i] \in Tasks
  BY RetriesNatural DEF Nobody, Shape
<1> QED
  BY <1>1 DEF OnePlace, Waits

LEMMA ReloadPlace == ASSUME Shape, OnePlace, Reload PROVE OnePlace'
<1> DEFINE t == processing.task
<1>1. t \in Tasks
  BY Submitting DEF Reload
<1>2. /\ 1 \in DOMAIN pending' /\ pending'[1] = t
      /\ \A i \in DOMAIN pending' : i # 1 => i - 1 \in DOMAIN pending /\ pending'[i] = pending[i - 1]
      /\ \A i \in DOMAIN pending : i + 1 \in DOMAIN pending' /\ pending'[i + 1] = pending[i]
      /\ DOMAIN pending \subseteq Nat /\ DOMAIN pending' \subseteq Nat
  BY <1>1, SeqCons DEF Shape, Reload, Requeued
<1>3. job' = job /\ processing'.task = NoTask /\ NoTask \notin Tasks
  BY RetriesNatural DEF Reload, Nobody
<1>4. \A u \in Tasks : Waits(u)' <=> (u = t \/ Waits(u))
  BY <1>2 DEF Waits
<1>5. \A i \in DOMAIN pending : pending[i] # t /\ pending[i] \in Tasks
  BY DEF OnePlace, Shape
<1>6. \A i \in DOMAIN pending' : pending'[i] \in Tasks
  BY <1>1, <1>2, <1>5
<1>7. \A i, j \in DOMAIN pending' : pending'[i] = pending'[j] => i = j
  <2>1. ASSUME NEW i \in DOMAIN pending', NEW j \in DOMAIN pending', pending'[i] = pending'[j]
        PROVE  i = j
    <3>1. i \in Nat /\ j \in Nat
      BY <1>2
    <3>2. CASE i = 1 \/ j = 1
      BY <1>2, <1>5, <2>1, <3>2
    <3>3. CASE i # 1 /\ j # 1
      <4>1. i - 1 = j - 1
        BY <1>2, <2>1, <3>3 DEF OnePlace
      <4> QED
        BY <3>1, <4>1
    <3> QED
      BY <3>2, <3>3
  <2> QED
    BY <2>1
<1>8. \A u \in Tasks : (job'[u].at = "queued") <=> (processing'.task = u \/ Waits(u)')
  BY <1>3, <1>4 DEF OnePlace
<1> QED
  BY <1>3, <1>6, <1>7, <1>8 DEF OnePlace

\* A task that is not in the queue.
LEMMA HandlersPlace ==
    ASSUME Shape, OnePlace, NEW t \in Tasks,
           \/ Arrives(t) \/ HandlerAcks(t) \/ HandlerThrows(t)
           \/ ReceiptRead(t) \/ ReceiptTimesOut(t)
    PROVE  OnePlace'
<1>1. /\ job[t].at # "queued" /\ job'[t].at # "queued"
      /\ \A u \in Tasks \ {t} : job'[u] = job[u]
  BY JobMoves, ThrownJob
     DEF Shape, Arrives, HandlerAcks, HandlerThrows, ReceiptRead, ReceiptTimesOut, Acked
<1>2. UNCHANGED <<pending, processing>>
  BY DEF Arrives, HandlerAcks, HandlerThrows, ReceiptRead, ReceiptTimesOut
<1> QED
  BY <1>1, <1>2, PlacesStay

LEMMA SubmissionPlace ==
    ASSUME Shape, OnePlace,
           \/ \E outcome \in {"ok", "done", "revert"} : Simulate(outcome)
           \/ Sends \/ Refused \/ FailsUnsent \/ FailsSent
    PROVE  OnePlace'
<1> DEFINE t == processing.task
<1>1. t \in Tasks /\ job \in [Tasks -> Jobs]
  BY Submitting DEF Shape, Simulate, Sends, Refused, FailsUnsent, FailsSent, SendFails
<1>2. CASE job' = job /\ processing' = [task |-> t, at |-> "send"] /\ UNCHANGED pending
  BY <1>2, PlacesStay
<1>3. CASE /\ processing' = Nobody /\ UNCHANGED pending
           /\ job' = Acked(t) \/ job' = Thrown(t)
  <2>0. /\ Acked(t)[t].at # "queued" /\ \A u \in Tasks \ {t} : Acked(t)[u] = job[u]
        /\ Thrown(t)[t].at # "queued" /\ \A u \in Tasks \ {t} : Thrown(t)[u] = job[u]
    BY <1>1, JobMoves, ThrownJob DEF Acked
  <2>1. job'[t].at # "queued" /\ \A u \in Tasks \ {t} : job'[u] = job[u]
    BY <1>3, <2>0
  <2> QED
    BY <1>1, <1>3, <2>1, ProcessedPlace
<1>4. CASE Sends
  <2>1. /\ job'[t].at # "queued" /\ \A u \in Tasks \ {t} : job'[u] = job[u]
        /\ UNCHANGED pending /\ processing' = Nobody
    BY <1>1, <1>4 DEF Sends
  <2> QED
    BY <1>1, <2>1, ProcessedPlace
<1>5. CASE \E outcome \in {"ok", "done", "revert"} : Simulate(outcome)
  BY <1>2, <1>3, <1>5 DEF Simulate, Resolves, Rejects
<1>6. CASE Refused \/ FailsUnsent \/ FailsSent
  BY <1>3, <1>6 DEF Refused, FailsUnsent, FailsSent, SendFails, Rejects
<1> QED
  BY <1>4, <1>5, <1>6

LEMMA MinePlace == ASSUME Shape, OnePlace, NEW ok \in BOOLEAN, Mine(ok) PROVE OnePlace'
<1>1. ASSUME NEW t \in Tasks PROVE job'[t].at = job[t].at
  <2>1. PICK j \in Jobs : j = job[t]
    BY DEF Shape
  <2>2. \A r \in {"success", "reverted", "replaced"} : [j EXCEPT !.receipt = r].at = j.at
    BY DEF Jobs
  <2>3. \/ job'[t] = j
        \/ \E r \in {"success", "reverted", "replaced"} : job'[t] = [j EXCEPT !.receipt = r]
    BY <2>1 DEF Mine
  <2> QED
    BY <2>1, <2>2, <2>3
<1> QED
  BY <1>1, PlacesStay DEF Mine

LEMMA CrashPlace == ASSUME Shape, Crash PROVE OnePlace'
<1>1. pending' = <<>> /\ processing'.task \notin Tasks
  BY RetriesNatural DEF Crash, Nobody
<1>2. ASSUME NEW t \in Tasks PROVE job'[t].at # "queued"
  <2>1. job[t].attempts \in Nat
    BY DEF Shape, Jobs
  <2> QED
    BY <2>1, UnsentJob DEF Crash
<1> QED
  BY <1>1, <1>2 DEF OnePlace, Waits

LEMMA PlacesStep == ASSUME Shape, OnePlace, [Next]_vars PROVE OnePlace'
<1>1. CASE UNCHANGED <<job, pending, processing>>
  BY <1>1, PlacesStay
<1>2. CASE Relayer
  <2>1. ASSUME NEW o \in Orders, Handle(o) \/ ReceiptRead(o) \/ (Stuck(o) /\ ReceiptTimesOut(o))
        PROVE  OnePlace'
    BY <2>1, RelayAssumption, HandlersPlace, AddPlace DEF Handle
  <2>2. CASE Drain \/ Reload
    BY <2>2, DrainPlace, ReloadPlace
  <2>3. CASE Reads
    <3>1. Quote(processing.task) \in {"ok", "done", "revert"}
      BY DEF Quote, Outcome
    <3> QED
      BY <2>3, <3>1, SubmissionPlace DEF Reads
  <2>4. CASE Sends \/ Refused
    BY <2>4, SubmissionPlace
  <2>5. CASE Start
    BY <1>1, <2>5 DEF Start
  <2> QED
    BY <1>2, <2>1, <2>2, <2>3, <2>4, <2>5 DEF Relayer
<1>3. CASE Chain
  <2> DEFINE ok == pool[mined] # NoTask /\ Quote(pool[mined]) = "ok"
  <2>1. Mine(ok) /\ ok \in BOOLEAN
    BY <1>3 DEF Chain, Mines
  <2> HIDE DEF ok
  <2> QED
    BY <2>1, MinePlace
<1>4. CASE Faults
  <2>1. ASSUME NEW o \in Orders, HandlerThrows(o) \/ ReceiptTimesOut(o) PROVE OnePlace'
    BY <2>1, RelayAssumption, HandlersPlace
  <2>2. CASE FailsUnsent \/ FailsSent \/ Crash
    BY <2>2, SubmissionPlace, CrashPlace
  <2>3. CASE \/ \E n \in DOMAIN pool : Evict(n)
             \/ \E n \in mined..nonce : OtherSends(n)
    BY <1>1, <2>3 DEF Evict, OtherSends
  <2> QED
    BY <1>4, <2>1, <2>2, <2>3 DEF Faults
<1>5. CASE GasPrice \/ (World /\ UNCHANGED <<queueVars, cheap>>) \/ UNCHANGED vars
  BY <1>1, <1>5 DEF GasPrice, queueVars, vars
<1>6. ASSUME NEW o \in Orders, Hear(o) PROVE OnePlace'
  BY <1>6, RelayAssumption, HandlersPlace DEF Hear
<1> QED
  BY <1>2, <1>3, <1>4, <1>5, <1>6 DEF Next

-----------------------------------------------------------------------------
(* The nonces. *)

LEMMA HandlersKeepNonces ==
    ASSUME NEW t,
           \/ Arrives(t) \/ HandlerAcks(t) \/ HandlerThrows(t) \/ Add(t)
           \/ ReceiptRead(t) \/ ReceiptTimesOut(t)
    PROVE  UNCHANGED <<up, nonce, mined, pool, lost>>
  BY DEF Arrives, HandlerAcks, HandlerThrows, Add, ReceiptRead, ReceiptTimesOut, walletVars

\* The wallet takes a transaction under the queue's nonce.
LEMMA BroadcastGap ==
    ASSUME Shape, NoGap, UNCHANGED up, NEW t \in Tasks, Broadcast(t), nonce' \in {nonce, nonce + 1}
    PROVE  NoGap'
<1>1. /\ DOMAIN pool' = DOMAIN pool \cup {nonce} /\ UNCHANGED mined
      /\ lost => lost'
  BY BroadcastPool
<1> QED
  BY <1>1 DEF NoGap, Shape

LEMMA SendGap ==
    ASSUME Shape, NoGap, Sends \/ Refused \/ FailsUnsent \/ FailsSent PROVE NoGap'
<1>1. processing.task \in Tasks /\ UNCHANGED up
  BY Submitting DEF Sends, Refused, FailsUnsent, FailsSent, SendFails
<1>2. CASE Sends
  BY <1>1, <1>2, BroadcastGap DEF Sends
<1>3. CASE FailsSent
  BY <1>1, <1>3, BroadcastGap DEF FailsSent, SendFails, NonceAfterFailure
<1>4. CASE Refused \/ FailsUnsent
  BY <1>1, <1>4 DEF NoGap, Refused, FailsUnsent, SendFails, NonceAfterFailure, walletVars
<1> QED
  BY <1>2, <1>3, <1>4

LEMMA GapStep == ASSUME Shape, NoGap, [Next]_vars PROVE NoGap'
<1>1. CASE UNCHANGED <<up, nonce, mined, pool, lost>>
  BY <1>1 DEF NoGap
<1>2. CASE Sends \/ Refused \/ FailsUnsent \/ FailsSent
  BY <1>2, SendGap
\* The queue reads its nonce from the chain.
<1>3. CASE Start \/ Reload
  <2>1. nonce' = mined /\ UNCHANGED mined /\ mined \in Nat
    BY <1>3 DEF Shape, Start, Reload, walletVars
  <2>2. mined'..(nonce' - 1) = {}
    BY <2>1
  <2> QED
    BY <2>2 DEF NoGap
<1>4. CASE \E ok \in BOOLEAN : Mine(ok)
  <2>1. /\ mined' = mined + 1 /\ DOMAIN pool' = DOMAIN pool \ {mined}
        /\ UNCHANGED <<up, nonce, lost>>
    BY <1>4 DEF Mine
  <2> QED
    BY <2>1 DEF Shape, NoGap
<1>5. CASE Crash
  BY <1>5 DEF NoGap, Crash
<1>6. CASE \/ \E n \in DOMAIN pool : Evict(n)
           \/ \E n \in mined..nonce : OtherSends(n)
  BY <1>6 DEF Shape, NoGap, Evict, OtherSends
<1>7. CASE Relayer
  <2>1. ASSUME NEW o \in Orders, Handle(o) \/ ReceiptRead(o) \/ (Stuck(o) /\ ReceiptTimesOut(o))
        PROVE  NoGap'
    BY <1>1, <2>1, HandlersKeepNonces DEF Handle
  <2>2. CASE Drain \/ Reads
    BY <1>1, <2>2 DEF Drain, Reads, Simulate, walletVars
  <2> QED
    BY <1>2, <1>3, <1>7, <2>1, <2>2 DEF Relayer
<1>8. CASE Chain
  <2> DEFINE ok == pool[mined] # NoTask /\ Quote(pool[mined]) = "ok"
  <2>1. Mine(ok) /\ ok \in BOOLEAN
    BY <1>8 DEF Chain, Mines
  <2> HIDE DEF ok
  <2> QED
    BY <1>4, <2>1
<1>9. CASE Faults
  <2>1. ASSUME NEW o \in Orders, HandlerThrows(o) \/ ReceiptTimesOut(o) PROVE NoGap'
    BY <1>1, <2>1, HandlersKeepNonces
  <2> QED
    BY <1>2, <1>5, <1>6, <1>9, <2>1 DEF Faults
<1>10. CASE GasPrice \/ (World /\ UNCHANGED <<queueVars, cheap>>) \/ UNCHANGED vars
  BY <1>1, <1>10 DEF GasPrice, queueVars, walletVars, vars
<1>11. ASSUME NEW o \in Orders, Hear(o) PROVE NoGap'
  BY <1>1, <1>11, HandlersKeepNonces DEF Hear
<1> QED
  BY <1>7, <1>8, <1>9, <1>10, <1>11 DEF Next

-----------------------------------------------------------------------------
(* The attempts of a job, and the rest of the types. *)

\* What a step may make of a job.
LEMMA StageCounted ==
    ASSUME NEW t \in Tasks, job \in [Tasks -> Jobs], Jobbed, job[t].at # "failed",
           NEW stage \in {"waiting", "queued", "acked"}, job' = JobAt(t, stage)
    PROVE  Jobbed'
<1>1. /\ job'[t].at = stage /\ job'[t].attempts = job[t].attempts
      /\ \A u \in Tasks \ {t} : job'[u] = job[u]
  BY DEF JobAt, Jobs
<1> QED
  BY <1>1 DEF Jobbed, Counted

LEMMA ThrownCounted ==
    ASSUME NEW t \in Tasks, job \in [Tasks -> Jobs], Jobbed, job[t].at # "failed", job' = Thrown(t)
    PROVE  Jobbed'
<1> DEFINE n == job[t].attempts + 1
<1>1. n \in 0..Retries
  BY RetriesNatural DEF Jobbed, Counted
<1>2. /\ job'[t].attempts = n
      /\ job'[t].at = IF n < Retries THEN "waiting" ELSE "failed"
      /\ \A u \in Tasks \ {t} : job'[u] = job[u]
  BY DEF Thrown, Unsent
<1> QED
  BY <1>1, <1>2 DEF Jobbed, Counted

LEMMA HandlersCounted ==
    ASSUME Shape, Jobbed, NEW t \in Tasks,
           \/ Arrives(t) \/ HandlerAcks(t) \/ HandlerThrows(t) \/ Add(t)
           \/ ReceiptRead(t) \/ ReceiptTimesOut(t)
    PROVE  Jobbed'
<1>1. job \in [Tasks -> Jobs] /\ job[t].at # "failed"
  BY DEF Shape, Arrives, HandlerAcks, HandlerThrows, Add, ReceiptRead, ReceiptTimesOut
<1>2. CASE job' = Thrown(t)
  BY <1>1, <1>2, ThrownCounted
<1>3. CASE \E stage \in {"waiting", "queued", "acked"} : job' = JobAt(t, stage)
  BY <1>1, <1>3, StageCounted
<1> QED
  BY <1>2, <1>3
     DEF Arrives, HandlerAcks, HandlerThrows, Add, ReceiptRead, ReceiptTimesOut, Acked

LEMMA SubmissionCounted ==
    ASSUME Shape, OnePlace, Jobbed,
           (\E outcome : Simulate(outcome)) \/ Sends \/ Refused \/ FailsUnsent \/ FailsSent
    PROVE  Jobbed'
<1> DEFINE t == processing.task
<1>1. t \in Tasks /\ job \in [Tasks -> Jobs]
  BY Submitting DEF Shape, Simulate, Sends, Refused, FailsUnsent, FailsSent, SendFails
<1>2. job[t].at = "queued"
  BY <1>1 DEF OnePlace
<1>3. CASE job' = Thrown(t)
  BY <1>1, <1>2, <1>3, ThrownCounted
<1>4. CASE job' = JobAt(t, "acked")
  BY <1>1, <1>2, <1>4, StageCounted
<1>5. CASE Sends
  <2>1. /\ job'[t].attempts = job[t].attempts /\ job'[t].sent = nonce /\ nonce >= 0
        /\ job'[t].at \in {"awaiting", "acked"} /\ \A u \in Tasks \ {t} : job'[u] = job[u]
    BY <1>1, <1>5 DEF Sends, Shape
  <2> QED
    BY <1>1, <1>2, <2>1 DEF Jobbed, Counted
<1>6. CASE UNCHANGED job
  BY <1>6 DEF Jobbed, Counted
<1>7. CASE \E outcome : Simulate(outcome)
  BY <1>3, <1>4, <1>6, <1>7 DEF Simulate, Resolves, Rejects, Acked
<1>8. CASE Refused \/ FailsUnsent \/ FailsSent
  BY <1>3, <1>8 DEF Refused, FailsUnsent, FailsSent, SendFails, Rejects
<1> QED
  BY <1>5, <1>7, <1>8

LEMMA MineCounted == ASSUME Shape, Jobbed, NEW ok \in BOOLEAN, Mine(ok) PROVE Jobbed'
<1>1. ASSUME NEW t \in Tasks PROVE Counted(job'[t])
  <2>1. PICK j \in Jobs : j = job[t]
    BY DEF Shape
  <2>2. \A r \in {"success", "reverted", "replaced"} :
            LET k == [j EXCEPT !.receipt = r] IN
            k.at = j.at /\ k.attempts = j.attempts /\ k.sent = j.sent
    BY DEF Jobs
  <2>3. \/ job'[t] = j
        \/ \E r \in {"success", "reverted", "replaced"} : job'[t] = [j EXCEPT !.receipt = r]
    BY <2>1 DEF Mine
  <2>4. job'[t].at = j.at /\ job'[t].attempts = j.attempts /\ job'[t].sent = j.sent
    BY <2>2, <2>3
  <2> QED
    BY <2>1, <2>4 DEF Jobbed, Counted
<1> QED
  BY <1>1 DEF Jobbed, Counted

LEMMA CrashCounted == ASSUME Shape, Jobbed, Crash PROVE Jobbed'
<1>1. ASSUME NEW t \in Tasks PROVE Counted(job'[t])
  BY DEF Crash, Unsent, Jobbed, Counted
<1> QED
  BY <1>1 DEF Jobbed, Counted

LEMMA JobbedStep == ASSUME Shape, OnePlace, Jobbed, [Next]_vars PROVE Jobbed'
<1>1. CASE UNCHANGED job
  BY <1>1 DEF Jobbed, Counted
<1>2. CASE Relayer
  <2>1. ASSUME NEW o \in Orders, Handle(o) \/ ReceiptRead(o) \/ (Stuck(o) /\ ReceiptTimesOut(o))
        PROVE  Jobbed'
    BY <2>1, RelayAssumption, HandlersCounted DEF Handle
  <2>2. CASE Reads \/ Sends \/ Refused
    BY <2>2, SubmissionCounted DEF Reads
  <2>3. CASE Drain \/ Reload \/ Start
    BY <1>1, <2>3 DEF Drain, Reload, Start
  <2> QED
    BY <1>2, <2>1, <2>2, <2>3 DEF Relayer
<1>3. CASE Chain
  <2> DEFINE ok == pool[mined] # NoTask /\ Quote(pool[mined]) = "ok"
  <2>1. Mine(ok) /\ ok \in BOOLEAN
    BY <1>3 DEF Chain, Mines
  <2> HIDE DEF ok
  <2> QED
    BY <2>1, MineCounted
<1>4. CASE Faults
  <2>1. ASSUME NEW o \in Orders, HandlerThrows(o) \/ ReceiptTimesOut(o) PROVE Jobbed'
    BY <2>1, RelayAssumption, HandlersCounted
  <2>2. CASE FailsUnsent \/ FailsSent \/ Crash
    BY <2>2, SubmissionCounted, CrashCounted
  <2>3. CASE \/ \E n \in DOMAIN pool : Evict(n)
             \/ \E n \in mined..nonce : OtherSends(n)
    BY <1>1, <2>3 DEF Evict, OtherSends
  <2> QED
    BY <1>4, <2>1, <2>2, <2>3 DEF Faults
<1>5. CASE GasPrice \/ (World /\ UNCHANGED <<queueVars, cheap>>) \/ UNCHANGED vars
  BY <1>1, <1>5 DEF GasPrice, queueVars, vars
<1>6. ASSUME NEW o \in Orders, Hear(o) PROVE Jobbed'
  BY <1>6, RelayAssumption, HandlersCounted DEF Hear
<1> QED
  BY <1>2, <1>3, <1>4, <1>5, <1>6 DEF Next

LEMMA HandlersTyped ==
    ASSUME Shape, QueueTypes, UNCHANGED cheap, NEW t,
           \/ Arrives(t) \/ HandlerAcks(t) \/ HandlerThrows(t) \/ Add(t)
           \/ ReceiptRead(t) \/ ReceiptTimesOut(t)
    PROVE  QueueTypes'
<1>1. UNCHANGED <<up, pool, lost>>
  BY HandlersKeepNonces
<1> QED
  BY <1>1 DEF QueueTypes

LEMMA SubmissionTyped ==
    ASSUME Shape, QueueTypes, UNCHANGED cheap, Sends \/ Refused \/ FailsUnsent \/ FailsSent
    PROVE  QueueTypes'
<1>1. processing.task \in Tasks /\ UNCHANGED up
  BY Submitting DEF Sends, Refused, FailsUnsent, FailsSent, SendFails
<1>2. CASE Broadcast(processing.task)
  <2>1. DOMAIN pool' = DOMAIN pool \cup {nonce} /\ nonce \in Nat
    BY <1>1, <1>2, BroadcastPool DEF Shape
  <2>2. lost' \in BOOLEAN
    BY <1>2 DEF QueueTypes, Broadcast
  <2> QED
    BY <1>1, <2>1, <2>2 DEF QueueTypes
<1>3. CASE UNCHANGED walletVars
  BY <1>1, <1>3 DEF QueueTypes, walletVars
<1> QED
  BY <1>2, <1>3 DEF Sends, Refused, FailsUnsent, FailsSent

LEMMA WalletTyped ==
    ASSUME Shape, QueueTypes, UNCHANGED cheap,
           \/ \E ok \in BOOLEAN : Mine(ok)
           \/ \E n \in DOMAIN pool : Evict(n)
           \/ \E n \in mined..nonce : OtherSends(n)
    PROVE  QueueTypes'
<1>1. CASE \E ok \in BOOLEAN : Mine(ok)
  BY <1>1 DEF QueueTypes, Mine
<1>2. CASE \E n \in DOMAIN pool : Evict(n)
  BY <1>2 DEF QueueTypes, Evict
<1>3. ASSUME NEW n \in mined..nonce, OtherSends(n) PROVE QueueTypes'
  <2>1. n \in Nat /\ DOMAIN pool' = DOMAIN pool \cup {n} /\ UNCHANGED up
    BY <1>3 DEF Shape, OtherSends
  <2>2. lost' \in BOOLEAN
    BY <1>3 DEF QueueTypes, OtherSends
  <2> QED
    BY <2>1, <2>2 DEF QueueTypes
<1> QED
  BY <1>1, <1>2, <1>3

LEMMA QueueTypesStep == ASSUME Shape, QueueTypes, [Next]_vars PROVE QueueTypes'
<1>1. CASE UNCHANGED <<up, pool, lost, cheap>>
  BY <1>1 DEF QueueTypes
<1>2. CASE Relayer
  <2>1. ASSUME NEW o \in Orders, Handle(o) \/ ReceiptRead(o) \/ (Stuck(o) /\ ReceiptTimesOut(o))
        PROVE  QueueTypes'
    BY <1>2, <2>1, HandlersTyped DEF Relayer, Handle
  <2>2. CASE Sends \/ Refused
    BY <1>2, <2>2, SubmissionTyped DEF Relayer
  <2>3. CASE Drain \/ Reads \/ Reload
    BY <1>1, <1>2, <2>3 DEF Relayer, Drain, Reads, Simulate, Reload, walletVars
  <2>4. CASE Start
    BY <1>2, <2>4 DEF Relayer, Start, QueueTypes, walletVars
  <2> QED
    BY <1>2, <2>1, <2>2, <2>3, <2>4 DEF Relayer
<1>3. CASE Chain
  <2> DEFINE ok == pool[mined] # NoTask /\ Quote(pool[mined]) = "ok"
  <2>1. Mine(ok) /\ ok \in BOOLEAN /\ UNCHANGED cheap
    BY <1>3 DEF Chain, Mines
  <2> HIDE DEF ok
  <2> QED
    BY <2>1, WalletTyped
<1>4. CASE Faults
  <2>0. UNCHANGED cheap
    BY <1>4 DEF Faults
  <2>1. ASSUME NEW o \in Orders, HandlerThrows(o) \/ ReceiptTimesOut(o) PROVE QueueTypes'
    BY <2>0, <2>1, HandlersTyped
  <2>2. CASE FailsUnsent \/ FailsSent
    BY <2>0, <2>2, SubmissionTyped
  <2>3. CASE Crash
    BY <2>0, <2>3 DEF Crash, QueueTypes, walletVars
  <2>4. CASE \/ \E n \in DOMAIN pool : Evict(n)
             \/ \E n \in mined..nonce : OtherSends(n)
    BY <2>0, <2>4, WalletTyped
  <2> QED
    BY <1>4, <2>1, <2>2, <2>3, <2>4 DEF Faults
<1>5. CASE GasPrice
  BY <1>5 DEF GasPrice, QueueTypes, queueVars, walletVars
<1>6. CASE (World /\ UNCHANGED <<queueVars, cheap>>) \/ UNCHANGED vars
  BY <1>1, <1>6 DEF queueVars, walletVars, vars
<1>7. ASSUME NEW o \in Orders, Hear(o) PROVE QueueTypes'
  BY <1>7, HandlersTyped DEF Hear
<1> QED
  BY <1>2, <1>3, <1>4, <1>5, <1>6, <1>7 DEF Next

-----------------------------------------------------------------------------
(* The contracts. *)

\* The instruction of a call that succeeds is the settlement's own, and nobody
\* forwarded that settlement.
LEMMA OutcomeOk ==
    ASSUME IntentInv, NEW s \in Orders, NEW c, NEW v, Outcome(c, s, v) = "ok"
    PROVE  /\ v = Instruction(s) /\ v[1] = s /\ v \in signed /\ ~Processed(s)
           /\ settlement[s] \in {"signed", "released"}
           /\ balance + Delivers(s) >= amount[s]
<1>1. /\ v \in signed /\ v \notin processed /\ v[1] = s /\ Released(s)
      /\ balance + Delivers(s) >= amount[s]
  BY DEF Outcome
<1>2. v = Instruction(s)
  BY <1>1 DEF IntentInv, SignedOnce
<1>3. ~Processed(s)
  <2>1. ASSUME NEW w \in processed, w[1] = s PROVE FALSE
    BY <1>1, <1>2, <2>1 DEF IntentInv, SignedOnce
  <2> QED
    BY <2>1 DEF Processed
<1> QED
  BY <1>1, <1>2, <1>3 DEF Released

\* What one order forwards is its own.
LEMMA ProcessOrderInv ==
    ASSUME IntentInv, NEW s \in Orders, NEW c, NEW v, Outcome(c, s, v) = "ok", ProcessOrder(s, v)
    PROVE  IntentInv'
<1>1. /\ v = Instruction(s) /\ v[1] = s /\ v \in signed /\ ~Processed(s)
      /\ settlement[s] \in {"signed", "released"}
  BY OutcomeOk
<1>2. /\ amount[s] \in Nat /\ forwarded[s] = 0
      /\ settlement'[s] = "released" /\ forwarded'[s] = amount[s]
      /\ \A o \in Orders \ {s} : settlement'[o] = settlement[o] /\ forwarded'[o] = forwarded[o]
      /\ UNCHANGED <<published, amount, age, signed>>
  BY <1>1 DEF IntentInv, IntentTypes, ForwardedOnce, ProcessOrder
<1>3. processed' = processed \cup {v}
  BY DEF ProcessOrder, Consume
<1>4. \A o \in Orders : Processed(o)' <=> (Processed(o) \/ o = s)
  BY <1>1, <1>3 DEF Processed
<1>5. IntentTypes'
  BY <1>2 DEF IntentInv, IntentTypes, ProcessOrder
<1>6. Numbered'
  BY <1>1, <1>2 DEF IntentInv, Numbered, Placed
<1>7. SignedOnce'
  BY <1>1, <1>2, <1>3 DEF IntentInv, SignedOnce, Signed, Instruction
<1>8. Settled' /\ ForwardedOnce'
  BY <1>2, <1>4 DEF IntentInv, Settled, ForwardedOnce
<1> QED
  BY <1>5, <1>6, <1>7, <1>8 DEF IntentInv

LEMMA IntentStays ==
    ASSUME IntentInv, UNCHANGED <<orderVars, processed, forwarded>>
    PROVE  IntentInv'
  BY DEF IntentInv, IntentTypes, Numbered, SignedOnce, Settled, ForwardedOnce, Placed, Signed,
     Instruction, Processed, orderVars

\* An order whose settlement is not signed has no instruction signed, and none
\* processed: its sequence may be given out again.
LEMMA NotSigned ==
    ASSUME IntentInv, NEW o \in Orders, ~Signed(o)
    PROVE  /\ \A v \in signed : v[1] # o
           /\ ~Processed(o) /\ forwarded[o] = 0
<1>1. \A v \in signed : v[1] # o
  BY DEF IntentInv, SignedOnce
<1>2. ~Processed(o)
  BY <1>1 DEF IntentInv, SignedOnce, Processed
<1> QED
  BY <1>1, <1>2 DEF IntentInv, ForwardedOnce

LEMMA PublishedInv ==
    ASSUME IntentInv, NEW o \in Orders,
           (\E a \in Amounts : PlaceOrder(o, a)) \/ Finalizes(o) \/ Reorgs(o)
    PROVE  IntentInv'
<1>1. settlement[o] \in {"none", "published"} /\ UNCHANGED <<age, processed, forwarded>>
  BY DEF PlaceOrder, Finalizes, Reorgs, Placed, payVars
<1>2. /\ \A v \in signed : v[1] # o
      /\ ~Processed(o) /\ forwarded[o] = 0
  BY <1>1, NotSigned DEF Signed
<1>3. /\ settlement'[o] \in {"none", "published", "signed"}
      /\ published'[o] \in {published[o], published[o] + 1}
      /\ settlement'[o] # "none" => published'[o] # 0
      /\ \A u \in Orders \ {o} : /\ settlement'[u] = settlement[u] /\ amount'[u] = amount[u]
                                 /\ published'[u] = published[u]
      /\ \/ signed' = signed
         \/ signed' = signed \cup {<<o, published'[o]>>} /\ settlement'[o] = "signed"
  BY DEF PlaceOrder, Finalizes, Reorgs, SignedAtPlacement, Instruction, IntentInv, IntentTypes,
     Numbered, Placed
<1>4. IntentTypes'
  BY <1>1, IntentAssumption DEF IntentInv, IntentTypes, PlaceOrder, Finalizes, Reorgs
<1>5. Numbered'
  BY <1>3 DEF IntentInv, Numbered, Placed
<1>6. SignedOnce'
  <2>1. ASSUME NEW v \in signed
        PROVE  v[1] \in Orders /\ Signed(v[1])' /\ v = Instruction(v[1])'
    BY <1>2, <1>3 DEF IntentInv, SignedOnce, Signed, Instruction
  <2>2. \A v \in signed' \ signed : v[1] = o /\ Signed(o)' /\ v = Instruction(o)'
    BY <1>3 DEF Signed, Instruction
  <2>3. processed' \subseteq signed'
    BY <1>1, <1>3 DEF IntentInv, SignedOnce
  <2> QED
    BY <2>1, <2>2, <2>3 DEF SignedOnce
<1>7. \A u \in Orders : Processed(u)' <=> Processed(u)
  BY <1>1 DEF Processed
<1>8. Settled' /\ ForwardedOnce'
  BY <1>1, <1>2, <1>3, <1>7 DEF IntentInv, Settled, ForwardedOnce
<1> QED
  BY <1>4, <1>5, <1>6, <1>8 DEF IntentInv

\* The rail moves a settlement that was signed or queued.
LEMMA RailInv ==
    ASSUME IntentInv, NEW o \in Orders, AnyoneDelivers(o) \/ CompletesQueued(o) PROVE IntentInv'
<1>1. /\ settlement[o] \in {"signed", "queued"} /\ settlement'[o] \in {"queued", "released"}
      /\ \A u \in Orders \ {o} : settlement'[u] = settlement[u]
      /\ UNCHANGED <<published, amount, age, signed, processed, forwarded>>
  BY DEF IntentInv, IntentTypes, AnyoneDelivers, CompletesQueued
<1>2. IntentTypes'
  BY DEF IntentInv, IntentTypes, AnyoneDelivers, CompletesQueued
<1>3. ~Processed(o) /\ \A u \in Orders : Processed(u)' <=> Processed(u)
  BY <1>1 DEF IntentInv, Settled, Processed
<1>4. Numbered' /\ SignedOnce'
  BY <1>1 DEF IntentInv, Numbered, SignedOnce, Placed, Signed, Instruction
<1>5. Settled' /\ ForwardedOnce'
  BY <1>1, <1>3 DEF IntentInv, Settled, ForwardedOnce
<1> QED
  BY <1>2, <1>4, <1>5 DEF IntentInv

LEMMA AgesInv == ASSUME IntentInv, NEW o \in Orders, Ages(o) PROVE IntentInv'
<1>1. IntentTypes' /\ UNCHANGED <<published, amount, settlement, signed, processed, forwarded>>
  BY DEF IntentInv, IntentTypes, Ages, payVars
<1> QED
  BY <1>1 DEF IntentInv, Numbered, SignedOnce, Settled, ForwardedOnce, Placed, Signed,
     Instruction, Processed

LEMMA WorldInv == ASSUME IntentInv, World PROVE IntentInv'
<1>1. ASSUME NEW o \in Orders, NEW c \in Callers, NEW v \in signed, AnyoneProcesses(c, o, v)
      PROVE  IntentInv'
  BY <1>1, ProcessOrderInv DEF AnyoneProcesses
<1>2. CASE \/ LimitMoves \/ SetEmitter \/ \E c \in Callers : SetAuthorizedRelayer(c)
           \/ \E o \in Orders : RefusalMoves(o)
           \/ \E n \in Amounts : Receive(n) \/ Sweep(n)
  BY <1>2, IntentStays DEF LimitMoves, SetEmitter, SetAuthorizedRelayer, RefusalMoves, Receive,
     Sweep, payVars
<1> QED
  BY <1>1, <1>2, PublishedInv, RailInv, AgesInv DEF World

LEMMA IntentStep == ASSUME Shape, IntentInv, [Next]_vars PROVE IntentInv'
<1>1. CASE Chain
  <2> DEFINE t == pool[mined]
             ok == t # NoTask /\ Quote(t) = "ok"
  <2>1. CASE ok
    <3>1. t \in Orders /\ ProcessOrder(t, Instruction(t))
      BY <1>1, <2>1, RelayAssumption DEF Chain, Mines, Shape
    <3> QED
      BY <2>1, <3>1, ProcessOrderInv DEF Quote
  <2>2. CASE ~ok
    BY <1>1, <2>2, IntentStays DEF Chain, Mines, intentVars, contractVars, orderVars, payVars
  <2> QED
    BY <2>1, <2>2
<1>2. CASE World /\ UNCHANGED <<queueVars, cheap>>
  BY <1>2, WorldInv
<1>3. CASE Relayer \/ Faults \/ GasPrice \/ (\E o \in Orders : Hear(o)) \/ UNCHANGED vars
  BY <1>3, IntentStays DEF Relayer, Faults, GasPrice, Hear, vars, intentVars, contractVars,
     orderVars, payVars
<1> QED
  BY <1>1, <1>2, <1>3 DEF Next

-----------------------------------------------------------------------------
(* The receiver's balance: a step changes what it holds for one order, and   *)
(* its balance by as much.                                                   *)

HeldFn == [o \in Orders |-> HeldFor(o)]

HeldTerms == \A o \in Orders : HeldFor(o) \in Int

LEMMA HeldIsInt == IntentInv => HeldTerms
  BY DEF IntentInv, IntentTypes, HeldFor, HeldTerms

LEMMA SumOfHeld == Held = SumFunction(HeldFn)
  BY DEF Held, HeldFn

LEMMA HeldChanges ==
    ASSUME IntentInv, IntentInv', NEW o \in Orders,
           \A u \in Orders \ {o} : HeldFor(u)' = HeldFor(u)
    PROVE  Held' = Held - HeldFor(o) + HeldFor(o)'
<1>1. IsFiniteSet(Orders)
  BY IntentAssumption
<1>2. \A u \in Orders : HeldFor(u) \in Int
  BY HeldIsInt DEF HeldTerms
<1>3. HeldFor(o)' \in Int
  <2>1. HeldTerms'
    BY HeldIsInt, PTL
  <2> QED
    BY <2>1 DEF HeldTerms
<1>4. /\ DOMAIN HeldFn = Orders /\ DOMAIN HeldFn' = Orders
      /\ HeldFn[o] = HeldFor(o) /\ HeldFn'[o] = HeldFor(o)'
      /\ \A u \in Orders : HeldFn[u] \in Int
      /\ \A u \in Orders \ {o} : HeldFn'[u] = HeldFn[u]
  BY <1>2 DEF HeldFn
<1>5. SumFunction(HeldFn') = SumFunction(HeldFn) - HeldFn[o] + HeldFn'[o]
  BY <1>1, <1>3, <1>4, SumChanges
<1>6. Held' = SumFunction(HeldFn')
  BY DEF Held, HeldFn
<1> QED
  BY <1>4, <1>5, <1>6, SumOfHeld

LEMMA HeldIsSum == IntentInv => Held \in Int
<1> SUFFICES ASSUME IntentInv PROVE Held \in Int
  OBVIOUS
<1>1. SumFunctionOnSet(HeldFn, DOMAIN HeldFn) \in Int
  BY HeldIsInt, SumInt, IntentAssumption DEF HeldTerms, HeldFn
<1> QED
  BY <1>1, SumOnDomain, SumOfHeld

\* A step that moves one order's amount between the rail and the receiver.
LEMMA BalanceFollows ==
    ASSUME IntentInv, IntentInv', InTheReceiver, NEW o \in Orders, UNCHANGED stray,
           \A u \in Orders \ {o} : HeldFor(u)' = HeldFor(u),
           balance' = balance - HeldFor(o) + HeldFor(o)', balance' \in Nat
    PROVE  InTheReceiver'
<1>1. Held' = Held - HeldFor(o) + HeldFor(o)'
  BY HeldChanges
<1>2. Held \in Int /\ HeldFor(o) \in Int /\ HeldFor(o)' \in Int
  <2>1. HeldTerms /\ HeldTerms'
    BY HeldIsInt, PTL
  <2> QED
    BY <2>1, HeldIsSum DEF HeldTerms
<1> QED
  BY <1>1, <1>2 DEF InTheReceiver

\* A step that moves no order's: what it brings or takes is counted apart.
LEMMA HeldStays ==
    ASSUME \A o \in Orders : HeldFor(o)' = HeldFor(o) PROVE Held' = Held
<1>1. HeldFn' = HeldFn
  BY DEF HeldFn
<1>2. Held' = SumFunction(HeldFn')
  BY DEF Held, HeldFn
<1> QED
  BY <1>1, <1>2, SumOfHeld

LEMMA BalanceStays ==
    ASSUME InTheReceiver, UNCHANGED <<balance, stray>>, \A o \in Orders : HeldFor(o)' = HeldFor(o)
    PROVE  InTheReceiver'
  BY HeldStays DEF InTheReceiver

LEMMA StrayBalance ==
    ASSUME IntentInv, InTheReceiver, NEW n \in Amounts, Receive(n) \/ Sweep(n)
    PROVE  InTheReceiver'
<1>1. n \in Nat /\ Held \in Int
  BY IntentAssumption, HeldIsSum
<1>2. UNCHANGED <<amount, settlement, forwarded>>
  BY DEF Receive, Sweep, orderVars
<1>3. Held' = Held
  BY <1>2, HeldStays DEF HeldFor
<1>4. CASE Receive(n)
  BY <1>1, <1>3, <1>4 DEF InTheReceiver, Receive
<1>5. CASE Sweep(n)
  BY <1>1, <1>3, <1>5 DEF InTheReceiver, Sweep
<1> QED
  BY <1>4, <1>5

LEMMA ProcessOrderBalance ==
    ASSUME IntentInv, IntentInv', InTheReceiver, NEW s \in Orders, NEW c, NEW v,
           Outcome(c, s, v) = "ok", ProcessOrder(s, v)
    PROVE  InTheReceiver'
<1>1. /\ ~Processed(s) /\ settlement[s] \in {"signed", "released"}
      /\ balance + (IF settlement[s] = "signed" THEN amount[s] ELSE 0) >= amount[s]
  BY OutcomeOk DEF Delivers
<1>2. amount[s] \in Nat /\ forwarded[s] = 0 /\ balance \in Nat
  BY <1>1 DEF IntentInv, IntentTypes, ForwardedOnce, InTheReceiver
<1>3. /\ settlement'[s] = "released" /\ amount'[s] = amount[s] /\ UNCHANGED stray
      /\ forwarded'[s] = forwarded[s] + amount[s]
      /\ balance' = balance + (IF settlement[s] = "signed" THEN amount[s] ELSE 0) - amount[s]
      /\ \A u \in Orders \ {s} : /\ settlement'[u] = settlement[u] /\ amount'[u] = amount[u]
                                 /\ forwarded'[u] = forwarded[u]
  BY <1>1 DEF ProcessOrder, Delivers, IntentInv, IntentTypes
<1>4. HeldFor(s)' = 0 /\ HeldFor(s) = (IF settlement[s] = "signed" THEN 0 ELSE amount[s])
  BY <1>1, <1>2, <1>3 DEF HeldFor
<1>5. \A u \in Orders \ {s} : HeldFor(u)' = HeldFor(u)
  BY <1>3 DEF HeldFor
<1>6. balance' = balance - HeldFor(s) + HeldFor(s)' /\ balance' \in Nat
  BY <1>1, <1>2, <1>3, <1>4
<1> QED
  BY <1>3, <1>5, <1>6, BalanceFollows

LEMMA RailBalance ==
    ASSUME IntentInv, IntentInv', InTheReceiver, NEW o \in Orders,
           AnyoneDelivers(o) \/ CompletesQueued(o)
    PROVE  InTheReceiver'
<1>1. /\ settlement[o] \in {"signed", "queued"} /\ amount' = amount /\ forwarded' = forwarded
      /\ UNCHANGED stray
      /\ \A u \in Orders \ {o} : settlement'[u] = settlement[u]
      /\ \/ settlement'[o] = "queued" /\ balance' = balance
         \/ settlement'[o] = "released" /\ balance' = balance + amount[o]
  BY DEF AnyoneDelivers, CompletesQueued, IntentInv, IntentTypes
\* Nothing was forwarded of a settlement that had not been released.
<1>2. amount[o] \in Nat /\ balance \in Nat /\ forwarded[o] \in Nat
  BY DEF IntentInv, IntentTypes, InTheReceiver
<1>3. forwarded[o] = 0
  BY <1>1 DEF IntentInv, ForwardedOnce, Settled
<1>4. HeldFor(o) = 0 /\ HeldFor(o)' = (IF settlement'[o] = "released" THEN amount[o] ELSE 0)
  BY <1>1, <1>2, <1>3 DEF HeldFor
<1>5. \A u \in Orders \ {o} : HeldFor(u)' = HeldFor(u)
  BY <1>1 DEF HeldFor
<1>6. balance' = balance - HeldFor(o) + HeldFor(o)' /\ balance' \in Nat
  BY <1>1, <1>2, <1>4
<1> QED
  BY <1>1, <1>5, <1>6, BalanceFollows

\* Nothing is held for an order before its settlement is released.
LEMMA PublishedBalance ==
    ASSUME IntentInv, InTheReceiver, NEW o \in Orders,
           (\E a \in Amounts : PlaceOrder(o, a)) \/ Finalizes(o) \/ Reorgs(o)
    PROVE  InTheReceiver'
<1>1. /\ settlement[o] # "released" /\ settlement'[o] # "released"
      /\ forwarded' = forwarded /\ UNCHANGED <<balance, stray>>
      /\ \A u \in Orders \ {o} : settlement'[u] = settlement[u] /\ amount'[u] = amount[u]
  BY DEF IntentInv, IntentTypes, PlaceOrder, Finalizes, Reorgs, Placed, payVars
<1>2. \A u \in Orders : HeldFor(u)' = HeldFor(u)
  BY <1>1 DEF HeldFor
<1> QED
  BY <1>1, <1>2, BalanceStays

LEMMA BalanceStep ==
    ASSUME Shape, IntentInv, IntentInv', InTheReceiver, [Next]_vars PROVE InTheReceiver'
<1>1. CASE UNCHANGED <<amount, settlement, forwarded, balance, stray>>
  BY <1>1, BalanceStays DEF HeldFor
<1>2. CASE Chain
  <2> DEFINE t == pool[mined]
             ok == t # NoTask /\ Quote(t) = "ok"
  <2>1. CASE ok
    <3>1. t \in Orders /\ ProcessOrder(t, Instruction(t))
      BY <1>2, <2>1, RelayAssumption DEF Chain, Mines, Shape
    <3> QED
      BY <2>1, <3>1, ProcessOrderBalance DEF Quote
  <2>2. CASE ~ok
    BY <1>1, <1>2, <2>2 DEF Chain, Mines, intentVars, contractVars, orderVars, payVars
  <2> QED
    BY <2>1, <2>2
<1>3. CASE World
  <2>1. ASSUME NEW o \in Orders, NEW c \in Callers, NEW v \in signed, AnyoneProcesses(c, o, v)
        PROVE  InTheReceiver'
    BY <2>1, ProcessOrderBalance DEF AnyoneProcesses
  <2>2. CASE LimitMoves \/ SetEmitter \/ (\E c \in Callers : SetAuthorizedRelayer(c))
             \/ \E o \in Orders : Ages(o) \/ RefusalMoves(o)
    BY <1>1, <2>2 DEF LimitMoves, SetEmitter, SetAuthorizedRelayer, Ages, RefusalMoves,
       orderVars, payVars
  <2> QED
    BY <1>3, <2>1, <2>2, RailBalance, PublishedBalance, StrayBalance DEF World
<1>4. CASE Relayer \/ Faults \/ GasPrice \/ (\E o \in Orders : Hear(o)) \/ UNCHANGED vars
  BY <1>1, <1>4 DEF Relayer, Faults, GasPrice, Hear, vars, intentVars, contractVars, orderVars,
     payVars
<1> QED
  BY <1>2, <1>3, <1>4 DEF Next

LEMMA InitBalance == Init => InTheReceiver
<1> SUFFICES ASSUME Init PROVE InTheReceiver
  OBVIOUS
<1>1. \A o \in Orders : HeldFor(o) = 0
  BY DEF Init, IntentInit, HeldFor
<1>2. /\ DOMAIN HeldFn = Orders
      /\ \A o \in Orders : HeldFn[o] = 0
  BY <1>1 DEF HeldFn
<1>3. SumFunctionOnSet(HeldFn, DOMAIN HeldFn) = 0
  BY <1>2, SumZero, IntentAssumption
<1>4. balance = 0 /\ stray = 0
  BY DEF Init, IntentInit
<1> QED
  BY <1>3, <1>4, SumOnDomain, SumOfHeld DEF InTheReceiver

LEMMA DisturbTyped ==
    ASSUME disturbances \in 0..MaxDisturbances, Disturb \/ UNCHANGED disturbances
    PROVE  disturbances' \in 0..MaxDisturbances
  BY IntentAssumption DEF Disturb

LEMMA ContractTypesStep == ASSUME Shape, ContractTypes, [Next]_vars PROVE ContractTypes'
<1>1. CASE /\ UNCHANGED <<amount, authorizedRelayer, configured, refusing, limited>>
           /\ Disturb \/ UNCHANGED disturbances
  BY <1>1, DisturbTyped DEF ContractTypes
<1>2. CASE Chain
  BY <1>1, <1>2 DEF Chain, Mines, ProcessOrder, intentVars, contractVars, orderVars, ownerVars
<1>3. CASE World
  <2>1. ASSUME NEW o \in Orders, (\E a \in Amounts : PlaceOrder(o, a)) \/ Reorgs(o)
        PROVE  ContractTypes'
    <3>1. amount' \in [Orders -> Amounts \cup {0}]
      BY <2>1 DEF ContractTypes, PlaceOrder, Reorgs
    <3>2. UNCHANGED <<authorizedRelayer, configured, refusing, limited>>
      BY <2>1 DEF PlaceOrder, Reorgs, ownerVars
    <3>3. Disturb \/ UNCHANGED disturbances
      BY <2>1 DEF PlaceOrder, Reorgs
    <3> QED
      BY <3>1, <3>2, <3>3, DisturbTyped DEF ContractTypes
  <2>2. ASSUME NEW o \in Orders, NEW c, NEW v, AnyoneProcesses(c, o, v) PROVE ContractTypes'
    BY <1>1, <2>2 DEF AnyoneProcesses, ProcessOrder, ownerVars
  <2>3. ASSUME NEW o \in Orders, Finalizes(o) \/ AnyoneDelivers(o) \/ CompletesQueued(o) \/ Ages(o)
        PROVE  ContractTypes'
    BY <1>1, <2>3 DEF Finalizes, AnyoneDelivers, CompletesQueued, Ages, ownerVars
  <2>4. CASE LimitMoves
    BY <2>4, DisturbTyped DEF LimitMoves, ContractTypes, orderVars, ownerVars
  <2>5. CASE SetEmitter
    BY <2>5, DisturbTyped DEF SetEmitter, ContractTypes, orderVars
  <2>6. ASSUME NEW c \in Callers, SetAuthorizedRelayer(c) PROVE ContractTypes'
    <3>1. authorizedRelayer' \subseteq Callers
      BY <2>6 DEF SetAuthorizedRelayer, ContractTypes
    <3> QED
      BY <2>6, <3>1, DisturbTyped DEF SetAuthorizedRelayer, ContractTypes, orderVars
  <2>7. ASSUME NEW o \in Orders, RefusalMoves(o) PROVE ContractTypes'
    <3>1. refusing' \subseteq Orders
      BY <2>7 DEF RefusalMoves, ContractTypes
    <3> QED
      BY <2>7, <3>1, DisturbTyped DEF RefusalMoves, ContractTypes, orderVars, ownerVars
  <2>8. ASSUME NEW n \in Amounts, Receive(n) \/ Sweep(n) PROVE ContractTypes'
    BY <1>1, <2>8 DEF Receive, Sweep, orderVars, ownerVars
  <2> QED
    BY <1>3, <2>1, <2>2, <2>3, <2>4, <2>5, <2>6, <2>7, <2>8 DEF World
<1>4. CASE Relayer \/ (\E o \in Orders : Hear(o)) \/ UNCHANGED vars
  BY <1>1, <1>4 DEF Relayer, Hear, vars, intentVars, contractVars, orderVars, ownerVars
<1>5. CASE Faults \/ GasPrice
  BY <1>1, <1>5 DEF Faults, GasPrice, contractVars, orderVars, ownerVars
<1> QED
  BY <1>2, <1>3, <1>4, <1>5 DEF Next

-----------------------------------------------------------------------------
(* The outcomes. *)

\* What an ack rests on lasts.
Lasts ==
    /\ UNCHANGED awaits /\ processed \subseteq processed'
    /\ \A o \in Orders : age[o] = "stale" => age'[o] = "stale"
\* What a step does to a job.
Follows(o) ==
    /\ job'[o].receipt = "success" => job[o].receipt = "success" \/ Processed(o)'
    /\ job'[o].at = "acked" =>
           \/ job[o].at = "acked" /\ job'[o].sent = job[o].sent
           \/ Processed(o)'
           \/ ~awaits' /\ (age'[o] = "stale" \/ job'[o].sent >= 0)

LEMMA OutcomesFollow ==
    ASSUME Outcomes, Lasts, \A o \in Orders : Follows(o) PROVE Outcomes'
  BY DEF Outcomes, Sound, Lasts, Follows, Processed

\* A job that is tried again, waits or is queued claims nothing.
LEMMA OpenFollows ==
    ASSUME Shape, NEW t \in Orders,
           \/ Arrives(t) \/ HandlerThrows(t) \/ Add(t) \/ ReceiptTimesOut(t)
    PROVE  \A o \in Orders : Follows(o)
<1>0. t \in Tasks /\ job \in [Tasks -> Jobs]
  BY RelayAssumption DEF Shape
<1>1. CASE job' = Thrown(t)
  BY <1>0, <1>1, ThrownJob, RelayAssumption DEF Follows
<1>2. ASSUME NEW stage \in {"waiting", "queued"}, job' = JobAt(t, stage)
      PROVE  \A o \in Orders : Follows(o)
  <2>1. /\ job'[t].at = stage /\ job'[t].receipt = job[t].receipt
        /\ \A u \in Tasks \ {t} : job'[u] = job[u]
    BY <1>0, <1>2, JobMoves
  <2> QED
    BY <1>2, <2>1, RelayAssumption DEF Follows
<1> QED
  BY <1>1, <1>2 DEF Arrives, HandlerThrows, Add, ReceiptTimesOut

\* An ack for a consumed instruction, or of an app that gives it up.
LEMMA AckFollows ==
    ASSUME Shape, NEW t \in Orders, job' = Acked(t),
           Processed(t)' \/ (~awaits' /\ age'[t] = "stale")
    PROVE  \A o \in Orders : Follows(o)
<1>1. t \in Tasks /\ job \in [Tasks -> Jobs]
  BY RelayAssumption DEF Shape
<1>2. /\ job'[t].receipt = job[t].receipt
      /\ \A u \in Tasks \ {t} : job'[u] = job[u]
  BY <1>1, JobMoves DEF Acked
<1> QED
  BY <1>1, <1>2, RelayAssumption DEF Follows

\* So does one that is thrown back.
LEMMA ThrownFollows ==
    ASSUME Shape, NEW t \in Tasks, job' = Thrown(t)
    PROVE  \A o \in Orders : Follows(o)
<1>1. job \in [Tasks -> Jobs]
  BY DEF Shape
<1>2. /\ job'[t].at \in {"waiting", "failed"} /\ job'[t].receipt = "none"
      /\ \A u \in Tasks \ {t} : job'[u] = job[u]
  BY <1>1, ThrownJob
<1> QED
  BY <1>2, RelayAssumption DEF Follows

LEMMA HandleFollows ==
    ASSUME Shape, NEW t \in Orders, Handle(t), UNCHANGED intentVars
    PROVE  \A o \in Orders : Follows(o)
<1>1. CASE Add(t) \/ HandlerThrows(t)
  BY <1>1, OpenFollows
<1>2. CASE ~awaits /\ HandlerAcks(t) /\ (age[t] = "stale" \/ Quote(t) = "done")
  <2>1. job' = Acked(t) /\ UNCHANGED <<awaits, age, processed>>
    BY <1>2 DEF HandlerAcks, intentVars, contractVars, orderVars, payVars
  <2>2. Quote(t) = "done" => Processed(t)'
    BY <2>1 DEF Quote, Outcome, Instruction, Processed
  <2> QED
    BY <1>2, <2>1, <2>2, AckFollows
<1> QED
  BY <1>1, <1>2 DEF Handle

LEMMA ReadsFollow ==
    ASSUME Shape, Reads, UNCHANGED intentVars PROVE \A o \in Orders : Follows(o)
<1>1. PICK t \in Orders : t = processing.task /\ t \in Tasks
  BY Submitting, RelayAssumption DEF Reads, Simulate
<1>2. Quote(t) \in {"ok", "done", "revert"}
  BY DEF Quote, Outcome
<1>3. CASE Quote(t) = "ok"
  BY <1>1, <1>3 DEF Reads, Simulate, Follows
<1>4. CASE Quote(t) = "done"
  <2>1. job' = Acked(t)
    BY <1>1, <1>4 DEF Reads, Simulate, Resolves
  <2>2. Processed(t)'
    BY <1>1, <1>4 DEF Quote, Outcome, Instruction, Processed, intentVars, contractVars, payVars
  <2> QED
    BY <1>1, <2>1, <2>2, AckFollows
<1>5. CASE Quote(t) = "revert"
  <2>1. job' = Thrown(t)
    BY <1>1, <1>5 DEF Reads, Simulate, Rejects
  <2> QED
    BY <1>1, <2>1, ThrownFollows
<1> QED
  BY <1>2, <1>3, <1>4, <1>5

LEMMA SubmissionFollows ==
    ASSUME Shape, Sends \/ Refused \/ FailsUnsent \/ FailsSent
    PROVE  \A o \in Orders : Follows(o)
<1> DEFINE t == processing.task
<1>1. t \in Tasks
  BY Submitting DEF Sends, Refused, FailsUnsent, FailsSent, SendFails
<1>2. CASE Sends
  <2>1. job'[t].receipt = "none" /\ job'[t].sent = nonce /\ nonce \in Nat
        /\ job'[t].at = (IF awaits THEN "awaiting" ELSE "acked")
        /\ UNCHANGED awaits
        /\ \A u \in Tasks \ {t} : job'[u] = job[u]
    BY <1>1, <1>2 DEF Shape, Sends
  <2> QED
    BY <1>1, <2>1, RelayAssumption DEF Follows
<1>3. CASE Refused \/ FailsUnsent \/ FailsSent
  <2>1. job' = Thrown(t)
    BY <1>3 DEF Refused, FailsUnsent, FailsSent, SendFails, Rejects
  <2> QED
    BY <1>1, <2>1, ThrownFollows
<1> QED
  BY <1>2, <1>3

LEMMA ReceiptFollows ==
    ASSUME Shape, Outcomes, NEW t \in Orders, ReceiptRead(t), UNCHANGED intentVars
    PROVE  \A o \in Orders : Follows(o)
<1>1. CASE Proven(t)
  <2>1. Processed(t)'
    BY <1>1 DEF Proven, Outcomes, Sound, Processed, intentVars, contractVars, payVars
  <2> QED
    BY <1>1, <2>1, AckFollows DEF ReceiptRead
<1>2. CASE ~Proven(t)
  <2>1. job' = Thrown(t) /\ t \in Tasks
    BY <1>2, RelayAssumption DEF ReceiptRead
  <2> QED
    BY <2>1, ThrownFollows
<1> QED
  BY <1>1, <1>2

LEMMA CrashFollows == ASSUME Shape, Crash PROVE \A o \in Orders : Follows(o)
<1>1. ASSUME NEW o \in Orders PROVE Follows(o)
  <2>1. o \in Tasks /\ job[o] \in Jobs /\ job[o].attempts \in Nat
    BY RelayAssumption DEF Shape, Jobs
  <2>2. job'[o] = IF job[o].at \in {"queued", "awaiting"}
                  THEN Unsent("waiting", job[o].attempts) ELSE job[o]
    BY <2>1 DEF Crash
  <2> QED
    BY <2>1, <2>2, UnsentJob DEF Follows
<1> QED
  BY <1>1

\* A receipt of success is of a transaction that consumed the instruction.
LEMMA MinesFollow ==
    ASSUME Shape, Mines PROVE \A o \in Orders : Follows(o)
<1>0. PICK t : t = pool[mined]
  OBVIOUS
<1> DEFINE ok == t # NoTask /\ Quote(t) = "ok"
<1>1. Mine(ok)
  BY <1>0 DEF Mines
<1>2. ASSUME ok PROVE Processed(t)'
  <2>1. ProcessOrder(t, Instruction(t))
    BY <1>0, <1>2 DEF Mines
  <2>2. Instruction(t) \in processed' /\ Instruction(t)[1] = t
    BY <2>1 DEF ProcessOrder, Consume, Instruction
  <2> QED
    BY <2>2 DEF Processed
<1>3. ASSUME NEW o \in Orders PROVE Follows(o)
  <2>1. o \in Tasks /\ job[o] \in Jobs
    BY RelayAssumption DEF Shape
  <2>2. CASE job[o].at = "awaiting" /\ job[o].sent = mined
    <3>1. job'[o] = [job[o] EXCEPT !.receipt = IF t # o THEN "replaced"
                                               ELSE IF ok THEN "success" ELSE "reverted"]
      BY <1>0, <1>1, <2>1, <2>2 DEF Mine
    <3> HIDE DEF ok
    <3>2. job'[o].at = "awaiting" /\ (job'[o].receipt = "success" => t = o /\ ok)
      BY <2>1, <2>2, <3>1 DEF Jobs
    <3> QED
      BY <1>2, <3>2 DEF Follows
  <2>3. CASE ~(job[o].at = "awaiting" /\ job[o].sent = mined)
    BY <1>1, <2>1, <2>3 DEF Mine, Follows
  <2> QED
    BY <2>2, <2>3
<1> QED
  BY <1>3

LEMMA QuietFollows == ASSUME UNCHANGED job PROVE \A o \in Orders : Follows(o)
  BY DEF Follows

LEMMA NextLasts == ASSUME IntentInv, [Next]_vars PROVE Lasts
<1>1. UNCHANGED awaits
  <2>1. CASE Relayer
    BY <2>1 DEF Relayer, Handle, HandlerAcks, HandlerThrows, Add, ReceiptRead,
       ReceiptTimesOut, Drain, Reads, Simulate, Sends, Refused, SendFails, Reload, Start
  <2>2. CASE Chain \/ (\E o \in Orders : Hear(o))
    BY <2>2 DEF Chain, Mines, Mine, Hear, Arrives
  <2>3. CASE Faults
    BY <2>3 DEF Faults, HandlerThrows, ReceiptTimesOut, FailsUnsent, FailsSent, SendFails,
       Crash, Evict, OtherSends
  <2>4. CASE GasPrice \/ (World /\ UNCHANGED <<queueVars, cheap>>) \/ UNCHANGED vars
    BY <2>4 DEF GasPrice, queueVars, vars
  <2> QED
    BY <2>1, <2>2, <2>3, <2>4 DEF Next
<1>2. ASSUME NEW s, NEW v, ProcessOrder(s, v)
      PROVE  processed \subseteq processed' /\ UNCHANGED age
  BY <1>2 DEF ProcessOrder, Consume
<1> DEFINE Kept == /\ processed \subseteq processed'
                   /\ \A o \in Orders : age[o] = "stale" => age'[o] = "stale"
<1>3. Kept
  <2>1. CASE Relayer \/ Faults \/ GasPrice \/ (\E o \in Orders : Hear(o)) \/ UNCHANGED vars
    BY <2>1 DEF Relayer, Faults, GasPrice, Hear, vars, intentVars, contractVars, orderVars, payVars
  <2>2. CASE Chain
    BY <1>2, <2>2 DEF Chain, Mines, intentVars, contractVars, orderVars, payVars
  <2>3. CASE World
    <3>1. ASSUME NEW o \in Orders, Ages(o) PROVE Kept
      BY <3>1 DEF IntentInv, IntentTypes, Ages, payVars
    <3>2. ASSUME NEW o \in Orders, NEW c, NEW v, AnyoneProcesses(c, o, v) PROVE Kept
      BY <1>2, <3>2 DEF AnyoneProcesses
    <3>3. CASE \/ \E o \in Orders : \/ Finalizes(o) \/ Reorgs(o) \/ RefusalMoves(o)
                                    \/ AnyoneDelivers(o) \/ CompletesQueued(o)
                                    \/ \E a \in Amounts : PlaceOrder(o, a)
               \/ LimitMoves \/ SetEmitter \/ (\E c \in Callers : SetAuthorizedRelayer(c))
               \/ \E n \in Amounts : Receive(n) \/ Sweep(n)
      <4>1. UNCHANGED <<processed, age>>
        BY <3>3 DEF Finalizes, Reorgs, RefusalMoves, AnyoneDelivers, CompletesQueued, PlaceOrder,
           LimitMoves, SetEmitter, SetAuthorizedRelayer, Receive, Sweep, orderVars, payVars
      <4> QED
        BY <4>1
    <3> QED
      BY <2>3, <3>1, <3>2, <3>3 DEF World
  <2> QED
    BY <2>1, <2>2, <2>3 DEF Next
<1> QED
  BY <1>1, <1>3 DEF Lasts

LEMMA OutcomesStep ==
    ASSUME Shape, IntentInv, Outcomes, [Next]_vars PROVE Outcomes'
<1> SUFFICES \A o \in Orders : Follows(o)
  BY NextLasts, OutcomesFollow
<1>1. CASE Relayer
  <2>1. UNCHANGED intentVars
    BY <1>1 DEF Relayer
  <2>2. ASSUME NEW t \in Orders, Handle(t) \/ ReceiptRead(t) \/ (Stuck(t) /\ ReceiptTimesOut(t))
        PROVE  \A o \in Orders : Follows(o)
    BY <2>1, <2>2, HandleFollows, ReceiptFollows, OpenFollows
  <2>3. CASE Drain \/ Reload \/ Start
    BY <2>3, QuietFollows DEF Drain, Reload, Start
  <2>4. CASE Reads \/ Sends \/ Refused
    BY <2>1, <2>4, ReadsFollow, SubmissionFollows
  <2> QED
    BY <1>1, <2>2, <2>3, <2>4 DEF Relayer
<1>2. CASE Chain
  BY <1>2, MinesFollow DEF Chain
<1>3. CASE Faults
  <2>1. ASSUME NEW t \in Orders, HandlerThrows(t) \/ ReceiptTimesOut(t)
        PROVE  \A o \in Orders : Follows(o)
    BY <2>1, OpenFollows
  <2>2. CASE FailsUnsent \/ FailsSent \/ Crash
    BY <2>2, SubmissionFollows, CrashFollows
  <2>3. CASE \/ \E n \in DOMAIN pool : Evict(n)
             \/ \E n \in mined..nonce : OtherSends(n)
    BY <2>3, QuietFollows DEF Evict, OtherSends
  <2> QED
    BY <1>3, <2>1, <2>2, <2>3 DEF Faults
<1>4. CASE GasPrice \/ (World /\ UNCHANGED <<queueVars, cheap>>) \/ UNCHANGED vars
  BY <1>4, QuietFollows DEF GasPrice, queueVars, vars
<1>5. ASSUME NEW t \in Orders, Hear(t) PROVE \A o \in Orders : Follows(o)
  BY <1>5, OpenFollows DEF Hear
<1> QED
  BY <1>1, <1>2, <1>3, <1>4, <1>5 DEF Next

-----------------------------------------------------------------------------

LEMMA InitTypes == Init => Types
<1> SUFFICES ASSUME Init PROVE Types
  OBVIOUS
<1>1. \A t \in Tasks : job[t].at = "none" /\ job[t].attempts = 0
  BY DEF Init, QueueInit, NoJob, Unsent
<1>2. OnePlace
  BY <1>1, RetriesNatural DEF Init, QueueInit, OnePlace, Waits, Nobody
<1>3. Jobbed
  BY <1>1, QueueAssumption DEF Jobbed, Counted
<1>4. QueueTypes
  BY DEF Init, QueueInit, QueueTypes
<1>5. ContractTypes
  <2>1. amount \in [Orders -> Amounts \cup {0}]
    BY DEF Init, IntentInit
  <2>2. authorizedRelayer = {Us} /\ refusing = {} /\ configured = TRUE /\ limited = FALSE
    BY DEF Init, IntentInit
  <2>3. disturbances \in 0..MaxDisturbances
    BY IntentAssumption DEF Init, IntentInit
  <2> QED
    BY <2>1, <2>2, <2>3, IntentAssumption DEF ContractTypes
<1> QED
  BY <1>2, <1>3, <1>4, <1>5 DEF Types

LEMMA InitInv == Init => IInv
<1> SUFFICES ASSUME Init PROVE IInv
  OBVIOUS
<1>1. Shape
  BY UnsentJob DEF Init, QueueInit, Shape, NoJob
<1>2. IntentInv
  BY DEF Init, IntentInit, IntentInv, IntentTypes, Numbered, SignedOnce, Placed, Processed,
     Settled, ForwardedOnce
<1>3. NoGap
  BY DEF Init, QueueInit, NoGap
<1>4. ASSUME NEW o \in Orders PROVE Sound(job[o], o)
  BY RelayAssumption, UnsentJob DEF Init, QueueInit, NoJob, Sound
<1> QED
  BY <1>1, <1>2, <1>3, <1>4, InitTypes, InitBalance DEF IInv, Outcomes

LEMMA Inductive == IInv /\ [Next]_vars => IInv'
<1> SUFFICES ASSUME IInv, [Next]_vars PROVE IInv'
  OBVIOUS
<1>1. Shape /\ Types /\ IntentInv /\ InTheReceiver /\ NoGap /\ Outcomes
  BY DEF IInv
<1>2. Types'
  BY <1>1, PlacesStep, JobbedStep, QueueTypesStep, ContractTypesStep DEF Types
<1>3. IntentInv' /\ Shape'
  BY <1>1, ShapeStep, IntentStep
<1>4. InTheReceiver' /\ NoGap' /\ Outcomes'
  BY <1>1, <1>3, BalanceStep, GapStep, OutcomesStep
<1> QED
  BY <1>2, <1>3, <1>4 DEF IInv

LEMMA Invariance == Spec => []IInv
  BY InitInv, Inductive, PTL DEF Spec

LEMMA TypesImplied == Shape /\ Types /\ IntentInv /\ InTheReceiver => TypeOK
<1> SUFFICES ASSUME Shape, Types, IntentInv, InTheReceiver PROVE TypeOK
  OBVIOUS
<1>1. /\ amount \in [Orders -> Amounts \cup {0}]
      /\ authorizedRelayer \subseteq Callers /\ refusing \subseteq Orders
      /\ configured \in BOOLEAN /\ limited \in BOOLEAN /\ cheap \in BOOLEAN
      /\ disturbances \in 0..MaxDisturbances
      /\ up \in BOOLEAN /\ lost \in BOOLEAN /\ DOMAIN pool \subseteq Nat
  BY DEF Types, ContractTypes, QueueTypes
<1>2. /\ settlement \in [Orders -> {"none", "published", "signed", "queued", "released"}]
      /\ age \in [Orders -> {"exclusive", "open", "stale"}]
      /\ forwarded \in [Orders -> Nat] /\ balance \in Nat /\ stray \in Int
      /\ published \in [Orders -> Nat] /\ processed \subseteq signed
  BY DEF IntentInv, IntentTypes, InTheReceiver, SignedOnce
<1>3. awaits \in BOOLEAN /\ nonce \in Nat /\ mined \in Nat
  BY DEF Shape
<1>4. ASSUME NEW t \in Tasks
      PROVE  job[t] \in [at : {"none", "waiting", "queued", "awaiting", "acked", "failed"},
                         attempts : 0..Retries, sent : Nat \cup {-1},
                         receipt : {"none", "success", "reverted", "replaced"}]
  <2>1. job[t] \in Jobs /\ job[t].attempts \in 0..Retries
    BY DEF Shape, Types, Jobbed, Counted
  <2> QED
    BY <2>1 DEF Jobs
<1>5. job \in [Tasks -> [at : {"none", "waiting", "queued", "awaiting", "acked", "failed"},
                         attempts : 0..Retries, sent : Nat \cup {-1},
                         receipt : {"none", "success", "reverted", "replaced"}]]
  BY <1>4 DEF Shape
<1>6. /\ \A t \in Tasks :
             /\ (job[t].at = "queued")
                    <=> (processing.task = t \/ \E i \in DOMAIN pending : pending[i] = t)
             /\ job[t].at = "awaiting" => job[t].sent >= 0
      /\ \A i, j \in DOMAIN pending : pending[i] = pending[j] => i = j
  BY DEF Types, OnePlace, Waits, Jobbed, Counted
<1>7. signed \subseteq Orders \X (Nat \ {0})
  <2>1. ASSUME NEW v \in signed PROVE v \in Orders \X (Nat \ {0})
    <3>1. PICK o \in Orders : v = <<o, published[o]>> /\ Signed(o)
      BY DEF IntentInv, SignedOnce, Instruction
    <3>2. published[o] \in Nat \ {0}
      BY <1>2, <3>1 DEF IntentInv, Numbered, Placed, Signed
    <3> QED
      BY <3>1, <3>2
  <2> QED
    BY <2>1
<1> QED
  BY <1>1, <1>2, <1>3, <1>5, <1>6, <1>7 DEF TypeOK

(* Contracts, queue, engine and pool stay what they can be: a task is in one *)
(* place, queued exactly while it waits or is processed; its attempts never  *)
(* pass Retries; and no balance is negative (queue.ts drain, revert.ts).     *)
THEOREM IntentTypeOK == Spec => []TypeOK
<1>1. IInv => TypeOK
  BY TypesImplied DEF IInv
<1> QED
  BY Invariance, <1>1, PTL

(* What leaves for a settlement is its own amount, once, though its sequence *)
(* may have been given out again after a reorganisation, and the receiver    *)
(* holds exactly what was released and not forwarded yet, beside what came   *)
(* or was swept otherwise, whoever delivers, completes and processes with    *)
(* whichever pair of VAAs (IntentReceiver.sol processOrder, "an instruction  *)
(* cannot claim more than its own settlement released").                     *)
THEOREM OwnSettlement == Spec => []OwnSettlementOnly
<1>1. IInv => OwnSettlementOnly
  BY DEF IInv, IntentInv, InTheReceiver, OwnSettlementOnly
<1> QED
  BY Invariance, <1>1, PTL

(* As long as the pool drops nothing, whatever is refused, lost, retried or  *)
(* sent by another process, no submission of the queue waits for a nonce     *)
(* nobody has used (queue.ts submit).                                        *)
THEOREM NoncesWithoutGap == Spec => []NoGap
<1>1. IInv => NoGap
  BY DEF IInv
<1> QED
  BY Invariance, <1>1, PTL

(* No VAA is acked on a failed transaction where receipts are read, nor      *)
(* without a broadcast, a consumed instruction or its expiry where they are  *)
(* not (queue.ts, "only a proven outcome may be reported as one").           *)
THEOREM AcksAreProven == Spec => []AckedProven
<1>1. IInv => AckedProven
  BY DEF IInv, Outcomes, Sound, AckedProven
<1> QED
  BY Invariance, <1>1, PTL
=============================================================================
