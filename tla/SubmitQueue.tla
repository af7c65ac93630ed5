----------------------------- MODULE SubmitQueue -----------------------------
(* The path every relayer app takes: the engine's job of a VAA, with its     *)
(* attempts; the queue, which submits one task at a time under a nonce of    *)
(* its own; and the wallet's transactions in the chain's pool, which are     *)
(* mined in the order of their nonces, replaced or dropped.  What a call     *)
(* does is the composing module's to say.                                    *)
EXTENDS Integers, Sequences

CONSTANTS Tasks,     \* the VAAs relayed
          NoTask,
          Retries    \* attempts per VAA before the engine gives up

ASSUME QueueAssumption == NoTask \notin Tasks /\ Retries \in Nat \ {0}

VARIABLES up,         \* whether the process runs
          awaits,     \* whether its app reads the receipt of what it sent
          job,        \* the engine's job of each VAA
          pending,    \* tasks that wait for the one being processed
          processing, \* that one, and how far its submission is
          nonce,      \* the queue's next nonce
          mined,      \* transactions of the wallet on the chain
          pool,       \* its pending transactions: NoTask for another process's
          lost        \* history: whether the pool ever dropped or replaced one
queueVars == <<up, awaits, job, pending, processing, nonce, mined, pool, lost>>
walletVars == <<mined, pool, lost>>

Nobody == [task |-> NoTask, at |-> "idle"]
Unsent(stage, attempts) == [at |-> stage, attempts |-> attempts, sent |-> -1, receipt |-> "none"]
NoJob == Unsent("none", 0)
JobAt(t, stage) == [job EXCEPT ![t] = [@ EXCEPT !.at = stage]]
Acked(t) == JobAt(t, "acked")
(* Mutant: an attempt that failed is not counted. *)
ThrownUncounted(t) == [job EXCEPT ![t] = Unsent("waiting", 0)]
(* A handler that throws is tried again while attempts are left. *)
Thrown(t) ==
    LET attempts == job[t].attempts + 1 IN
    [job EXCEPT ![t] = Unsent(IF attempts < Retries THEN "waiting" ELSE "failed", attempts)]

(* The spy, or the missed-VAA worker later, hands the engine a VAA. *)
Arrives(t) ==
    /\ job[t].at = "none"
    /\ job' = JobAt(t, "waiting")
    /\ UNCHANGED <<up, awaits, pending, processing, nonce, walletVars>>

(* A handler that ends without a task, or throws. *)
HandlerAcks(t) ==
    /\ up /\ job[t].at = "waiting" /\ job' = Acked(t)
    /\ UNCHANGED <<up, awaits, pending, processing, nonce, walletVars>>
HandlerThrows(t) ==
    /\ up /\ job[t].at = "waiting" /\ job' = Thrown(t)
    /\ UNCHANGED <<up, awaits, pending, processing, nonce, walletVars>>
(* queue.add *)
Add(t) ==
    /\ up /\ job[t].at = "waiting"
    /\ job' = JobAt(t, "queued") /\ pending' = Append(pending, t)
    /\ UNCHANGED <<up, awaits, processing, nonce, walletVars>>

(* drain: `processing` lets one submission run at a time. *)
Drain ==
    /\ up /\ processing = Nobody /\ pending # <<>>
    /\ processing' = [task |-> Head(pending), at |-> "simulate"]
    /\ pending' = Tail(pending)
    /\ UNCHANGED <<up, awaits, job, nonce, walletVars>>

(* submit simulates first: its revert is classified before a nonce is spent. *)
Resolves(t) == /\ processing' = Nobody /\ job' = Acked(t)
Rejects(t) == /\ processing' = Nobody /\ job' = Thrown(t)
Simulate(outcome) ==
    /\ processing.at = "simulate"
    /\ \/ /\ outcome = "ok" /\ processing' = [task |-> processing.task, at |-> "send"]
          /\ UNCHANGED job
       \/ outcome \in {"done", "dead"} /\ Resolves(processing.task)
       \/ outcome = "revert" /\ Rejects(processing.task)
    /\ UNCHANGED <<up, awaits, pending, nonce, walletVars>>

(* The node takes the transaction: its nonce is free, or the new fees are    *)
(* enough to replace the one that has it.                                    *)
Broadcast(t) ==
    /\ nonce >= mined
    /\ pool' = [n \in DOMAIN pool \cup {nonce} |-> IF n = nonce THEN t ELSE pool[n]]
    /\ lost' = (lost \/ nonce \in DOMAIN pool)
    /\ UNCHANGED mined
(* Plain apps are done once it is broadcast; one that awaits keeps the hash. *)
Sends ==
    /\ processing.at = "send" /\ Broadcast(processing.task)
    /\ nonce' = nonce + 1 /\ processing' = Nobody
    /\ job' = [job EXCEPT ![processing.task] =
                  [at |-> IF awaits THEN "awaiting" ELSE "acked", attempts |-> @.attempts,
                   sent |-> nonce, receipt |-> "none"]]
    /\ UNCHANGED <<up, awaits, pending>>
(* Mutant: the nonce is spent whether the submission succeeds or not. *)
NonceAfterReject == nonce + 1
NonceAfterFailure == nonce
(* The node refuses a pending nonce, the call fails, or its answer is lost.  *)
SendFails ==
    /\ processing.at = "send"
    /\ Rejects(processing.task) /\ nonce' = NonceAfterFailure
    /\ UNCHANGED <<up, awaits, pending>>
Refused == nonce \in DOMAIN pool /\ SendFails /\ UNCHANGED walletVars
FailsUnsent == SendFails /\ UNCHANGED walletVars
FailsSent == SendFails /\ Broadcast(processing.task)
(* Mutant: the task is dropped, its caller never told. *)
NotRequeued(t) == pending
Requeued(t) == <<t>> \o pending
(* nonce too low: the nonce is read again, and the task is first in line. *)
Reload ==
    /\ processing.at = "send" /\ nonce < mined
    /\ nonce' = mined /\ pending' = Requeued(processing.task)
    /\ processing' = Nobody
    /\ UNCHANGED <<up, awaits, job, walletVars>>

(* The chain takes the wallet's transactions in order; a waiting handler     *)
(* sees the receipt that its nonce ends with.                                *)
Mine(ok) ==
    /\ mined \in DOMAIN pool
    /\ mined' = mined + 1
    /\ pool' = [n \in DOMAIN pool \ {mined} |-> pool[n]]
    /\ job' = [t \in Tasks |->
                  IF job[t].at = "awaiting" /\ job[t].sent = mined
                  THEN [job[t] EXCEPT !.receipt = IF pool[mined] # t THEN "replaced"
                                                  ELSE IF ok THEN "success" ELSE "reverted"]
                  ELSE job[t]]
    /\ UNCHANGED <<up, awaits, pending, processing, nonce, lost>>
Evict(n) ==
    /\ pool' = [m \in DOMAIN pool \ {n} |-> pool[m]] /\ lost' = TRUE
    /\ UNCHANGED <<up, awaits, job, pending, processing, nonce, mined>>
(* Another process that holds the wallet's key. *)
OtherSends(n) ==
    /\ IF n \in DOMAIN pool THEN pool[n] # NoTask ELSE TRUE
    /\ pool' = [m \in DOMAIN pool \cup {n} |-> IF m = n THEN NoTask ELSE pool[m]]
    /\ lost' = (lost \/ n \in DOMAIN pool)
    /\ UNCHANGED <<up, awaits, job, pending, processing, nonce, mined>>

(* Mutant: any receipt at the nonce is taken for its own. *)
ProvenAny(t) == job[t].receipt \in {"success", "replaced"}
(* Only a receipt of the own hash counts. *)
Proven(t) == job[t].receipt = "success"
ReceiptRead(t) ==
    /\ up /\ job[t].at = "awaiting" /\ job[t].receipt # "none"
    /\ job' = IF Proven(t) THEN Acked(t) ELSE Thrown(t)
    /\ UNCHANGED <<up, awaits, pending, processing, nonce, walletVars>>
(* Waiting ends without one when the transaction cannot be mined. *)
Stuck(t) == mined \notin DOMAIN pool \/ job[t].sent \notin DOMAIN pool
ReceiptTimesOut(t) ==
    /\ up /\ job[t].at = "awaiting" /\ job[t].receipt = "none"
    /\ job' = Thrown(t)
    /\ UNCHANGED <<up, awaits, pending, processing, nonce, walletVars>>

(* Out of gas, an RPC failure outside `submit`'s reach, or the host: the     *)
(* process dies, and the engine hands out again what was not acked.          *)
Crash ==
    /\ up /\ up' = FALSE
    /\ pending' = <<>> /\ processing' = Nobody
    /\ job' = [t \in Tasks |->
                  IF job[t].at \in {"queued", "awaiting"}
                  THEN Unsent("waiting", job[t].attempts)
                  ELSE job[t]]
    /\ UNCHANGED <<awaits, nonce, walletVars>>
(* init: the nonce is what the chain has mined, whatever the pool holds. *)
Start ==
    /\ ~up /\ up' = TRUE /\ nonce' = mined
    /\ UNCHANGED <<awaits, job, pending, processing, walletVars>>

QueueInit ==
    /\ up = FALSE /\ awaits \in BOOLEAN
    /\ job = [t \in Tasks |-> NoJob]
    /\ pending = <<>> /\ processing = Nobody
    /\ nonce = 0 /\ mined = 0 /\ pool = [n \in {} |-> NoTask] /\ lost = FALSE
=============================================================================
