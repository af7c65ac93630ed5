---------------------------- MODULE IntentRelay ----------------------------
(* The relayer over the contracts it calls: each order's settlement VAA is a *)
(* job, whose handler quotes processOrder and queues its submission.  An app *)
(* that awaits receipts, as the PSM's does, takes the place of the intent    *)
(* app in half of the behaviours: it queues at once, and its receiver, which *)
(* is external, refuses a message until it can be delivered, or as done.     *)
EXTENDS IntentReceiver, SubmitQueue, Functions

ASSUME RelayAssumption == Tasks = Orders

VARIABLE cheap    \* whether forwarding costs no more than an order's ceiling
vars == <<intentVars, queueVars, cheap>>

(* Our call brings the order's settlement and the instruction of the same    *)
(* transaction (findInstruction).                                            *)
Quote(o) == Outcome(Us, o, Instruction(o))

(* findInstruction, fetchVaa, the age, the quote and its comparison with the *)
(* order's maxRelayFee, in front of queue.add.                               *)
Handle(o) ==
    IF awaits THEN Add(o)
    ELSE \/ /\ age[o] = "stale" \/ Quote(o) = "done"
            /\ HandlerAcks(o)
         \/ /\ age[o] # "stale"
            /\ Quote(o) = "revert" \/ (Quote(o) = "ok" /\ ~cheap)
            /\ HandlerThrows(o)
         \/ /\ age[o] # "stale" /\ Quote(o) = "ok" /\ cheap
            /\ Add(o)

Reads == processing.task # NoTask /\ Simulate(Quote(processing.task))
(* A transaction that reverts when it is mined changes nothing else. *)
Mines ==
    /\ mined \in DOMAIN pool
    /\ LET t == pool[mined]
           ok == t # NoTask /\ Quote(t) = "ok"
       IN  /\ Mine(ok)
           /\ IF ok THEN ProcessOrder(t, Instruction(t)) /\ UNCHANGED disturbances
                    ELSE UNCHANGED intentVars

Relayer ==
    /\ UNCHANGED <<intentVars, cheap>>
    /\ \/ \E o \in Orders : Handle(o) \/ ReceiptRead(o) \/ (Stuck(o) /\ ReceiptTimesOut(o))
       \/ Drain \/ Reads \/ Sends \/ Refused \/ Reload \/ Start
Hear(o) == Signed(o) /\ Arrives(o) /\ UNCHANGED <<intentVars, cheap>>
Chain == Mines /\ UNCHANGED cheap
(* One of several calls fails, its answer is lost, or the process dies. *)
Faults ==
    /\ Disturb
    /\ UNCHANGED <<contractVars, cheap>>
    /\ \/ \E o \in Orders : HandlerThrows(o) \/ ReceiptTimesOut(o)
       \/ FailsUnsent \/ FailsSent \/ Crash
       \/ \E n \in DOMAIN pool : Evict(n)
       \/ \E n \in mined..nonce : OtherSends(n)
GasPrice ==
    /\ cheap' = ~cheap
    /\ IF cheap THEN Disturb ELSE UNCHANGED disturbances
    /\ UNCHANGED <<contractVars, queueVars>>

Init == IntentInit /\ QueueInit /\ cheap = TRUE
Next == \/ Relayer \/ Chain \/ Faults \/ GasPrice
        \/ World /\ UNCHANGED <<queueVars, cheap>>
        \/ \E o \in Orders : Hear(o)
Spec == Init /\ [][Next]_vars

(* The spy and the missed-VAA worker hand every VAA to the engine, its       *)
(* workers and the process's own calls go on, the container restarts it, and *)
(* the chain mines what it can.                                              *)
FairSpec == /\ Spec /\ WF_vars(Relayer) /\ WF_vars(Chain)
            /\ \A o \in Orders : WF_vars(Hear(o)) /\ WF_vars(Handle(o) /\ UNCHANGED <<intentVars, cheap>>)

----------------------------------------------------------------------------
(* Every state is one the contracts, the queue and the engine can be in: one *)
(* place for each task, and a hash only for what was sent.                   *)
TypeOK ==
    /\ amount \in [Orders -> Amounts \cup {0}] /\ balance \in Nat /\ stray \in Int
    /\ settlement \in [Orders -> {"none", "published", "signed", "queued", "released"}]
    /\ published \in [Orders -> Nat] /\ signed \subseteq Orders \X (Nat \ {0})
    /\ age \in [Orders -> {"exclusive", "open", "stale"}]
    /\ processed \subseteq signed /\ forwarded \in [Orders -> Nat]
    /\ authorizedRelayer \subseteq Callers /\ refusing \subseteq Orders
    /\ configured \in BOOLEAN /\ limited \in BOOLEAN /\ cheap \in BOOLEAN
    /\ disturbances \in 0..MaxDisturbances
    /\ up \in BOOLEAN /\ awaits \in BOOLEAN /\ lost \in BOOLEAN
    /\ job \in [Tasks -> [at : {"none", "waiting", "queued", "awaiting", "acked", "failed"},
                          attempts : 0..Retries, sent : Nat \cup {-1},
                          receipt : {"none", "success", "reverted", "replaced"}]]
    /\ \A t \in Tasks :
           /\ (job[t].at = "queued") <=> (processing.task = t \/ \E i \in DOMAIN pending : pending[i] = t)
           /\ job[t].at = "awaiting" => job[t].sent >= 0
    /\ \A i, j \in DOMAIN pending : pending[i] = pending[j] => i = j
    /\ nonce \in Nat /\ mined \in Nat /\ DOMAIN pool \subseteq Nat

(* IntentReceiver.sol, "an instruction cannot claim more than its own        *)
(* settlement released": what left for a settlement is its own amount, once, *)
(* however often its sequence was given out, and the receiver holds exactly  *)
(* what was released and not forwarded yet, beside what came or was taken    *)
(* otherwise, whoever delivers, completes or processes with whichever pair   *)
(* of VAAs.                                                                  *)
Processed(o) == \E v \in processed : v[1] = o
HeldFor(o) == IF settlement[o] = "released" THEN amount[o] - forwarded[o] ELSE 0
Held == SumFunction([o \in Orders |-> HeldFor(o)])
ForwardedOnce ==
    \A o \in Orders : forwarded[o] = IF Processed(o) THEN amount[o] ELSE 0
OwnSettlementOnly == balance = Held + stray /\ ForwardedOnce

(* queue.ts, "The queue owns the nonce so submissions stay strictly          *)
(* ordered": unless the pool drops a transaction, every nonce between the    *)
(* chain's and the queue's is pending, so no submission waits for a gap that *)
(* nobody fills.                                                             *)
NoGap ==
    up /\ ~lost => \A n \in mined..(nonce - 1) : n \in DOMAIN pool

(* queue.ts, "only a proven outcome may be reported as one": where the       *)
(* receipt is read an acked VAA has been consumed; where it is not, it has,  *)
(* was given up for its age, or its transaction was broadcast.               *)
AckedProven ==
    \A o \in Orders : job[o].at = "acked" =>
        Processed(o) \/ (~awaits /\ (age[o] = "stale" \/ job[o].sent >= 0))

(* "Discard it and a failed transaction is indistinguishable from a          *)
(* delivered one" (queue.ts): the job of every order signed ends, acked or   *)
(* out of attempts, whichever of its calls fail and whenever the process     *)
(* dies; and where nothing is disturbed the order is forwarded.              *)
Ended(o) == job[o].at \in {"acked", "failed"}
OrdersEnd ==
    \A o \in Orders : Signed(o) ~> (Ended(o) /\ (Processed(o) \/ disturbances > 0))
=============================================================================
