----------------------------- MODULE UtxoRelayer -----------------------------
(* The way of a UTXO coin out of Hydration: the emitter that burns it, the   *)
(* settlement NTT makes to the derived account, and the relayer that watches *)
(* the emitter's events, keeps a record per event in Redis and works the     *)
(* records off through the contract of UtxoWithdraw.  The relayer is two     *)
(* asynchronous loops in one process, over a store that survives it.         *)
EXTENDS UtxoWithdraw

CONSTANTS Amounts,         \* amounts users send
          Requests,        \* for each send, the addresses and accounts it may name
          Fee,             \* the emitter's fee
          MinWithdraw,     \* MIN_WITHDRAW
          CheckpointEvery  \* checkpointEvery, in blocks

ASSUME RelayerAssumption ==
    /\ Requests \in Seq(SUBSET (Accounts \X Accounts))
    /\ Amounts \subseteq Nat /\ Fee \in Nat /\ MinWithdraw \in Nat \ {0}
    /\ CheckpointEvery \in Nat \ {0}

(* Bound: as many sends as there are requests. *)
MaxSends == Len(Requests)

VARIABLES events,   \* WithdrawRequested, one a block, in order: finalized
          settled,  \* the events whose settlement ntt-near has completed
          store,    \* Redis: records by event, the set of open ones, the cursor
          watcher,  \* HydrationWatcher.drain
          worker    \* WithdrawWorker.pass
hydrationVars == <<events, settled>>
agentVars == <<store, watcher, worker>>
vars == <<utxoVars, hydrationVars, agentVars>>

----------------------------------------------------------------------------
(* Hydration: one block per event, the others are of no interest. *)
(* `named` is the account the app derived; the emitter cannot check it. *)
Send(amount, address, named) ==
    /\ amount >= Fee + MinWithdraw
    /\ events' = Append(events, [address |-> address, account |-> named,
                                 amount |-> amount - Fee])
    /\ settled' = Append(settled, FALSE)
    /\ UNCHANGED <<utxoVars, agentVars>>

(* ntt-near completes the transfer: the token arrives, whether or not the    *)
(* account exists.                                                           *)
Settle(e) ==
    /\ ~settled[e]
    /\ settled' = [settled EXCEPT ![e] = TRUE]
    /\ balance' = [balance EXCEPT ![events[e].account] = @ + events[e].amount]
    /\ UNCHANGED <<contractVars, key, moving, pending, taken, others, lostFound, coins, config,
                   disturbances, events, agentVars>>

----------------------------------------------------------------------------
(* The watcher.  A drain reads every block after the cursor up to the last   *)
(* finalized one, in order, and saves the cursor at checkpoints and at the   *)
(* end.  Adding a record is two commands to Redis.                           *)
Store(record, open, cursor) == [record |-> record, open |-> open, cursor |-> cursor]
Resting == [at |-> "idle"]
Reading(from, safe, checkpoint) ==
    [at |-> "block", next |-> from, safe |-> safe, checkpoint |-> checkpoint]
UnlessWatcher == UNCHANGED <<utxoVars, hydrationVars, worker>>

WatcherStarts ==
    /\ watcher.at = "idle" /\ store.cursor < Len(events)
    /\ watcher' = Reading(store.cursor + 1, Len(events), store.cursor)
    /\ store' = store
    /\ UnlessWatcher

(* The block is done: save a checkpoint, save the end, or go on. *)
AfterBlock(w) ==
    IF w.next = w.safe
    THEN [at |-> "save", next |-> w.safe + 1, safe |-> w.safe,
          checkpoint |-> w.safe]
    ELSE IF w.next - w.checkpoint >= CheckpointEvery
         THEN [at |-> "save", next |-> w.next + 1, safe |-> w.safe,
               checkpoint |-> w.next]
         ELSE Reading(w.next + 1, w.safe, w.checkpoint)

(* Mutant: the derivation is not compared. *)
StateForAny(e) == "open"
(* SET NX: a known record is left alone, and so is the set of open ones. *)
StateFor(e) == IF events[e].address = events[e].account THEN "open" ELSE "mismatch"
OnWithdrawal ==
    /\ watcher.at = "block"
    /\ LET e == watcher.next
       IN  IF store.record[e] # "none"
           THEN /\ watcher' = AfterBlock(watcher) /\ store' = store
           ELSE /\ store' = Store([store.record EXCEPT ![e] = StateFor(e)], store.open, store.cursor)
                /\ watcher' = IF StateFor(e) = "open"
                              THEN [watcher EXCEPT !.at = "index"]
                              ELSE AfterBlock(watcher)
    /\ UnlessWatcher
AddToOpen ==
    /\ watcher.at = "index"
    /\ store' = Store(store.record, store.open \cup {watcher.next}, store.cursor)
    /\ watcher' = AfterBlock(watcher)
    /\ UnlessWatcher
(* Mutant: the checkpoint saves the end of the drain. *)
SaveCursorEnd ==
    /\ watcher.at = "save"
    /\ store' = Store(store.record, store.open, watcher.safe)
    /\ watcher' = IF watcher.next > watcher.safe THEN Resting
                  ELSE Reading(watcher.next, watcher.safe, watcher.checkpoint)
    /\ UnlessWatcher
SaveCursor ==
    /\ watcher.at = "save"
    /\ store' = Store(store.record, store.open, watcher.checkpoint)
    /\ watcher' = IF watcher.next > watcher.safe THEN Resting
                  ELSE Reading(watcher.next, watcher.safe, watcher.checkpoint)
    /\ UnlessWatcher
(* A read that fails or times out, or a command Redis refuses, ends the      *)
(* drain; the next one starts from the saved cursor.                         *)
DrainFails ==
    /\ watcher.at # "idle" /\ Disturb
    /\ watcher' = Resting
    /\ UNCHANGED <<contractVars, nearVars, hydrationVars, store, worker>>

----------------------------------------------------------------------------
(* The worker.  A pass takes the open records as they are, reads the         *)
(* connector's configuration once and its coins at most once, and goes       *)
(* through the accounts.                                                     *)
AtRest == [at |-> "idle"]
UnlessWorker == UNCHANGED <<utxoVars, hydrationVars, watcher>>
RecordsOf(a, open) == {e \in open : events[e].account = a}
NotRead == [c \in Coins |-> -1]

PassStarts ==
    /\ worker.at = "idle" /\ store.open # {}
    /\ worker' = [at |-> "config", open |-> store.open]
    /\ UNCHANGED store
    /\ UnlessWorker

(* The next account of the pass, oldest record first, or the end. *)
Turn(open, cfg, coinSet) ==
    IF open = {} THEN AtRest
    ELSE [at |-> "held", open |-> open, config |-> cfg, coinSet |-> coinSet,
          account |-> events[CHOOSE e \in open : \A f \in open : e <= f].account]
NextAccount == Turn(worker.open \ RecordsOf(worker.account, worker.open),
                    worker.config, worker.coinSet)
To(step) == worker' = [worker EXCEPT !.at = step]

ReadConfig ==
    /\ worker.at = "config"
    /\ worker' = Turn(worker.open, config, NotRead)
    /\ UNCHANGED store
    /\ UnlessWorker

(* Mutant: a balance of exactly the minimum is left for the next pass. *)
ReadHeldStrict ==
    /\ worker.at = "held"
    /\ worker' = IF balance[worker.account] <= worker.config.min THEN NextAccount
                 ELSE [at |-> "create", open |-> worker.open,
                       config |-> worker.config, coinSet |-> worker.coinSet,
                       account |-> worker.account,
                       held |-> balance[worker.account]]
    /\ UNCHANGED store
    /\ UnlessWorker
ReadHeld ==
    /\ worker.at = "held"
    /\ worker' = IF balance[worker.account] < worker.config.min THEN NextAccount
                 ELSE [at |-> "create", open |-> worker.open,
                       config |-> worker.config, coinSet |-> worker.coinSet,
                       account |-> worker.account,
                       held |-> balance[worker.account]]
    /\ UNCHANGED store
    /\ UnlessWorker

(* The account must exist before the contract signs for it. *)
EnsureAccount ==
    /\ worker.at = "create"
    /\ IF key[worker.account] = NoKey THEN CreateAccount(worker.account)
                                      ELSE UNCHANGED key
    /\ To("coin")
    /\ UNCHANGED <<contractVars, balance, moving, pending, taken, others, lostFound, coins,
                   config, disturbances, hydrationVars, store, watcher>>

(* The smallest coin that fits, from the pass's coin set. *)
CoinSet == IF worker.coinSet = NotRead THEN coins ELSE worker.coinSet
Covers(c, amount) == amount > BridgeFee(c, amount) + MinerFee
Fitting(c, amount, set) ==
    {coin \in Coins : /\ set[coin] > 0
                      /\ FitsCoin(set[coin], amount - BridgeFee(c, amount), c.minChange)}
PickCoin(c, amount, set) ==
    CHOOSE coin \in Fitting(c, amount, set) :
        \A other \in Fitting(c, amount, set) : set[coin] <= set[other]
CanPick == /\ Covers(worker.config, worker.held)
           /\ Fitting(worker.config, worker.held, CoinSet) # {}

(* `withdraw` on the contract, awaited until its last receipt. *)
AskToSign(i) ==
    /\ worker.at = "coin" /\ CanPick
    /\ Withdraw(i, "bot", worker.account,
                PickCoin(worker.config, worker.held, CoinSet))
    /\ worker' = [worker EXCEPT !.at = "signing", !.coinSet = CoinSet]
    /\ UNCHANGED <<signed, nearVars, disturbances, hydrationVars,
                   store, watcher>>
NoCoinFits ==
    /\ worker.at = "coin" /\ ~CanPick
    /\ worker' = [worker EXCEPT !.at = "fail", !.coinSet = CoinSet]
    /\ UNCHANGED store
    /\ UnlessWorker

(* The call's outcome: its event with the delegate, or a failed receipt. *)
Signed(i) ==
    /\ worker.at = "signing" /\ calls[i].stage = "over"
    /\ calls' = [calls EXCEPT ![i] = Idle]
    /\ worker' = IF calls[i].delegate = NoDelegate
                 THEN [worker EXCEPT !.at = "fail"]
                 ELSE [at |-> "relay", open |-> worker.open,
                       config |-> worker.config, coinSet |-> worker.coinSet,
                       account |-> worker.account, delegate |-> calls[i].delegate]
    /\ UNCHANGED <<signed, nearVars, disturbances, hydrationVars,
                   store, watcher>>

(* The relay is refused by the runtime, fails in the token, or is on its way *)
(* to the connector; it lands in a block after the one that signed.          *)
RelayDelegate ==
    /\ worker.at = "relay" /\ worker.delegate.age >= 1
    /\ LET d == worker.delegate
       IN  IF Executable(d)
           THEN /\ Execute(d, "bot")
                /\ worker' = [at |-> IF balance[d.account] >= d.amount
                                     THEN "relayed" ELSE "fail",
                              open |-> worker.open, config |-> worker.config,
                              coinSet |-> worker.coinSet, account |-> d.account]
           ELSE /\ To("fail")
                /\ UNCHANGED <<contractVars, nearVars>>
    /\ UNCHANGED <<disturbances, hydrationVars, store, watcher>>

(* The connector answers a transfer.  A refusal panics, or hands the tokens  *)
(* back without a failed receipt, as NEP-141 lets it.                        *)
Heard(t, answer) == IF t.by = "bot" THEN To(answer) ELSE UNCHANGED worker
Resolve(i) ==
    LET t == moving[i]
    IN  /\ moving' = RemoveAt(moving, i)
        /\ \/ Acceptable(t) /\ Accept(t) /\ Heard(t, "left") /\ UNCHANGED disturbances
           \/ /\ ~Acceptable(t) /\ UNCHANGED disturbances
              /\ Refuse(t) /\ \E answer \in {"fail", "left"} : Heard(t, answer)
           \/ Acceptable(t) /\ Disturb /\ Refuse(t) /\ Heard(t, "fail")
        /\ UNCHANGED <<contractVars, key, others, lostFound, config, hydrationVars,
                       store, watcher>>

(* Mutant: a transaction without a failed receipt is taken for a withdrawal. *)
ReadLeftUnchecked ==
    /\ worker.at = "left"
    /\ To("close")
    /\ UNCHANGED store
    /\ UnlessWorker
(* Only a balance that left means that the connector has it. *)
ReadLeft ==
    /\ worker.at = "left"
    /\ To(IF balance[worker.account] >= worker.config.min THEN "fail" ELSE "close")
    /\ UNCHANGED store
    /\ UnlessWorker

(* One record after the other: it is withdrawn and leaves the open set. *)
Covered == RecordsOf(worker.account, worker.open)
CloseRecord ==
    /\ worker.at = "close"
    /\ LET e == CHOOSE e \in Covered : \A f \in Covered : e <= f
       IN  /\ store' = Store([store.record EXCEPT ![e] = "withdrawn"], store.open \ {e}, store.cursor)
           /\ worker' = IF Covered = {e} THEN NextAccount
                        ELSE [worker EXCEPT !.open = @ \ {e}]
    /\ UnlessWorker

(* The records stay open with their last error. *)
Fail == /\ worker.at = "fail"
        /\ worker' = NextAccount
        /\ UNCHANGED store
        /\ UnlessWorker

(* A view or a transaction fails, or its answer is lost: the transactions on *)
(* NEAR go on without the relayer.                                           *)
Orphaned ==
    /\ calls' = [i \in Calls |->
                    CASE calls[i].stage = "none" -> Idle
                      [] calls[i].stage = "over" -> Idle
                      [] OTHER -> [calls[i] EXCEPT !.by = "anyone"]]
    /\ moving' = [i \in DOMAIN moving |-> [moving[i] EXCEPT !.by = "anyone"]]
    /\ UNCHANGED <<signed, balance, key, pending, taken, others, lostFound, coins,
                   config, hydrationVars, store>>
PassFails ==
    /\ worker.at \in {"config", "close", "fail"} /\ Disturb
    /\ worker' = AtRest
    /\ UNCHANGED <<contractVars, nearVars, hydrationVars, store, watcher>>
AccountFails ==
    /\ worker.at \notin {"idle", "config", "close", "fail"} /\ Disturb
    /\ worker' = [at |-> "fail", open |-> worker.open, config |-> worker.config,
                  coinSet |-> worker.coinSet, account |-> worker.account]
    /\ Orphaned
    /\ UNCHANGED watcher

----------------------------------------------------------------------------
(* The process dies and comes back: both loops start over. *)
Crash ==
    /\ worker.at # "idle" \/ watcher.at # "idle"
    /\ Disturb
    /\ watcher' = Resting /\ worker' = AtRest
    /\ Orphaned

(* A block.  A withdrawal of the relayer and a claim are relayed while the   *)
(* delegate lasts, unless disturbed.                                         *)
InTime == IF \/ worker.at = "relay" /\ worker.delegate.left = 0
             \/ \E d \in signed : d.kind = "claim" /\ d.left = 0 /\ Executable(d)
             \/ \E i \in Calls : /\ calls[i].stage \in {"sign", "over"}
                                 /\ calls[i].delegate # NoDelegate
                                 /\ calls[i].delegate.left = 0
          THEN Disturb ELSE UNCHANGED disturbances
NextBlock ==
    /\ Block /\ InTime
    /\ worker' = IF worker.at = "relay" /\ worker.delegate.left >= 0
                 THEN [worker EXCEPT !.delegate = Aged(@)] ELSE worker
    /\ UNCHANGED <<hydrationVars, store, watcher>>

(* Anyone may ask for a signature, create the account, and relay a delegate  *)
(* that was emitted.  Claiming what a cancelled withdrawal left behind is    *)
(* the only one of these moves that the system needs.                        *)
RelayClaim == /\ \E d \in signed : d.kind = "claim" /\ Execute(d, "anyone")
              /\ UNCHANGED <<disturbances, hydrationVars, agentVars>>
Anyone ==
    /\ \/ /\ \E i \in Calls, a \in Accounts :
               \/ (\E coin \in Coins : Withdraw(i, "anyone", a, coin)) /\ Disturb
               \/ /\ Claim(i, "anyone", a)
                  /\ lostFound[a] = 0 => Disturb
                  /\ lostFound[a] > 0 => UNCHANGED disturbances
          /\ UNCHANGED <<signed, nearVars>>
       \/ /\ \E d \in signed : d.kind = "withdraw" /\ Execute(d, "anyone")
          /\ Disturb
       \/ /\ \E a \in Accounts : key[a] = NoKey /\ CreateAccount(a)
          /\ UNCHANGED <<contractVars, balance, moving, pending, taken, others,
                         lostFound, coins, config>>
          /\ Disturb
    /\ UNCHANGED <<hydrationVars, agentVars>>

(* Coins come to the connector from its other users, and as change. *)
NamedBy(call) == CASE call.stage \notin {"none", "over"} /\ call.stage # "sign" -> {call.coin}
                   [] call.stage \in {"sign", "over"} /\ call.delegate # NoDelegate
                        -> {call.delegate.coin}
                   [] OTHER -> {}
Named == UNION {NamedBy(calls[i]) : i \in Calls}
         \cup {d.coin : d \in signed} \cup {moving[i].coin : i \in DOMAIN moving}
         \cup (IF worker.at = "relay" THEN {worker.delegate.coin} ELSE {})
         \cup (IF worker.at \in {"idle", "config"} THEN {}
               ELSE {c \in Coins : worker.coinSet[c] > 0})
CoinArrives(c, v) ==
    /\ coins[c] = 0 /\ c \notin Named
    /\ coins' = [coins EXCEPT ![c] = v]
    /\ UNCHANGED <<contractVars, balance, key, moving, pending, taken, others, lostFound, config,
                   disturbances, hydrationVars, agentVars>>

Init ==
    /\ UtxoInit
    /\ events = <<>> /\ settled = <<>>
    /\ store = Store([e \in 1..MaxSends |-> "none"], {}, 0)
    /\ watcher = Resting /\ worker = AtRest

WatcherStep == WatcherStarts \/ OnWithdrawal \/ AddToOpen \/ SaveCursor
WorkerStep ==
    \/ PassStarts \/ ReadConfig \/ ReadHeld \/ EnsureAccount \/ NoCoinFits
    \/ \E i \in Calls : AskToSign(i) \/ Signed(i)
    \/ RelayDelegate \/ ReadLeft \/ CloseRecord \/ Fail
(* A panic may be of this contract, of the token or of the connector. *)
ContractStep(i) ==
    /\ OnKey(i) \/ BalanceRead(i) \/ ConnectorRead(i) \/ LostFoundRead(i)
       \/ OnReads(i) \/ OnLostFound(i) \/ OnSigned(i)
    /\ UNCHANGED <<hydrationVars, agentVars>>
ContractDisturbed ==
    /\ \E i \in Calls : CallFails(i)
    /\ UNCHANGED <<hydrationVars, agentVars>>
ConnectorStep(a) == Pays(a) /\ UNCHANGED <<hydrationVars, agentVars>>
ConnectorDisturbed ==
    /\ (\E a \in Accounts : Cancels(a)) \/ (\E c \in Configs : Reconfigures(c))
    /\ UNCHANGED <<hydrationVars, agentVars>>
Next ==
    \/ /\ Len(events) < MaxSends
       /\ \E amount \in Amounts, r \in Requests[Len(events) + 1] :
             Send(amount, r[1], r[2])
    \/ \E e \in DOMAIN events : Settle(e)
    \/ WatcherStep \/ DrainFails
    \/ WorkerStep \/ PassFails \/ AccountFails \/ Crash
    \/ \E i \in Calls : ContractStep(i)
    \/ ContractDisturbed
    \/ \E i \in DOMAIN moving : Resolve(i)
    \/ \E a \in Accounts : ConnectorStep(a)
    \/ ConnectorDisturbed
    \/ NextBlock \/ Anyone \/ RelayClaim
    \/ \E c \in Coins, v \in CoinValues : CoinArrives(c, v)
Spec == Init /\ [][Next]_vars

(* Timers and subscriptions restart a drain and a pass for ever, NEAR runs   *)
(* the receipts it has accepted, the connector pays what it accepted and     *)
(* gets coins, ntt-near completes what was sent; disturbances are finite.    *)
NearStep == \/ \E i \in Calls : ContractStep(i)
            \/ \E i \in DOMAIN moving : Resolve(i)
            \/ \E e \in DOMAIN events : Settle(e)
PaysOrGetsCoins == \/ \E a \in Accounts : ConnectorStep(a)
                   \/ \E c \in Coins, v \in CoinValues : CoinArrives(c, v)
FairSpec == /\ Spec
            /\ WF_vars(WatcherStep) /\ WF_vars(WorkerStep)
            /\ WF_vars(NearStep) /\ WF_vars(RelayClaim)
            /\ WF_vars(PaysOrGetsCoins) /\ WF_vars(NextBlock)

----------------------------------------------------------------------------
(* Every state is one the contract, the relayer and their store can be in:   *)
(* among others, the accounts are never overdrawn and no open record is one  *)
(* whose event names another account than its address derives.               *)
TypeOK ==
    /\ balance \in [Accounts -> Nat] /\ lostFound \in [Accounts -> Nat]
    /\ pending \in [Accounts -> Nat] /\ coins \in [Coins -> Nat]
    /\ key \in [Accounts -> NoKey..MaxAge]
    /\ config \in Configs /\ disturbances \in 0..MaxDisturbances
    /\ \A d \in signed : d.account \in Accounts /\ d.age \in 0..MaxAge
    /\ Len(settled) = Len(events)
    /\ store.cursor \in 0..Len(events)
    /\ store.open \subseteq {e \in DOMAIN events : store.record[e] = "open"}
    /\ \A e \in DOMAIN events : store.record[e] = "open" =>
           events[e].address = events[e].account

(* The cursor never passes an event that has no record: a drain that fails,  *)
(* a crash or a checkpoint loses none (watcher.ts read).                     *)
CursorCovers == \A e \in 1..store.cursor : store.record[e] # "none"

(* A record closes only when the connector took a withdrawal of its account: *)
(* a refusal, whether or not a receipt failed, keeps it open (worker.ts).    *)
(* The balance that shows it is also gone when a third party relays another  *)
(* withdrawal of the account just then, whatever the connector says to it.   *)
ClosedWhenTaken ==
    \A e \in DOMAIN events :
        store.record[e] = "withdrawn" => events[e].account \in taken \cup others

(* Every open record whose settlement is on its account is worked: however   *)
(* coins, balances and the configuration change under the pass, the balance  *)
(* leaves for the connector.  A withdrawal cancelled while its record closes *)
(* is back on the account with no record.                                    *)
HasOpen(a) == RecordsOf(a, store.open) # {}
Left(a) == balance[a] < config.min /\ \A i \in DOMAIN moving : moving[i].account # a
FundsLeave(a) ==
    (HasOpen(a) /\ balance[a] >= config.min) ~> (Left(a) \/ ~HasOpen(a))
=============================================================================
