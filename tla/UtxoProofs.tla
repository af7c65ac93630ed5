----------------------------- MODULE UtxoProofs -----------------------------
(***************************************************************************)
(* The watcher loses no event, and no record is closed without cause, for  *)
(* every number of sends and accounts, every interval between checkpoints, *)
(* any failures and crashes.                                               *)
(*                                                                         *)
(* The cursor is saved behind a drain that is further on, so the invariant *)
(* is about the drain: every event before its next block has a record, and *)
(* the checkpoint it will save is before that block.                       *)
(*                                                                         *)
(* A record is closed on a balance below the minimum, read receipts after  *)
(* one that was not.  So the invariant follows the pass: while no mark     *)
(* (`taken`, `others`) is on its account, the balance stays at or above    *)
(* the minimum, but for what the pass's own transfer has on its way and a  *)
(* refusal brings back; and it has one call or one transfer at a time.     *)
(***************************************************************************)
EXTENDS UtxoRelayer, SumLemmas

States == {"none", "open", "mismatch", "withdrawn"}
Busy == [at : {"block", "index", "save"}, next : Nat, safe : Nat, checkpoint : Nat]
Withdrawals == [address : Accounts, account : Accounts, amount : Nat]
StoreTypes ==
    /\ events \in Seq(Withdrawals) /\ Len(events) <= MaxSends
    /\ store.record \in [1..MaxSends -> States]
    /\ store.cursor \in 0..Len(events)
Recorded(n) == \A e \in 1..n : store.record[e] # "none"
Reads ==
    \/ watcher = Resting
    \/ /\ watcher \in Busy
       /\ watcher.safe <= Len(events) /\ watcher.checkpoint < watcher.next
       /\ watcher.at \in {"block", "index"} => watcher.next <= watcher.safe
       /\ watcher.next <= watcher.safe + 1
       /\ Recorded(watcher.next - 1)
       /\ watcher.at = "index" => store.record[watcher.next] # "none"
WatchInv == StoreTypes /\ Recorded(store.cursor) /\ Reads

(* NEAR: what a delegate, a call, a transfer and their accounts can be. *)
Kinds == {"withdraw", "claim"}
Relayers == {"bot", "anyone"}
Delegates == {d \in [kind : Kinds, account : Accounts, amount : Nat, coin : Coins \cup {NoCoin},
                     out : Int, age : Nat, left : Int] :
                 d.left >= -1 /\ d.age + d.left = Validity}
Transfers == [by : Relayers, account : Accounts, amount : Nat, coin : Coins \cup {NoCoin}, out : Int]
AskedCalls == {c \in [stage : {"key", "balance", "lost"}, by : Relayers, kind : Kinds,
                      account : Accounts, coin : Coins \cup {NoCoin}] :
                  /\ c.kind = "withdraw" => c.coin \in Coins
                  /\ c.stage = "balance" => c.kind = "withdraw"}
HeldCalls == [stage : {"connector"}, by : Relayers, kind : {"withdraw"}, account : Accounts,
              coin : Coins, balance : Nat]
ReadCalls == [stage : {"reads"}, by : Relayers, kind : Kinds, account : Accounts,
              coin : Coins \cup {NoCoin}, balance : Nat, config : Configs, value : Nat]
SignCalls == [stage : {"sign"}, by : Relayers, kind : Kinds, account : Accounts, delegate : Delegates]
OverCalls == [stage : {"over"}, by : {"bot"}, delegate : Delegates \cup {NoDelegate}]
CallStates == {Idle} \cup AskedCalls \cup HeldCalls \cup ReadCalls \cup SignCalls \cup OverCalls
NearTypes ==
    /\ calls \in [Calls -> CallStates] /\ signed \subseteq Delegates
    /\ balance \in [Accounts -> Nat] /\ lostFound \in [Accounts -> Nat]
    /\ pending \in [Accounts -> Nat] /\ coins \in [Coins -> Nat]
    /\ key \in [Accounts -> NoKey..MaxAge]
    /\ moving \in Seq(Transfers)
    /\ config \in Configs /\ disturbances \in 0..MaxDisturbances

CoinSets == [Coins -> Int]
Turns == [at : {"held", "relayed", "left", "close", "fail"}, open : SUBSET (1..MaxSends),
          config : Configs, coinSet : CoinSets, account : Accounts]
HeldTurns == [at : {"create", "coin", "signing", "fail"}, open : SUBSET (1..MaxSends),
              config : Configs, coinSet : CoinSets, account : Accounts, held : Nat]
RelayTurns == [at : {"relay", "fail"}, open : SUBSET (1..MaxSends),
               config : Configs, coinSet : CoinSets, account : Accounts, delegate : Delegates]
Passes == {AtRest} \cup [at : {"config"}, open : SUBSET (1..MaxSends)]
          \cup Turns \cup HeldTurns \cup RelayTurns

OpenInv ==
    /\ store.open \subseteq {e \in DOMAIN events : store.record[e] = "open"}
    /\ \A e \in 1..MaxSends : e > Len(events) => store.record[e] = "none"
    /\ \A e \in DOMAIN events : store.record[e] = "open" => events[e].address = events[e].account
    /\ watcher.at = "index" =>
           store.record[watcher.next] = "open" /\ watcher.next \notin store.open
    /\ worker.at # "idle" => worker.open \subseteq store.open
    /\ worker.at \notin {"idle", "config"} => RecordsOf(worker.account, worker.open) # {}

Safe(a) == a \in taken \cup others
Has(a, least) == Safe(a) \/ balance[a] >= least
Lasting(a, amount) == a = worker.account /\ (Safe(a) \/ amount >= worker.config.min)
Ours(c) == c.stage # "none" /\ c.by = "bot"
OursGood(c) ==
    /\ c.stage # "lost"
    /\ c.stage \in {"key", "balance"} =>
           /\ c.kind = "withdraw" /\ c.account = worker.account
           /\ Has(worker.account, worker.config.min)
    /\ c.stage \in {"connector", "reads"} => c.kind = "withdraw" /\ Lasting(c.account, c.balance)
    /\ c.stage \in {"sign", "over"} /\ c.delegate # NoDelegate =>
           c.delegate.kind = "withdraw" /\ Lasting(c.delegate.account, c.delegate.amount)
CallsInv ==
    \A i \in Calls : Ours(calls[i]) =>
        /\ worker.at = "signing" /\ OursGood(calls[i])
        /\ \A j \in Calls : Ours(calls[j]) => i = j
MovingInv ==
    \A i \in DOMAIN moving : moving[i].by = "bot" =>
        /\ worker.at = "relayed" /\ Lasting(moving[i].account, moving[i].amount)
        /\ \A j \in DOMAIN moving : moving[j].by = "bot" => i = j
TurnInv ==
    /\ worker.at \in {"create", "coin", "left"} => Has(worker.account, worker.config.min)
    /\ worker.at = "relay" =>
           worker.delegate.kind = "withdraw" /\ Lasting(worker.delegate.account, worker.delegate.amount)
    /\ worker.at = "close" => Safe(worker.account)
-----------------------------------------------------------------------------

LEMMA SendsNatural == MaxSends \in Nat
  BY RelayerAssumption DEF MaxSends

LEMMA StoreFields ==
    ASSUME NEW r, NEW o, NEW c
    PROVE  Store(r, o, c).record = r /\ Store(r, o, c).open = o /\ Store(r, o, c).cursor = c
  BY DEF Store

\* Where a drain goes after a block that has its record.
LEMMA AfterBlockReads ==
    ASSUME NEW w \in Busy, w.at \in {"block", "index"}, w.next <= w.safe, w.checkpoint < w.next,
           NEW a, a = AfterBlock(w)
    PROVE  /\ a \in Busy /\ a.at \in {"block", "save"}
           /\ a.next = w.next + 1 /\ a.safe = w.safe /\ a.checkpoint < a.next
           /\ a.at = "block" => a.next <= a.safe
<1>1. w.next \in Nat /\ w.safe \in Nat /\ w.checkpoint \in Nat
  BY DEF Busy
<1>2. CASE w.next = w.safe
  BY <1>1, <1>2 DEF AfterBlock, Busy
<1>3. CASE w.next # w.safe /\ w.next - w.checkpoint >= CheckpointEvery
  BY <1>1, <1>3 DEF AfterBlock, Busy
<1>4. CASE w.next # w.safe /\ ~(w.next - w.checkpoint >= CheckpointEvery)
  BY <1>1, <1>4 DEF AfterBlock, Reading, Busy
<1> QED
  BY <1>2, <1>3, <1>4

LEMMA RestingNotBusy == Resting.at = "idle" /\ \A w \in Busy : w.at # "idle" /\ w # Resting
  BY DEF Resting, Busy

LEMMA InitInv == Init => WatchInv
<1> SUFFICES ASSUME Init PROVE WatchInv
  OBVIOUS
<1>1. store.record = [e \in 1..MaxSends |-> "none"] /\ store.cursor = 0
  BY StoreFields DEF Init
<1>2. Len(events) = 0
  BY DEF Init
<1> QED
  BY <1>1, <1>2, SendsNatural DEF Init, WatchInv, StoreTypes, States, Recorded, Reads

-----------------------------------------------------------------------------
(* The watcher's steps. *)

LEMMA WatcherStartsInv == ASSUME WatchInv, WatcherStarts PROVE WatchInv'
<1>1. UNCHANGED <<store, events>> /\ store.cursor \in Nat /\ store.cursor < Len(events)
      /\ Len(events) \in Nat
  BY DEF WatchInv, StoreTypes, WatcherStarts, UnlessWatcher, hydrationVars
<1>2. watcher' = [at |-> "block", next |-> store.cursor + 1, safe |-> Len(events),
                  checkpoint |-> store.cursor]
  BY DEF WatcherStarts, Reading
<1>3. watcher' \in Busy /\ watcher'.next = store.cursor + 1 /\ watcher'.safe = Len(events)
      /\ watcher'.checkpoint = store.cursor /\ watcher'.at = "block"
  BY <1>1, <1>2 DEF Busy
<1>4. watcher'.next - 1 = store.cursor
  BY <1>1, <1>3
<1>5. Reads'
  BY <1>1, <1>3, <1>4 DEF WatchInv, Reads, Recorded
<1> QED
  BY <1>1, <1>5 DEF WatchInv, StoreTypes, Recorded

LEMMA OnWithdrawalInv == ASSUME WatchInv, OnWithdrawal PROVE WatchInv'
<1> DEFINE w == watcher
           e == w.next
<1>1. /\ w \in Busy /\ w.at = "block" /\ w.next <= w.safe /\ w.safe <= Len(events)
      /\ w.checkpoint < w.next
      /\ Recorded(e - 1)
      /\ w.next \in Nat /\ w.safe \in Nat /\ w.checkpoint \in Nat /\ Len(events) \in Nat
  BY RestingNotBusy DEF WatchInv, StoreTypes, Reads, OnWithdrawal, Busy
<1>2. e \in 1..MaxSends
  BY <1>1, SendsNatural DEF WatchInv, StoreTypes
<1>3. UNCHANGED events
  BY DEF OnWithdrawal, UnlessWatcher, hydrationVars
\* The event has a record now, and no record is gone.
<1>4. /\ store'.record \in [1..MaxSends -> States] /\ store'.cursor = store.cursor
      /\ store'.record[e] # "none"
      /\ \A f \in 1..MaxSends : store.record[f] # "none" => store'.record[f] # "none"
  <2>1. CASE store.record[e] # "none"
    BY <2>1 DEF WatchInv, StoreTypes, OnWithdrawal
  <2>2. CASE store.record[e] = "none"
    <3>1. store'.record = [store.record EXCEPT ![e] = StateFor(e)] /\ store'.cursor = store.cursor
      BY <2>2, StoreFields DEF OnWithdrawal
    <3>2. StateFor(e) \in States \ {"none"}
      BY DEF StateFor, States
    <3> QED
      BY <1>2, <3>1, <3>2 DEF WatchInv, StoreTypes
  <2> QED
    BY <2>1, <2>2
<1>5. StoreTypes'
  BY <1>3, <1>4 DEF WatchInv, StoreTypes
<1>6. Recorded(store.cursor)'
  BY <1>1, <1>4, SendsNatural DEF WatchInv, StoreTypes, Recorded
<1>7. \A f \in 1..e : store'.record[f] # "none"
  BY <1>1, <1>2, <1>4, SendsNatural DEF Recorded
<1>8. \/ watcher' = AfterBlock(w)
      \/ watcher' = [w EXCEPT !.at = "index"]
  BY DEF OnWithdrawal
<1>9. Reads'
  <2>1. CASE watcher' = AfterBlock(w)
    <3>1. /\ watcher' \in Busy /\ watcher'.at \in {"block", "save"}
          /\ watcher'.next = e + 1 /\ watcher'.safe = w.safe
          /\ watcher'.checkpoint < watcher'.next
          /\ watcher'.at = "block" => watcher'.next <= watcher'.safe
      BY <1>1, <2>1, AfterBlockReads
    <3>2. watcher'.next - 1 = e
      BY <1>1, <3>1
    <3> QED
      BY <1>1, <1>3, <1>7, <3>1, <3>2 DEF Reads, Recorded
  <2>2. CASE watcher' = [w EXCEPT !.at = "index"]
    <3>1. /\ watcher' \in Busy /\ watcher'.at = "index" /\ watcher'.next = e
          /\ watcher'.safe = w.safe /\ watcher'.checkpoint = w.checkpoint
      BY <1>1, <2>2 DEF Busy
    <3> QED
      BY <1>1, <1>2, <1>3, <1>4, <1>7, <3>1 DEF Reads, Recorded
  <2> QED
    BY <1>8, <2>1, <2>2
<1> QED
  BY <1>5, <1>6, <1>9 DEF WatchInv

LEMMA AddToOpenInv == ASSUME WatchInv, AddToOpen PROVE WatchInv'
<1> DEFINE w == watcher
           e == w.next
<1>1. /\ w \in Busy /\ w.at = "index" /\ w.next <= w.safe /\ w.safe <= Len(events)
      /\ w.checkpoint < w.next
      /\ Recorded(e - 1) /\ store.record[e] # "none"
      /\ w.next \in Nat /\ w.safe \in Nat /\ w.checkpoint \in Nat /\ Len(events) \in Nat
  BY RestingNotBusy DEF WatchInv, StoreTypes, Reads, AddToOpen, Busy
<1>2. UNCHANGED events /\ store'.record = store.record /\ store'.cursor = store.cursor
  BY StoreFields DEF AddToOpen, UnlessWatcher, hydrationVars
<1>3. /\ watcher' \in Busy /\ watcher'.at \in {"block", "save"}
      /\ watcher'.next = e + 1 /\ watcher'.safe = w.safe
      /\ watcher'.checkpoint < watcher'.next
      /\ watcher'.at = "block" => watcher'.next <= watcher'.safe
  BY <1>1, AfterBlockReads DEF AddToOpen
<1>4. watcher'.next - 1 = e /\ \A f \in 1..e : store.record[f] # "none"
  BY <1>1, <1>3 DEF Recorded
<1>5. Reads'
  BY <1>1, <1>2, <1>3, <1>4 DEF Reads, Recorded
<1> QED
  BY <1>2, <1>5 DEF WatchInv, StoreTypes, Recorded

LEMMA SaveCursorInv == ASSUME WatchInv, SaveCursor PROVE WatchInv'
<1> DEFINE w == watcher
<1>1. /\ w \in Busy /\ w.at = "save" /\ w.safe <= Len(events)
      /\ w.checkpoint < w.next /\ w.next <= w.safe + 1
      /\ Recorded(w.next - 1)
      /\ w.next \in Nat /\ w.safe \in Nat /\ w.checkpoint \in Nat /\ Len(events) \in Nat
  BY RestingNotBusy DEF WatchInv, StoreTypes, Reads, SaveCursor, Busy
<1>2. UNCHANGED events /\ store'.record = store.record /\ store'.cursor = w.checkpoint
  BY StoreFields DEF SaveCursor, UnlessWatcher, hydrationVars
<1>3. StoreTypes' /\ Recorded(store.cursor)'
  BY <1>1, <1>2 DEF WatchInv, StoreTypes, Recorded
<1>4. Reads'
  <2>1. CASE w.next > w.safe
    BY <2>1 DEF SaveCursor, Reads
  <2>2. CASE ~(w.next > w.safe)
    <3>1. watcher' = [at |-> "block", next |-> w.next, safe |-> w.safe, checkpoint |-> w.checkpoint]
      BY <2>2 DEF SaveCursor, Reading
    <3>2. /\ watcher' \in Busy /\ watcher'.at = "block" /\ watcher'.next = w.next
          /\ watcher'.safe = w.safe /\ watcher'.checkpoint = w.checkpoint
      BY <1>1, <3>1 DEF Busy
    <3> QED
      BY <1>1, <1>2, <2>2, <3>2 DEF Reads, Recorded
  <2> QED
    BY <2>1, <2>2
<1> QED
  BY <1>3, <1>4 DEF WatchInv

-----------------------------------------------------------------------------
(* What the other steps leave of the watcher's. *)

LEMMA Undisturbed ==
    ASSUME WatchInv, UNCHANGED <<events, store>>, watcher' = watcher \/ watcher' = Resting
    PROVE  WatchInv'
  BY DEF WatchInv, StoreTypes, Recorded, Reads

LEMMA SendInv ==
    ASSUME WatchInv, Len(events) < MaxSends, NEW amount \in Amounts,
           NEW r \in Requests[Len(events) + 1], Send(amount, r[1], r[2])
    PROVE  WatchInv'
<1> DEFINE withdrawal == [address |-> r[1], account |-> r[2], amount |-> amount - Fee]
<1>1. events \in Seq(Withdrawals) /\ Len(events) \in Nat
  BY DEF WatchInv, StoreTypes
<1>2. Len(events) + 1 \in DOMAIN Requests
  BY <1>1, SendsNatural, RelayerAssumption DEF MaxSends
<1>3. r \in Accounts \X Accounts
  BY <1>2, RelayerAssumption
<1>4. withdrawal \in Withdrawals
  <2>1. amount \in Nat /\ Fee \in Nat /\ MinWithdraw \in Nat /\ amount >= Fee + MinWithdraw
    BY RelayerAssumption DEF Send
  <2>2. amount - Fee \in Nat
    BY <2>1
  <2> QED
    BY <1>3, <2>2 DEF Withdrawals
<1>5. events' = Append(events, withdrawal) /\ UNCHANGED <<store, watcher>>
  BY DEF Send, agentVars
<1> HIDE DEF withdrawal
<1>6. events' \in Seq(Withdrawals) /\ Len(events') = Len(events) + 1
  BY <1>1, <1>4, <1>5
<1>7. StoreTypes' /\ Recorded(store.cursor)'
  BY <1>1, <1>5, <1>6, SendsNatural DEF WatchInv, StoreTypes, Recorded
<1>8. Reads'
  <2>1. CASE watcher = Resting
    BY <1>5, <2>1 DEF Reads
  <2>2. CASE watcher # Resting
    <3>1. watcher \in Busy /\ watcher.safe \in Nat
      BY <2>2 DEF WatchInv, Reads, Busy
    <3>2. watcher.safe <= Len(events')
      BY <1>1, <1>6, <2>2, <3>1 DEF WatchInv, Reads
    <3> QED
      BY <1>5, <2>2, <3>1, <3>2 DEF WatchInv, Reads, Recorded
  <2> QED
    BY <2>1, <2>2
<1> QED
  BY <1>7, <1>8 DEF WatchInv

\* A record that closes is still a record.
LEMMA CloseRecordInv == ASSUME WatchInv, CloseRecord PROVE WatchInv'
<1>1. PICK e : /\ store' = Store([store.record EXCEPT ![e] = "withdrawn"], store.open \ {e}, store.cursor)
  BY DEF CloseRecord
<1>2. store'.record = [store.record EXCEPT ![e] = "withdrawn"] /\ store'.cursor = store.cursor
  BY <1>1, StoreFields
<1>3. UNCHANGED <<events, watcher>>
  BY DEF CloseRecord, UnlessWorker, hydrationVars
<1>4. store'.record \in [1..MaxSends -> States]
  BY <1>2 DEF WatchInv, StoreTypes, States
<1>5. \A f \in 1..MaxSends : store.record[f] # "none" => store'.record[f] # "none"
  BY <1>2 DEF WatchInv, StoreTypes
<1>6. Len(events) \in Nat /\ Len(events) <= MaxSends /\ store.cursor \in 0..Len(events)
  BY DEF WatchInv, StoreTypes
<1>7. StoreTypes' /\ Recorded(store.cursor)'
  <2>1. StoreTypes'
    BY <1>2, <1>3, <1>4 DEF WatchInv, StoreTypes
  <2>2. \A f \in 1..store.cursor : f \in 1..MaxSends
    BY <1>6, SendsNatural
  <2> QED
    BY <1>2, <1>5, <2>1, <2>2 DEF WatchInv, Recorded
<1>8. Reads'
  <2>1. CASE watcher = Resting
    BY <1>3, <2>1 DEF Reads
  <2>2. CASE watcher # Resting
    <3>1. /\ watcher \in Busy /\ watcher.next \in Nat /\ watcher.safe \in Nat
          /\ watcher.safe <= Len(events) /\ watcher.next <= watcher.safe + 1
          /\ watcher.checkpoint < watcher.next /\ watcher.checkpoint \in Nat
          /\ Recorded(watcher.next - 1)
          /\ watcher.at \in {"block", "index"} => watcher.next <= watcher.safe
          /\ watcher.at = "index" => store.record[watcher.next] # "none"
      BY <2>2 DEF WatchInv, Reads, Busy
    <3>2. \A f \in 1..(watcher.next - 1) : f \in 1..MaxSends
      BY <1>6, <3>1, SendsNatural
    <3>3. Recorded(watcher.next - 1)'
      BY <1>3, <1>5, <3>1, <3>2 DEF Recorded
    <3>4. watcher.at = "index" => watcher.next \in 1..MaxSends
      BY <1>6, <3>1, SendsNatural
    <3>5. watcher.at = "index" => store'.record[watcher.next] # "none"
      BY <1>5, <3>1, <3>4
    <3> QED
      BY <1>3, <3>1, <3>3, <3>5 DEF Reads
  <2> QED
    BY <2>1, <2>2
<1> QED
  BY <1>7, <1>8 DEF WatchInv

LEMMA WorkerStepInv == ASSUME WatchInv, WorkerStep PROVE WatchInv'
<1>1. CASE PassStarts \/ ReadConfig \/ ReadHeld \/ NoCoinFits \/ ReadLeft \/ Fail
  BY <1>1, Undisturbed
     DEF PassStarts, ReadConfig, ReadHeld, NoCoinFits, ReadLeft, Fail, UnlessWorker, hydrationVars
<1>2. CASE EnsureAccount \/ RelayDelegate
  BY <1>2, Undisturbed DEF EnsureAccount, RelayDelegate, hydrationVars
<1>3. CASE \E i \in Calls : AskToSign(i) \/ Signed(i)
  BY <1>3, Undisturbed DEF AskToSign, Signed, hydrationVars
<1> QED
  BY <1>1, <1>2, <1>3, CloseRecordInv DEF WorkerStep

LEMMA FailuresInv ==
    ASSUME WatchInv, DrainFails \/ PassFails \/ AccountFails \/ Crash PROVE WatchInv'
  BY Undisturbed DEF DrainFails, PassFails, AccountFails, Crash, Orphaned, hydrationVars

\* NEAR, the connector, users and time know nothing of the store.
LEMMA OutsideInv ==
    ASSUME WatchInv,
           \/ \E e \in DOMAIN events : Settle(e)
           \/ \E i \in Calls : ContractStep(i)
           \/ ContractDisturbed
           \/ \E i \in DOMAIN moving : Resolve(i)
           \/ \E a \in Accounts : ConnectorStep(a)
           \/ ConnectorDisturbed
           \/ NextBlock \/ Anyone \/ RelayClaim
           \/ \E c \in Coins, v \in CoinValues : CoinArrives(c, v)
    PROVE  WatchInv'
<1>1. UNCHANGED <<events, store, watcher>>
  BY DEF Settle, ContractStep, ContractDisturbed, Resolve, ConnectorStep, ConnectorDisturbed,
     NextBlock, Anyone, RelayClaim, CoinArrives, hydrationVars, agentVars
<1> QED
  BY <1>1, Undisturbed

LEMMA StepInv == WatchInv /\ [Next]_vars => WatchInv'
<1> SUFFICES ASSUME WatchInv, [Next]_vars PROVE WatchInv'
  OBVIOUS
<1>1. CASE Len(events) < MaxSends
           /\ \E amount \in Amounts, r \in Requests[Len(events) + 1] : Send(amount, r[1], r[2])
  BY <1>1, SendInv
<1>2. CASE WatcherStep
  BY <1>2, WatcherStartsInv, OnWithdrawalInv, AddToOpenInv, SaveCursorInv DEF WatcherStep
<1>3. CASE UNCHANGED vars
  BY <1>3, Undisturbed DEF vars, hydrationVars, agentVars
<1> QED
  BY <1>1, <1>2, <1>3, WorkerStepInv, FailuresInv, OutsideInv DEF Next

-----------------------------------------------------------------------------
(* NEAR: delegates, calls and their arithmetic. *)

LEMMA ConfigTypes ==
    ASSUME NEW c \in Configs
    PROVE  /\ c.min \in Nat /\ c.feeMin \in Nat /\ c.feeRate \in Nat /\ c.minChange \in Nat
  BY UtxoAssumption

LEMMA BridgeFeeNat == ASSUME NEW c \in Configs, NEW n \in Nat PROVE BridgeFee(c, n) \in Nat
<1>1. n * c.feeRate \in Nat
  BY ConfigTypes
<1>2. (n * c.feeRate) \div MaxRatio \in Nat
  BY <1>1, UtxoAssumption
<1> QED
  BY <1>2, ConfigTypes DEF BridgeFee

LEMMA UserOutInt == ASSUME NEW c \in Configs, NEW n \in Nat PROVE UserOut(c, n) \in Int
  BY BridgeFeeNat, UtxoAssumption DEF UserOut

LEMMA DelegateTyped ==
    ASSUME NEW kind \in Kinds, NEW a \in Accounts, NEW n \in Nat,
           NEW coin \in Coins \cup {NoCoin}, NEW out \in Int
    PROVE  Delegate(kind, a, n, coin, out) \in Delegates
  BY UtxoAssumption DEF Delegate, Delegates

LEMMA DelegateFields ==
    ASSUME NEW d \in Delegates
    PROVE  /\ d.kind \in Kinds /\ d.account \in Accounts /\ d.amount \in Nat
           /\ d.age \in 0..MaxAge /\ d.left \in Int /\ d # NoDelegate
<1>1. d.kind \in Kinds /\ d.account \in Accounts /\ d.amount \in Nat /\ d.age \in Nat
      /\ d.left \in Int /\ d.left >= -1 /\ d.age + d.left = Validity
  BY DEF Delegates
<1>2. d.age \in 0..MaxAge
  BY <1>1, UtxoAssumption DEF MaxAge
<1>3. NoDelegate.kind \notin Kinds
  BY DEF NoDelegate, Kinds
<1> QED
  BY <1>1, <1>2, <1>3

LEMMA AgedDelegate ==
    ASSUME NEW d \in Delegates, d.left >= 0
    PROVE  /\ Aged(d) \in Delegates
           /\ Aged(d).kind = d.kind /\ Aged(d).account = d.account /\ Aged(d).amount = d.amount
<1> DEFINE Fields == [kind : Kinds, account : Accounts, amount : Nat,
                      coin : Coins \cup {NoCoin}, out : Int, age : Nat, left : Int]
<1>1. d \in Fields /\ d.left >= -1 /\ d.age + d.left = Validity /\ d.age \in Nat /\ d.left \in Int
  BY DEF Delegates
<1>2. /\ Aged(d) \in Fields /\ Aged(d).age = d.age + 1 /\ Aged(d).left = d.left - 1
      /\ Aged(d).kind = d.kind /\ Aged(d).account = d.account /\ Aged(d).amount = d.amount
  <2>1. d \in Fields
    BY <1>1
  <2>2. PICK age \in Nat : age = d.age + 1
    BY <1>1
  <2>3. PICK left \in Int : left = d.left - 1
    BY <1>1
  <2>4. Aged(d) = [[d EXCEPT !.age = age] EXCEPT !.left = left]
    BY <2>1, <2>2, <2>3 DEF Aged
  <2> QED
    BY <2>1, <2>2, <2>3, <2>4
<1>3. Aged(d).left >= -1 /\ Aged(d).age + Aged(d).left = Validity
  BY <1>1, <1>2, UtxoAssumption
<1> QED
  BY <1>2, <1>3 DEF Delegates

\* What a call's stage says of it.
LEMMA CallShape ==
    ASSUME NEW c \in CallStates
    PROVE  /\ c.stage = "none" <=> c = Idle
           /\ c.stage \in {"key", "balance", "lost"} => c \in AskedCalls
           /\ c.stage = "connector" => c \in HeldCalls
           /\ c.stage = "reads" => c \in ReadCalls
           /\ c.stage = "sign" => c \in SignCalls
           /\ c.stage = "over" => c \in OverCalls
           /\ c.stage \in {"none", "key", "balance", "lost", "connector", "reads", "sign", "over"}
  BY DEF CallStates, Idle, AskedCalls, HeldCalls, ReadCalls, SignCalls, OverCalls

LEMMA IdleCall == Idle \in CallStates /\ Idle.stage = "none" /\ ~Ours(Idle)
  BY DEF CallStates, Idle, Ours

\* A chain that ends.
LEMMA EndedCall ==
    ASSUME NEW c \in CallStates, c.stage # "none", NEW d \in Delegates \cup {NoDelegate}
    PROVE  /\ Ended(c, d) \in CallStates
           /\ Ours(Ended(c, d)) => Ours(c) /\ Ended(c, d).stage = "over" /\ Ended(c, d).delegate = d
<1>1. CASE c.by = "bot"
  BY <1>1 DEF Ended, CallStates, OverCalls, Ours
<1>2. CASE c.by # "bot"
  BY <1>2, IdleCall DEF Ended
<1> QED
  BY <1>1, <1>2

LEMMA SigningCall ==
    ASSUME NEW c \in ReadCalls, NEW d \in Delegates
    PROVE  /\ Signing(c, d) \in CallStates
           /\ Signing(c, d).stage = "sign" /\ Signing(c, d).by = c.by /\ Signing(c, d).delegate = d
  BY DEF Signing, CallStates, SignCalls, ReadCalls

LEMMA AgedCallTyped ==
    ASSUME NEW c \in CallStates
    PROVE  /\ AgedCall(c) \in CallStates
           /\ Ours(AgedCall(c)) => Ours(c)
           /\ c.stage \notin {"sign", "over"} => AgedCall(c) = c
           /\ c.stage \in {"sign", "over"} =>
                  /\ AgedCall(c).stage = c.stage
                  /\ (AgedCall(c).delegate = NoDelegate) <=> (c.delegate = NoDelegate)
                  /\ c.delegate # NoDelegate =>
                         /\ AgedCall(c).delegate.kind = c.delegate.kind
                         /\ AgedCall(c).delegate.account = c.delegate.account
                         /\ AgedCall(c).delegate.amount = c.delegate.amount
<1>1. CASE c.stage \notin {"sign", "over"} \/ c.delegate = NoDelegate
  BY <1>1 DEF AgedCall
<1>2. CASE c.stage \in {"sign", "over"} /\ c.delegate # NoDelegate
  <2>1. c.delegate \in Delegates
    BY <1>2, CallShape DEF SignCalls, OverCalls
  <2>2. PICK d \in Delegates : /\ d = (IF c.delegate.left >= 0 THEN Aged(c.delegate) ELSE c.delegate)
                               /\ d.kind = c.delegate.kind /\ d.account = c.delegate.account
                               /\ d.amount = c.delegate.amount
    BY <2>1, AgedDelegate
  <2>3. AgedCall(c) = [c EXCEPT !.delegate = d]
    BY <1>2, <2>2 DEF AgedCall
  <2>4. d # NoDelegate
    BY DelegateFields
  <2>5. CASE c.stage = "sign"
    <3>1. c \in SignCalls
      BY <2>5, CallShape
    <3>2. AgedCall(c) \in SignCalls /\ AgedCall(c).delegate = d /\ AgedCall(c).by = c.by
          /\ AgedCall(c).stage = c.stage
      BY <2>3, <3>1 DEF SignCalls
    <3> QED
      BY <1>2, <2>2, <2>4, <2>5, <3>2 DEF CallStates, Ours
  <2>6. CASE c.stage = "over"
    <3>1. c \in OverCalls
      BY <2>6, CallShape
    <3>2. AgedCall(c) \in OverCalls /\ AgedCall(c).delegate = d /\ AgedCall(c).by = c.by
          /\ AgedCall(c).stage = c.stage
      BY <2>3, <3>1 DEF OverCalls
    <3> QED
      BY <1>2, <2>2, <2>4, <2>6, <3>2 DEF CallStates, Ours
  <2> QED
    BY <1>2, <2>5, <2>6
<1> QED
  BY <1>1, <1>2

\* A receipt of a call: what the call becomes, and that it stays the pass's own.
Advances(c, d) == d \in CallStates /\ (Ours(d) => Ours(c) /\ (OursGood(c) => OursGood(d)))

LEMMA EndedAdvances ==
    ASSUME NEW c \in CallStates, c.stage # "none" PROVE Advances(c, Ended(c, NoDelegate))
<1>1. /\ Ended(c, NoDelegate) \in CallStates
      /\ Ours(Ended(c, NoDelegate)) =>
             /\ Ours(c) /\ Ended(c, NoDelegate).stage = "over"
             /\ Ended(c, NoDelegate).delegate = NoDelegate
  BY EndedCall
<1> QED
  BY <1>1 DEF Advances, OursGood

LEMMA OnKeyAdvances ==
    ASSUME NearTypes, NEW i \in Calls, OnKey(i)
    PROVE  \E d : calls' = [calls EXCEPT ![i] = d] /\ Advances(calls[i], d)
<1> DEFINE c == calls[i]
           stage == IF c.kind = "withdraw" THEN "balance" ELSE "lost"
           d == [c EXCEPT !.stage = stage]
<1>1. c \in AskedCalls /\ calls' = [calls EXCEPT ![i] = d]
  BY CallShape DEF NearTypes, OnKey
<1>2. d \in AskedCalls /\ d.by = c.by /\ d.kind = c.kind /\ d.account = c.account /\ d.stage = stage
  BY <1>1 DEF AskedCalls
<1>3. c.stage = "key"
  BY DEF OnKey
<1>4. Advances(c, d)
  BY <1>1, <1>2, <1>3 DEF Advances, CallStates, Ours, OursGood
<1> QED
  BY <1>1, <1>4

LEMMA BalanceReadAdvances ==
    ASSUME NearTypes, NEW i \in Calls, BalanceRead(i)
    PROVE  \E d : calls' = [calls EXCEPT ![i] = d] /\ Advances(calls[i], d)
<1> DEFINE c == calls[i]
           d == [stage |-> "connector", by |-> c.by, kind |-> c.kind, account |-> c.account,
                 coin |-> c.coin, balance |-> balance[c.account]]
<1>1. c \in AskedCalls /\ c.stage = "balance" /\ calls' = [calls EXCEPT ![i] = d]
  BY CallShape DEF NearTypes, BalanceRead
<1>2. c.kind = "withdraw" /\ c.coin \in Coins /\ c.account \in Accounts /\ c.by \in Relayers
  BY <1>1 DEF AskedCalls
<1>3. d \in HeldCalls
  BY <1>2 DEF HeldCalls, NearTypes
<1>4. Advances(c, d)
  BY <1>1, <1>2, <1>3 DEF Advances, CallStates, Ours, OursGood, Lasting, Has
<1> QED
  BY <1>1, <1>4

LEMMA ConnectorReadAdvances ==
    ASSUME NearTypes, NEW i \in Calls, ConnectorRead(i)
    PROVE  \E d : calls' = [calls EXCEPT ![i] = d] /\ Advances(calls[i], d)
<1> DEFINE c == calls[i]
           d == [stage |-> "reads", by |-> c.by, kind |-> c.kind, account |-> c.account,
                 coin |-> c.coin, balance |-> c.balance, config |-> config, value |-> coins[c.coin]]
<1>1. c \in HeldCalls /\ c.stage = "connector" /\ calls' = [calls EXCEPT ![i] = d]
  BY CallShape DEF NearTypes, ConnectorRead
<1>2. d \in ReadCalls
  BY <1>1 DEF HeldCalls, ReadCalls, NearTypes, Kinds
<1>3. Advances(c, d)
  BY <1>1, <1>2 DEF Advances, CallStates, Ours, OursGood, Lasting
<1> QED
  BY <1>1, <1>3

\* A claim is nobody's of the pass.
LEMMA LostFoundReadAdvances ==
    ASSUME NearTypes, NEW i \in Calls, LostFoundRead(i)
    PROVE  \E d : calls' = [calls EXCEPT ![i] = d] /\ Advances(calls[i], d)
<1> DEFINE c == calls[i]
           d == [stage |-> "reads", by |-> c.by, kind |-> c.kind, account |-> c.account,
                 coin |-> c.coin, balance |-> lostFound[c.account], config |-> config, value |-> 0]
<1>1. c \in AskedCalls /\ c.stage = "lost" /\ calls' = [calls EXCEPT ![i] = d]
  BY CallShape DEF NearTypes, LostFoundRead
<1>2. d \in ReadCalls
  BY <1>1 DEF AskedCalls, ReadCalls, NearTypes
<1>3. Advances(c, d)
  BY <1>1, <1>2 DEF Advances, CallStates, Ours, OursGood
<1> QED
  BY <1>1, <1>3

LEMMA SigningAdvances ==
    ASSUME NEW c \in ReadCalls, NEW d \in Delegates,
           d.kind = c.kind, d.account = c.account, d.amount = c.balance
    PROVE  Advances(c, Signing(c, d))
<1>1. /\ Signing(c, d) \in CallStates /\ Signing(c, d).stage = "sign"
      /\ Signing(c, d).by = c.by /\ Signing(c, d).delegate = d
  BY SigningCall
<1>2. c.stage = "reads"
  BY DEF ReadCalls
<1> QED
  BY <1>1, <1>2 DEF Advances, Ours, OursGood, Lasting

LEMMA OnReadsAdvances ==
    ASSUME NearTypes, NEW i \in Calls, OnReads(i)
    PROVE  \E d : calls' = [calls EXCEPT ![i] = d] /\ Advances(calls[i], d)
<1> DEFINE c == calls[i]
           d == IF c.value > 0 /\ Buildable(c.config, c.balance, c.value)
                THEN Signing(c, BuildWithdraw(c)) ELSE Ended(c, NoDelegate)
<1>1. c \in ReadCalls /\ c.stage = "reads" /\ c.kind = "withdraw" /\ c \in CallStates
  BY CallShape DEF NearTypes, OnReads
<1>2. calls' = [calls EXCEPT ![i] = d]
  BY DEF OnReads
<1>3. c.account \in Accounts /\ c.balance \in Nat /\ c.coin \in Coins \cup {NoCoin} /\ c.config \in Configs
  BY <1>1 DEF ReadCalls
<1>4. UserOut(c.config, c.balance) \in Int
  BY <1>3, UserOutInt
<1>5. BuildWithdraw(c) \in Delegates
  BY <1>3, <1>4, DelegateTyped DEF BuildWithdraw, Kinds
<1>6. /\ BuildWithdraw(c).kind = c.kind /\ BuildWithdraw(c).account = c.account
      /\ BuildWithdraw(c).amount = c.balance
  BY <1>1 DEF BuildWithdraw, Delegate
<1>7. Advances(c, Signing(c, BuildWithdraw(c))) /\ Advances(c, Ended(c, NoDelegate))
  BY <1>1, <1>5, <1>6, SigningAdvances, EndedAdvances
<1> QED
  BY <1>2, <1>7

LEMMA OnLostFoundAdvances ==
    ASSUME NearTypes, NEW i \in Calls, OnLostFound(i)
    PROVE  \E d : calls' = [calls EXCEPT ![i] = d] /\ Advances(calls[i], d)
<1> DEFINE c == calls[i]
           d == IF c.balance > 0 THEN Signing(c, BuildClaim(c)) ELSE Ended(c, NoDelegate)
<1>1. c \in ReadCalls /\ c.stage = "reads" /\ c.kind = "claim" /\ c \in CallStates
  BY CallShape DEF NearTypes, OnLostFound
<1>2. calls' = [calls EXCEPT ![i] = d]
  BY DEF OnLostFound
<1>3. c.account \in Accounts /\ c.balance \in Nat
  BY <1>1 DEF ReadCalls
<1>4. BuildClaim(c) \in Delegates
  <2>1. "claim" \in Kinds /\ NoCoin \in Coins \cup {NoCoin} /\ 0 \in Int
    BY DEF Kinds
  <2>2. Delegate("claim", c.account, c.balance, NoCoin, 0) \in Delegates
    BY <1>3, <2>1, DelegateTyped
  <2> QED
    BY <2>2 DEF BuildClaim
<1>5. BuildClaim(c).kind = c.kind /\ BuildClaim(c).account = c.account /\ BuildClaim(c).amount = c.balance
  BY <1>1 DEF BuildClaim, Delegate
<1>6. Advances(c, Signing(c, BuildClaim(c))) /\ Advances(c, Ended(c, NoDelegate))
  BY <1>1, <1>4, <1>5, SigningAdvances, EndedAdvances
<1> QED
  BY <1>2, <1>6

LEMMA OnSignedAdvances ==
    ASSUME NearTypes, NEW i \in Calls, OnSigned(i)
    PROVE  /\ \E d : calls' = [calls EXCEPT ![i] = d] /\ Advances(calls[i], d)
           /\ signed' \subseteq Delegates
<1> DEFINE c == calls[i]
           d == Ended(c, c.delegate)
<1>1. c \in SignCalls /\ c.stage = "sign" /\ c \in CallStates /\ c.delegate \in Delegates
  BY CallShape DEF NearTypes, OnSigned, SignCalls
<1>2. calls' = [calls EXCEPT ![i] = d] /\ signed' = signed \cup {c.delegate}
  BY DEF OnSigned
<1>3. d \in CallStates /\ (Ours(d) => Ours(c) /\ d.stage = "over" /\ d.delegate = c.delegate)
  BY <1>1, EndedCall
<1>4. Advances(c, d)
  BY <1>1, <1>3 DEF Advances, OursGood
<1> QED
  BY <1>1, <1>2, <1>4 DEF NearTypes

LEMMA CallFailsAdvances ==
    ASSUME NearTypes, NEW i \in Calls, CallFails(i)
    PROVE  \E d : calls' = [calls EXCEPT ![i] = d] /\ Advances(calls[i], d)
<1>1. calls[i] \in CallStates /\ calls[i].stage # "none"
  BY DEF NearTypes, CallFails
<1> QED
  BY <1>1, EndedAdvances DEF CallFails

\* Every step of a call, the pass's or a third party's.
LEMMA ContractAdvances ==
    ASSUME NearTypes, NEW i \in Calls,
           \/ OnKey(i) \/ BalanceRead(i) \/ ConnectorRead(i) \/ LostFoundRead(i)
           \/ OnReads(i) \/ OnLostFound(i) \/ OnSigned(i) \/ CallFails(i)
    PROVE  /\ \E d : calls' = [calls EXCEPT ![i] = d] /\ Advances(calls[i], d)
           /\ signed' \subseteq Delegates
<1>1. CASE OnSigned(i)
  BY <1>1, OnSignedAdvances
<1>2. CASE ~OnSigned(i)
  <2>1. signed' = signed
    BY <1>2 DEF OnKey, BalanceRead, ConnectorRead, LostFoundRead, OnReads, OnLostFound, CallFails
  <2>2. signed' \subseteq Delegates
    BY <2>1 DEF NearTypes
  <2> QED
    BY <1>2, <2>2, OnKeyAdvances, BalanceReadAdvances, ConnectorReadAdvances,
       LostFoundReadAdvances, OnReadsAdvances, OnLostFoundAdvances, CallFailsAdvances
<1> QED
  BY <1>1, <1>2

-----------------------------------------------------------------------------
(* NEAR: its state. *)

LEMMA DisturbTyped ==
    ASSUME disturbances \in 0..MaxDisturbances, Disturb \/ UNCHANGED disturbances
    PROVE  disturbances' \in 0..MaxDisturbances
  BY UtxoAssumption DEF Disturb

LEMMA CallMoves ==
    ASSUME NearTypes, NEW i \in Calls, NEW d \in CallStates, calls' = [calls EXCEPT ![i] = d]
    PROVE  /\ calls' \in [Calls -> CallStates] /\ calls'[i] = d
           /\ \A j \in Calls \ {i} : calls'[j] = calls[j]
  BY DEF NearTypes

\* Only the calls, what is signed and the budget.
LEMMA CallsTyped ==
    ASSUME NearTypes, UNCHANGED nearVars, Disturb \/ UNCHANGED disturbances,
           calls' \in [Calls -> CallStates], signed' \subseteq Delegates
    PROVE  NearTypes'
  BY DisturbTyped DEF NearTypes, nearVars

LEMMA ContractTyped ==
    ASSUME NearTypes, (\E i \in Calls : ContractStep(i)) \/ ContractDisturbed PROVE NearTypes'
<1>1. ASSUME NEW i \in Calls,
             \/ OnKey(i) \/ BalanceRead(i) \/ ConnectorRead(i) \/ LostFoundRead(i)
             \/ OnReads(i) \/ OnLostFound(i) \/ OnSigned(i) \/ CallFails(i)
      PROVE  NearTypes'
  <2>1. PICK d : calls' = [calls EXCEPT ![i] = d] /\ d \in CallStates
    BY <1>1, ContractAdvances DEF Advances
  <2>2. calls' \in [Calls -> CallStates] /\ signed' \subseteq Delegates
    BY <1>1, <2>1, CallMoves, ContractAdvances
  <2>3. UNCHANGED nearVars /\ (Disturb \/ UNCHANGED disturbances)
    BY <1>1 DEF OnKey, BalanceRead, ConnectorRead, LostFoundRead, OnReads, OnLostFound,
       OnSigned, CallFails
  <2> QED
    BY <2>2, <2>3, CallsTyped
<1> QED
  BY <1>1 DEF ContractStep, ContractDisturbed

LEMMA WithdrawCall ==
    ASSUME NEW by \in Relayers, NEW a \in Accounts, NEW coin \in Coins
    PROVE  [stage |-> "key", by |-> by, kind |-> "withdraw", account |-> a, coin |-> coin] \in CallStates
  BY DEF CallStates, AskedCalls, Kinds

LEMMA ClaimCall ==
    ASSUME NEW by \in Relayers, NEW a \in Accounts
    PROVE  [stage |-> "key", by |-> by, kind |-> "claim", account |-> a, coin |-> NoCoin] \in CallStates
  BY DEF CallStates, AskedCalls, Kinds

LEMMA DerivedTyped ==
    ASSUME NearTypes, NEW i \in Calls, NEW by \in Relayers, NEW a \in Accounts,
           (\E coin \in Coins : Withdraw(i, by, a, coin)) \/ Claim(i, by, a),
           UNCHANGED <<signed, nearVars>>, Disturb \/ UNCHANGED disturbances
    PROVE  NearTypes'
<1>1. PICK d \in CallStates : calls' = [calls EXCEPT ![i] = d]
  <2>1. CASE \E coin \in Coins : Withdraw(i, by, a, coin)
    BY <2>1, WithdrawCall DEF Withdraw, Derive
  <2>2. CASE Claim(i, by, a)
    BY <2>2, ClaimCall DEF Claim, Derive
  <2> QED
    BY <2>1, <2>2
<1>2. calls' \in [Calls -> CallStates] /\ signed' \subseteq Delegates
  BY <1>1, CallMoves DEF NearTypes
<1> QED
  BY <1>2, CallsTyped

LEMMA SignedTyped == ASSUME NearTypes, NEW i \in Calls, Signed(i) PROVE NearTypes'
<1>1. calls' \in [Calls -> CallStates] /\ signed' \subseteq Delegates
  BY IdleCall, CallMoves DEF Signed, NearTypes
<1> QED
  BY <1>1, CallsTyped DEF Signed

\* Sequences: all elements changed, and one removed.
LEMMA SeqOfElements ==
    ASSUME NEW S, NEW T, NEW s \in Seq(S), NEW f \in [DOMAIN s -> T] PROVE f \in Seq(T)
  OBVIOUS

LEMMA SeqRemoved ==
    ASSUME NEW S, NEW s \in Seq(S), NEW i \in DOMAIN s
    PROVE  /\ RemoveAt(s, i) \in Seq(S)
           /\ \A k \in DOMAIN RemoveAt(s, i) :
                  IF k < i THEN k \in DOMAIN s /\ RemoveAt(s, i)[k] = s[k]
                           ELSE k + 1 \in DOMAIN s /\ RemoveAt(s, i)[k] = s[k + 1]
           /\ DOMAIN RemoveAt(s, i) \subseteq Nat /\ i \in Nat
<1> DEFINE front == SubSeq(s, 1, i - 1)
           back == SubSeq(s, i + 1, Len(s))
<1>1. i \in Nat /\ Len(s) \in Nat /\ 1 <= i /\ i <= Len(s)
  OBVIOUS
<1>2. /\ front \in Seq(S) /\ Len(front) = i - 1
      /\ \A k \in 1..(i - 1) : front[k] = s[k]
  BY <1>1
<1>3. /\ back \in Seq(S) /\ Len(back) = Len(s) - i
      /\ \A k \in 1..(Len(s) - i) : back[k] = s[i + k]
  BY <1>1
<1> HIDE DEF front, back
<1>4. /\ front \o back \in Seq(S) /\ Len(front \o back) = Len(s) - 1
      /\ \A k \in 1..(Len(s) - 1) :
             (front \o back)[k] = IF k <= i - 1 THEN front[k] ELSE back[k - (i - 1)]
  BY <1>1, <1>2, <1>3
<1>5. ASSUME NEW k \in 1..(Len(s) - 1)
      PROVE  IF k < i THEN k \in DOMAIN s /\ (front \o back)[k] = s[k]
                      ELSE k + 1 \in DOMAIN s /\ (front \o back)[k] = s[k + 1]
  <2>1. CASE k < i
    BY <1>1, <1>2, <1>4, <2>1
  <2>2. CASE ~(k < i)
    <3>1. PICK m \in 1..(Len(s) - i) : m = k - (i - 1)
      BY <1>1, <2>2
    <3>2. i + m = k + 1 /\ ~(k <= i - 1)
      BY <1>1, <2>2, <3>1
    <3>3. (front \o back)[k] = back[m] /\ back[m] = s[i + m]
      BY <1>3, <1>4, <3>1, <3>2
    <3> QED
      BY <1>1, <2>2, <3>2, <3>3
  <2> QED
    BY <2>1, <2>2
<1>6. RemoveAt(s, i) = front \o back
  BY DEF RemoveAt, front, back
<1>7. DOMAIN (front \o back) = 1..(Len(s) - 1)
  BY <1>1, <1>4
<1> QED
  BY <1>1, <1>4, <1>5, <1>6, <1>7

\* What an orphaned call becomes.
LEMMA OrphanedCalls ==
    ASSUME NearTypes, Orphaned
    PROVE  calls' \in [Calls -> CallStates] /\ \A i \in Calls : ~Ours(calls'[i])
<1>1. ASSUME NEW i \in Calls PROVE calls'[i] \in CallStates /\ ~Ours(calls'[i])
  <2> DEFINE c == calls[i]
             d == [c EXCEPT !.by = "anyone"]
  <2>1. c \in CallStates
    BY DEF NearTypes
  <2>2. calls'[i] = IF c.stage \in {"none", "over"} THEN Idle ELSE d
    BY DEF Orphaned
  <2>3. CASE c.stage \in {"none", "over"}
    BY <2>2, <2>3, IdleCall
  <2>4. CASE c.stage \notin {"none", "over"}
    <3>1. c \in AskedCalls \cup HeldCalls \cup ReadCalls \cup SignCalls
      BY <2>1, <2>4, CallShape
    <3>2. d \in AskedCalls \cup HeldCalls \cup ReadCalls \cup SignCalls /\ d.by = "anyone"
      <4>1. CASE c \in AskedCalls
        BY <4>1 DEF AskedCalls, Relayers
      <4>2. CASE c \in HeldCalls
        BY <4>2 DEF HeldCalls, Relayers
      <4>3. CASE c \in ReadCalls
        BY <4>3 DEF ReadCalls, Relayers
      <4>4. CASE c \in SignCalls
        BY <4>4 DEF SignCalls, Relayers
      <4> QED
        BY <3>1, <4>1, <4>2, <4>3, <4>4
    <3> QED
      BY <2>2, <2>4, <3>2 DEF CallStates, Ours
  <2> QED
    BY <2>3, <2>4
<1>2. DOMAIN calls' = Calls
  BY DEF Orphaned
<1>3. calls' = [i \in Calls |-> calls'[i]]
  BY DEF Orphaned
<1> QED
  BY <1>1, <1>2, <1>3

LEMMA OrphanedMoving ==
    ASSUME NearTypes, Orphaned
    PROVE  moving' \in Seq(Transfers) /\ \A i \in DOMAIN moving' : moving'[i].by # "bot"
<1>1. moving' = [i \in DOMAIN moving |-> [moving[i] EXCEPT !.by = "anyone"]]
  BY DEF Orphaned
<1>2. \A i \in DOMAIN moving : /\ [moving[i] EXCEPT !.by = "anyone"] \in Transfers
                               /\ [moving[i] EXCEPT !.by = "anyone"].by = "anyone"
  <2>1. \A t \in Transfers : [t EXCEPT !.by = "anyone"] \in Transfers
                            /\ [t EXCEPT !.by = "anyone"].by = "anyone"
    BY DEF Transfers, Relayers
  <2>2. \A i \in DOMAIN moving : moving[i] \in Transfers
    BY DEF NearTypes
  <2> QED
    BY <2>1, <2>2
<1>3. moving' \in [DOMAIN moving -> Transfers]
  BY <1>1, <1>2
<1>4. moving \in Seq(Transfers)
  BY DEF NearTypes
<1>5. moving' \in Seq(Transfers)
  BY <1>3, <1>4, SeqOfElements
<1> QED
  BY <1>1, <1>2, <1>5

LEMMA OrphanedTyped == ASSUME NearTypes, Disturb, Orphaned PROVE NearTypes'
<1>1. UNCHANGED <<signed, balance, key, pending, lostFound, coins, config>>
  BY DEF Orphaned
<1> QED
  BY <1>1, OrphanedCalls, OrphanedMoving, DisturbTyped DEF NearTypes

\* The tokens and the keys.
LEMMA Credited ==
    ASSUME NEW f \in [Accounts -> Nat], NEW a \in Accounts, NEW n \in Nat
    PROVE  [f EXCEPT ![a] = @ + n] \in [Accounts -> Nat]
  OBVIOUS

LEMMA TransferTyped ==
    ASSUME NEW by \in Relayers, NEW d \in Delegates
    PROVE  [by |-> by, account |-> d.account, amount |-> d.amount, coin |-> d.coin,
            out |-> d.out] \in Transfers
  BY DEF Delegates, Transfers

LEMMA ExecuteTyped ==
    ASSUME NearTypes, NEW d \in Delegates, NEW by \in Relayers, Execute(d, by),
           Disturb \/ UNCHANGED disturbances
    PROVE  NearTypes'
<1>1. d.account \in Accounts /\ d.age \in 0..MaxAge /\ d.amount \in Nat
  BY DelegateFields
<1>2. key' \in [Accounts -> NoKey..MaxAge] /\ signed' \subseteq Delegates
  <2>1. d.age \in NoKey..MaxAge
    BY <1>1 DEF NoKey
  <2> QED
    BY <2>1 DEF Execute, NearTypes
<1>3. UNCHANGED <<calls, pending, coins, config>> /\ disturbances' \in 0..MaxDisturbances
  BY DisturbTyped DEF Execute, NearTypes
<1>4. CASE d.kind = "claim"
  <2>1. /\ balance' = [balance EXCEPT ![d.account] = @ + lostFound[d.account]]
        /\ lostFound' = [lostFound EXCEPT ![d.account] = 0] /\ moving' = moving
    BY <1>4 DEF Execute
  <2>2. balance' \in [Accounts -> Nat] /\ lostFound' \in [Accounts -> Nat]
    BY <1>1, <2>1, Credited DEF NearTypes
  <2> QED
    BY <1>2, <1>3, <2>1, <2>2 DEF NearTypes
<1>5. CASE d.kind # "claim" /\ balance[d.account] >= d.amount
  <2> DEFINE t == [by |-> by, account |-> d.account, amount |-> d.amount, coin |-> d.coin,
                   out |-> d.out]
  <2>1. /\ balance' = [balance EXCEPT ![d.account] = @ - d.amount]
        /\ moving' = Append(moving, t) /\ lostFound' = lostFound
    BY <1>5 DEF Execute
  <2>2. balance[d.account] - d.amount \in Nat
    BY <1>1, <1>5 DEF NearTypes
  <2>3. balance' \in [Accounts -> Nat]
    BY <2>1, <2>2 DEF NearTypes
  <2>4. moving' \in Seq(Transfers)
    BY <2>1, TransferTyped DEF NearTypes
  <2> QED
    BY <1>2, <1>3, <2>1, <2>3, <2>4 DEF NearTypes
<1>6. CASE d.kind # "claim" /\ ~(balance[d.account] >= d.amount)
  <2>1. UNCHANGED <<balance, moving, lostFound>>
    BY <1>6 DEF Execute
  <2> QED
    BY <1>2, <1>3, <2>1 DEF NearTypes
<1> QED
  BY <1>4, <1>5, <1>6

LEMMA SettleTyped ==
    ASSUME NearTypes, StoreTypes, NEW e \in DOMAIN events, Settle(e) PROVE NearTypes'
<1>1. events[e].account \in Accounts /\ events[e].amount \in Nat
  <2>1. events[e] \in Withdrawals
    BY DEF StoreTypes
  <2> QED
    BY <2>1 DEF Withdrawals
<1>2. balance' \in [Accounts -> Nat]
  BY <1>1, Credited DEF Settle, NearTypes
<1>3. UNCHANGED <<calls, signed, key, moving, pending, lostFound, coins, config, disturbances>>
  BY DEF Settle, contractVars
<1> QED
  BY <1>2, <1>3 DEF NearTypes

LEMMA ResolveTyped ==
    ASSUME NearTypes, NEW i \in DOMAIN moving, Resolve(i) PROVE NearTypes'
<1> DEFINE t == moving[i]
<1>1. t.account \in Accounts /\ t.amount \in Nat
  <2>1. t \in Transfers
    BY DEF NearTypes
  <2> QED
    BY <2>1 DEF Transfers
<1>2. moving' \in Seq(Transfers)
  BY SeqRemoved DEF Resolve, NearTypes
<1>3. UNCHANGED <<calls, signed, key, lostFound, config>>
      /\ (Disturb \/ UNCHANGED disturbances)
  BY DEF Resolve, contractVars
<1>4. /\ balance' \in [Accounts -> Nat] /\ pending' \in [Accounts -> Nat]
      /\ coins' \in [Coins -> Nat]
  <2>1. CASE Accept(t)
    BY <1>1, <2>1 DEF Accept, NearTypes
  <2>2. CASE Refuse(t)
    BY <1>1, <2>2, Credited DEF Refuse, NearTypes
  <2> QED
    BY <2>1, <2>2 DEF Resolve
<1> QED
  BY <1>2, <1>3, <1>4, DisturbTyped DEF NearTypes

LEMMA ConnectorTyped ==
    ASSUME NearTypes,
           \/ \E a \in Accounts : ConnectorStep(a)
           \/ ConnectorDisturbed
           \/ \E c \in Coins, v \in CoinValues : CoinArrives(c, v)
    PROVE  NearTypes'
<1>1. ASSUME NEW a \in Accounts, Pays(a) PROVE NearTypes'
  BY <1>1 DEF Pays, NearTypes, contractVars
<1>2. ASSUME NEW a \in Accounts, Cancels(a) PROVE NearTypes'
  <2>1. pending' \in [Accounts -> Nat] /\ pending[a] \in Nat
    BY <1>2 DEF Cancels, NearTypes
  <2>2. balance' \in [Accounts -> Nat] /\ lostFound' \in [Accounts -> Nat]
    BY <1>2, <2>1, Credited DEF Cancels, NearTypes
  <2>3. UNCHANGED <<calls, signed, key, moving, coins, config>> /\ Disturb
    BY <1>2 DEF Cancels, contractVars
  <2> QED
    BY <2>1, <2>2, <2>3, DisturbTyped DEF NearTypes
<1>3. ASSUME NEW c \in Configs, Reconfigures(c) PROVE NearTypes'
  BY <1>3, DisturbTyped DEF Reconfigures, NearTypes, contractVars
<1>4. ASSUME NEW c \in Coins, NEW v \in CoinValues, CoinArrives(c, v) PROVE NearTypes'
  <2>1. v \in Nat
    BY UtxoAssumption
  <2>2. coins' \in [Coins -> Nat]
    BY <1>4, <2>1 DEF CoinArrives, NearTypes
  <2> QED
    BY <1>4, <2>2 DEF CoinArrives, NearTypes, contractVars
<1> QED
  BY <1>1, <1>2, <1>3, <1>4 DEF ConnectorStep, ConnectorDisturbed

LEMMA CreateAccountTyped ==
    ASSUME NearTypes, NEW a \in Accounts, CreateAccount(a),
           UNCHANGED <<calls, signed, balance, moving, pending, lostFound, coins, config>>,
           Disturb \/ UNCHANGED disturbances
    PROVE  NearTypes'
<1>1. 1 \in NoKey..MaxAge
  BY UtxoAssumption DEF NoKey, MaxAge
<1>2. key' \in [Accounts -> NoKey..MaxAge]
  BY <1>1 DEF CreateAccount, NearTypes
<1> QED
  BY <1>2, DisturbTyped DEF NearTypes

LEMMA BlockTyped ==
    ASSUME NearTypes, Block, Disturb \/ UNCHANGED disturbances PROVE NearTypes'
<1>1. signed' \subseteq Delegates
  <2>1. \A d \in signed : d \in Delegates /\ d.left \in Int
    BY DelegateFields DEF NearTypes
  <2>2. \A d \in signed : d.left > 0 => Aged(d) \in Delegates
    BY <2>1, AgedDelegate
  <2> QED
    BY <2>2 DEF Block
<1>2. calls' \in [Calls -> CallStates]
  <2>1. \A i \in Calls : AgedCall(calls[i]) \in CallStates
    BY AgedCallTyped DEF NearTypes
  <2> QED
    BY <2>1 DEF Block
<1>3. key' \in [Accounts -> NoKey..MaxAge]
  <2>1. \A n \in NoKey..MaxAge : n \in 0..Validity => n + 1 \in NoKey..MaxAge
    BY UtxoAssumption DEF NoKey, MaxAge
  <2> QED
    BY <2>1 DEF Block, NearTypes
<1>4. UNCHANGED <<balance, moving, pending, lostFound, coins, config>>
  BY DEF Block
<1> QED
  BY <1>1, <1>2, <1>3, <1>4, DisturbTyped DEF NearTypes

LEMMA NearFrame ==
    ASSUME NearTypes, UNCHANGED <<contractVars, nearVars>>, Disturb \/ UNCHANGED disturbances
    PROVE  NearTypes'
  BY DisturbTyped DEF NearTypes, contractVars, nearVars

\* The worker's steps on NEAR.
LEMMA WorkerTyped == ASSUME NearTypes, worker \in Passes, WorkerStep PROVE NearTypes'
<1>1. CASE PassStarts \/ ReadConfig \/ ReadHeld \/ NoCoinFits \/ ReadLeft \/ CloseRecord \/ Fail
  <2>1. UNCHANGED utxoVars
    BY <1>1 DEF PassStarts, ReadConfig, ReadHeld, NoCoinFits, ReadLeft, CloseRecord, Fail, UnlessWorker
  <2> QED
    BY <2>1, NearFrame DEF utxoVars
<1>2. CASE EnsureAccount
  <2>1. worker.account \in Accounts
    BY <1>2 DEF EnsureAccount, Passes, AtRest, Turns, HeldTurns, RelayTurns
  <2>2. CASE key[worker.account] = NoKey
    BY <1>2, <2>1, <2>2, CreateAccountTyped DEF EnsureAccount, contractVars
  <2>3. CASE key[worker.account] # NoKey
    BY <1>2, <2>3, NearFrame DEF EnsureAccount, nearVars
  <2> QED
    BY <2>2, <2>3
<1>3. ASSUME NEW i \in Calls, AskToSign(i) PROVE NearTypes'
  <2>1. worker.account \in Accounts
    BY <1>3 DEF AskToSign, Passes, AtRest, Turns, HeldTurns, RelayTurns
  <2>2. \E coin \in Coins : Withdraw(i, "bot", worker.account, coin)
    BY <1>3 DEF AskToSign, Withdraw
  <2>3. UNCHANGED <<signed, nearVars>> /\ UNCHANGED disturbances
    BY <1>3 DEF AskToSign
  <2>4. "bot" \in Relayers
    BY DEF Relayers
  <2> QED
    BY <2>1, <2>2, <2>3, <2>4, DerivedTyped
<1>4. CASE RelayDelegate
  <2>1. worker.delegate \in Delegates
    BY <1>4 DEF RelayDelegate, Passes, AtRest, Turns, HeldTurns, RelayTurns
  <2>2. "bot" \in Relayers /\ UNCHANGED disturbances
    BY <1>4 DEF RelayDelegate, Relayers
  <2>3. CASE Execute(worker.delegate, "bot")
    BY <2>1, <2>2, <2>3, ExecuteTyped
  <2>4. CASE UNCHANGED <<contractVars, nearVars>>
    BY <2>2, <2>4, NearFrame
  <2> QED
    BY <1>4, <2>3, <2>4 DEF RelayDelegate
<1> QED
  BY <1>1, <1>2, <1>3, <1>4, SignedTyped DEF WorkerStep

\* Third parties.
LEMMA AnyoneTyped == ASSUME NearTypes, Anyone \/ RelayClaim PROVE NearTypes'
<1>1. "anyone" \in Relayers
  BY DEF Relayers
<1>2. ASSUME NEW d \in signed, Execute(d, "anyone"), Disturb \/ UNCHANGED disturbances
      PROVE  NearTypes'
  BY <1>1, <1>2, ExecuteTyped DEF NearTypes
<1>3. ASSUME NEW i \in Calls, NEW a \in Accounts,
             (\E coin \in Coins : Withdraw(i, "anyone", a, coin)) \/ Claim(i, "anyone", a),
             UNCHANGED <<signed, nearVars>>, Disturb \/ UNCHANGED disturbances
      PROVE  NearTypes'
  BY <1>1, <1>3, DerivedTyped
<1>4. ASSUME NEW a \in Accounts, CreateAccount(a), Disturb,
             UNCHANGED <<contractVars, balance, moving, pending, taken, others,
                         lostFound, coins, config>>
      PROVE  NearTypes'
  BY <1>4, CreateAccountTyped DEF contractVars
<1>5. CASE RelayClaim
  BY <1>2, <1>5 DEF RelayClaim
<1>6. CASE Anyone
  <2>1. lostFound \in [Accounts -> Nat]
    BY DEF NearTypes
  <2>2. \A a \in Accounts : lostFound[a] = 0 \/ lostFound[a] > 0
    BY <2>1
  <2>3. CASE /\ \E i \in Calls, a \in Accounts :
                   \/ (\E coin \in Coins : Withdraw(i, "anyone", a, coin)) /\ Disturb
                   \/ /\ Claim(i, "anyone", a)
                      /\ lostFound[a] = 0 => Disturb
                      /\ lostFound[a] > 0 => UNCHANGED disturbances
             /\ UNCHANGED <<signed, nearVars>>
    BY <1>3, <2>2, <2>3
  <2> QED
    BY <1>2, <1>4, <1>6, <2>3 DEF Anyone
<1> QED
  BY <1>5, <1>6

LEMMA StepTyped ==
    ASSUME NearTypes, StoreTypes, worker \in Passes, [Next]_vars PROVE NearTypes'
<1>1. CASE \/ /\ Len(events) < MaxSends
              /\ \E amount \in Amounts, r \in Requests[Len(events) + 1] : Send(amount, r[1], r[2])
           \/ WatcherStep \/ DrainFails \/ PassFails \/ UNCHANGED vars
  <2>1. UNCHANGED <<contractVars, nearVars>> /\ (Disturb \/ UNCHANGED disturbances)
    BY <1>1 DEF Send, WatcherStep, WatcherStarts, OnWithdrawal, AddToOpen, SaveCursor, DrainFails,
       PassFails, UnlessWatcher, utxoVars, vars
  <2> QED
    BY <2>1, NearFrame
<1>2. CASE \E e \in DOMAIN events : Settle(e)
  BY <1>2, SettleTyped
<1>3. CASE AccountFails \/ Crash
  BY <1>3, OrphanedTyped DEF AccountFails, Crash
<1>4. CASE NextBlock
  BY <1>4, BlockTyped DEF NextBlock, InTime
<1> QED
  BY <1>1, <1>2, <1>3, <1>4, WorkerTyped, ContractTyped, ResolveTyped, ConnectorTyped, AnyoneTyped
     DEF Next

-----------------------------------------------------------------------------
(* The pass. *)

LEMMA LeastIn ==
    ASSUME NEW S \in SUBSET Nat, S # {} PROVE (CHOOSE e \in S : \A f \in S : e <= f) \in S
<1>1. \E n \in S : \A m \in S : n <= m
  BY LeastExists
<1> QED
  BY <1>1

\* A pass works on records that are open, of an account that has one of them.
PassOpen(w) ==
    /\ w.at # "idle" => w.open \subseteq store.open
    /\ w.at \notin {"idle", "config"} => RecordsOf(w.account, w.open) # {}

\* What a pass carries from an account to the next.
LEMMA PassFields ==
    ASSUME worker \in Passes, worker.at \notin {"idle", "config"}
    PROVE  /\ worker.open \in SUBSET (1..MaxSends) /\ worker.config \in Configs
           /\ worker.coinSet \in CoinSets /\ worker.account \in Accounts
           /\ worker \in Turns \cup HeldTurns \cup RelayTurns
  BY DEF Passes, AtRest, Turns, HeldTurns, RelayTurns

LEMMA RestPass == AtRest \in Passes /\ AtRest.at = "idle"
  BY DEF Passes, AtRest

LEMMA TurnTaken ==
    ASSUME StoreTypes, NEW open, open \subseteq DOMAIN events, open \subseteq store.open,
           NEW cfg \in Configs, NEW set \in CoinSets
    PROVE  /\ Turn(open, cfg, set) \in Passes /\ PassOpen(Turn(open, cfg, set))
           /\ Turn(open, cfg, set).at \in {"idle", "held"}
<1>1. CASE open = {}
  BY <1>1, RestPass DEF Turn, PassOpen
<1>2. CASE open # {}
  <2> DEFINE e == CHOOSE e \in open : \A f \in open : e <= f
             turn == [at |-> "held", open |-> open, config |-> cfg, coinSet |-> set,
                      account |-> events[e].account]
  <2>1. /\ DOMAIN events \subseteq Nat /\ DOMAIN events \subseteq 1..MaxSends
        /\ \A f \in DOMAIN events : events[f] \in Withdrawals
    BY SendsNatural DEF StoreTypes
  <2>2. e \in open
    BY <1>2, <2>1, LeastIn
  <2>3. events[e].account \in Accounts
    <3>1. events[e] \in Withdrawals
      BY <2>1, <2>2
    <3> QED
      BY <3>1 DEF Withdrawals
  <2>4. Turn(open, cfg, set) = turn
    BY <1>2 DEF Turn
  <2>5. turn \in Turns
    BY <2>1, <2>3 DEF Turns
  <2>6. e \in RecordsOf(turn.account, turn.open)
    BY <2>2 DEF RecordsOf
  <2> HIDE DEF e
  <2> QED
    BY <2>4, <2>5, <2>6 DEF Passes, PassOpen
<1> QED
  BY <1>1, <1>2

LEMMA NextTaken ==
    ASSUME StoreTypes, OpenInv, worker \in Passes, worker.at \notin {"idle", "config"}
    PROVE  /\ NextAccount \in Passes /\ PassOpen(NextAccount)
           /\ NextAccount.at \in {"idle", "held"}
<1> DEFINE rest == worker.open \ RecordsOf(worker.account, worker.open)
<1>1. rest \subseteq DOMAIN events /\ rest \subseteq store.open
  BY DEF OpenInv
<1>2. worker.config \in Configs /\ worker.coinSet \in CoinSets
  BY PassFields
<1> HIDE DEF rest
<1>3. /\ Turn(rest, worker.config, worker.coinSet) \in Passes
      /\ PassOpen(Turn(rest, worker.config, worker.coinSet))
      /\ Turn(rest, worker.config, worker.coinSet).at \in {"idle", "held"}
  BY <1>1, <1>2, TurnTaken
<1> QED
  BY <1>3 DEF NextAccount, rest

\* The next step of the same turn.
LEMMA SameTurn ==
    ASSUME OpenInv, worker \in Passes, worker.at \notin {"idle", "config"}, NEW w,
           w.open = worker.open, w.account = worker.account
    PROVE  PassOpen(w)
  BY DEF PassOpen, OpenInv

LEMMA MovedTo ==
    ASSUME NEW w, NEW step, NEW u, u = [w EXCEPT !.at = step],
           \/ w \in Turns /\ step \in {"held", "relayed", "left", "close", "fail"}
           \/ w \in HeldTurns /\ step \in {"create", "coin", "signing", "fail"}
           \/ w \in RelayTurns /\ step \in {"relay", "fail"}
    PROVE  /\ u \in Passes /\ u.at = step /\ u.open = w.open /\ u.account = w.account
           /\ u.config = w.config
<1>1. CASE w \in Turns /\ step \in {"held", "relayed", "left", "close", "fail"}
  BY <1>1 DEF Passes, Turns
<1>2. CASE w \in HeldTurns /\ step \in {"create", "coin", "signing", "fail"}
  BY <1>2 DEF Passes, HeldTurns
<1>3. CASE w \in RelayTurns /\ step \in {"relay", "fail"}
  BY <1>3 DEF Passes, RelayTurns
<1> QED
  BY <1>1, <1>2, <1>3

LEMMA ReadingMoves ==
    ASSUME StoreTypes, NearTypes, OpenInv, worker \in Passes, PassStarts \/ ReadConfig
    PROVE  /\ worker' \in Passes /\ PassOpen(worker') /\ worker'.at \in {"idle", "config", "held"}
<1>1. store.open \subseteq DOMAIN events /\ DOMAIN events \subseteq 1..MaxSends
  BY SendsNatural DEF OpenInv, StoreTypes
<1>2. CASE PassStarts
  BY <1>1, <1>2 DEF PassStarts, Passes, PassOpen
<1>3. CASE ReadConfig
  <2>1. worker.open \subseteq store.open /\ worker.open \subseteq DOMAIN events
    BY <1>1, <1>3 DEF ReadConfig, OpenInv
  <2>2. NotRead \in CoinSets
    BY DEF NotRead, CoinSets
  <2>3. config \in Configs
    BY DEF NearTypes
  <2> QED
    BY <1>3, <2>1, <2>2, <2>3, TurnTaken DEF ReadConfig
<1> QED
  BY <1>2, <1>3

LEMMA ReadHeldMoves ==
    ASSUME StoreTypes, NearTypes, OpenInv, worker \in Passes, ReadHeld
    PROVE  /\ worker' \in Passes /\ PassOpen(worker') /\ worker'.at \in {"idle", "held", "create"}
           /\ worker'.at = "create" =>
                  /\ worker'.account = worker.account /\ worker'.config = worker.config
                  /\ worker'.held = balance[worker.account] /\ Has(worker.account, worker.config.min)
<1>1. worker.at = "held" /\ worker.at \notin {"idle", "config"}
  BY DEF ReadHeld
<1>2. CASE balance[worker.account] < worker.config.min
  <2>1. worker' = NextAccount
    BY <1>2 DEF ReadHeld
  <2> QED
    BY <1>1, <2>1, NextTaken
<1>3. CASE ~(balance[worker.account] < worker.config.min)
  <2> DEFINE w == [at |-> "create", open |-> worker.open, config |-> worker.config,
                   coinSet |-> worker.coinSet, account |-> worker.account,
                   held |-> balance[worker.account]]
  <2>1. worker' = w
    BY <1>3 DEF ReadHeld
  <2>2. balance[worker.account] \in Nat /\ worker.config.min \in Nat
    BY <1>1, PassFields, ConfigTypes DEF NearTypes
  <2>3. w \in HeldTurns
    BY <1>1, <2>2, PassFields DEF HeldTurns
  <2>4. PassOpen(w)
    BY <1>1, SameTurn
  <2>5. balance[worker.account] >= worker.config.min
    BY <1>3, <2>2
  <2> QED
    BY <2>1, <2>3, <2>4, <2>5 DEF Passes, Has
<1> QED
  BY <1>2, <1>3

LEMMA HeldFields ==
    ASSUME worker \in Passes, worker.at \in {"create", "coin", "signing"} PROVE worker \in HeldTurns
  BY DEF Passes, AtRest, Turns, HeldTurns, RelayTurns

LEMMA CoinSetTyped ==
    ASSUME NearTypes, worker \in HeldTurns PROVE CoinSet \in CoinSets
<1>1. coins \in CoinSets
  BY DEF NearTypes, CoinSets
<1>2. worker.coinSet \in CoinSets
  BY DEF HeldTurns
<1> QED
  BY <1>1, <1>2 DEF CoinSet

LEMMA AskingMoves ==
    ASSUME NearTypes, OpenInv, worker \in Passes, EnsureAccount \/ NoCoinFits \/ \E i \in Calls : AskToSign(i)
    PROVE  /\ worker' \in Passes /\ PassOpen(worker') /\ worker'.account = worker.account
           /\ worker'.config = worker.config
           /\ EnsureAccount => worker.at = "create" /\ worker'.at = "coin"
           /\ NoCoinFits => worker.at = "coin" /\ worker'.at = "fail"
           /\ (\E i \in Calls : AskToSign(i)) => worker.at = "coin" /\ worker'.at = "signing"
<1>1. worker \in HeldTurns /\ worker.at \notin {"idle", "config"}
  BY HeldFields DEF EnsureAccount, NoCoinFits, AskToSign
<1>2. CASE EnsureAccount
  <2>1. worker' = [worker EXCEPT !.at = "coin"] /\ worker.at = "create"
    BY <1>2 DEF EnsureAccount, To
  <2>2. ~NoCoinFits /\ ~\E i \in Calls : AskToSign(i)
    BY <2>1 DEF NoCoinFits, AskToSign
  <2> QED
    BY <1>1, <2>1, <2>2, MovedTo, SameTurn
<1>3. CASE NoCoinFits \/ \E i \in Calls : AskToSign(i)
  <2>1. worker.at = "coin" /\ ~EnsureAccount
    BY <1>3 DEF NoCoinFits, AskToSign, EnsureAccount
  <2>2. PICK set \in CoinSets : set = CoinSet
    BY <1>1, CoinSetTyped
  <2>3. \A step \in {"signing", "fail"} : LET w == [[worker EXCEPT !.at = step] EXCEPT !.coinSet = set] IN
            /\ w \in HeldTurns /\ w.at = step /\ w.open = worker.open /\ w.account = worker.account
            /\ w.config = worker.config
    BY <1>1, <2>2 DEF HeldTurns
  <2>4. NoCoinFits => worker' = [[worker EXCEPT !.at = "fail"] EXCEPT !.coinSet = set]
    BY <2>2 DEF NoCoinFits
  <2>5. (\E i \in Calls : AskToSign(i)) => worker' = [[worker EXCEPT !.at = "signing"] EXCEPT !.coinSet = set]
    BY <2>2 DEF AskToSign
  <2>6. ~NoCoinFits \/ ~(\E i \in Calls : AskToSign(i))
    BY <2>3, <2>4, <2>5
  <2> QED
    BY <1>1, <1>3, <2>1, <2>3, <2>4, <2>5, <2>6, SameTurn DEF Passes
<1> QED
  BY <1>2, <1>3

LEMMA SignedMoves ==
    ASSUME NearTypes, OpenInv, worker \in Passes, NEW i \in Calls, Signed(i)
    PROVE  /\ worker' \in Passes /\ PassOpen(worker') /\ worker'.at \in {"fail", "relay"}
           /\ worker'.account = worker.account /\ worker'.config = worker.config
           /\ worker'.at = "relay" => /\ worker'.delegate = calls[i].delegate
                                      /\ calls[i].delegate # NoDelegate
<1>1. worker \in HeldTurns /\ worker.at \notin {"idle", "config"} /\ calls[i].stage = "over"
  BY HeldFields DEF Signed
<1>2. calls[i].delegate \in Delegates \cup {NoDelegate}
  <2>1. calls[i] \in OverCalls
    BY <1>1, CallShape DEF NearTypes
  <2> QED
    BY <2>1 DEF OverCalls
<1>3. CASE calls[i].delegate = NoDelegate
  <2>1. worker' = [worker EXCEPT !.at = "fail"]
    BY <1>3 DEF Signed
  <2> QED
    BY <1>1, <2>1, MovedTo, SameTurn
<1>4. CASE calls[i].delegate # NoDelegate
  <2> DEFINE w == [at |-> "relay", open |-> worker.open, config |-> worker.config,
                   coinSet |-> worker.coinSet, account |-> worker.account,
                   delegate |-> calls[i].delegate]
  <2>1. worker' = w
    BY <1>4 DEF Signed
  <2>2. w \in RelayTurns
    BY <1>1, <1>2, <1>4, PassFields DEF RelayTurns
  <2>3. PassOpen(w)
    BY <1>1, SameTurn
  <2> QED
    BY <1>4, <2>1, <2>2, <2>3 DEF Passes
<1> QED
  BY <1>3, <1>4

LEMMA RelayFields ==
    ASSUME worker \in Passes, worker.at = "relay"
    PROVE  worker \in RelayTurns /\ worker.delegate \in Delegates
  BY DEF Passes, AtRest, Turns, HeldTurns, RelayTurns

LEMMA RelayMoves ==
    ASSUME NearTypes, OpenInv, TurnInv, worker \in Passes, RelayDelegate
    PROVE  /\ worker' \in Passes /\ PassOpen(worker') /\ worker'.at \in {"relayed", "fail"}
           /\ worker'.account = worker.account /\ worker'.config = worker.config
           /\ worker'.at = "relayed" => Execute(worker.delegate, "bot")
                                        /\ balance[worker.delegate.account] >= worker.delegate.amount
           /\ \/ Execute(worker.delegate, "bot")
              \/ UNCHANGED <<contractVars, nearVars>> /\ worker'.at = "fail"
<1>1. worker.at = "relay" /\ worker.at \notin {"idle", "config"}
  BY DEF RelayDelegate
<1>2. worker \in RelayTurns /\ worker.delegate.account = worker.account
  BY <1>1, RelayFields DEF TurnInv, Lasting
<1>3. CASE Executable(worker.delegate)
  <2>1. PICK step \in {"relayed", "fail"} :
             /\ worker' = [at |-> step, open |-> worker.open, config |-> worker.config,
                           coinSet |-> worker.coinSet, account |-> worker.account]
             /\ step = "relayed" => balance[worker.delegate.account] >= worker.delegate.amount
    BY <1>2, <1>3 DEF RelayDelegate
  <2>2. worker' \in Turns
    BY <1>1, <2>1, PassFields DEF Turns
  <2>3. PassOpen(worker')
    BY <1>1, <2>1, SameTurn
  <2> QED
    BY <1>3, <2>1, <2>2, <2>3 DEF RelayDelegate, Passes
<1>4. CASE ~Executable(worker.delegate)
  <2>1. worker' = [worker EXCEPT !.at = "fail"] /\ UNCHANGED <<contractVars, nearVars>>
    BY <1>4 DEF RelayDelegate, To
  <2> QED
    BY <1>1, <1>2, <2>1, MovedTo, SameTurn
<1> QED
  BY <1>3, <1>4

LEMMA TurnFields ==
    ASSUME worker \in Passes, worker.at \in {"held", "relayed", "left", "close"} PROVE worker \in Turns
  BY DEF Passes, AtRest, Turns, HeldTurns, RelayTurns

\* The balance is gone: the pass closes the account's records.
LEMMA ReadLeftMoves ==
    ASSUME NearTypes, OpenInv, TurnInv, worker \in Passes, ReadLeft
    PROVE  /\ worker' \in Passes /\ PassOpen(worker') /\ worker'.at \in {"fail", "close"}
           /\ worker'.account = worker.account /\ worker'.config = worker.config
           /\ worker'.at = "close" => Safe(worker.account)
<1>1. worker \in Turns /\ worker.at = "left" /\ worker.at \notin {"idle", "config"}
  BY TurnFields DEF ReadLeft
<1>2. PICK step \in {"fail", "close"} :
           /\ worker' = [worker EXCEPT !.at = step]
           /\ step = "close" => ~(balance[worker.account] >= worker.config.min)
  BY DEF ReadLeft, To
<1>3. Has(worker.account, worker.config.min)
  BY <1>1 DEF TurnInv
<1> QED
  BY <1>1, <1>2, <1>3, MovedTo, SameTurn DEF Has

LEMMA FailMoves ==
    ASSUME StoreTypes, OpenInv, worker \in Passes, Fail
    PROVE  worker' \in Passes /\ PassOpen(worker') /\ worker'.at \in {"idle", "held"}
  BY NextTaken DEF Fail

\* A record of the account is closed; the rest of the pass stays open.
LEMMA CloseMoves ==
    ASSUME StoreTypes, OpenInv, worker \in Passes, CloseRecord
    PROVE  \E e \in Covered :
               /\ store' = Store([store.record EXCEPT ![e] = "withdrawn"], store.open \ {e}, store.cursor)
               /\ worker' \in Passes
               /\ worker'.at # "idle" => worker'.open \subseteq store.open \ {e}
               /\ worker'.at \notin {"idle", "config"} => RecordsOf(worker'.account, worker'.open) # {}
               /\ \/ worker'.at \in {"idle", "held"}
                  \/ worker'.at = "close" /\ worker'.account = worker.account
<1> DEFINE e == CHOOSE e \in Covered : \A f \in Covered : e <= f
<1>1. worker.at = "close" /\ worker.at \notin {"idle", "config"} /\ worker \in Turns
  BY TurnFields DEF CloseRecord
<1>2. worker.open \subseteq store.open /\ Covered # {} /\ Covered \subseteq worker.open
  BY <1>1 DEF OpenInv, Covered, RecordsOf
<1>3. worker.open \subseteq DOMAIN events /\ DOMAIN events \subseteq Nat
  BY <1>2 DEF OpenInv, StoreTypes
<1>4. e \in Covered
  BY <1>2, <1>3, LeastIn
<1>5. /\ store' = Store([store.record EXCEPT ![e] = "withdrawn"], store.open \ {e}, store.cursor)
      /\ worker' = IF Covered = {e} THEN NextAccount ELSE [worker EXCEPT !.open = @ \ {e}]
  BY DEF CloseRecord
<1> HIDE DEF e
<1>6. CASE Covered = {e}
  <2> DEFINE rest == worker.open \ {e}
  <2>1. worker' = Turn(rest, worker.config, worker.coinSet)
    BY <1>5, <1>6 DEF NextAccount, Covered
  <2>2. rest \subseteq DOMAIN events /\ rest \subseteq store.open /\ e \notin rest
    BY <1>2, <1>3
  <2>3. worker.config \in Configs /\ worker.coinSet \in CoinSets
    BY <1>1, PassFields
  <2> HIDE DEF rest
  <2>4. /\ worker' \in Passes /\ PassOpen(worker') /\ worker'.at \in {"idle", "held"}
    BY <2>1, <2>2, <2>3, TurnTaken
  <2>5. worker'.at # "idle" => worker'.open = rest
    BY <2>1 DEF Turn, AtRest
  <2> QED
    BY <1>4, <1>5, <2>2, <2>4, <2>5 DEF PassOpen
<1>7. CASE Covered # {e}
  <2>1. worker' = [worker EXCEPT !.open = worker.open \ {e}]
    BY <1>5, <1>7
  <2>2. /\ worker' \in Turns /\ worker'.open = worker.open \ {e}
        /\ worker'.account = worker.account /\ worker'.at = "close"
    BY <1>1, <2>1 DEF Turns
  <2>3. PICK f \in Covered : f # e
    BY <1>4, <1>7
  <2>4. f \in RecordsOf(worker'.account, worker'.open)
    BY <2>2, <2>3 DEF Covered, RecordsOf
  <2> QED
    BY <1>2, <1>4, <1>5, <2>2, <2>4 DEF Passes
<1> QED
  BY <1>6, <1>7

LEMMA FailingMoves ==
    ASSUME OpenInv, worker \in Passes, PassFails \/ AccountFails \/ Crash
    PROVE  worker' \in Passes /\ PassOpen(worker') /\ worker'.at \in {"idle", "fail"}
<1>1. CASE PassFails \/ Crash
  BY <1>1, RestPass DEF PassFails, Crash, PassOpen
<1>2. CASE AccountFails
  <2>1. worker.at \notin {"idle", "config"}
    BY <1>2 DEF AccountFails
  <2>2. worker' = [at |-> "fail", open |-> worker.open, config |-> worker.config,
                   coinSet |-> worker.coinSet, account |-> worker.account]
    BY <1>2 DEF AccountFails
  <2>3. worker' \in Turns
    BY <2>1, <2>2, PassFields DEF Turns
  <2>4. PassOpen(worker')
    BY <2>1, <2>2, SameTurn
  <2> QED
    BY <2>2, <2>3, <2>4 DEF Passes
<1> QED
  BY <1>1, <1>2

LEMMA BlockMoves ==
    ASSUME OpenInv, worker \in Passes, NextBlock
    PROVE  /\ worker' \in Passes /\ PassOpen(worker') /\ worker'.at = worker.at
           /\ worker.at # "relay" => worker' = worker
           /\ worker.at = "relay" =>
                  /\ worker'.account = worker.account /\ worker'.config = worker.config
                  /\ worker'.delegate.kind = worker.delegate.kind
                  /\ worker'.delegate.account = worker.delegate.account
                  /\ worker'.delegate.amount = worker.delegate.amount
<1>1. CASE worker.at = "relay" /\ worker.delegate.left >= 0
  <2>1. worker \in RelayTurns /\ worker.delegate \in Delegates
    BY <1>1, RelayFields
  <2>2. PICK d \in Delegates : /\ d = Aged(worker.delegate)
                               /\ d.kind = worker.delegate.kind
                               /\ d.account = worker.delegate.account
                               /\ d.amount = worker.delegate.amount
    BY <1>1, <2>1, AgedDelegate
  <2>3. worker' = [worker EXCEPT !.delegate = d]
    BY <1>1, <2>2 DEF NextBlock
  <2>4. /\ worker' \in RelayTurns /\ worker'.at = worker.at /\ worker'.open = worker.open
        /\ worker'.account = worker.account /\ worker'.config = worker.config
        /\ worker'.delegate = d
    BY <2>1, <2>3 DEF RelayTurns
  <2>5. PassOpen(worker')
    BY <1>1, <2>4, SameTurn
  <2> QED
    BY <1>1, <2>2, <2>4, <2>5 DEF Passes
<1>2. CASE ~(worker.at = "relay" /\ worker.delegate.left >= 0)
  <2>1. worker' = worker
    BY <1>2 DEF NextBlock
  <2>2. PassOpen(worker)
    BY DEF PassOpen, OpenInv
  <2> QED
    BY <2>1, <2>2
<1> QED
  BY <1>1, <1>2

\* The connector's answer moves the pass only when the transfer is its own.
LEMMA ResolveMoves ==
    ASSUME OpenInv, MovingInv, worker \in Passes, NEW i \in DOMAIN moving, Resolve(i)
    PROVE  /\ worker' \in Passes /\ PassOpen(worker')
           /\ worker'.account = worker.account /\ worker'.config = worker.config
           /\ moving[i].by # "bot" => worker' = worker
           /\ moving[i].by = "bot" => worker.at = "relayed" /\ worker'.at \in {"left", "fail"}
<1>1. CASE moving[i].by = "bot"
  <2>1. worker.at = "relayed" /\ worker \in Turns
    BY <1>1, TurnFields DEF MovingInv
  <2>2. PICK step \in {"left", "fail"} : worker' = [worker EXCEPT !.at = step]
    BY <1>1 DEF Resolve, Heard, To
  <2> QED
    BY <1>1, <2>1, <2>2, MovedTo, SameTurn
<1>2. CASE moving[i].by # "bot"
  <2>1. worker' = worker
    BY <1>2 DEF Resolve, Heard
  <2>2. PassOpen(worker)
    BY DEF PassOpen, OpenInv
  <2> QED
    BY <1>2, <2>1, <2>2
<1> QED
  BY <1>1, <1>2

\* Every step of the pass but the closing of a record.
LEMMA WorkerMoves ==
    ASSUME StoreTypes, NearTypes, OpenInv, TurnInv, worker \in Passes, WorkerStep, ~CloseRecord
    PROVE  worker' \in Passes /\ PassOpen(worker') /\ UNCHANGED <<events, settled, store, watcher>>
<1>1. worker' \in Passes /\ PassOpen(worker')
  BY ReadingMoves, ReadHeldMoves, AskingMoves, SignedMoves, RelayMoves, ReadLeftMoves, FailMoves
     DEF WorkerStep
<1>2. CASE PassStarts \/ ReadConfig \/ ReadHeld \/ NoCoinFits \/ ReadLeft \/ Fail
  BY <1>1, <1>2 DEF PassStarts, ReadConfig, ReadHeld, NoCoinFits, ReadLeft, Fail, UnlessWorker, hydrationVars
<1>3. CASE EnsureAccount \/ RelayDelegate \/ \E i \in Calls : AskToSign(i) \/ Signed(i)
  BY <1>1, <1>3 DEF EnsureAccount, RelayDelegate, AskToSign, Signed, hydrationVars
<1> QED
  BY <1>2, <1>3 DEF WorkerStep

-----------------------------------------------------------------------------
(* The records. *)

LEMMA OpenFrame ==
    ASSUME OpenInv, UNCHANGED <<events, store>>, watcher' = watcher \/ watcher'.at # "index",
           PassOpen(worker')
    PROVE  OpenInv'
<1>1. \A a, open : RecordsOf(a, open)' = RecordsOf(a, open)
  BY DEF RecordsOf
<1> QED
  BY <1>1 DEF OpenInv, PassOpen, RecordsOf

LEMMA SendOpen ==
    ASSUME WatchInv, OpenInv, Len(events) < MaxSends, NEW amount \in Amounts,
           NEW r \in Requests[Len(events) + 1], Send(amount, r[1], r[2])
    PROVE  OpenInv'
<1>1. PICK e : events' = Append(events, e)
  BY DEF Send
<1>2. UNCHANGED <<store, watcher, worker>>
  BY DEF Send, agentVars
<1>3. events \in Seq(Withdrawals) /\ Len(events) \in Nat
  BY DEF WatchInv, StoreTypes
<1>4. /\ DOMAIN events = 1..Len(events) /\ DOMAIN events' = 1..(Len(events) + 1)
      /\ Len(events') = Len(events) + 1
      /\ \A f \in DOMAIN events : f \in DOMAIN events' /\ events'[f] = events[f]
  BY <1>1, <1>3
<1>5. store.record[Len(events) + 1] = "none"
  <2>1. Len(events) + 1 \in 1..MaxSends
    BY <1>3, SendsNatural
  <2> QED
    BY <1>3, <2>1 DEF OpenInv
<1>6. \A f \in 1..MaxSends : f > Len(events) + 1 => store.record[f] = "none"
  BY <1>3, SendsNatural DEF OpenInv
<1>7. \A f \in DOMAIN events' : store.record[f] = "open" =>
          f \in DOMAIN events /\ events'[f].address = events'[f].account
  <2>1. \A f \in DOMAIN events' : f \in DOMAIN events \/ f = Len(events) + 1
    BY <1>3, <1>4
  <2> QED
    BY <1>4, <1>5, <2>1 DEF OpenInv
<1>8. worker.at \notin {"idle", "config"} => RecordsOf(worker.account, worker.open)' # {}
  <2> SUFFICES ASSUME worker.at \notin {"idle", "config"}
               PROVE  RecordsOf(worker.account, worker.open)' # {}
    OBVIOUS
  <2>1. PICK f \in worker.open : events[f].account = worker.account
    BY DEF OpenInv, RecordsOf
  <2>2. f \in DOMAIN events
    BY DEF OpenInv
  <2>3. f \in RecordsOf(worker.account, worker.open)'
    BY <1>2, <1>4, <2>1, <2>2 DEF RecordsOf
  <2> QED
    BY <2>3
<1> QED
  BY <1>2, <1>4, <1>6, <1>7, <1>8 DEF OpenInv

LEMMA OnWithdrawalOpen == ASSUME WatchInv, OpenInv, OnWithdrawal PROVE OpenInv'
<1> DEFINE e == watcher.next
<1>1. /\ watcher \in Busy /\ watcher.at = "block" /\ e <= watcher.safe
      /\ watcher.safe <= Len(events) /\ watcher.checkpoint < e
      /\ e \in Nat /\ watcher.safe \in Nat /\ watcher.checkpoint \in Nat /\ Len(events) \in Nat
  BY RestingNotBusy DEF WatchInv, StoreTypes, Reads, OnWithdrawal, Busy
<1>2. e \in DOMAIN events /\ e \in 1..MaxSends
  BY <1>1, SendsNatural DEF WatchInv, StoreTypes
<1>3. UNCHANGED <<events, worker>>
  BY DEF OnWithdrawal, UnlessWatcher, hydrationVars
<1>4. AfterBlock(watcher).at # "index"
  BY <1>1, AfterBlockReads
<1>5. PassOpen(worker)
  BY DEF OpenInv, PassOpen
<1>6. CASE store.record[e] # "none"
  BY <1>3, <1>4, <1>5, <1>6, OpenFrame DEF OnWithdrawal
<1>7. CASE store.record[e] = "none"
  <2>1. /\ store'.record = [store.record EXCEPT ![e] = StateFor(e)] /\ store'.open = store.open
        /\ store'.cursor = store.cursor
    BY <1>7, StoreFields DEF OnWithdrawal
  <2>2. watcher' = IF StateFor(e) = "open" THEN [watcher EXCEPT !.at = "index"]
                                          ELSE AfterBlock(watcher)
    BY <1>7 DEF OnWithdrawal
  <2>3. watcher'.at = "index" => StateFor(e) = "open" /\ watcher'.next = e
    BY <1>1, <1>4, <2>2 DEF Busy
  <2>4. StateFor(e) = "open" => events[e].address = events[e].account
    BY DEF StateFor
  <2>5. store.record \in [1..MaxSends -> States]
    BY DEF WatchInv, StoreTypes
  <2>6. store'.record[e] = StateFor(e) /\ \A f \in 1..MaxSends \ {e} : store'.record[f] = store.record[f]
    BY <1>2, <2>1, <2>5
  <2>7. e \notin store.open
    BY <1>7 DEF OpenInv
  <2>8. DOMAIN events \subseteq 1..MaxSends
    BY <1>1, SendsNatural DEF WatchInv, StoreTypes
  <2>9. store'.open \subseteq {f \in DOMAIN events : store'.record[f] = "open"}
    BY <2>1, <2>6, <2>7, <2>8 DEF OpenInv
  <2>10. \A f \in 1..MaxSends : f > Len(events) => store'.record[f] = "none"
    BY <1>1, <2>6 DEF OpenInv
  <2>11. \A f \in DOMAIN events : store'.record[f] = "open" => events[f].address = events[f].account
    BY <2>4, <2>6, <2>8 DEF OpenInv
  <2>12. watcher'.at = "index" => store'.record[watcher'.next] = "open" /\ watcher'.next \notin store'.open
    BY <2>1, <2>3, <2>6, <2>7
  <2>13. /\ worker.at # "idle" => worker.open \subseteq store'.open
         /\ worker.at \notin {"idle", "config"} => RecordsOf(worker.account, worker.open)' # {}
    BY <1>3, <2>1 DEF OpenInv, RecordsOf
  <2> QED
    BY <1>3, <2>9, <2>10, <2>11, <2>12, <2>13 DEF OpenInv
<1> QED
  BY <1>6, <1>7

LEMMA AddToOpenOpen == ASSUME WatchInv, OpenInv, AddToOpen PROVE OpenInv'
<1>1. /\ watcher \in Busy /\ watcher.at = "index" /\ watcher.next <= watcher.safe
      /\ watcher.safe <= Len(events) /\ watcher.checkpoint < watcher.next
      /\ watcher.next \in Nat /\ watcher.safe \in Nat /\ watcher.checkpoint \in Nat
      /\ Len(events) \in Nat
  BY RestingNotBusy DEF WatchInv, StoreTypes, Reads, AddToOpen, Busy
<1>2. watcher.next \in DOMAIN events
  BY <1>1 DEF WatchInv, StoreTypes
<1>3. UNCHANGED <<events, worker>> /\ store'.record = store.record
      /\ store'.open = store.open \cup {watcher.next}
  BY StoreFields DEF AddToOpen, UnlessWatcher, hydrationVars
<1>4. watcher'.at # "index"
  BY <1>1, AfterBlockReads DEF AddToOpen
<1> QED
  BY <1>1, <1>2, <1>3, <1>4 DEF OpenInv, RecordsOf

LEMMA SaveCursorOpen == ASSUME WatchInv, OpenInv, SaveCursor PROVE OpenInv'
<1>1. UNCHANGED <<events, worker>> /\ store'.record = store.record /\ store'.open = store.open
  BY StoreFields DEF SaveCursor, UnlessWatcher, hydrationVars
<1>2. watcher'.at # "index"
  BY DEF SaveCursor, Resting, Reading
<1> QED
  BY <1>1, <1>2 DEF OpenInv, RecordsOf

LEMMA CloseOpen == ASSUME WatchInv, OpenInv, worker \in Passes, CloseRecord PROVE OpenInv'
<1>1. PICK e \in Covered :
          /\ store' = Store([store.record EXCEPT ![e] = "withdrawn"], store.open \ {e}, store.cursor)
          /\ worker'.at # "idle" => worker'.open \subseteq store.open \ {e}
          /\ worker'.at \notin {"idle", "config"} => RecordsOf(worker'.account, worker'.open) # {}
  BY CloseMoves DEF WatchInv
<1>2. /\ store'.record = [store.record EXCEPT ![e] = "withdrawn"] /\ store'.open = store.open \ {e}
      /\ UNCHANGED <<events, watcher>>
  BY <1>1, StoreFields DEF CloseRecord, UnlessWorker, hydrationVars
<1>3. e \in store.open /\ e \in DOMAIN events
  BY DEF Covered, RecordsOf, OpenInv, CloseRecord
<1>4. /\ store.record \in [1..MaxSends -> States] /\ e \in 1..Len(events) /\ Len(events) \in Nat
      /\ DOMAIN events \subseteq 1..MaxSends
  BY <1>3, SendsNatural DEF WatchInv, StoreTypes
<1>5. /\ store'.record[e] = "withdrawn"
      /\ \A f \in 1..MaxSends \ {e} : store'.record[f] = store.record[f]
  BY <1>2, <1>3, <1>4
<1>6. store'.open \subseteq {f \in DOMAIN events : store'.record[f] = "open"}
  BY <1>2, <1>4, <1>5 DEF OpenInv
<1>7. \A f \in 1..MaxSends : f > Len(events) => store'.record[f] = "none"
  BY <1>4, <1>5 DEF OpenInv
<1>8. \A f \in DOMAIN events : store'.record[f] = "open" => events[f].address = events[f].account
  BY <1>4, <1>5 DEF OpenInv
<1>9. watcher.at = "index" => store'.record[watcher.next] = "open" /\ watcher.next \notin store'.open
  <2>1. watcher.at = "index" => watcher.next # e /\ watcher.next \in 1..MaxSends
    BY <1>3, <1>4, RestingNotBusy, SendsNatural DEF OpenInv, WatchInv, Reads, Busy
  <2> QED
    BY <1>2, <1>5, <2>1 DEF OpenInv
<1>10. /\ worker'.at # "idle" => worker'.open \subseteq store'.open
       /\ worker'.at \notin {"idle", "config"} => RecordsOf(worker.account, worker.open)' # {}
  BY <1>1, <1>2 DEF RecordsOf
<1> QED
  BY <1>2, <1>6, <1>7, <1>8, <1>9, <1>10 DEF OpenInv

\* The records and the pass over every step.
LEMMA RecordsStep ==
    ASSUME WatchInv, NearTypes, OpenInv, MovingInv, TurnInv, worker \in Passes, [Next]_vars
    PROVE  worker' \in Passes /\ OpenInv'
<1>1. StoreTypes
  BY DEF WatchInv
<1>2. ASSUME worker' \in Passes, PassOpen(worker'), UNCHANGED <<events, store>>,
             watcher' = watcher \/ watcher'.at # "index"
      PROVE  worker' \in Passes /\ OpenInv'
  BY <1>2, OpenFrame
<1>3. ASSUME UNCHANGED <<events, store, worker>>, watcher' = watcher \/ watcher'.at # "index"
      PROVE  worker' \in Passes /\ OpenInv'
  BY <1>2, <1>3 DEF OpenInv, PassOpen
<1>4. CASE /\ Len(events) < MaxSends
           /\ \E amount \in Amounts, r \in Requests[Len(events) + 1] : Send(amount, r[1], r[2])
  <2>1. worker' = worker
    BY <1>4 DEF Send, agentVars
  <2> QED
    BY <1>4, <2>1, SendOpen
<1>5. CASE OnWithdrawal \/ AddToOpen \/ SaveCursor
  <2>1. worker' = worker
    BY <1>5 DEF OnWithdrawal, AddToOpen, SaveCursor, UnlessWatcher
  <2> QED
    BY <1>5, <2>1, OnWithdrawalOpen, AddToOpenOpen, SaveCursorOpen
<1>6. CASE WatcherStarts \/ DrainFails
  <2>1. UNCHANGED <<events, store, worker>> /\ watcher'.at # "index"
    BY <1>6 DEF WatcherStarts, DrainFails, UnlessWatcher, hydrationVars, Resting, Reading
  <2> QED
    BY <1>3, <2>1
<1>7. CASE WorkerStep
  <2>1. CASE CloseRecord
    BY <1>1, <2>1, CloseMoves, CloseOpen
  <2>2. CASE ~CloseRecord
    BY <1>1, <1>2, <1>7, <2>2, WorkerMoves
  <2> QED
    BY <2>1, <2>2
<1>8. CASE PassFails \/ AccountFails \/ Crash
  <2>1. UNCHANGED <<events, store>> /\ (watcher' = watcher \/ watcher'.at # "index")
    BY <1>8 DEF PassFails, AccountFails, Crash, Orphaned, hydrationVars, Resting
  <2> QED
    BY <1>2, <1>8, <2>1, FailingMoves
<1>9. CASE NextBlock
  <2>1. UNCHANGED <<events, store, watcher>>
    BY <1>9 DEF NextBlock, hydrationVars
  <2> QED
    BY <1>2, <1>9, <2>1, BlockMoves
<1>10. ASSUME NEW i \in DOMAIN moving, Resolve(i) PROVE worker' \in Passes /\ OpenInv'
  <2>1. UNCHANGED <<events, store, watcher>>
    BY <1>10 DEF Resolve, hydrationVars
  <2> QED
    BY <1>2, <1>10, <2>1, ResolveMoves
<1>11. CASE \/ \E e \in DOMAIN events : Settle(e)
            \/ \E i \in Calls : ContractStep(i)
            \/ ContractDisturbed
            \/ \E a \in Accounts : ConnectorStep(a)
            \/ ConnectorDisturbed
            \/ Anyone \/ RelayClaim
            \/ \E c \in Coins, v \in CoinValues : CoinArrives(c, v)
            \/ UNCHANGED vars
  <2>1. UNCHANGED <<events, store, watcher, worker>>
    BY <1>11 DEF Settle, ContractStep, ContractDisturbed, ConnectorStep, ConnectorDisturbed,
       Anyone, RelayClaim, CoinArrives, vars, hydrationVars, agentVars
  <2> QED
    BY <1>3, <2>1
<1> QED
  BY <1>4, <1>5, <1>6, <1>7, <1>8, <1>9, <1>10, <1>11 DEF Next, WatcherStep

\* Every settlement is of an event.
SettledInv == settled \in Seq(BOOLEAN) /\ Len(settled) = Len(events)
LEMMA SettledStep == ASSUME StoreTypes, SettledInv, [Next]_vars PROVE SettledInv'
<1>1. CASE \E amount \in Amounts, r \in Requests[Len(events) + 1] : Send(amount, r[1], r[2])
  <2>1. PICK e : events' = Append(events, e) /\ settled' = Append(settled, FALSE)
    BY <1>1 DEF Send
  <2>2. Len(events') = Len(events) + 1
    BY <2>1 DEF StoreTypes
  <2>3. settled' \in Seq(BOOLEAN) /\ Len(settled') = Len(settled) + 1
    BY <2>1 DEF SettledInv
  <2> QED
    BY <2>2, <2>3 DEF SettledInv
<1>2. CASE \E e \in DOMAIN events : Settle(e)
  BY <1>2 DEF Settle, SettledInv
<1>3. CASE \/ UNCHANGED vars \/ WatcherStep \/ DrainFails \/ WorkerStep \/ PassFails
           \/ AccountFails \/ Crash \/ ContractDisturbed \/ ConnectorDisturbed
           \/ NextBlock \/ Anyone \/ RelayClaim
           \/ \E i \in Calls : ContractStep(i)
           \/ \E i \in DOMAIN moving : Resolve(i)
           \/ \E a \in Accounts : ConnectorStep(a)
           \/ \E c \in Coins, v \in CoinValues : CoinArrives(c, v)
  <2>1. UNCHANGED hydrationVars
    <3>1. CASE WorkerStep
      BY <3>1 DEF WorkerStep, PassStarts, ReadConfig, ReadHeld, NoCoinFits, ReadLeft, Fail,
         CloseRecord, EnsureAccount, RelayDelegate, AskToSign, Signed, UnlessWorker
    <3>2. CASE ~WorkerStep
      BY <1>3, <3>2 DEF vars, WatcherStep, WatcherStarts, OnWithdrawal, AddToOpen, SaveCursor,
         UnlessWatcher, DrainFails, PassFails, AccountFails, Crash, Orphaned, ContractDisturbed,
         ConnectorDisturbed, NextBlock, Anyone, RelayClaim, ContractStep, Resolve, ConnectorStep,
         CoinArrives
    <3> QED
      BY <3>1, <3>2
  <2> QED
    BY <2>1 DEF hydrationVars, SettledInv
<1> QED
  BY <1>1, <1>2, <1>3 DEF Next

-----------------------------------------------------------------------------
(* What is behind a record that closes. *)

\* No account loses a balance without a mark, and no mark is lost.
Grows ==
    /\ taken \subseteq taken' /\ others \subseteq others'
    /\ \A a \in Accounts : a \in taken' \cup others' \/ balance'[a] >= balance[a]

LEMMA BalancesKept ==
    ASSUME NearTypes, UNCHANGED <<balance, taken, others>> PROVE Grows
<1>1. \A a \in Accounts : balance[a] \in Nat
  BY DEF NearTypes
<1> QED
  BY <1>1 DEF Grows

LEMMA CreditGrows ==
    ASSUME NearTypes, NEW a \in Accounts, NEW n \in Nat,
           balance' = [balance EXCEPT ![a] = @ + n], taken \subseteq taken', UNCHANGED others
    PROVE  Grows
<1>1. \A b \in Accounts : balance[b] \in Nat
  BY DEF NearTypes
<1>2. balance' = [balance EXCEPT ![a] = balance[a] + n] /\ balance \in [Accounts -> Nat]
  BY DEF NearTypes
<1>3. \A b \in Accounts : balance'[b] >= balance[b]
  BY <1>1, <1>2
<1> QED
  BY <1>3 DEF Grows

LEMMA ExecuteGrows == ASSUME NearTypes, NEW d \in Delegates, Execute(d, "anyone") PROVE Grows
<1>1. d.account \in Accounts /\ d.amount \in Nat /\ UNCHANGED taken
  BY DelegateFields DEF Execute
<1>2. CASE d.kind = "claim"
  <2>1. /\ balance' = [balance EXCEPT ![d.account] = @ + lostFound[d.account]] /\ UNCHANGED others
    BY <1>2 DEF Execute
  <2>2. lostFound[d.account] \in Nat
    BY <1>1 DEF NearTypes
  <2> QED
    BY <1>1, <2>1, <2>2, CreditGrows
<1>3. CASE d.kind # "claim" /\ balance[d.account] >= d.amount
  <2>1. /\ balance' = [balance EXCEPT ![d.account] = @ - d.amount]
        /\ others' = others \cup {d.account}
    BY <1>3 DEF Execute
  <2>2. \A b \in Accounts \ {d.account} : balance[b] \in Nat /\ balance'[b] = balance[b]
    BY <1>1, <2>1 DEF NearTypes
  <2> QED
    BY <1>1, <2>1, <2>2 DEF Grows
<1>4. CASE d.kind # "claim" /\ ~(balance[d.account] >= d.amount)
  BY <1>1, <1>4, BalancesKept DEF Execute
<1> QED
  BY <1>2, <1>3, <1>4

LEMMA ResolveGrows ==
    ASSUME NearTypes, NEW i \in DOMAIN moving, Resolve(i) PROVE Grows
<1> DEFINE t == moving[i]
<1>1. t.account \in Accounts /\ t.amount \in Nat
  <2>1. t \in Transfers
    BY DEF NearTypes
  <2> QED
    BY <2>1 DEF Transfers
<1>2. UNCHANGED others /\ (Accept(t) \/ Refuse(t))
  BY DEF Resolve
<1>3. CASE Accept(t)
  <2>1. UNCHANGED balance /\ taken \subseteq taken' /\ \A b \in Accounts : balance[b] \in Nat
    BY <1>3 DEF Accept, NearTypes
  <2> QED
    BY <1>2, <2>1 DEF Grows
<1>4. CASE Refuse(t)
  BY <1>1, <1>2, <1>4, CreditGrows DEF Refuse
<1> QED
  BY <1>2, <1>3, <1>4

\* Every step but a relay of the pass's own.
LEMMA StepGrows ==
    ASSUME NearTypes, StoreTypes, [Next]_vars, ~RelayDelegate PROVE Grows
<1>1. CASE \/ \E amount \in Amounts, r \in Requests[Len(events) + 1] : Send(amount, r[1], r[2])
           \/ WatcherStep \/ DrainFails \/ PassFails \/ UNCHANGED vars
  <2>1. UNCHANGED <<balance, taken, others>>
    BY <1>1 DEF Send, WatcherStep, WatcherStarts, OnWithdrawal, AddToOpen, SaveCursor, DrainFails,
       PassFails, UnlessWatcher, utxoVars, vars, nearVars
  <2> QED
    BY <2>1, BalancesKept
<1>2. ASSUME NEW e \in DOMAIN events, Settle(e) PROVE Grows
  <2>1. events[e].account \in Accounts /\ events[e].amount \in Nat
    <3>1. events[e] \in Withdrawals
      BY DEF StoreTypes
    <3> QED
      BY <3>1 DEF Withdrawals
  <2>2. balance' = [balance EXCEPT ![events[e].account] = @ + events[e].amount] /\ UNCHANGED <<taken, others>>
    BY <1>2 DEF Settle
  <2> QED
    BY <2>1, <2>2, CreditGrows
<1>3. CASE WorkerStep \/ AccountFails \/ Crash \/ NextBlock
           \/ (\E i \in Calls : ContractStep(i)) \/ ContractDisturbed
  <2>1. CASE WorkerStep
    BY <2>1, BalancesKept DEF WorkerStep, PassStarts, ReadConfig, ReadHeld, NoCoinFits, ReadLeft,
       Fail, CloseRecord, EnsureAccount, AskToSign, Signed, UnlessWorker, utxoVars, nearVars
  <2>2. CASE AccountFails \/ Crash \/ NextBlock
    BY <2>2, BalancesKept DEF AccountFails, Crash, Orphaned, NextBlock, Block
  <2>3. CASE (\E i \in Calls : ContractStep(i)) \/ ContractDisturbed
    BY <2>3, BalancesKept DEF ContractStep, ContractDisturbed, OnKey, BalanceRead, ConnectorRead,
       LostFoundRead, OnReads, OnLostFound, OnSigned, CallFails, nearVars
  <2> QED
    BY <1>3, <2>1, <2>2, <2>3
<1>4. ASSUME NEW a \in Accounts, Pays(a) \/ Cancels(a) PROVE Grows
  <2>1. pending[a] \in Nat /\ UNCHANGED <<taken, others>>
    BY <1>4 DEF Pays, Cancels, NearTypes
  <2>2. balance' = balance \/ balance' = [balance EXCEPT ![a] = @ + pending[a]]
    BY <1>4 DEF Pays, Cancels
  <2> QED
    BY <2>1, <2>2, CreditGrows, BalancesKept
<1>5. CASE \/ \E a \in Accounts : ConnectorStep(a)
           \/ ConnectorDisturbed
           \/ \E c \in Coins, v \in CoinValues : CoinArrives(c, v)
  <2>1. CASE \/ \E c \in Configs : Reconfigures(c)
             \/ \E c \in Coins, v \in CoinValues : CoinArrives(c, v)
    BY <2>1, BalancesKept DEF Reconfigures, CoinArrives
  <2> QED
    BY <1>4, <1>5, <2>1 DEF ConnectorStep, ConnectorDisturbed
<1>6. CASE Anyone \/ RelayClaim
  <2>1. CASE \E d \in signed : Execute(d, "anyone")
    BY <2>1, ExecuteGrows DEF NearTypes
  <2>2. CASE UNCHANGED <<balance, taken, others>>
    BY <2>2, BalancesKept
  <2> QED
    BY <1>6, <2>1, <2>2 DEF Anyone, RelayClaim, nearVars
<1> QED
  BY <1>1, <1>2, <1>3, <1>5, <1>6, ResolveGrows DEF Next

LEMMA SafeGrows == ASSUME Grows, NEW a, Safe(a) PROVE Safe(a)'
  BY DEF Grows, Safe

LEMMA HasGrows ==
    ASSUME NearTypes, NearTypes', Grows, NEW a \in Accounts, NEW n \in Nat, Has(a, n)
    PROVE  Has(a, n)'
<1>1. balance[a] \in Nat /\ balance'[a] \in Nat
  BY DEF NearTypes
<1>2. a \in taken' \cup others' \/ balance'[a] >= balance[a]
  BY DEF Grows
<1>3. Safe(a) => Safe(a)'
  BY SafeGrows
<1>4. balance[a] >= n /\ balance'[a] >= balance[a] => balance'[a] >= n
  BY <1>1
<1>5. Safe(a)' \/ balance'[a] >= n
  BY <1>2, <1>3, <1>4 DEF Has, Safe
<1> QED
  BY <1>5 DEF Has

\* The turn is the same one; a delegate only ages.
SameWork ==
    /\ worker'.at = worker.at
    /\ worker.at \notin {"idle", "config"} =>
           worker'.account = worker.account /\ worker'.config = worker.config
    /\ worker.at = "relay" =>
           /\ worker'.delegate.kind = worker.delegate.kind
           /\ worker'.delegate.account = worker.delegate.account
           /\ worker'.delegate.amount = worker.delegate.amount

LEMMA LastingGrows ==
    ASSUME Grows, worker'.account = worker.account, worker'.config = worker.config,
           NEW a, NEW n, Lasting(a, n)
    PROVE  Lasting(a, n)'
  BY SafeGrows DEF Lasting

LEMMA GoodGrows ==
    ASSUME NearTypes, NearTypes', Grows, worker \in Passes, worker.at \notin {"idle", "config"},
           worker'.account = worker.account, worker'.config = worker.config,
           NEW c, OursGood(c)
    PROVE  OursGood(c)'
<1>1. worker.account \in Accounts /\ worker.config.min \in Nat
  BY PassFields, ConfigTypes
<1>2. Has(worker.account, worker.config.min) => Has(worker.account, worker.config.min)'
  <2> SUFFICES ASSUME Has(worker.account, worker.config.min)
               PROVE  Has(worker.account, worker.config.min)'
    OBVIOUS
  <2>1. PICK a \in Accounts, n \in Nat : a = worker.account /\ n = worker.config.min
    BY <1>1
  <2>2. Has(a, n)'
    BY <2>1, HasGrows
  <2> QED
    BY <2>1, <2>2 DEF Has, Safe
<1> QED
  BY <1>2, LastingGrows DEF OursGood

\* Calls advance as receipts do, and the pass's own transfer stays the only one.
CallsKept == \A i \in Calls : Advances(calls[i], calls'[i])
MovesKept ==
    /\ \A i \in DOMAIN moving' : moving'[i].by = "bot" =>
           \E j \in DOMAIN moving : moving[j] = moving'[i]
    /\ \A i, j \in DOMAIN moving' : moving'[i].by = "bot" /\ moving'[j].by = "bot" => i = j
PassInv == CallsInv /\ MovingInv /\ TurnInv

LEMMA SameMoves == ASSUME MovingInv, UNCHANGED moving PROVE MovesKept
  BY DEF MovingInv, MovesKept

LEMMA SameCalls == ASSUME NearTypes, UNCHANGED calls PROVE CallsKept
  BY DEF NearTypes, CallsKept, Advances

LEMMA CallsStay ==
    ASSUME NearTypes, NearTypes', worker \in Passes, CallsInv, Grows, SameWork, CallsKept
    PROVE  CallsInv'
<1> SUFFICES ASSUME NEW i \in Calls, Ours(calls'[i])
             PROVE  /\ worker'.at = "signing" /\ OursGood(calls[i])'
                    /\ \A j \in Calls : Ours(calls'[j]) => i = j
  BY DEF CallsInv, Ours
<1>1. \A j \in Calls : Ours(calls'[j]) => Ours(calls[j])
  BY DEF CallsKept, Advances
<1>2. /\ worker.at = "signing" /\ OursGood(calls[i])
      /\ \A j \in Calls : Ours(calls'[j]) => i = j
  BY <1>1 DEF CallsInv
<1>3. PICK c : c = calls'[i]
  OBVIOUS
<1>4. OursGood(c)
  BY <1>2, <1>3 DEF CallsKept, Advances
<1>5. worker'.account = worker.account /\ worker'.config = worker.config /\ worker'.at = "signing"
  BY <1>2 DEF SameWork
<1>6. OursGood(c)'
  BY <1>2, <1>4, <1>5, GoodGrows
<1>7. OursGood(calls[i])'
  BY <1>3, <1>6 DEF OursGood, Lasting, Has, Safe
<1> QED
  BY <1>2, <1>5, <1>7

LEMMA MovesStay ==
    ASSUME MovingInv, Grows, SameWork, MovesKept PROVE MovingInv'
<1> SUFFICES ASSUME NEW i \in DOMAIN moving', moving'[i].by = "bot"
             PROVE  /\ worker'.at = "relayed" /\ Lasting(moving[i].account, moving[i].amount)'
                    /\ \A j \in DOMAIN moving' : moving'[j].by = "bot" => i = j
  BY DEF MovingInv
<1>1. PICK j \in DOMAIN moving : moving[j] = moving'[i]
  BY DEF MovesKept
<1>2. worker.at = "relayed" /\ Lasting(moving[j].account, moving[j].amount)
  BY <1>1 DEF MovingInv
<1>3. PICK a, n : a = moving[j].account /\ n = moving[j].amount
  OBVIOUS
<1>4. worker'.account = worker.account /\ worker'.config = worker.config /\ worker'.at = "relayed"
  BY <1>2 DEF SameWork
<1>5. Lasting(a, n)'
  BY <1>2, <1>3, <1>4, LastingGrows
<1>6. a = moving'[i].account /\ n = moving'[i].amount
  BY <1>1, <1>3
<1>7. Lasting(moving[i].account, moving[i].amount)'
  BY <1>5, <1>6 DEF Lasting, Safe
<1> QED
  BY <1>4, <1>7 DEF MovesKept

LEMMA TurnStays ==
    ASSUME NearTypes, NearTypes', worker \in Passes, TurnInv, Grows, SameWork PROVE TurnInv'
<1>1. CASE worker.at \in {"create", "coin", "left"}
  <2>1. PICK a \in Accounts, n \in Nat : a = worker.account /\ n = worker.config.min
    BY <1>1, PassFields, ConfigTypes
  <2>2. Has(a, n)'
    BY <1>1, <2>1, HasGrows DEF TurnInv
  <2>3. a = worker'.account /\ n = worker'.config.min /\ worker'.at = worker.at
    BY <1>1, <2>1 DEF SameWork
  <2>4. Has(worker.account, worker.config.min)'
    BY <2>2, <2>3 DEF Has, Safe
  <2> QED
    BY <1>1, <2>3, <2>4 DEF TurnInv
<1>2. CASE worker.at = "relay"
  <2>1. PICK a, n : a = worker.delegate.account /\ n = worker.delegate.amount
    OBVIOUS
  <2>2. /\ worker'.account = worker.account /\ worker'.config = worker.config
        /\ a = worker'.delegate.account /\ n = worker'.delegate.amount /\ worker'.at = "relay"
        /\ worker'.delegate.kind = "withdraw"
    BY <1>2, <2>1 DEF SameWork, TurnInv
  <2>3. Lasting(a, n)'
    BY <1>2, <2>1, <2>2, LastingGrows DEF TurnInv
  <2>4. Lasting(worker.delegate.account, worker.delegate.amount)'
    BY <2>2, <2>3 DEF Lasting, Safe
  <2> QED
    BY <2>2, <2>4 DEF TurnInv
<1>3. CASE worker.at = "close"
  <2>1. PICK a : a = worker.account
    OBVIOUS
  <2>2. Safe(a)' /\ a = worker'.account /\ worker'.at = "close"
    BY <1>3, <2>1, SafeGrows DEF TurnInv, SameWork
  <2>3. Safe(worker.account)'
    BY <2>2 DEF Safe
  <2> QED
    BY <2>2, <2>3 DEF TurnInv
<1>4. CASE worker.at \notin {"create", "coin", "left", "relay", "close"}
  BY <1>4 DEF TurnInv, SameWork
<1> QED
  BY <1>1, <1>2, <1>3, <1>4

LEMMA PassStays ==
    ASSUME NearTypes, NearTypes', worker \in Passes, PassInv, Grows, SameWork, CallsKept, MovesKept
    PROVE  PassInv'
  BY CallsStay, MovesStay, TurnStays DEF PassInv

\* The steps that are not the pass's.
LEMMA AgedAdvances == ASSUME NEW c \in CallStates PROVE Advances(c, AgedCall(c))
<1>1. CASE c.stage \notin {"sign", "over"}
  BY <1>1, AgedCallTyped DEF Advances
<1>2. CASE c.stage \in {"sign", "over"}
  <2>1. PICK d : d = AgedCall(c)
    OBVIOUS
  <2>2. /\ d \in CallStates /\ d.stage = c.stage /\ (Ours(d) => Ours(c))
        /\ (d.delegate = NoDelegate) <=> (c.delegate = NoDelegate)
        /\ c.delegate # NoDelegate =>
               /\ d.delegate.kind = c.delegate.kind /\ d.delegate.account = c.delegate.account
               /\ d.delegate.amount = c.delegate.amount
    BY <1>2, <2>1, AgedCallTyped
  <2>3. OursGood(c) => OursGood(d)
    BY <1>2, <2>2 DEF OursGood
  <2> QED
    BY <2>1, <2>2, <2>3 DEF Advances
<1> QED
  BY <1>1, <1>2

LEMMA DeriveKept ==
    ASSUME NearTypes, NEW i \in Calls, NEW a \in Accounts,
           (\E coin \in Coins : Withdraw(i, "anyone", a, coin)) \/ Claim(i, "anyone", a)
    PROVE  CallsKept
<1>1. "anyone" \in Relayers
  BY DEF Relayers
<1>2. PICK d \in CallStates : calls' = [calls EXCEPT ![i] = d] /\ d.by = "anyone"
  <2>1. CASE \E coin \in Coins : Withdraw(i, "anyone", a, coin)
    BY <1>1, <2>1, WithdrawCall DEF Withdraw, Derive
  <2>2. CASE Claim(i, "anyone", a)
    BY <1>1, <2>2, ClaimCall DEF Claim, Derive
  <2> QED
    BY <2>1, <2>2
<1>3. /\ calls'[i] = d /\ \A j \in Calls \ {i} : calls'[j] = calls[j]
      /\ \A j \in Calls : calls[j] \in CallStates
  BY <1>2, CallMoves DEF NearTypes
<1> QED
  BY <1>2, <1>3 DEF CallsKept, Advances, Ours

LEMMA ContractKept ==
    ASSUME NearTypes, NEW i \in Calls,
           \/ OnKey(i) \/ BalanceRead(i) \/ ConnectorRead(i) \/ LostFoundRead(i)
           \/ OnReads(i) \/ OnLostFound(i) \/ OnSigned(i) \/ CallFails(i)
    PROVE  CallsKept
<1>1. PICK d : calls' = [calls EXCEPT ![i] = d] /\ Advances(calls[i], d)
  BY ContractAdvances
<1>2. d \in CallStates
  BY <1>1 DEF Advances
<1>3. calls'[i] = d /\ \A j \in Calls \ {i} : calls'[j] = calls[j] /\ calls[j] \in CallStates
  BY <1>1, <1>2, CallMoves DEF NearTypes
<1> QED
  BY <1>1, <1>3 DEF CallsKept, Advances

LEMMA ExecuteKept ==
    ASSUME NearTypes, MovingInv, NEW d \in Delegates, Execute(d, "anyone") PROVE MovesKept
<1>1. CASE UNCHANGED moving
  BY <1>1, SameMoves
<1>2. CASE ~UNCHANGED moving
  <2>1. PICK t \in Transfers : moving' = Append(moving, t) /\ t.by = "anyone"
    <3>1. "anyone" \in Relayers
      BY DEF Relayers
    <3> QED
      BY <1>2, <3>1, TransferTyped DEF Execute
  <2>2. /\ moving \in Seq(Transfers) /\ Len(moving) \in Nat
    BY DEF NearTypes
  <2>3. /\ DOMAIN moving = 1..Len(moving) /\ DOMAIN moving' = 1..(Len(moving) + 1)
        /\ moving'[Len(moving) + 1] = t
        /\ \A j \in DOMAIN moving : moving'[j] = moving[j]
    BY <2>1, <2>2
  <2>4. \A j \in DOMAIN moving' : moving'[j].by = "bot" =>
            j \in DOMAIN moving /\ moving[j] = moving'[j]
    <3>1. \A j \in DOMAIN moving' : j \in DOMAIN moving \/ j = Len(moving) + 1
      BY <2>2, <2>3
    <3> QED
      BY <2>1, <2>3, <3>1
  <2> QED
    BY <2>4 DEF MovesKept, MovingInv
<1> QED
  BY <1>1, <1>2

LEMMA ResolveKept ==
    ASSUME NearTypes, MovingInv, NEW i \in DOMAIN moving, moving' = RemoveAt(moving, i)
    PROVE  MovesKept
<1>1. moving \in Seq(Transfers)
  BY DEF NearTypes
<1>2. /\ \A k \in DOMAIN moving' :
              IF k < i THEN k \in DOMAIN moving /\ moving'[k] = moving[k]
                       ELSE k + 1 \in DOMAIN moving /\ moving'[k] = moving[k + 1]
      /\ DOMAIN moving' \subseteq Nat /\ i \in Nat
  BY <1>1, SeqRemoved
<1>3. \A k \in DOMAIN moving' : \E j \in DOMAIN moving :
          moving[j] = moving'[k] /\ (IF k < i THEN j = k ELSE j = k + 1)
  BY <1>2
<1>4. ASSUME NEW k \in DOMAIN moving', NEW m \in DOMAIN moving',
             moving'[k].by = "bot", moving'[m].by = "bot"
      PROVE  k = m
  <2>1. PICK j \in DOMAIN moving : moving[j] = moving'[k] /\ (IF k < i THEN j = k ELSE j = k + 1)
    BY <1>3
  <2>2. PICK n \in DOMAIN moving : moving[n] = moving'[m] /\ (IF m < i THEN n = m ELSE n = m + 1)
    BY <1>3
  <2>3. j = n
    BY <1>4, <2>1, <2>2 DEF MovingInv
  <2>4. k \in Nat /\ m \in Nat /\ i \in Nat
    BY <1>2
  <2> QED
    BY <2>1, <2>2, <2>3, <2>4
<1> QED
  BY <1>3, <1>4 DEF MovesKept

LEMMA OutsidePass ==
    ASSUME NearTypes, NearTypes', StoreTypes, OpenInv, worker \in Passes, PassInv, Grows,
           \/ \E amount \in Amounts, r \in Requests[Len(events) + 1] : Send(amount, r[1], r[2])
           \/ WatcherStep \/ DrainFails \/ UNCHANGED vars
           \/ \E e \in DOMAIN events : Settle(e)
           \/ \E i \in Calls : ContractStep(i)
           \/ ContractDisturbed
           \/ \E i \in DOMAIN moving : moving[i].by # "bot" /\ Resolve(i)
           \/ \E a \in Accounts : ConnectorStep(a)
           \/ ConnectorDisturbed
           \/ NextBlock \/ Anyone \/ RelayClaim
           \/ \E c \in Coins, v \in CoinValues : CoinArrives(c, v)
    PROVE  PassInv'
<1>1. ASSUME CallsKept, MovesKept, SameWork PROVE PassInv'
  BY <1>1, PassStays
<1>2. ASSUME UNCHANGED worker PROVE SameWork
  BY <1>2 DEF SameWork
<1>3. CASE UNCHANGED <<calls, moving, worker>>
  BY <1>1, <1>2, <1>3, SameCalls, SameMoves DEF PassInv
<1>4. CASE \/ \E amount \in Amounts, r \in Requests[Len(events) + 1] : Send(amount, r[1], r[2])
           \/ WatcherStep \/ DrainFails \/ UNCHANGED vars
           \/ \E e \in DOMAIN events : Settle(e)
           \/ \E a \in Accounts : ConnectorStep(a)
           \/ ConnectorDisturbed
           \/ \E c \in Coins, v \in CoinValues : CoinArrives(c, v)
  <2>1. UNCHANGED <<calls, moving, worker>>
    BY <1>4 DEF Send, WatcherStep, WatcherStarts, OnWithdrawal, AddToOpen, SaveCursor, UnlessWatcher,
       DrainFails, vars, Settle, ConnectorStep, Pays, ConnectorDisturbed, Cancels, Reconfigures,
       CoinArrives, utxoVars, contractVars, nearVars, agentVars
  <2> QED
    BY <1>3, <2>1
<1>5. CASE (\E i \in Calls : ContractStep(i)) \/ ContractDisturbed
  <2>1. PICK i \in Calls : \/ OnKey(i) \/ BalanceRead(i) \/ ConnectorRead(i) \/ LostFoundRead(i)
                           \/ OnReads(i) \/ OnLostFound(i) \/ OnSigned(i) \/ CallFails(i)
    BY <1>5 DEF ContractStep, ContractDisturbed
  <2>2. UNCHANGED <<moving, worker>>
    BY <1>5 DEF ContractStep, ContractDisturbed, OnKey, BalanceRead, ConnectorRead, LostFoundRead,
       OnReads, OnLostFound, OnSigned, CallFails, nearVars, agentVars
  <2> QED
    BY <1>1, <1>2, <2>1, <2>2, ContractKept, SameMoves DEF PassInv
<1>6. ASSUME NEW i \in DOMAIN moving, moving[i].by # "bot", Resolve(i) PROVE PassInv'
  <2>1. moving' = RemoveAt(moving, i) /\ UNCHANGED <<calls, worker>>
    BY <1>6 DEF Resolve, Heard, contractVars
  <2> QED
    BY <1>1, <1>2, <2>1, ResolveKept, SameCalls DEF PassInv
<1>7. CASE NextBlock
  <2>1. UNCHANGED moving /\ \A i \in Calls : calls'[i] = AgedCall(calls[i]) /\ calls[i] \in CallStates
    BY <1>7 DEF NextBlock, Block, NearTypes
  <2>2. CallsKept
    BY <2>1, AgedAdvances DEF CallsKept
  <2>3. SameWork
    BY <1>7, BlockMoves DEF SameWork
  <2> QED
    BY <1>1, <2>1, <2>2, <2>3, SameMoves DEF PassInv
<1>8. CASE Anyone \/ RelayClaim
  <2>1. UNCHANGED worker
    BY <1>8 DEF Anyone, RelayClaim, agentVars
  <2>2. ASSUME NEW d \in signed, Execute(d, "anyone") PROVE PassInv'
    <3>1. d \in Delegates /\ UNCHANGED calls
      BY <2>2 DEF NearTypes, Execute
    <3> QED
      BY <1>1, <1>2, <2>1, <2>2, <3>1, ExecuteKept, SameCalls DEF PassInv
  <2>3. ASSUME NEW i \in Calls, NEW a \in Accounts, UNCHANGED nearVars,
               (\E coin \in Coins : Withdraw(i, "anyone", a, coin)) \/ Claim(i, "anyone", a)
        PROVE  PassInv'
    <3>1. CallsKept /\ UNCHANGED moving
      BY <2>3, DeriveKept DEF nearVars
    <3> QED
      BY <1>1, <1>2, <2>1, <3>1, SameMoves DEF PassInv
  <2>4. CASE UNCHANGED <<contractVars, moving>>
    BY <1>3, <2>1, <2>4 DEF contractVars
  <2>5. CASE RelayClaim
    BY <2>2, <2>5 DEF RelayClaim
  <2>6. CASE Anyone
    BY <2>2, <2>3, <2>4, <2>6 DEF Anyone
  <2> QED
    BY <1>8, <2>5, <2>6
<1> QED
  BY <1>4, <1>5, <1>6, <1>7, <1>8

\* The pass's own steps: most leave it with no call and no transfer.
LEMMA QuietNow ==
    ASSUME PassInv
    PROVE  /\ worker.at # "signing" => \A i \in Calls : ~Ours(calls[i])
           /\ worker.at # "relayed" => \A i \in DOMAIN moving : moving[i].by # "bot"
  BY DEF PassInv, CallsInv, MovingInv

LEMMA QuietCalls == ASSUME \A i \in Calls : ~Ours(calls'[i]) PROVE CallsInv'
  BY DEF CallsInv, Ours
LEMMA QuietMoving == ASSUME \A i \in DOMAIN moving' : moving'[i].by # "bot" PROVE MovingInv'
  BY DEF MovingInv
LEMMA PlainTurn ==
    ASSUME worker'.at \in {"idle", "config", "held", "fail", "signing", "relayed"} PROVE TurnInv'
  BY DEF TurnInv

LEMMA QuietStep ==
    ASSUME PassInv, worker.at \notin {"signing", "relayed"}, UNCHANGED <<calls, moving>>
    PROVE  CallsInv' /\ MovingInv'
  BY QuietNow, QuietCalls, QuietMoving

LEMMA FailingPass ==
    ASSUME NearTypes, OpenInv, PassInv, worker \in Passes, PassFails \/ AccountFails \/ Crash
    PROVE  PassInv'
<1>1. TurnInv'
  BY FailingMoves, PlainTurn
<1>2. CallsInv' /\ MovingInv'
  <2>1. CASE PassFails
    <3>1. worker.at \notin {"signing", "relayed"} /\ UNCHANGED <<calls, moving>>
      BY <2>1 DEF PassFails, contractVars, nearVars
    <3> QED
      BY <3>1, QuietStep
  <2>2. CASE AccountFails \/ Crash
    <3>1. Orphaned
      BY <2>2 DEF AccountFails, Crash
    <3> QED
      BY <3>1, OrphanedCalls, OrphanedMoving, QuietCalls, QuietMoving
  <2> QED
    BY <2>1, <2>2
<1> QED
  BY <1>1, <1>2 DEF PassInv

LEMMA ReadingPass ==
    ASSUME NearTypes, NearTypes', StoreTypes, OpenInv, PassInv, worker \in Passes,
           \/ PassStarts \/ ReadConfig \/ ReadHeld \/ EnsureAccount \/ NoCoinFits
           \/ ReadLeft \/ CloseRecord \/ Fail
    PROVE  PassInv'
<1>1. UNCHANGED <<calls, moving, balance, taken, others>> /\ worker.at \notin {"signing", "relayed"}
  BY DEF PassStarts, ReadConfig, ReadHeld, EnsureAccount, NoCoinFits, ReadLeft, CloseRecord, Fail,
     UnlessWorker, utxoVars, contractVars, nearVars
<1>2. CallsInv' /\ MovingInv'
  BY <1>1, QuietStep
<1>3. TurnInv
  BY DEF PassInv
<1>4. CASE PassStarts \/ ReadConfig \/ NoCoinFits \/ Fail
  <2>1. worker'.at \in {"idle", "config", "held", "fail"}
    BY <1>4, ReadingMoves, AskingMoves, FailMoves
  <2>2. TurnInv'
    BY <2>1, PlainTurn
  <2> QED
    BY <1>2, <2>2 DEF PassInv
<1>5. CASE ReadHeld
  <2>1. /\ worker'.at \in {"idle", "held", "create"}
        /\ worker'.at = "create" =>
               /\ worker'.account = worker.account /\ worker'.config = worker.config
               /\ Has(worker.account, worker.config.min)
    BY <1>5, ReadHeldMoves
  <2>2. TurnInv'
    BY <1>1, <2>1 DEF TurnInv, Has, Safe
  <2> QED
    BY <1>2, <2>2 DEF PassInv
<1>6. CASE EnsureAccount
  <2>1. /\ worker.at = "create" /\ worker'.at = "coin"
        /\ worker'.account = worker.account /\ worker'.config = worker.config
    BY <1>6, AskingMoves
  <2>2. TurnInv'
    BY <1>1, <1>3, <2>1 DEF TurnInv, Has, Safe
  <2> QED
    BY <1>2, <2>2 DEF PassInv
<1>7. CASE ReadLeft
  <2>1. /\ worker'.at \in {"fail", "close"} /\ worker'.account = worker.account
        /\ worker'.at = "close" => Safe(worker.account)
    BY <1>3, <1>7, ReadLeftMoves
  <2>2. TurnInv'
    BY <1>1, <2>1 DEF TurnInv, Safe
  <2> QED
    BY <1>2, <2>2 DEF PassInv
<1>8. CASE CloseRecord
  <2>1. \/ worker'.at \in {"idle", "held"}
        \/ worker'.at = "close" /\ worker'.account = worker.account
    BY <1>8, CloseMoves
  <2>2. Safe(worker.account)
    BY <1>3, <1>8 DEF TurnInv, CloseRecord
  <2>3. TurnInv'
    BY <1>1, <2>1, <2>2 DEF TurnInv, Safe
  <2> QED
    BY <1>2, <2>3 DEF PassInv
<1> QED
  BY <1>4, <1>5, <1>6, <1>7, <1>8

LEMMA AskPass ==
    ASSUME NearTypes, OpenInv, PassInv, worker \in Passes, NEW i \in Calls, AskToSign(i)
    PROVE  PassInv'
<1>1. /\ worker.at = "coin" /\ worker'.at = "signing"
      /\ worker'.account = worker.account /\ worker'.config = worker.config
      /\ worker \in HeldTurns
  BY AskingMoves, HeldFields
<1>2. PICK coin \in Coins : calls' = [calls EXCEPT ![i] = [stage |-> "key", by |-> "bot",
                                kind |-> "withdraw", account |-> worker.account, coin |-> coin]]
  BY DEF AskToSign, Withdraw, Derive
<1>3. UNCHANGED <<moving, balance, taken, others>>
  BY DEF AskToSign, nearVars
<1>4. Has(worker.account, worker.config.min)
  BY <1>1 DEF PassInv, TurnInv
<1>5. worker.account \in Accounts /\ "bot" \in Relayers
  BY <1>1 DEF HeldTurns, Relayers
<1>6. PICK d \in CallStates : calls' = [calls EXCEPT ![i] = d] /\ d.stage = "key" /\ d.by = "bot"
                              /\ d.kind = "withdraw" /\ d.account = worker.account
  BY <1>2, <1>5, WithdrawCall
<1>7. calls'[i] = d /\ \A j \in Calls \ {i} : calls'[j] = calls[j]
  BY <1>6, CallMoves
<1>8. \A j \in Calls : Ours(calls'[j]) => i = j
  BY <1>1, <1>7, QuietNow
<1>9. OursGood(calls[i])'
  BY <1>1, <1>3, <1>4, <1>6, <1>7 DEF OursGood, Has, Safe
<1>10. CallsInv'
  BY <1>1, <1>8, <1>9 DEF CallsInv, Ours
<1>11. MovingInv'
  BY <1>1, <1>3, QuietNow, QuietMoving
<1> QED
  BY <1>1, <1>10, <1>11, PlainTurn DEF PassInv

LEMMA SignedPass ==
    ASSUME NearTypes, OpenInv, PassInv, worker \in Passes, NEW i \in Calls, Signed(i)
    PROVE  PassInv'
<1>1. /\ worker.at = "signing" /\ worker'.at \in {"fail", "relay"}
      /\ worker'.account = worker.account /\ worker'.config = worker.config
      /\ worker'.at = "relay" => worker'.delegate = calls[i].delegate /\ calls[i].delegate # NoDelegate
  BY SignedMoves DEF Signed
<1>2. calls[i].stage = "over" /\ calls[i] \in OverCalls
  BY CallShape DEF Signed, NearTypes
<1>3. Ours(calls[i])
  BY <1>2 DEF Ours, OverCalls
<1>4. OursGood(calls[i]) /\ \A j \in Calls : Ours(calls[j]) => i = j
  BY <1>3 DEF PassInv, CallsInv
<1>5. calls' = [calls EXCEPT ![i] = Idle] /\ UNCHANGED <<moving, taken, others>>
  BY DEF Signed, nearVars
<1>6. calls'[i] = Idle /\ \A j \in Calls \ {i} : calls'[j] = calls[j]
  BY <1>5, IdleCall, CallMoves
<1>7. \A j \in Calls : ~Ours(calls'[j])
  BY <1>4, <1>6, IdleCall
<1>8. MovingInv'
  BY <1>1, <1>5, QuietNow, QuietMoving
<1>9. TurnInv'
  <2>1. CASE worker'.at = "fail"
    BY <2>1, PlainTurn
  <2>2. CASE worker'.at = "relay"
    <3>1. /\ calls[i].delegate.kind = "withdraw"
          /\ Lasting(calls[i].delegate.account, calls[i].delegate.amount)
      BY <1>1, <1>2, <1>4, <2>2 DEF OursGood
    <3> QED
      BY <1>1, <1>5, <2>2, <3>1 DEF TurnInv, Lasting, Safe
  <2> QED
    BY <1>1, <2>1, <2>2
<1> QED
  BY <1>7, <1>8, <1>9, QuietCalls DEF PassInv

LEMMA RelayPass ==
    ASSUME NearTypes, OpenInv, PassInv, worker \in Passes, RelayDelegate
    PROVE  PassInv'
<1> DEFINE d == worker.delegate
<1>1. /\ worker.at = "relay" /\ worker'.at \in {"relayed", "fail"} /\ d \in Delegates
      /\ worker'.account = worker.account /\ worker'.config = worker.config
      /\ worker'.at = "relayed" => Execute(d, "bot") /\ balance[d.account] >= d.amount
      /\ Execute(d, "bot") \/ (UNCHANGED <<contractVars, nearVars>> /\ worker'.at = "fail")
  BY RelayMoves, RelayFields DEF PassInv, RelayDelegate
<1>2. UNCHANGED <<calls, taken>> /\ (UNCHANGED others \/ Execute(d, "bot"))
  BY <1>1 DEF Execute, contractVars, nearVars
<1>3. UNCHANGED others
  BY <1>1, <1>2 DEF Execute
<1>4. CallsInv'
  BY <1>1, <1>2, QuietNow, QuietCalls
<1>5. d.kind = "withdraw" /\ Lasting(d.account, d.amount)
  BY <1>1 DEF PassInv, TurnInv
<1>6. MovingInv'
  <2>1. CASE UNCHANGED moving
    BY <1>1, <2>1, QuietNow, QuietMoving
  <2>2. CASE ~UNCHANGED moving
    <3>1. PICK t \in Transfers : moving' = Append(moving, t) /\ t.account = d.account
                                 /\ t.amount = d.amount
      <4>1. "bot" \in Relayers
        BY DEF Relayers
      <4>2. Execute(d, "bot")
        BY <1>1, <2>2 DEF nearVars
      <4> QED
        BY <1>1, <2>2, <4>1, <4>2, TransferTyped DEF Execute
    <3>2. moving \in Seq(Transfers) /\ Len(moving) \in Nat
      BY DEF NearTypes
    <3>3. /\ DOMAIN moving' = 1..(Len(moving) + 1) /\ moving'[Len(moving) + 1] = t
          /\ \A j \in DOMAIN moving : moving'[j] = moving[j]
      BY <3>1, <3>2
    <3>4. \A j \in DOMAIN moving' : moving'[j].by = "bot" => j = Len(moving) + 1
      <4>1. \A j \in DOMAIN moving' : j \in DOMAIN moving \/ j = Len(moving) + 1
        BY <3>2, <3>3
      <4> QED
        BY <1>1, <3>3, <4>1, QuietNow
    <3>5. worker'.at = "relayed"
      <4>1. Execute(d, "bot")
        BY <1>1, <2>2 DEF nearVars
      <4>2. balance[d.account] >= d.amount
        BY <1>5, <2>2, <4>1 DEF Execute
      <4>3. Executable(d)
        BY <4>1 DEF Execute
      <4> QED
        BY <4>2, <4>3 DEF RelayDelegate
    <3>6. Lasting(d.account, d.amount)
      BY <1>5
    <3>7. \A j \in DOMAIN moving' : moving'[j].by = "bot" =>
              Lasting(moving[j].account, moving[j].amount)'
      BY <1>1, <1>2, <1>3, <3>1, <3>3, <3>4, <3>6 DEF Lasting, Safe
    <3> QED
      BY <3>4, <3>5, <3>7 DEF MovingInv
  <2> QED
    BY <2>1, <2>2
<1>7. TurnInv'
  BY <1>1, PlainTurn
<1> QED
  BY <1>4, <1>6, <1>7 DEF PassInv

LEMMA ResolvePass ==
    ASSUME NearTypes, NearTypes', OpenInv, PassInv, worker \in Passes,
           NEW i \in DOMAIN moving, moving[i].by = "bot", Resolve(i)
    PROVE  PassInv'
<1> DEFINE t == moving[i]
<1>1. /\ worker.at = "relayed" /\ worker'.at \in {"left", "fail"}
      /\ worker'.account = worker.account /\ worker'.config = worker.config
  BY ResolveMoves DEF PassInv
<1>2. /\ moving' = RemoveAt(moving, i) /\ UNCHANGED <<calls, others>> /\ (Accept(t) \/ Refuse(t))
  BY DEF Resolve, contractVars
<1>3. /\ Lasting(t.account, t.amount)
      /\ \A j \in DOMAIN moving : moving[j].by = "bot" => i = j
  BY DEF PassInv, MovingInv
<1>4. CallsInv'
  BY <1>1, <1>2, QuietNow, QuietCalls
<1>5. MovingInv'
  <2>1. moving \in Seq(Transfers)
    BY DEF NearTypes
  <2>2. /\ \A k \in DOMAIN moving' :
                IF k < i THEN k \in DOMAIN moving /\ moving'[k] = moving[k]
                         ELSE k + 1 \in DOMAIN moving /\ moving'[k] = moving[k + 1]
        /\ DOMAIN moving' \subseteq Nat /\ i \in Nat
    BY <1>2, <2>1, SeqRemoved
  <2>3. \A k \in DOMAIN moving' : moving'[k].by # "bot"
    BY <1>3, <2>2
  <2> QED
    BY <2>3, QuietMoving
<1>6. Has(worker.account, worker.config.min)'
  <2>1. t.account = worker.account /\ t.amount \in Nat /\ worker.account \in Accounts
        /\ worker.config.min \in Nat /\ (Safe(t.account) \/ t.amount >= worker.config.min)
    <3>1. t \in Transfers
      BY DEF NearTypes
    <3> QED
      BY <1>1, <1>3, <3>1, PassFields, ConfigTypes DEF Lasting, Transfers
  <2>2. CASE Accept(t)
    BY <1>1, <2>1, <2>2 DEF Accept, Has, Safe
  <2>3. CASE Refuse(t)
    <3>1. UNCHANGED taken /\ balance'[worker.account] = balance[worker.account] + t.amount
      BY <2>1, <2>3 DEF Refuse, NearTypes
    <3>2. balance[worker.account] \in Nat
      BY <2>1 DEF NearTypes
    <3>3. t.amount >= worker.config.min => balance'[worker.account] >= worker.config.min
      BY <2>1, <3>1, <3>2
    <3> QED
      BY <1>1, <1>2, <2>1, <3>1, <3>3 DEF Has, Safe
  <2> QED
    BY <1>2, <2>2, <2>3
<1>7. TurnInv'
  BY <1>1, <1>6 DEF TurnInv
<1> QED
  BY <1>4, <1>5, <1>7 DEF PassInv

LEMMA PassStep ==
    ASSUME NearTypes, StoreTypes, OpenInv, PassInv, worker \in Passes, [Next]_vars PROVE PassInv'
<1>1. NearTypes'
  BY StepTyped
<1>2. CASE PassFails \/ AccountFails \/ Crash
  BY <1>2, FailingPass
<1>3. CASE WorkerStep
  BY <1>1, <1>3, ReadingPass, AskPass, SignedPass, RelayPass DEF WorkerStep
<1>4. ASSUME NEW i \in DOMAIN moving, moving[i].by = "bot", Resolve(i) PROVE PassInv'
  BY <1>1, <1>4, ResolvePass
<1>5. CASE ~RelayDelegate
  <2>1. Grows
    BY <1>5, StepGrows
  <2> QED
    BY <1>1, <1>2, <1>3, <1>4, <2>1, OutsidePass DEF Next
<1> QED
  BY <1>3, <1>5 DEF WorkerStep

\* A record that closes is of an account with a mark.
Closed == \A e \in DOMAIN events : store.record[e] = "withdrawn" => Safe(events[e].account)

LEMMA MarksStay ==
    ASSUME NearTypes, StoreTypes, PassInv, worker \in Passes, [Next]_vars, NEW a, Safe(a)
    PROVE  Safe(a)'
<1>1. CASE RelayDelegate
  <2>1. taken \subseteq taken' /\ others \subseteq others'
    BY <1>1 DEF RelayDelegate, Execute, nearVars
  <2> QED
    BY <2>1 DEF Safe
<1>2. CASE ~RelayDelegate
  BY <1>2, StepGrows, SafeGrows
<1> QED
  BY <1>1, <1>2

\* Who writes a record, and when an event appears.
LEMMA RecordsWritten ==
    ASSUME WatchInv, OpenInv, worker \in Passes, [Next]_vars
    PROVE  \/ UNCHANGED <<events, store>>
           \/ /\ UNCHANGED events
              /\ \A e \in DOMAIN events : store'.record[e] = "withdrawn" => store.record[e] = "withdrawn"
           \/ CloseRecord
           \/ /\ Len(events) < MaxSends /\ UNCHANGED store
              /\ \E e : events' = Append(events, e)
<1>1. CASE OnWithdrawal \/ AddToOpen \/ SaveCursor
  <2>1. UNCHANGED events /\ DOMAIN events \subseteq 1..MaxSends
    BY <1>1, SendsNatural DEF OnWithdrawal, AddToOpen, SaveCursor, UnlessWatcher, hydrationVars, WatchInv, StoreTypes
  <2>2. CASE AddToOpen \/ SaveCursor
    <3>1. store'.record = store.record
      BY <2>2, StoreFields DEF AddToOpen, SaveCursor
    <3> QED
      BY <2>1, <3>1
  <2>3. CASE OnWithdrawal
    <3>1. store' = store \/ store'.record = [store.record EXCEPT ![watcher.next] = StateFor(watcher.next)]
      BY <2>3, StoreFields DEF OnWithdrawal
    <3>2. StateFor(watcher.next) # "withdrawn" /\ store.record \in [1..MaxSends -> States]
      BY DEF StateFor, WatchInv, StoreTypes
    <3> QED
      BY <2>1, <3>1, <3>2
  <2> QED
    BY <1>1, <2>2, <2>3
<1>2. CASE WatcherStarts \/ DrainFails \/ UNCHANGED vars
  BY <1>2 DEF WatcherStarts, DrainFails, UnlessWatcher, vars, hydrationVars, agentVars
<1>3. CASE WorkerStep
  BY <1>3 DEF WorkerStep, PassStarts, ReadConfig, ReadHeld, NoCoinFits, ReadLeft, Fail,
     EnsureAccount, RelayDelegate, AskToSign, Signed, UnlessWorker, hydrationVars
<1>4. CASE \/ PassFails \/ AccountFails \/ Crash \/ ContractDisturbed \/ ConnectorDisturbed
           \/ NextBlock \/ Anyone \/ RelayClaim
           \/ \E e \in DOMAIN events : Settle(e)
           \/ \E i \in Calls : ContractStep(i)
           \/ \E i \in DOMAIN moving : Resolve(i)
           \/ \E a \in Accounts : ConnectorStep(a)
           \/ \E c \in Coins, v \in CoinValues : CoinArrives(c, v)
  BY <1>4 DEF PassFails, AccountFails, Crash, Orphaned, ContractDisturbed, ConnectorDisturbed,
     NextBlock, Anyone, RelayClaim, Settle, ContractStep, Resolve, ConnectorStep, CoinArrives,
     hydrationVars, agentVars
<1>5. CASE /\ Len(events) < MaxSends
           /\ \E amount \in Amounts, r \in Requests[Len(events) + 1] : Send(amount, r[1], r[2])
  BY <1>5 DEF Send, agentVars
<1> QED
  BY <1>1, <1>2, <1>3, <1>4, <1>5 DEF Next, WatcherStep

LEMMA ClosedStep ==
    ASSUME WatchInv, NearTypes, OpenInv, PassInv, worker \in Passes, Closed, [Next]_vars
    PROVE  Closed'
<1> SUFFICES ASSUME NEW e \in DOMAIN events', store'.record[e] = "withdrawn"
             PROVE  Safe(events[e].account)'
  BY DEF Closed
<1>1. StoreTypes
  BY DEF WatchInv
<1>2. ASSUME e \in DOMAIN events, events'[e] = events[e], Safe(events[e].account)
      PROVE  Safe(events[e].account)'
  <2>1. PICK a : a = events[e].account
    OBVIOUS
  <2>2. Safe(a)'
    BY <1>1, <1>2, <2>1, MarksStay
  <2> QED
    BY <1>2, <2>1, <2>2 DEF Safe
<1>3. CASE UNCHANGED <<events, store>>
  BY <1>2, <1>3 DEF Closed
<1>4. CASE /\ UNCHANGED events
           /\ \A f \in DOMAIN events : store'.record[f] = "withdrawn" => store.record[f] = "withdrawn"
  BY <1>2, <1>4 DEF Closed
<1>5. CASE CloseRecord
  <2>1. PICK f \in Covered :
             store' = Store([store.record EXCEPT ![f] = "withdrawn"], store.open \ {f}, store.cursor)
    BY <1>1, <1>5, CloseMoves
  <2>2. store'.record = [store.record EXCEPT ![f] = "withdrawn"] /\ UNCHANGED events
    BY <1>5, <2>1, StoreFields DEF CloseRecord, UnlessWorker, hydrationVars
  <2>3. Safe(worker.account) /\ events[f].account = worker.account
    BY <1>5, <2>1 DEF PassInv, TurnInv, CloseRecord, Covered, RecordsOf
  <2>4. e # f => store.record[e] = "withdrawn"
    BY <2>2, SendsNatural DEF WatchInv, StoreTypes
  <2> QED
    BY <1>2, <2>2, <2>3, <2>4 DEF Closed
<1>6. CASE Len(events) < MaxSends /\ UNCHANGED store /\ \E w : events' = Append(events, w)
  <2>1. PICK w : events' = Append(events, w)
    BY <1>6
  <2>2. events \in Seq(Withdrawals) /\ Len(events) \in Nat
    BY <1>1 DEF StoreTypes
  <2>3. e \in DOMAIN events \/ e = Len(events) + 1
    BY <2>1, <2>2
  <2>4. store.record[Len(events) + 1] = "none"
    <3>1. Len(events) + 1 \in 1..MaxSends /\ Len(events) + 1 > Len(events)
      BY <1>6, <2>2, SendsNatural
    <3> QED
      BY <3>1 DEF OpenInv
  <2>5. e \in DOMAIN events /\ events'[e] = events[e]
    BY <1>6, <2>1, <2>2, <2>3, <2>4
  <2> QED
    BY <1>2, <1>6, <2>5 DEF Closed
<1> QED
  BY <1>3, <1>4, <1>5, <1>6, RecordsWritten

(* A drain that fails, a crash between two commands or a checkpoint in the   *)
(* middle of a drain passes over no event: all up to the saved cursor have a *)
(* record (watcher.ts read).                                                 *)
THEOREM CursorCoversAlways == Spec => []CursorCovers
<1>1. WatchInv => CursorCovers
  BY DEF WatchInv, Recorded, CursorCovers
<1> QED
  BY InitInv, StepInv, <1>1, PTL DEF Spec

-----------------------------------------------------------------------------
(* The theorems. *)

UtxoInv ==
    /\ WatchInv /\ NearTypes /\ worker \in Passes /\ OpenInv /\ PassInv
    /\ SettledInv /\ Closed

LEMMA UtxoInvInit == Init => UtxoInv
<1> SUFFICES ASSUME Init PROVE UtxoInv
  OBVIOUS
<1>1. /\ calls = [i \in Calls |-> Idle] /\ signed = {} /\ moving = <<>>
      /\ balance = [a \in Accounts |-> 0] /\ key = [a \in Accounts |-> NoKey]
      /\ pending = [a \in Accounts |-> 0] /\ lostFound = [a \in Accounts |-> 0]
      /\ coins = InitialCoins /\ config = InitialConfig /\ disturbances = 0
      /\ events = <<>> /\ settled = <<>> /\ worker = AtRest /\ watcher = Resting
  BY DEF Init, UtxoInit
<1>2. store.record = [e \in 1..MaxSends |-> "none"] /\ store.open = {}
  BY StoreFields DEF Init
<1>3. NearTypes
  <2>1. NoKey \in NoKey..MaxAge
    BY UtxoAssumption DEF NoKey, MaxAge
  <2>2. calls \in [Calls -> CallStates]
    BY <1>1, IdleCall
  <2> QED
    BY <1>1, <2>1, <2>2, UtxoAssumption DEF NearTypes
<1>4. worker \in Passes /\ worker.at = "idle" /\ watcher.at = "idle"
  BY <1>1, RestPass DEF Resting
<1>5. OpenInv
  BY <1>1, <1>2, <1>4 DEF OpenInv
<1>6. PassInv
  BY <1>1, <1>4, IdleCall DEF PassInv, CallsInv, MovingInv, TurnInv
<1>7. SettledInv /\ Closed
  BY <1>1 DEF SettledInv, Closed
<1> QED
  BY <1>3, <1>4, <1>5, <1>6, <1>7, InitInv DEF UtxoInv

LEMMA UtxoInvStep == UtxoInv /\ [Next]_vars => UtxoInv'
<1> SUFFICES ASSUME UtxoInv, [Next]_vars PROVE UtxoInv'
  OBVIOUS
<1>1. /\ WatchInv /\ NearTypes /\ worker \in Passes /\ OpenInv /\ PassInv
      /\ SettledInv /\ Closed /\ StoreTypes /\ MovingInv /\ TurnInv
  BY DEF UtxoInv, WatchInv, PassInv
<1>2. WatchInv'
  BY <1>1, StepInv
<1>3. NearTypes'
  BY <1>1, StepTyped
<1>4. worker' \in Passes /\ OpenInv'
  BY <1>1, RecordsStep
<1>5. PassInv'
  BY <1>1, PassStep
<1>6. SettledInv'
  BY <1>1, SettledStep
<1>7. Closed'
  BY <1>1, ClosedStep
<1> QED
  BY <1>2, <1>3, <1>4, <1>5, <1>6, <1>7 DEF UtxoInv

(* The state is always one the contract, the connector, the relayer and      *)
(* their store can be in: no account is overdrawn by a withdrawal, a claim   *)
(* or a refund, no delegate outlives its validity, and an open record is one *)
(* of an event that names the account its address derives.                   *)
THEOREM UtxoTypeOK == Spec => []TypeOK
<1>1. UtxoInv => TypeOK
  <2> SUFFICES ASSUME UtxoInv PROVE TypeOK
    OBVIOUS
  <2>1. NearTypes /\ OpenInv /\ SettledInv /\ StoreTypes
    BY DEF UtxoInv, WatchInv
  <2>2. \A d \in signed : d.account \in Accounts /\ d.age \in 0..MaxAge
    BY <2>1, DelegateFields DEF NearTypes
  <2> QED
    BY <2>1, <2>2 DEF TypeOK, NearTypes, OpenInv, SettledInv, StoreTypes
<1> QED
  BY UtxoInvInit, UtxoInvStep, <1>1, PTL DEF Spec

(* A record closes only when the connector took a withdrawal of its account, *)
(* or a third party moved the account's balance (worker.ts withdraw): a      *)
(* refusal keeps it open.  The balance the worker reads when the connector   *)
(* has answered is gone only for one of the two reasons, because the         *)
(* delegate it relayed was for a balance the pass had seen at or above the   *)
(* minimum, and whatever is refused comes back.                              *)
THEOREM ClosedWhenTakenAlways == Spec => []ClosedWhenTaken
<1>1. UtxoInv => ClosedWhenTaken
  BY DEF UtxoInv, Closed, Safe, ClosedWhenTaken
<1> QED
  BY UtxoInvInit, UtxoInvStep, <1>1, PTL DEF Spec
=============================================================================
