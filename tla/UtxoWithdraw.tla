---------------------------- MODULE UtxoWithdraw ----------------------------
(* The NEAR contract that signs withdrawals for the accounts derived from    *)
(* UTXO addresses, with what it talks to: the MPC signer, the token, Omni's  *)
(* connector and the runtime that executes a relayed delegate action.  One   *)
(* address derives one account, so an account stands for its address.        *)
(*                                                                           *)
(* Time is counted in blocks and kept relative: a delegate carries its age,  *)
(* the blocks since it was built (its nonce is that height times 10^6), and  *)
(* the blocks it has left; an account carries the age of the last nonce its  *)
(* key used.  So a run never runs out of blocks.                             *)
EXTENDS Integers, FiniteSets, Sequences, SequencesExt

CONSTANTS Accounts,      \* the derived accounts
          Coins, NoCoin, \* names of coins of the connector
          CoinValues,    \* values a coin may have
          InitialCoins,  \* the connector's coins at the start: [Coins -> Nat]
          Configs, InitialConfig, \* configurations of the connector
          Validity,      \* blocks a signed delegate stays valid
          MinerFee,      \* miner_fee(1, 2)
          MaxRatio,      \* MAX_RATIO
          Calls,         \* identities of signing calls in flight
          MaxDisturbances \* bound: failures, owner moves and third-party calls

ASSUME UtxoAssumption ==
    /\ NoCoin \notin Coins
    /\ Validity \in Nat \ {0}
    /\ MinerFee \in Nat \ {0} /\ MaxRatio \in Nat \ {0}
    /\ CoinValues \subseteq Nat \ {0} /\ InitialCoins \in [Coins -> Nat]
    /\ MaxDisturbances \in Nat
    /\ Configs \subseteq [min : Nat, feeMin : Nat, feeRate : Nat,
                          minChange : Nat, changeAddress : BOOLEAN]
    /\ InitialConfig \in Configs

VARIABLES calls,        \* signing calls, from `withdraw` or `claim` to on_signed
          signed,       \* delegates the contract has emitted and may still run
          balance,      \* the token, by account
          key,          \* the access key of each account: the age of its nonce
          moving,       \* ft_transfer_call receipts on their way to the connector
          pending,      \* what the connector has accepted and not yet paid
          taken,        \* history: accounts it has accepted a withdrawal of
          others,       \* history: accounts a third party relayed one of
          lostFound,    \* refunds of cancelled withdrawals that failed
          coins,        \* the connector's available coins; 0 for none
          config,       \* the connector's configuration
          disturbances  \* how many disturbances there have been
contractVars == <<calls, signed>>
nearVars == <<balance, key, moving, pending, taken, others, lostFound, coins, config>>
utxoVars == <<contractVars, nearVars, disturbances>>

(* A delegate outlives nothing older than this. *)
MaxAge == Validity + 1
NoKey == -1

(* The failures, the owners and third parties have a common budget. *)
Disturb == /\ disturbances < MaxDisturbances
           /\ disturbances' = disturbances + 1

----------------------------------------------------------------------------
(* The arithmetic of a withdrawal. *)
BridgeFee(c, amount) ==
    LET rated == (amount * c.feeRate) \div MaxRatio
    IN  IF rated >= c.feeMin THEN rated ELSE c.feeMin
FitsCoin(value, need, minChange) == value = need \/ value >= need + minChange
UserOut(c, amount) == amount - BridgeFee(c, amount) - MinerFee

(* What build_withdraw requires before it builds a delegate. *)
Buildable(c, amount, value) ==
    /\ amount >= c.min
    /\ UserOut(c, amount) > 0
    /\ FitsCoin(value, UserOut(c, amount) + MinerFee, c.minChange)
    /\ value > UserOut(c, amount) + MinerFee => c.changeAddress

Delegate(kind, a, amount, coin, out) ==
    [kind |-> kind, account |-> a, amount |-> amount, coin |-> coin,
     out |-> out, age |-> 0, left |-> Validity]

----------------------------------------------------------------------------
(* The signing call: a chain of receipts. *)
NoDelegate == [kind |-> "none"]
Idle == [stage |-> "none"]

(* A chain that panics: a third party's is forgotten, the relayer's stays    *)
(* until it has seen the outcome.                                            *)
Ended(call, d) ==
    IF call.by = "bot" THEN [stage |-> "over", by |-> "bot", delegate |-> d]
                       ELSE Idle

(* The derivation: the address is checked, the signer asked for the key. *)
Derive(i, by, kind, a, coin) ==
    /\ calls[i].stage = "none"
    /\ calls' = [calls EXCEPT ![i] = [stage |-> "key", by |-> by,
                    kind |-> kind, account |-> a, coin |-> coin]]
Withdraw(i, by, a, coin) == coin \in Coins /\ Derive(i, by, "withdraw", a, coin)
Claim(i, by, a) == Derive(i, by, "claim", a, NoCoin)

(* The key arrives; the reads of the token and of the connector leave. *)
OnKey(i) ==
    /\ calls[i].stage = "key"
    /\ calls' = [calls EXCEPT ![i].stage =
                    IF calls[i].kind = "withdraw" THEN "balance" ELSE "lost"]
    /\ UNCHANGED <<signed, nearVars, disturbances>>

(* The token answers in one block, the connector in another. *)
BalanceRead(i) ==
    /\ calls[i].stage = "balance"
    /\ calls' = [calls EXCEPT ![i] =
            [stage |-> "connector", by |-> @.by, kind |-> @.kind,
             account |-> @.account, coin |-> @.coin,
             balance |-> balance[@.account]]]
    /\ UNCHANGED <<signed, nearVars, disturbances>>
ConnectorRead(i) ==
    /\ calls[i].stage = "connector"
    /\ calls' = [calls EXCEPT ![i] =
            [stage |-> "reads", by |-> @.by, kind |-> @.kind,
             account |-> @.account, coin |-> @.coin, balance |-> @.balance,
             config |-> config, value |-> coins[@.coin]]]
    /\ UNCHANGED <<signed, nearVars, disturbances>>
LostFoundRead(i) ==
    /\ calls[i].stage = "lost"
    /\ calls' = [calls EXCEPT ![i] =
            [stage |-> "reads", by |-> @.by, kind |-> @.kind,
             account |-> @.account, coin |-> @.coin,
             balance |-> lostFound[@.account], config |-> config,
             value |-> 0]]
    /\ UNCHANGED <<signed, nearVars, disturbances>>

Signing(call, d) ==
    [stage |-> "sign", by |-> call.by, kind |-> call.kind,
     account |-> call.account, delegate |-> d]
BuildWithdraw(call) ==
    Delegate("withdraw", call.account, call.balance, call.coin,
             UserOut(call.config, call.balance))
BuildClaim(call) == Delegate("claim", call.account, call.balance, NoCoin, 0)

(* UnknownCoin, and everything build_withdraw refuses, panics. *)
OnReads(i) ==
    /\ calls[i].stage = "reads" /\ calls[i].kind = "withdraw"
    /\ calls' = [calls EXCEPT ![i] =
            IF @.value > 0 /\ Buildable(@.config, @.balance, @.value)
            THEN Signing(@, BuildWithdraw(@)) ELSE Ended(@, NoDelegate)]
    /\ UNCHANGED <<signed, nearVars, disturbances>>
OnLostFound(i) ==
    /\ calls[i].stage = "reads" /\ calls[i].kind = "claim"
    /\ calls' = [calls EXCEPT ![i] =
            IF @.balance > 0 THEN Signing(@, BuildClaim(@))
                             ELSE Ended(@, NoDelegate)]
    /\ UNCHANGED <<signed, nearVars, disturbances>>

(* The signature verifies: the delegate is an event anyone can read. *)
OnSigned(i) ==
    /\ calls[i].stage = "sign"
    /\ signed' = signed \cup {calls[i].delegate}
    /\ calls' = [calls EXCEPT ![i] = Ended(@, @.delegate)]
    /\ UNCHANGED <<nearVars, disturbances>>
(* DeriveFailed, a read that failed, SignFailed or InvalidSignature. *)
CallFails(i) ==
    /\ calls[i].stage \in {"key", "balance", "connector", "lost", "sign"}
    /\ Disturb
    /\ calls' = [calls EXCEPT ![i] = Ended(@, NoDelegate)]
    /\ UNCHANGED <<signed, nearVars>>

----------------------------------------------------------------------------
(* The runtime and the connector, which are not this repository's code. *)

(* The runtime takes a delegate whose nonce is above its key's, from an      *)
(* earlier block, and not expired.                                           *)
Executable(d) ==
    /\ key[d.account] # NoKey /\ d.age < key[d.account]
    /\ d.age >= 1 /\ d.left >= 0

(* It uses up the nonce, whatever its function call then does. *)
Execute(d, by) ==
    /\ Executable(d)
    /\ key' = [key EXCEPT ![d.account] = d.age]
    /\ signed' = {s \in signed : s.account # d.account \/ s.age < d.age}
    /\ IF d.kind = "claim"
       THEN /\ balance' = [balance EXCEPT ![d.account] = @ + lostFound[d.account]]
            /\ lostFound' = [lostFound EXCEPT ![d.account] = 0]
            /\ UNCHANGED <<moving, others>>
       ELSE /\ IF balance[d.account] >= d.amount
               THEN /\ balance' = [balance EXCEPT ![d.account] = @ - d.amount]
                    /\ moving' = Append(moving, [by |-> by, account |-> d.account,
                                   amount |-> d.amount, coin |-> d.coin, out |-> d.out])
                    /\ others' = IF by = "bot" THEN others ELSE others \cup {d.account}
               ELSE UNCHANGED <<balance, moving, others>>
            /\ UNCHANGED lostFound
    /\ UNCHANGED <<calls, pending, taken, coins, config>>

(* The connector computes the withdrawal itself and compares. *)
Acceptable(t) ==
    /\ pending[t.account] = 0 /\ coins[t.coin] > 0
    /\ Buildable(config, t.amount, coins[t.coin])
    /\ UserOut(config, t.amount) = t.out
Accept(t) == /\ pending' = [pending EXCEPT ![t.account] = t.amount]
             /\ coins' = [coins EXCEPT ![t.coin] = 0]
             /\ taken' = taken \cup {t.account}
             /\ UNCHANGED balance
Refuse(t) == /\ balance' = [balance EXCEPT ![t.account] = @ + t.amount]
             /\ UNCHANGED <<pending, taken, coins>>

Pays(a) == /\ pending[a] > 0
           /\ pending' = [pending EXCEPT ![a] = 0]
           /\ UNCHANGED <<contractVars, balance, key, moving, taken, others, lostFound,
                          coins, config, disturbances>>
(* A cancelled withdrawal goes back to the account, or to lost_found. *)
Cancels(a) == /\ pending[a] > 0 /\ Disturb
              /\ pending' = [pending EXCEPT ![a] = 0]
              /\ \/ /\ balance' = [balance EXCEPT ![a] = @ + pending[a]]
                    /\ UNCHANGED lostFound
                 \/ /\ lostFound' = [lostFound EXCEPT ![a] = @ + pending[a]]
                    /\ UNCHANGED balance
              /\ UNCHANGED <<contractVars, key, moving, taken, others, coins, config>>
Reconfigures(c) == /\ c # config /\ Disturb
                   /\ config' = c
                   /\ UNCHANGED <<contractVars, balance, key, moving, pending, taken, others,
                                  lostFound, coins>>

(* An implicit account appears with its first transfer, with a nonce of the  *)
(* block before.                                                             *)
CreateAccount(a) == key' = [key EXCEPT ![a] = 1]

(* A block: everything ages.  A delegate that can no longer run is dropped. *)
Aged(d) == [d EXCEPT !.age = @ + 1, !.left = @ - 1]
AgedCall(c) == IF c.stage \in {"sign", "over"} /\ c.delegate # NoDelegate
               THEN [c EXCEPT !.delegate =
                        IF @.left >= 0 THEN Aged(@) ELSE @]
               ELSE c
Block ==
    /\ signed' = {Aged(d) : d \in {s \in signed : s.left > 0}}
    /\ calls' = [i \in Calls |-> AgedCall(calls[i])]
    /\ key' = [a \in Accounts |->
                  IF key[a] \in 0..Validity THEN key[a] + 1 ELSE key[a]]
    /\ UNCHANGED <<balance, moving, pending, taken, others, lostFound, coins, config>>

UtxoInit ==
    /\ calls = [i \in Calls |-> Idle] /\ signed = {}
    /\ balance = [a \in Accounts |-> 0] /\ key = [a \in Accounts |-> NoKey]
    /\ moving = <<>> /\ pending = [a \in Accounts |-> 0]
    /\ taken = {} /\ others = {}
    /\ lostFound = [a \in Accounts |-> 0]
    /\ coins = InitialCoins /\ config = InitialConfig /\ disturbances = 0
=============================================================================
