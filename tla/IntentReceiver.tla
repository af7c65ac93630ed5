--------------------------- MODULE IntentReceiver ---------------------------
(* The two ends of an intent order.  IntentEmitter publishes an instruction  *)
(* beside the settlement it starts; IntentReceiver takes any pair of them,   *)
(* matches their sequences, delivers the settlement if nobody has, checks    *)
(* that it was released, and forwards its amount: the caller's fee and the   *)
(* rest to the deposit address.  Guardians sign both messages when their     *)
(* block is final; until then a reorganisation may drop it, and the sequence *)
(* it had is given again.  The NTT rail that releases settlements, at once   *)
(* or a day later when its inbound limit is spent, is external, and delivery *)
(* on it is anyone's.                                                        *)
EXTENDS Integers, FiniteSets

CONSTANTS Orders,          \* by the manager sequence of their settlement
          Callers, Us,     \* who calls processOrder
          Amounts,         \* amounts an order bridges, and ETH sent or swept
          MaxDisturbances  \* bound: failures, reorgs, owner moves

ASSUME IntentAssumption ==
    /\ IsFiniteSet(Orders) /\ Us \in Callers /\ Amounts \subseteq Nat \ {0}
    /\ MaxDisturbances \in Nat

VARIABLES published,   \* how often a block has given out the sequence
          amount,      \* what its order bridges, 0 while there is none
          settlement,  \* "none", "published", "signed", "queued" by the rail, "released"
          age,         \* of the order's VAAs: "exclusive", "open", "stale"
          signed,      \* instruction VAAs: <<sequence, which publication of it>>
          processed,   \* IntentReceiver.processed, by instruction VAA
          forwarded,   \* what left for a settlement, to its address and the caller
          balance,     \* the receiver's native balance
          stray,       \* history: ETH that came without a settlement, less what was swept
          authorizedRelayer, configured,
          refusing,    \* orders whose deposit address takes no ETH
          limited,     \* the rail's inbound limit is spent
          disturbances
orderVars == <<published, amount, settlement, age, signed>>
payVars == <<processed, forwarded, balance, stray>>
ownerVars == <<authorizedRelayer, configured>>
contractVars == <<orderVars, payVars, ownerVars, refusing, limited>>
intentVars == <<contractVars, disturbances>>

Disturb == /\ disturbances < MaxDisturbances
           /\ disturbances' = disturbances + 1
Placed(o) == settlement[o] # "none"
Signed(o) == settlement[o] \in {"signed", "queued", "released"}
Instruction(o) == <<o, published[o]>>

(* Mutant: published at the instant consistency, the instruction is signed   *)
(* before its block is final.                                                *)
SignedInstantly(v) == {v}
(* CONSISTENCY_FINALIZED *)
SignedAtPlacement(v) == {}
(* Both messages leave one transaction; the rail refuses what it would queue *)
(* on the way out.                                                           *)
PlaceOrder(o, a) ==
    /\ ~Placed(o)
    /\ published' = [published EXCEPT ![o] = @ + 1]
    /\ amount' = [amount EXCEPT ![o] = a]
    /\ settlement' = [settlement EXCEPT ![o] = "published"]
    /\ signed' = signed \cup SignedAtPlacement(<<o, published[o] + 1>>)
    /\ UNCHANGED <<age, payVars, ownerVars, refusing, limited, disturbances>>
Finalizes(o) ==
    /\ settlement[o] = "published"
    /\ settlement' = [settlement EXCEPT ![o] = "signed"]
    /\ signed' = signed \cup {Instruction(o)}
    /\ UNCHANGED <<published, amount, age, payVars, ownerVars, refusing, limited, disturbances>>
(* The order's block is dropped: the user keeps the funds, the counters go   *)
(* back, and what was signed stays signed.                                   *)
Reorgs(o) ==
    /\ settlement[o] = "published" /\ Disturb
    /\ settlement' = [settlement EXCEPT ![o] = "none"]
    /\ amount' = [amount EXCEPT ![o] = 0]
    /\ UNCHANGED <<published, age, signed, payVars, ownerVars, refusing, limited>>

(* _requireCallerMayProcess *)
MayProcess(c, s) == authorizedRelayer = {} \/ c \in authorizedRelayer \/ age[s] # "exclusive"
(* Delivery inside the call counts, if the limit lets it release at once. *)
Released(s) == settlement[s] = "released" \/ (settlement[s] = "signed" /\ ~limited)
Delivers(s) == IF settlement[s] = "signed" THEN amount[s] ELSE 0
(* What processOrder does with settlement s and instruction v, by the error  *)
(* a simulation names.  The fee is within the instruction's ceiling: it is   *)
(* the caller's to choose (FeeExceedsCeiling); the pinned emitter publishes  *)
(* no other form of instruction or trim (MalformedInstruction,               *)
(* UnexpectedTrim).                                                          *)
Outcome(c, s, v) ==
    IF ~configured \/ v \notin signed THEN "revert"
    ELSE IF v \in processed THEN "done"
    ELSE IF v[1] = s /\ Released(s) /\ MayProcess(c, s)
            /\ balance + Delivers(s) >= amount[s] /\ s \notin refusing
         THEN "ok" ELSE "revert"

Consume(v) == processed \cup {v}
ProcessOrder(s, v) ==
    /\ processed' = Consume(v)
    /\ balance' = balance + Delivers(s) - amount[s]
    /\ forwarded' = [forwarded EXCEPT ![s] = @ + amount[s]]
    /\ settlement' = [settlement EXCEPT ![s] = IF @ = "signed" THEN "released" ELSE @]
    /\ UNCHANGED <<published, amount, age, signed, stray, ownerVars, refusing, limited>>

AnyoneProcesses(c, s, v) ==
    /\ Outcome(c, s, v) = "ok" /\ ProcessOrder(s, v) /\ UNCHANGED disturbances
(* A relayer of the rail's own, and a queued transfer completed a day later. *)
AnyoneDelivers(s) ==
    /\ settlement[s] = "signed"
    /\ settlement' = [settlement EXCEPT ![s] = IF limited THEN "queued" ELSE "released"]
    /\ balance' = IF limited THEN balance ELSE balance + amount[s]
    /\ UNCHANGED <<published, amount, age, signed, processed, forwarded, stray, ownerVars,
                   refusing, limited, disturbances>>
CompletesQueued(s) ==
    /\ settlement[s] = "queued"
    /\ settlement' = [settlement EXCEPT ![s] = "released"]
    /\ balance' = balance + amount[s]
    /\ UNCHANGED <<published, amount, age, signed, processed, forwarded, stray, ownerVars,
                   refusing, limited, disturbances>>
LimitMoves ==
    /\ limited' = ~limited
    /\ IF limited THEN UNCHANGED disturbances ELSE Disturb
    /\ UNCHANGED <<orderVars, payVars, ownerVars, refusing>>

(* The window ends, then the hour after which the app gives an order up: both*)
(* are far longer than finality.                                             *)
Ages(o) ==
    /\ Signed(o) /\ age[o] # "stale"
    /\ IF age[o] = "exclusive" THEN /\ age' = [age EXCEPT ![o] = "open"]
                                    /\ UNCHANGED disturbances
       ELSE age' = [age EXCEPT ![o] = "stale"] /\ Disturb
    /\ UNCHANGED <<published, amount, settlement, signed, payVars, ownerVars, refusing, limited>>

(* The deposit address is a contract that stops taking ETH, then takes it.   *)
RefusalMoves(o) ==
    /\ IF o \in refusing THEN refusing' = refusing \ {o} /\ UNCHANGED disturbances
                         ELSE refusing' = refusing \cup {o} /\ Disturb
    /\ UNCHANGED <<orderVars, payVars, ownerVars, limited>>

SetAuthorizedRelayer(c) ==
    /\ Disturb
    /\ authorizedRelayer' = IF c \in authorizedRelayer THEN authorizedRelayer \ {c}
                            ELSE authorizedRelayer \cup {c}
    /\ UNCHANGED <<orderVars, payVars, configured, refusing, limited>>
(* setEmitter to another emitter, or back to the one of these orders. *)
SetEmitter ==
    /\ configured' = ~configured
    /\ IF configured THEN Disturb ELSE UNCHANGED disturbances
    /\ UNCHANGED <<orderVars, payVars, authorizedRelayer, refusing, limited>>
(* `receive' takes ETH from anyone; the owner sweeps any part of the balance.*)
Receive(n) ==
    /\ Disturb /\ balance' = balance + n /\ stray' = stray + n
    /\ UNCHANGED <<orderVars, processed, forwarded, ownerVars, refusing, limited>>
Sweep(n) ==
    /\ n <= balance
    /\ Disturb /\ balance' = balance - n /\ stray' = stray - n
    /\ UNCHANGED <<orderVars, processed, forwarded, ownerVars, refusing, limited>>

IntentInit ==
    /\ published = [o \in Orders |-> 0] /\ signed = {}
    /\ amount = [o \in Orders |-> 0] /\ settlement = [o \in Orders |-> "none"]
    /\ age = [o \in Orders |-> "exclusive"] /\ processed = {}
    /\ forwarded = [o \in Orders |-> 0] /\ balance = 0 /\ stray = 0
    /\ authorizedRelayer = {Us} /\ configured = TRUE /\ limited = FALSE
    /\ refusing = {} /\ disturbances = 0
World ==
    \/ \E o \in Orders : \/ \E a \in Amounts : PlaceOrder(o, a)
                         \/ Finalizes(o) \/ Reorgs(o)
                         \/ AnyoneDelivers(o) \/ CompletesQueued(o) \/ Ages(o) \/ RefusalMoves(o)
                         \/ \E c \in Callers \ {Us}, v \in signed : AnyoneProcesses(c, o, v)
    \/ LimitMoves \/ SetEmitter
    \/ \E c \in Callers : SetAuthorizedRelayer(c)
    \/ \E n \in Amounts : Receive(n) \/ Sweep(n)
=============================================================================
