---------------------------- MODULE MCNttManager ----------------------------
(* Instances of NttManager for TLC: two accounts, one peer chain with a pair *)
(* and the pair that replaces it, and two inbound messages.                  *)
EXTENDS NttManager

CONSTANTS alice, bob, hydration, pair1, pair2, d1, d2

MCPairDecimals == [p \in Pairs |-> IF p = pair1 THEN 0 ELSE 1]

MCBalance == [a \in Accounts |-> IF a = alice THEN 30 ELSE 0]

Message(pair, to, units) ==
    [chain |-> hydration, pair |-> pair, to |-> to,
     trimmed |-> [amount |-> units, decimals |-> 0]]

\* Both messages come from the peer registered first.
MCMsg == [d \in Digests |->
                 IF d = d1 THEN Message(pair1, bob, 1) ELSE Message(pair1, alice, 1)]
=============================================================================
