---------------------------- MODULE MCGovernance ----------------------------
(* Instances of Governance for TLC.  A Day is one tick and the periods are   *)
(* scaled down: reviews of 1 to 2, the committee's delay 4, a margin of 2.   *)
EXTENDS Governance

CONSTANTS dispatcher1, dispatcher2, safe1, safe2, anyone, stranger

Call(value) == [kind |-> "call", value |-> value]
SetVetoer(s) == [kind |-> "setVetoer", to |-> s, value |-> 0]
SetDispatcher(d) == [kind |-> "setSourceDispatcher", to |-> d, value |-> 0]
SetTiming(veto, grace) ==
    [kind |-> "setTiming", veto |-> veto, grace |-> grace, value |-> 0]
Cancel(nonce, content) ==
    [kind |-> "cancel", nonce |-> nonce, content |-> content, value |-> 0]
Upgrade == [kind |-> "upgrade", value |-> 0]

MCCallsOf ==
    [spend |-> <<Call(1)>>,
     recover |-> <<Call(0)>>,
     rotate |-> <<SetVetoer(safe2), SetDispatcher(dispatcher2)>>,
     slow |-> <<SetTiming(2, 3)>>,
     slower |-> <<SetTiming(3, 3)>>,
     cancel |-> <<Cancel(1, "recover")>>,
     upgrade |-> <<Upgrade>>]
=============================================================================
