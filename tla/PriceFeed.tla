------------------------------ MODULE PriceFeed ------------------------------
(* What a reader of the relayed prices relies on, whoever observes, attests  *)
(* and delivers them: a price was its source's at the time it is stamped     *)
(* with, it was no older than a bound when it came, and prices never step    *)
(* back in time.  Times are ages, so that a behaviour never runs out of them.*)
EXTENDS Integers

CONSTANTS Assets,
          Rates,   \* what a source may say
          MaxAge   \* no observation older than this is ever shown

VARIABLES said,    \* what each asset's source has said, by age
          shown    \* its price, with the age of its stamp
vars == <<said, shown>>

Ages == 0..MaxAge
(* An age past every comparison; nothing shown yet is stamped with it. *)
Ancient == MaxAge + 1
Older(age) == IF age < Ancient THEN age + 1 ELSE Ancient

Init == /\ said \in [Assets -> [Ages -> SUBSET Rates]]
        /\ shown = [a \in Assets |-> [rate |-> 0, age |-> Ancient]]

(* Sources say more, at the present time. *)
Says == /\ \E S \in [Assets -> SUBSET Rates] :
               said' = [a \in Assets |-> [said[a] EXCEPT ![0] = @ \cup S[a]]]
        /\ UNCHANGED shown

Shows(a, rate, age) ==
    /\ rate \in said[a][age] /\ age < shown[a].age
    /\ shown' = [shown EXCEPT ![a] = [rate |-> rate, age |-> age]]
    /\ UNCHANGED said

TimePasses ==
    /\ \E S \in [Assets -> SUBSET Rates] :
           said' = [a \in Assets |-> [age \in Ages |->
                       IF age = 0 THEN S[a] ELSE said[a][age - 1]]]
    /\ shown' = [a \in Assets |-> [rate |-> shown[a].rate, age |-> Older(shown[a].age)]]

Next == \/ Says \/ TimePasses
        \/ \E a \in Assets, rate \in Rates, age \in Ages : Shows(a, rate, age)
Spec == Init /\ [][Next]_vars
=============================================================================
