----------------------------- MODULE OracleFeed -----------------------------
(* The contracts a price crosses: OracleEmitter, which reads a registered    *)
(* source and publishes what it says, the attested messages, which anyone    *)
(* may deliver in any order and any number of times, and OracleReceiver,     *)
(* which writes them to the oracle of their asset.                           *)
(*                                                                           *)
(* A unit of time is one an observation's stamp can tell apart.  Stamps are  *)
(* kept as ages; a message older than any bound is forgotten.                *)
EXTENDS Integers, FiniteSets

CONSTANTS Assets, Sources, Unset,
          Rates,             \* what a source may say
          InitialRate, InitialFeeds,
          MaxPriceAges, InitialMaxPriceAge, MaxAge,
          Scale,             \* PRICE_SCALE_DIVISOR
          MaxDisturbances    \* bound: failures, owner moves, other callers

ASSUME OracleAssumption ==
    /\ Unset \notin Sources
    /\ Rates \subseteq Nat \ {0} /\ Scale \in Nat \ {0}
    /\ InitialRate \in [Sources -> Rates]
    /\ InitialFeeds \in [Assets -> Sources \cup {Unset}]
    /\ MaxAge \in Nat /\ MaxPriceAges \subseteq 0..MaxAge
    /\ InitialMaxPriceAge \in MaxPriceAges
    /\ MaxDisturbances \in Nat

VARIABLES rate,          \* what each source says
          feeds,         \* OracleEmitter.feeds: its source, by asset
          vaas,          \* attested messages that may still be taken
          latest,        \* OracleReceiver.latestPrices, its stamp as an age
          oracles,       \* the assets that have an oracle
          authorized,    \* whether authorizedEmitters names the emitter
          maxPriceAge,
          said,          \* history: what each asset's source said, by age
          disturbances
contractVars == <<feeds, vaas, latest, oracles, authorized, maxPriceAge>>
oracleVars == <<rate, contractVars, said, disturbances>>

Disturb == /\ disturbances < MaxDisturbances
           /\ disturbances' = disturbances + 1

Ancient == MaxAge + 1
Older(age) == IF age < Ancient THEN age + 1 ELSE Ancient
Registered(a) == feeds[a] # Unset
Saying(a) == IF Registered(a) THEN {rate[feeds[a]]} ELSE {}

(* _readSource: the emitter reads in the transaction that publishes. *)
ReadSource(a) == rate[feeds[a]]
Publish(a) ==
    /\ Registered(a)
    /\ vaas' = vaas \cup {[asset |-> a, rate |-> ReadSource(a), age |-> 0]}

(* Mutant: the stamp may equal the stored one's, or be older. *)
FreshAnyStamp(m) == m.age <= maxPriceAge
(* Mutant: the bound on the age is exclusive. *)
FreshStrict(m) == m.age < latest[m.asset].age /\ m.age < maxPriceAge
(* StalePriceUpdate and "Price too stale". *)
Fresh(m) == m.age < latest[m.asset].age /\ m.age <= maxPriceAge
ScaledPrice(r) == r \div Scale
(* A revert takes the replay mark back: the message may be presented again. *)
Accepts(m) == /\ authorized /\ Fresh(m)
              /\ m.asset \in oracles /\ ScaledPrice(m.rate) > 0
ReceiveMessage(m) ==
    /\ Accepts(m)
    /\ latest' = [latest EXCEPT ![m.asset] = [rate |-> m.rate, age |-> m.age]]
    /\ vaas' = vaas \ {m}
    /\ UNCHANGED <<rate, feeds, oracles, authorized, maxPriceAge, said, disturbances>>

RegisterFeed(a, s) ==
    /\ s # feeds[a] /\ Disturb
    /\ feeds' = [feeds EXCEPT ![a] = s]
    /\ said' = [said EXCEPT ![a][0] =
                    @ \cup (IF s = Unset THEN {} ELSE {rate[s]})]
    /\ UNCHANGED <<rate, vaas, latest, oracles, authorized, maxPriceAge>>
SetOracle(a) ==
    /\ Disturb
    /\ oracles' = IF a \in oracles THEN oracles \ {a} ELSE oracles \cup {a}
    /\ UNCHANGED <<rate, feeds, vaas, latest, authorized, maxPriceAge, said>>
SetMaxPriceAge(age) ==
    /\ age # maxPriceAge /\ Disturb
    /\ maxPriceAge' = age
    /\ UNCHANGED <<rate, feeds, vaas, latest, oracles, authorized, said>>
SetAuthorizedEmitter ==
    /\ Disturb
    /\ authorized' = ~authorized
    /\ UNCHANGED <<rate, feeds, vaas, latest, oracles, maxPriceAge, said>>
Owner == \/ \E a \in Assets : SetOracle(a) \/ \E s \in Sources \cup {Unset} : RegisterFeed(a, s)
         \/ \E age \in MaxPriceAges : SetMaxPriceAge(age)
         \/ SetAuthorizedEmitter

SourceMoves(s, r) ==
    /\ r # rate[s]
    /\ rate' = [rate EXCEPT ![s] = r]
    /\ said' = [a \in Assets |->
                   IF feeds[a] = s THEN [said[a] EXCEPT ![0] = @ \cup {r}] ELSE said[a]]
    /\ UNCHANGED <<contractVars, disturbances>>

(* Relayers are in time: only a disturbance lets a message that would be     *)
(* taken grow too old for it.                                                *)
Expiring == \E m \in vaas : Accepts(m) /\ m.age = maxPriceAge
TimePasses ==
    /\ IF Expiring THEN Disturb ELSE UNCHANGED disturbances
    /\ latest' = [a \in Assets |-> [latest[a] EXCEPT !.age = Older(@)]]
    /\ vaas' = {[m EXCEPT !.age = @ + 1] : m \in {n \in vaas : n.age < MaxAge}}
    /\ said' = [a \in Assets |-> [age \in 0..MaxAge |->
                   IF age = 0 THEN Saying(a) ELSE said[a][age - 1]]]
    /\ UNCHANGED <<rate, feeds, oracles, authorized, maxPriceAge>>

OracleInit ==
    /\ rate = InitialRate /\ feeds = InitialFeeds
    /\ vaas = {} /\ oracles = Assets /\ authorized = TRUE
    /\ maxPriceAge = InitialMaxPriceAge
    /\ latest = [a \in Assets |-> [rate |-> 0, age |-> Ancient]]
    /\ said = [a \in Assets |-> [age \in 0..MaxAge |->
                  IF age = 0 THEN Saying(a) ELSE {}]]
    /\ disturbances = 0
=============================================================================
