---------------------------- MODULE OracleProofs ----------------------------
(***************************************************************************)
(* The emitter, the messages and the receiver implement the abstract price *)
(* feed, whatever the broadcasters, the relayers and the owner do, for     *)
(* every set of assets, sources and rates and every bound on the age; and  *)
(* no feed that keeps its source waits longer than promised for a send.    *)
(*                                                                         *)
(* FeedInv.  The agent reaches the contracts only by publishing, so its    *)
(* steps are one kind of quiet step, once its ticks are known to stay      *)
(* within the feeds.  What is on the wire was said: each message's rate is *)
(* among what the asset's source said at the time of the message's stamp.  *)
(*                                                                         *)
(* RefreshInv.  Let an entry be fresh that is younger than an interval and *)
(* one more for each disturbance.  A refresh leaves the feeds before its   *)
(* place in the list fresh, and in the end all; until the next one memory  *)
(* grows no older than that and the time since.  The file a crash falls    *)
(* back to may be an interval behind, which the crash, a disturbance,      *)
(* allows for.  Feeds without a source (`lapsed`) are out of it until they *)
(* are saved again.                                                        *)
(***************************************************************************)
EXTENDS Broadcaster, WellFoundedInduction, TLAPS

Messages == [asset : Assets, rate : Rates, age : 0..MaxAge]
Prices == [rate : Rates \cup {0}, age : 0..Ancient]
FeedTypes ==
    /\ rate \in [Sources -> Rates]
    /\ feeds \in [Assets -> Sources \cup {Unset}]
    /\ latest \in [Assets -> Prices]
    /\ said \in [Assets -> [0..MaxAge -> SUBSET Rates]]
    /\ vaas \subseteq Messages
OnTheWire == \A m \in vaas : m.rate \in said[m.asset][m.age]
SaidNow == \A a \in Assets : Registered(a) => rate[feeds[a]] \in said[a][0]

Modes == {"full", "check"}
Indices == 1..Len(Feeds)
Reads == [at : {"read"}, mode : Modes, i : Indices]
Sends == [at : {"send", "save"}, mode : Modes, i : Indices, value : Rates]
TickTypes ==
    /\ ticks \in [Ticks -> {Idle, Done} \cup Reads \cup Sends]
    /\ loaded \in [Assets -> Sources \cup {Unset}]
    /\ \A t \in InFlight : loaded[FeedOf(t)] # Unset
FeedInv == FeedTypes /\ OnTheWire /\ SaidNow /\ TickTypes

-----------------------------------------------------------------------------
(* The agent. *)

LEMMA FeedsInAssets == \A i \in Indices : Feeds[i] \in Assets
  BY BroadcasterAssumption DEF Indices

\* A tick in flight has a feed of its own.
LEMMA InFlightFeed ==
    ASSUME TickTypes, NEW t \in Ticks, ticks[t].at \in {"read", "send", "save"}
    PROVE  /\ t \in InFlight /\ ticks[t].i \in Indices /\ FeedOf(t) \in Assets
           /\ ticks[t].mode \in Modes /\ loaded[FeedOf(t)] \in Sources
           /\ ticks[t].at \in {"send", "save"} => ticks[t] \in Sends
<1>1. t \in InFlight
  BY DEF InFlight, Idle, Done
<1>2. ticks[t] \in Reads \cup Sends
  BY <1>1 DEF TickTypes, InFlight
<1>3. ticks[t].i \in Indices /\ ticks[t].mode \in Modes
  BY <1>2 DEF Reads, Sends
<1>4. ticks[t].at \in {"send", "save"} => ticks[t] \in Sends
  BY <1>2 DEF Reads
<1> QED
  BY <1>1, <1>3, <1>4, FeedsInAssets DEF FeedOf, TickTypes

\* The loop's next iteration is over a feed that was loaded.
LEMMA HandlingTypes ==
    ASSUME NEW sources, NEW mode \in Modes, NEW i \in Nat
    PROVE  /\ Handling(sources, mode, i) \in {Done} \cup Reads
           /\ Handling(sources, mode, i) # Done =>
                  /\ sources[Feeds[Handling(sources, mode, i).i]] # Unset
                  /\ Handling(sources, mode, i).mode = mode
                  /\ \A j \in (i + 1)..(Handling(sources, mode, i).i - 1) :
                         sources[Feeds[j]] = Unset
           /\ Handling(sources, mode, i) = Done => After(sources, i) = {}
<1>1. CASE After(sources, i) = {}
  BY <1>1 DEF Handling
<1>2. CASE After(sources, i) # {}
  <2>1. Len(Feeds) \in Nat
    BY BroadcasterAssumption
  <2>2. After(sources, i) \in SUBSET Indices
    BY <2>1 DEF After, Indices
  <2> DEFINE below == {ss \in Nat \X Nat : ss[1] < ss[2]}
  <2>3. IsWellFoundedOn(below, Nat)
    BY NatLessThanWellFounded, Zenon DEF OpToRel
  <2>4. \A n, m \in Nat : <<m, n>> \notin below => n <= m
    OBVIOUS
  <2> HIDE DEF below
  <2>5. After(sources, i) \subseteq Nat
    BY <2>1, <2>2 DEF Indices
  <2>6. PICK n \in After(sources, i) : \A m \in After(sources, i) : <<m, n>> \notin below
    BY <1>2, <2>3, <2>5, WFMin
  <2>7. \A m \in After(sources, i) : n <= m
    BY <2>4, <2>5, <2>6
  <2> DEFINE next == CHOOSE j \in After(sources, i) : \A k \in After(sources, i) : j <= k
  <2>8. next \in After(sources, i)
    BY <2>7
  <2>9. Handling(sources, mode, i) = [at |-> "read", mode |-> mode, i |-> next]
    BY <1>2 DEF Handling
  <2>10. sources[Feeds[next]] # Unset
    BY <2>8 DEF After
  <2>11. \A k \in After(sources, i) : next <= k
    BY <2>7
  <2> HIDE DEF next
  <2>12. ASSUME NEW j \in (i + 1)..(next - 1)
         PROVE  sources[Feeds[j]] = Unset
    <3>1. next \in 1..Len(Feeds)
      BY <2>2, <2>8 DEF Indices
    <3>2. j \in (i + 1)..Len(Feeds) /\ ~(next <= j)
      BY <2>1, <3>1
    <3>3. j \notin After(sources, i)
      BY <2>11, <3>2
    <3> QED
      BY <3>2, <3>3 DEF After
  <2>13. Handling(sources, mode, i) # Done
    BY <2>9 DEF Done
  <2> QED
    BY <2>2, <2>8, <2>9, <2>10, <2>12, <2>13 DEF Reads
<1> QED
  BY <1>1, <1>2

\* One tick moves to a stage over a loaded feed.
LEMMA TickMoves ==
    ASSUME TickTypes, NEW t \in Ticks, UNCHANGED loaded,
           NEW n \in {Idle, Done} \cup Reads \cup Sends,
           n \in Reads \cup Sends => loaded[Feeds[n.i]] # Unset,
           ticks' = [ticks EXCEPT ![t] = n]
    PROVE  TickTypes'
<1>1. ticks' \in [Ticks -> {Idle, Done} \cup Reads \cup Sends]
  BY DEF TickTypes
<1>2. ASSUME NEW u \in InFlight'
      PROVE  loaded'[FeedOf(u)'] # Unset
  <2>1. CASE u = t
    BY <1>2, <2>1 DEF InFlight, FeedOf, TickTypes
  <2>2. CASE u # t
    BY <1>2, <2>2 DEF InFlight, FeedOf, TickTypes
  <2> QED
    BY <2>1, <2>2
<1> QED
  BY <1>1, <1>2 DEF TickTypes

\* A tick that ends a feed goes on with one that was loaded, or ends.
LEMMA ContinueTypes ==
    ASSUME TickTypes, NEW t \in Ticks, ticks[t].at \in {"read", "send", "save"},
           Continue(t), UNCHANGED loaded
    PROVE  TickTypes'
<1>1. ticks[t].mode \in Modes /\ ticks[t].i \in Nat
  BY InFlightFeed DEF Indices
<1>2. PICK n : n = Handling(loaded, ticks[t].mode, ticks[t].i)
  OBVIOUS
<1>3. n \in {Done} \cup Reads /\ (n # Done => loaded[Feeds[n.i]] # Unset)
  <2>1. PICK mode \in Modes, i \in Nat : mode = ticks[t].mode /\ i = ticks[t].i
    BY <1>1
  <2>2. n = Handling(loaded, mode, i)
    BY <1>2, <2>1
  <2> QED
    BY <2>2, HandlingTypes
<1>4. ticks' = [ticks EXCEPT ![t] = n]
  BY <1>2 DEF Continue
<1>5. Done \notin Reads \cup Sends
  BY DEF Done, Reads, Sends
<1> QED
  BY <1>3, <1>4, <1>5, TickMoves

LEMMA TickTypesStep ==
    ASSUME FeedTypes, TickTypes, [Next]_vars
    PROVE  TickTypes'
<1> USE DEF oracleVars, contractVars, agentVars, OwnerMoves
<1>1. CASE UNCHANGED <<ticks, loaded>>
  BY <1>1 DEF TickTypes, InFlight, FeedOf
<1>2. ASSUME NEW t \in Ticks, Boot(t)
      PROVE  TickTypes'
  <2>1. PICK n : n = Handling(feeds, "full", 0)
    OBVIOUS
  <2>2. n \in {Done} \cup Reads /\ (n # Done => feeds[Feeds[n.i]] # Unset)
    BY <2>1, HandlingTypes DEF Modes
  <2>3. ticks' = [u \in Ticks |-> IF u = t THEN n ELSE Idle] /\ loaded' = feeds
    BY <1>2, <2>1 DEF Boot
  <2> QED
    BY <2>2, <2>3 DEF TickTypes, InFlight, FeedOf, FeedTypes
<1>3. ASSUME NEW t \in Ticks, TickStarts(t)
      PROVE  TickTypes'
  <2>1. PICK mode \in Modes : mode = IF RefreshDue THEN "full" ELSE "check"
    BY DEF Modes
  <2>2. PICK n : n = Handling(loaded, mode, 0)
    OBVIOUS
  <2>3. n \in {Done} \cup Reads /\ (n # Done => loaded[Feeds[n.i]] # Unset)
    BY <2>2, HandlingTypes
  <2>4. ticks' = [ticks EXCEPT ![t] = n] /\ UNCHANGED loaded
    BY <1>3, <2>1, <2>2 DEF TickStarts
  <2>5. Done \notin Reads \cup Sends
    BY DEF Done, Reads, Sends
  <2> QED
    BY <2>3, <2>4, <2>5, TickMoves
<1>4. ASSUME NEW t \in Ticks, Read(t)
      PROVE  TickTypes'
  <2>1. ticks[t].at = "read" /\ UNCHANGED loaded
    BY <1>4 DEF Read
  <2>2. CASE Continue(t)
    BY <2>1, <2>2, ContinueTypes
  <2>3. CASE ~Continue(t)
    <3>1. PICK r \in Rates : r = rate[loaded[FeedOf(t)]]
      BY <2>1, InFlightFeed DEF FeedTypes
    <3>2. PICK n : n = [at |-> "send", mode |-> ticks[t].mode, i |-> ticks[t].i, value |-> r]
      OBVIOUS
    <3>3. ticks' = [ticks EXCEPT ![t] = n]
      BY <1>4, <2>1, <2>3, <3>1, <3>2 DEF Read
    <3>4. n \in Sends /\ loaded[Feeds[n.i]] # Unset
      BY <2>1, <3>2, InFlightFeed DEF Sends, TickTypes, FeedOf
    <3> QED
      BY <2>1, <3>3, <3>4, TickMoves
  <2> QED
    BY <2>2, <2>3
<1>5. ASSUME NEW t \in Ticks, Send(t)
      PROVE  TickTypes'
  <2>1. ticks[t].at = "send" /\ UNCHANGED loaded
    BY <1>5 DEF Send
  <2>2. CASE Continue(t)
    BY <2>1, <2>2, ContinueTypes
  <2>3. CASE ~Continue(t)
    <3>1. PICK n : n = [at |-> "save", mode |-> ticks[t].mode, i |-> ticks[t].i, value |-> ticks[t].value]
      OBVIOUS
    <3>2. ticks' = [ticks EXCEPT ![t] = n]
      BY <1>5, <2>1, <2>3, <3>1 DEF Send
    <3>3. n \in Sends /\ loaded[Feeds[n.i]] # Unset
      BY <2>1, <3>1, InFlightFeed DEF Sends, TickTypes, FeedOf
    <3> QED
      BY <2>1, <3>2, <3>3, TickMoves
  <2> QED
    BY <2>2, <2>3
<1>6. ASSUME NEW t \in Ticks, Save(t) \/ Fails(t)
      PROVE  TickTypes'
  <2>1. Continue(t) /\ UNCHANGED loaded
    BY <1>6 DEF Save, Fails
  <2>2. ticks[t].at \in {"read", "send", "save"}
    BY <1>6 DEF Save, Fails, InFlight, TickTypes, Reads, Sends
  <2> QED
    BY <2>1, <2>2, ContinueTypes
<1>7. CASE Crash \/ Time
  BY <1>7 DEF Crash, Time, TickTypes, InFlight, FeedOf
<1>8. CASE \/ \E a \in Assets : AnyoneSends(a)
           \/ Delivers
           \/ UNCHANGED agentVars
           \/ UNCHANGED vars
  BY <1>1, <1>8 DEF AnyoneSends, Delivers, vars
<1> QED
  BY <1>2, <1>3, <1>4, <1>5, <1>6, <1>7, <1>8 DEF Next, TickStep

-----------------------------------------------------------------------------
(* The feed. *)

\* A step that neither shows a price nor moves a source or the time.
Quiet == /\ UNCHANGED <<rate, feeds, latest, said>>
         /\ vaas' = vaas \/ \E a \in Assets : Publish(a)

\* What any step of the system does to the feed.
LEMMA StepKinds ==
    ASSUME TickTypes, [Next]_vars
    PROVE  \/ Quiet
           \/ TimePasses
           \/ \E m \in vaas : ReceiveMessage(m)
           \/ \E s \in Sources, r \in Rates : SourceMoves(s, r)
           \/ \E a \in Assets, s \in Sources \cup {Unset} : RegisterFeed(a, s)
<1> USE DEF oracleVars, contractVars, OwnerMoves
<1>1. CASE UNCHANGED vars
  BY <1>1 DEF vars, Quiet
<1>2. ASSUME NEW t \in Ticks, Boot(t) \/ TickStarts(t) \/ Read(t) \/ Save(t) \/ Fails(t)
      PROVE  Quiet
  BY <1>2 DEF Boot, TickStarts, Read, Save, Fails, Quiet
<1>3. ASSUME NEW t \in Ticks, Send(t)
      PROVE  Quiet
  <2>1. FeedOf(t) \in Assets
    BY <1>3, InFlightFeed DEF Send
  <2> QED
    BY <1>3, <2>1 DEF Send, Quiet
<1>4. CASE Crash \/ \E a \in Assets : AnyoneSends(a) \/ SetOracle(a)
  BY <1>4 DEF Crash, AnyoneSends, SetOracle, Quiet
<1>5. CASE SetAuthorizedEmitter \/ \E age \in MaxPriceAges : SetMaxPriceAge(age)
  BY <1>5 DEF SetAuthorizedEmitter, SetMaxPriceAge, Quiet
<1>6. CASE Time \/ Delivers
  BY <1>6 DEF Time, Delivers
<1> QED
  BY <1>1, <1>2, <1>3, <1>4, <1>5, <1>6 DEF Next, TickStep, Owner

\* What a source says is added to what was said at the present age.
LEMMA SaysMore ==
    ASSUME FeedTypes, NEW S \in [Assets -> SUBSET Rates],
           said' = [a \in Assets |-> [said[a] EXCEPT ![0] = @ \cup S[a]]]
    PROVE  /\ said' \in [Assets -> [0..MaxAge -> SUBSET Rates]]
           /\ \A a \in Assets : \A age \in 0..MaxAge : said[a][age] \subseteq said'[a][age]
           /\ \A a \in Assets : S[a] \subseteq said'[a][0]
<1>1. 0 \in 0..MaxAge
  BY OracleAssumption
<1> QED
  BY <1>1 DEF FeedTypes

LEMMA SourceMovesSays ==
    ASSUME FeedTypes, NEW s \in Sources, NEW r \in Rates, SourceMoves(s, r)
    PROVE  \E S \in [Assets -> SUBSET Rates] :
               /\ said' = [a \in Assets |-> [said[a] EXCEPT ![0] = @ \cup S[a]]]
               /\ \A a \in Assets : feeds[a] = s => r \in S[a]
<1> DEFINE S == [a \in Assets |-> IF feeds[a] = s THEN {r} ELSE {}]
<1>1. S \in [Assets -> SUBSET Rates]
  OBVIOUS
<1>2. \A a \in Assets : feeds[a] # s => [said[a] EXCEPT ![0] = @ \cup S[a]] = said[a]
  BY DEF FeedTypes
<1>3. said' = [a \in Assets |-> [said[a] EXCEPT ![0] = @ \cup S[a]]]
  BY <1>2 DEF SourceMoves
<1> QED
  BY <1>1, <1>3

LEMMA RegisterFeedSays ==
    ASSUME FeedTypes, NEW a \in Assets, NEW s \in Sources \cup {Unset}, RegisterFeed(a, s)
    PROVE  \E S \in [Assets -> SUBSET Rates] :
               /\ said' = [b \in Assets |-> [said[b] EXCEPT ![0] = @ \cup S[b]]]
               /\ s # Unset => rate[s] \in S[a]
<1> DEFINE new == IF s = Unset THEN {} ELSE {rate[s]}
           S == [b \in Assets |-> IF b = a THEN new ELSE {}]
<1>1. S \in [Assets -> SUBSET Rates]
  BY DEF FeedTypes
<1>2. \A b \in Assets : b # a => [said[b] EXCEPT ![0] = @ \cup S[b]] = said[b]
  BY DEF FeedTypes
<1>3. said' = [said EXCEPT ![a] = [said[a] EXCEPT ![0] = @ \cup new]]
  BY DEF RegisterFeed
<1>4. said' = [b \in Assets |-> [said[b] EXCEPT ![0] = @ \cup S[b]]]
  BY <1>2, <1>3 DEF FeedTypes
<1> QED
  BY <1>1, <1>4

\* Time shifts what was said, and what is still on the wire with it.
LEMMA TimeShifts ==
    ASSUME FeedTypes, OnTheWire, SaidNow, TimePasses
    PROVE  /\ (FeedTypes /\ OnTheWire /\ SaidNow)'
           /\ Feed!TimePasses
<1> DEFINE S == [a \in Assets |-> Saying(a)]
<1>0. MaxAge \in Nat
  BY OracleAssumption
<1>1. S \in [Assets -> SUBSET Rates]
  BY DEF FeedTypes, Saying, Registered
<1>2. said' = [a \in Assets |-> [age \in 0..MaxAge |->
                 IF age = 0 THEN S[a] ELSE said[a][age - 1]]]
  BY DEF TimePasses
<1>3. said' \in [Assets -> [0..MaxAge -> SUBSET Rates]]
  <2>1. \A age \in 0..MaxAge : age # 0 => age - 1 \in 0..MaxAge
    BY <1>0
  <2> QED
    BY <1>1, <1>2, <2>1 DEF FeedTypes
<1>4. latest' = [a \in Assets |-> [rate |-> latest[a].rate, age |-> Older(latest[a].age)]]
  BY DEF TimePasses, FeedTypes, Prices
<1>5. latest' \in [Assets -> Prices]
  <2>1. \A age \in 0..Ancient : Older(age) \in 0..Ancient
    BY <1>0 DEF Older, Ancient
  <2> QED
    BY <1>4, <2>1 DEF FeedTypes, Prices
<1>6. ASSUME NEW n \in vaas'
      PROVE  n \in Messages /\ n.rate \in said'[n.asset][n.age]
  <2>1. PICK m \in vaas : m.age < MaxAge /\ n = [m EXCEPT !.age = @ + 1]
    BY <1>6 DEF TimePasses
  <2>2. m \in Messages
    BY DEF FeedTypes
  <2>3. /\ n.asset = m.asset /\ n.rate = m.rate /\ n.age = m.age + 1
        /\ n = [asset |-> m.asset, rate |-> m.rate, age |-> m.age + 1]
    BY <2>1, <2>2 DEF Messages
  <2>4. m.age + 1 \in 0..MaxAge /\ m.age + 1 # 0 /\ m.age + 1 - 1 = m.age
    BY <1>0, <2>1, <2>2 DEF Messages
  <2>5. said'[m.asset][m.age + 1] = said[m.asset][m.age]
    BY <1>2, <2>2, <2>4 DEF Messages
  <2> QED
    BY <2>2, <2>3, <2>4, <2>5 DEF OnTheWire, Messages
<1>7. SaidNow'
  BY <1>0, <1>2 DEF SaidNow, TimePasses, Saying, Registered
<1>8. UNCHANGED <<rate, feeds>>
  BY DEF TimePasses
<1>9. Feed!TimePasses
  BY <1>1, <1>2, <1>4 DEF Feed!TimePasses, Feed!Ages, Feed!Older, Feed!Ancient, Older, Ancient
<1> QED
  BY <1>3, <1>5, <1>6, <1>7, <1>8, <1>9 DEF FeedTypes, OnTheWire

\* Publishing puts on the wire what the registered source says.
LEMMA QuietStep ==
    ASSUME FeedTypes, OnTheWire, SaidNow, Quiet
    PROVE  (FeedTypes /\ OnTheWire /\ SaidNow)'
<1>1. UNCHANGED <<rate, feeds, latest, said>>
  BY DEF Quiet
<1>2. ASSUME NEW n \in vaas'
      PROVE  n \in Messages /\ n.rate \in said[n.asset][n.age]
  <2>1. CASE n \in vaas
    BY <2>1 DEF FeedTypes, OnTheWire
  <2>2. CASE n \notin vaas
    <3>1. PICK a \in Assets : Publish(a)
      BY <1>2, <2>2 DEF Quiet
    <3>2. n = [asset |-> a, rate |-> rate[feeds[a]], age |-> 0] /\ Registered(a)
      BY <1>2, <2>2, <3>1 DEF Publish, ReadSource
    <3>3. rate[feeds[a]] \in Rates
      BY <3>2 DEF FeedTypes, Registered
    <3> QED
      BY <3>2, <3>3, OracleAssumption DEF SaidNow, Messages
  <2> QED
    BY <2>1, <2>2
<1> QED
  BY <1>1, <1>2 DEF FeedTypes, OnTheWire, SaidNow, Registered

\* What a source or the owner adds leaves the wire true.
LEMMA SaidGrows ==
    ASSUME FeedTypes, OnTheWire, UNCHANGED <<vaas, latest>>,
           NEW S \in [Assets -> SUBSET Rates],
           said' = [a \in Assets |-> [said[a] EXCEPT ![0] = @ \cup S[a]]]
    PROVE  OnTheWire' /\ Feed!Says
<1>1. \A a \in Assets : \A age \in 0..MaxAge : said[a][age] \subseteq said'[a][age]
  BY SaysMore
<1>2. OnTheWire'
  BY <1>1 DEF OnTheWire, FeedTypes, Messages
<1>3. Feed!Says
  BY DEF Feed!Says
<1> QED
  BY <1>2, <1>3

\* A price shown was on the wire, so it was said, and it is newer.
LEMMA ReceiveShows ==
    ASSUME FeedTypes, OnTheWire, SaidNow, NEW m \in vaas, ReceiveMessage(m)
    PROVE  /\ (FeedTypes /\ OnTheWire /\ SaidNow)'
           /\ \E a \in Assets, r \in Rates, age \in Feed!Ages : Feed!Shows(a, r, age)
<1>1. m \in Messages /\ m.rate \in said[m.asset][m.age]
  BY DEF FeedTypes, OnTheWire
<1>2. m.asset \in Assets /\ m.rate \in Rates /\ m.age \in 0..MaxAge
  BY <1>1 DEF Messages
<1>3. Feed!Shows(m.asset, m.rate, m.age)
  BY <1>1 DEF ReceiveMessage, Accepts, Fresh, Feed!Shows
<1>4. latest' \in [Assets -> Prices]
  <2>1. [rate |-> m.rate, age |-> m.age] \in Prices
    BY <1>2, OracleAssumption DEF Prices, Ancient
  <2> QED
    BY <1>2, <2>1 DEF ReceiveMessage, FeedTypes
<1>5. UNCHANGED <<rate, feeds, said>> /\ vaas' \subseteq vaas
  BY DEF ReceiveMessage
<1> QED
  BY <1>2, <1>3, <1>4, <1>5 DEF FeedTypes, OnTheWire, SaidNow, Registered, Feed!Ages

LEMMA FeedStep ==
    ASSUME FeedInv, [Next]_vars
    PROVE  FeedInv' /\ [Feed!Next]_(Feed!vars)
<1> USE DEF FeedInv
<1>1. TickTypes'
  BY TickTypesStep
<1>2. CASE Quiet
  <2>1. UNCHANGED Feed!vars
    BY <1>2 DEF Quiet, Feed!vars
  <2> QED
    BY <1>1, <1>2, <2>1, QuietStep
<1>3. CASE TimePasses
  BY <1>1, <1>3, TimeShifts DEF Feed!Next
<1>4. CASE \E m \in vaas : ReceiveMessage(m)
  BY <1>1, <1>4, ReceiveShows DEF Feed!Next
<1>5. ASSUME NEW s \in Sources, NEW r \in Rates, SourceMoves(s, r)
      PROVE  FeedInv' /\ [Feed!Next]_(Feed!vars)
  <2>1. PICK S \in [Assets -> SUBSET Rates] :
            /\ said' = [a \in Assets |-> [said[a] EXCEPT ![0] = @ \cup S[a]]]
            /\ \A a \in Assets : feeds[a] = s => r \in S[a]
    BY <1>5, SourceMovesSays
  <2>2. /\ said' \in [Assets -> [0..MaxAge -> SUBSET Rates]]
        /\ \A a \in Assets : \A age \in 0..MaxAge : said[a][age] \subseteq said'[a][age]
        /\ \A a \in Assets : S[a] \subseteq said'[a][0]
    BY <2>1, SaysMore
  <2>3. UNCHANGED <<feeds, vaas, latest>> /\ rate' = [rate EXCEPT ![s] = r]
    BY <1>5 DEF SourceMoves, contractVars
  <2>4. OnTheWire' /\ Feed!Says
    BY <2>1, <2>3, SaidGrows
  <2>5. FeedTypes'
    BY <2>2, <2>3 DEF FeedTypes
  <2>6. SaidNow'
    <3>1. ASSUME NEW a \in Assets, Registered(a)
          PROVE  rate'[feeds[a]] \in said'[a][0]
      <4>1. CASE feeds[a] = s
        BY <2>1, <2>2, <2>3, <4>1 DEF FeedTypes
      <4>2. CASE feeds[a] # s
        BY <2>2, <2>3, <3>1, <4>2, OracleAssumption DEF FeedTypes, SaidNow, Registered
      <4> QED
        BY <4>1, <4>2
    <3> QED
      BY <2>3, <3>1 DEF SaidNow, Registered
  <2> QED
    BY <1>1, <2>4, <2>5, <2>6 DEF Feed!Next
<1>6. ASSUME NEW a \in Assets, NEW s \in Sources \cup {Unset}, RegisterFeed(a, s)
      PROVE  FeedInv' /\ [Feed!Next]_(Feed!vars)
  <2>1. PICK S \in [Assets -> SUBSET Rates] :
            /\ said' = [b \in Assets |-> [said[b] EXCEPT ![0] = @ \cup S[b]]]
            /\ s # Unset => rate[s] \in S[a]
    BY <1>6, RegisterFeedSays
  <2>2. /\ said' \in [Assets -> [0..MaxAge -> SUBSET Rates]]
        /\ \A b \in Assets : \A age \in 0..MaxAge : said[b][age] \subseteq said'[b][age]
        /\ \A b \in Assets : S[b] \subseteq said'[b][0]
    BY <2>1, SaysMore
  <2>3. UNCHANGED <<rate, vaas, latest>> /\ feeds' = [feeds EXCEPT ![a] = s]
    BY <1>6 DEF RegisterFeed
  <2>4. OnTheWire' /\ Feed!Says
    BY <2>1, <2>3, SaidGrows
  <2>5. FeedTypes'
    BY <2>2, <2>3 DEF FeedTypes
  <2>6. ASSUME NEW b \in Assets, Registered(b)'
        PROVE  rate[feeds'[b]] \in said'[b][0]
    <3>1. CASE b = a
      BY <2>1, <2>2, <2>3, <2>6, <3>1 DEF FeedTypes, Registered
    <3>2. CASE b # a
      BY <2>2, <2>3, <2>6, <3>2, OracleAssumption DEF FeedTypes, SaidNow, Registered
    <3> QED
      BY <3>1, <3>2
  <2>7. SaidNow'
    BY <2>3, <2>6 DEF SaidNow
  <2> QED
    BY <1>1, <2>4, <2>5, <2>7 DEF Feed!Next
<1> QED
  BY <1>2, <1>3, <1>4, <1>5, <1>6, StepKinds

-----------------------------------------------------------------------------
LEMMA FeedInit ==
    ASSUME Init
    PROVE  FeedInv /\ Feed!Init
<1>1. MaxAge \in Nat
  BY OracleAssumption
<1>2. said \in [Assets -> [0..MaxAge -> SUBSET Rates]]
  BY <1>1, OracleAssumption DEF Init, OracleInit, Saying, Registered
<1>3. latest \in [Assets -> Prices]
  BY <1>1 DEF Init, OracleInit, Prices, Ancient
<1>4. TickTypes
  BY DEF Init, OracleInit, TickTypes, InFlight
<1>5. SaidNow
  BY <1>1 DEF Init, OracleInit, SaidNow, Saying
<1>6. FeedTypes /\ OnTheWire
  BY <1>2, <1>3, OracleAssumption DEF Init, OracleInit, FeedTypes, OnTheWire
<1>7. Feed!Init
  BY <1>2 DEF Init, OracleInit, Feed!Init, Feed!Ages, Feed!Ancient, Ancient
<1> QED
  BY <1>4, <1>5, <1>6, <1>7 DEF FeedInv

\* Every price the receiver shows was its source's at the time of its stamp,
\* and stamps only move forward: the contracts and whatever drives them
\* implement PriceFeed.
THEOREM FeedRefined == Spec => PricesAreFeeds
<1>1. Init => FeedInv /\ Feed!Init
  BY FeedInit
<1>2. FeedInv /\ [Next]_vars => FeedInv' /\ [Feed!Next]_(Feed!vars)
  BY FeedStep
<1> QED
  BY <1>1, <1>2, PTL DEF Spec, PricesAreFeeds, Feed!Spec

-----------------------------------------------------------------------------
(* The rest of the types. *)

Entries == [Assets -> [value : Rates \cup {0}, age : 0..Forgotten]]
OwnerTypes == /\ oracles \subseteq Assets /\ authorized \in BOOLEAN
              /\ maxPriceAge \in MaxPriceAges
              /\ disturbances \in 0..MaxDisturbances
MemoryTypes == /\ up \in {"down", "boot", "running"}
               /\ state \in Entries /\ file \in Entries
               /\ sinceRefresh \in 0..Refresh /\ lapsed \subseteq Assets

LEMMA OwnerTypesStep ==
    ASSUME OwnerTypes, [Next]_vars
    PROVE  OwnerTypes'
<1> USE OracleAssumption DEF Disturb, OwnerTypes, oracleVars, contractVars, OwnerMoves
<1>1. CASE UNCHANGED vars
  BY <1>1 DEF vars
<1>2. ASSUME NEW t \in Ticks, Boot(t) \/ TickStarts(t) \/ TickStep(t) \/ Fails(t)
      PROVE  OwnerTypes'
  BY <1>2 DEF Boot, TickStarts, TickStep, Read, Send, Save, Fails
<1>3. CASE Crash
  BY <1>3 DEF Crash
<1>4. CASE Delivers
  BY <1>4 DEF Delivers, ReceiveMessage
<1>5. CASE Time
  <2>1. UNCHANGED <<oracles, authorized, maxPriceAge>>
    BY <1>5 DEF Time, TimePasses
  <2>2. disturbances' \in 0..MaxDisturbances
    BY <1>5 DEF Time, TimePasses
  <2> QED
    BY <2>1, <2>2
<1>6. ASSUME NEW a \in Assets, AnyoneSends(a)
      PROVE  OwnerTypes'
  BY <1>6 DEF AnyoneSends
<1>7. ASSUME NEW s \in Sources, NEW r \in Rates, SourceMoves(s, r)
      PROVE  OwnerTypes'
  BY <1>7 DEF SourceMoves
<1>8. ASSUME NEW a \in Assets, NEW s \in Sources \cup {Unset},
             SetOracle(a) \/ RegisterFeed(a, s)
      PROVE  OwnerTypes'
  <2>1. UNCHANGED <<authorized, maxPriceAge>> /\ Disturb
    BY <1>8 DEF SetOracle, RegisterFeed
  <2>2. oracles' \subseteq Assets
    BY <1>8 DEF SetOracle, RegisterFeed
  <2> QED
    BY <2>1, <2>2
<1>9. ASSUME NEW age \in MaxPriceAges, SetMaxPriceAge(age)
      PROVE  OwnerTypes'
  BY <1>9 DEF SetMaxPriceAge
<1>10. CASE SetAuthorizedEmitter
  BY <1>10 DEF SetAuthorizedEmitter
<1> QED
  BY <1>1, <1>2, <1>3, <1>6, <1>7, <1>8, <1>5, <1>9, <1>10, <1>4 DEF Next, Owner

LEMMA ForgottenNat == Forgotten \in Nat
<1>1. 2 + MaxDisturbances \in Nat /\ Refresh \in Nat
  BY OracleAssumption, BroadcasterAssumption
<1>2. \A m, n \in Nat : m * n + 1 \in Nat
  OBVIOUS
<1> QED
  BY <1>1, <1>2 DEF Forgotten

\* What is kept after a send is a reading of the feed's source.
LEMMA SentTypes ==
    ASSUME TickTypes, state \in Entries, NEW t \in Ticks, ticks[t].at = "save"
    PROVE  Sent(t) \in Entries
<1>1. ticks[t].value \in Rates /\ FeedOf(t) \in Assets
  BY InFlightFeed DEF Sends
<1>2. 0 \in 0..Forgotten
  BY ForgottenNat
<1> QED
  BY <1>1, <1>2 DEF Sent, Entries

LEMMA GrownTypes ==
    ASSUME NEW entries \in Entries
    PROVE  [a \in Assets |-> [entries[a] EXCEPT !.age = Grown(@)]] \in Entries
<1>1. Forgotten \in Nat
  BY ForgottenNat
<1>2. \A age \in 0..Forgotten : Grown(age) \in 0..Forgotten
  BY <1>1 DEF Grown
<1> QED
  BY <1>2 DEF Entries

LEMMA MemoryTypesStep ==
    ASSUME TickTypes, MemoryTypes, [Next]_vars
    PROVE  MemoryTypes'
<1> USE BroadcasterAssumption DEF MemoryTypes, agentVars, OwnerMoves
<1>1. CASE UNCHANGED vars
  BY <1>1 DEF vars
<1>2. ASSUME NEW t \in Ticks, Boot(t) \/ TickStarts(t)
      PROVE  MemoryTypes'
  BY <1>2 DEF Boot, TickStarts
<1>3. ASSUME NEW t \in Ticks, Read(t) \/ Send(t)
      PROVE  MemoryTypes'
  BY <1>3 DEF Read, Send, Continue
<1>4. ASSUME NEW t \in Ticks, Save(t) \/ Fails(t)
      PROVE  MemoryTypes'
  BY <1>4, SentTypes DEF Save, Fails, Continue
<1>5. CASE Time
  BY <1>5, GrownTypes DEF Time, RefreshDue
<1>6. CASE Crash
  BY <1>6 DEF Crash
<1>7. CASE \/ Delivers \/ OwnerMoves \/ UNCHANGED <<agentVars, lapsed>>
           \/ \E a \in Assets : AnyoneSends(a)
  BY <1>7 DEF Delivers, AnyoneSends
<1> QED
  BY <1>1, <1>2, <1>3, <1>4, <1>5, <1>6, <1>7 DEF Next, TickStep

\* The contracts and the agent keep their types, whatever ticks overlap,
\* fail or die.
THEOREM OracleTypes == Spec => []TypeOK
<1> DEFINE Types == FeedInv /\ OwnerTypes /\ MemoryTypes
<1>1. Init => Types
  <2>1. Init => OwnerTypes
    BY OracleAssumption DEF Init, OracleInit, OwnerTypes
  <2>2. Init => MemoryTypes
    BY ForgottenNat, BroadcasterAssumption DEF Init, MemoryTypes, NoEntry, Entries
  <2> QED
    BY <2>1, <2>2, FeedInit
<1>2. Types /\ [Next]_vars => Types'
  BY FeedStep, OwnerTypesStep, MemoryTypesStep DEF FeedInv
<1>3. Types => TypeOK
  <2>1. ASSUME Types, NEW t \in InFlight
        PROVE  ticks[t].mode \in {"full", "check"} /\ FeedOf(t) \in Assets
    <3>1. ticks[t] \in Reads \cup Sends
      BY <2>1 DEF FeedInv, TickTypes, InFlight
    <3>2. ticks[t].at \in {"read", "send", "save"}
      BY <3>1 DEF Reads, Sends
    <3> QED
      BY <2>1, <3>2, InFlightFeed DEF FeedInv, InFlight, Modes
  <2>2. ASSUME Types
        PROVE  /\ \A entries \in {state, file} : entries \in Entries
               /\ \A t \in InFlight : loaded[FeedOf(t)] # Unset
    BY <2>2 DEF MemoryTypes, FeedInv, TickTypes
  <2> QED
    BY <2>1, <2>2 DEF TypeOK, FeedInv, FeedTypes, TickTypes, OwnerTypes, MemoryTypes,
                      Messages, Prices, Entries
<1> HIDE DEF Types
<1> QED
  BY <1>1, <1>2, <1>3, PTL DEF Spec

-----------------------------------------------------------------------------
(* How old an entry may be.  A refresh leaves every steady feed with an      *)
(* entry less than an interval old in memory, unless it failed for the feed; *)
(* the file may be a save behind, but then memory was written since the last *)
(* refresh, or the next one will write both.                                 *)

Steady == Assets \ lapsed
Within(entry, age) == entry = NoEntry \/ entry.age < age
\* An interval, and one for each disturbance.
Allowed == (1 + disturbances) * Refresh
\* What a refresh leaves, whatever fails in it.
Refreshed(a) == Within(state[a], Allowed) /\ Within(file[a], Allowed + Refresh)
Aging ==
    \A a \in Steady :
        /\ Within(state[a], sinceRefresh + Allowed)
        /\ Within(file[a], sinceRefresh + Allowed + Refresh)
        /\ \/ up # "down" /\ state[a].age >= sinceRefresh
           \/ Within(file[a], sinceRefresh + Allowed)
\* A refresh has left the feeds before its place in the list, and what it
\* will not write was written within the interval.
RefreshUnderWay ==
    \A t \in InFlight : ticks[t].mode = "full" =>
        /\ \/ sinceRefresh = Refresh
           \/ \A a \in Steady : Refreshed(a) \/ state[a] = file[a]
        /\ \A j \in Indices : j < ticks[t].i /\ Feeds[j] \in Steady => Refreshed(Feeds[j])
\* A steady feed is in the loop.
SteadyLoaded ==
    \A a \in Steady : Registered(a) /\ (up # "down" => loaded[a] # Unset)
\* Only what the loop goes over is written.
OnlyFeedsSaved ==
    \A a \in Assets \ {Feeds[i] : i \in Indices} : state[a] = NoEntry /\ file[a] = NoEntry
DownIdle == up = "down" => InFlight = {}
RefreshInv == Aging /\ RefreshUnderWay /\ SteadyLoaded /\ OnlyFeedsSaved /\ DownIdle

\* A disturbance allows for one interval more.
LEMMA AllowedSteps ==
    ASSUME disturbances \in Nat, disturbances' \in {disturbances, disturbances + 1}
    PROVE  \E A, B \in Nat :
               /\ A = Allowed /\ B = Allowed' /\ A >= Refresh
               /\ disturbances' = disturbances => B = A
               /\ disturbances' = disturbances + 1 => B = A + Refresh
<1>1. Refresh \in Nat
  BY BroadcasterAssumption
<1>2. \A d \in Nat : /\ (1 + d) * Refresh \in Nat /\ (1 + d) * Refresh >= Refresh
                     /\ (1 + (d + 1)) * Refresh = (1 + d) * Refresh + Refresh
  BY <1>1
<1>3. disturbances' \in Nat
  OBVIOUS
<1>4. Allowed = (1 + disturbances) * Refresh /\ Allowed' = (1 + disturbances') * Refresh
  BY DEF Allowed
<1>5. PICK A, B : A = (1 + disturbances) * Refresh /\ B = (1 + disturbances') * Refresh
  OBVIOUS
<1>6. A \in Nat /\ B \in Nat /\ A >= Refresh
  BY <1>2, <1>3, <1>5
<1>7. disturbances' = disturbances + 1 => B = A + Refresh
  BY <1>2, <1>5
<1>8. disturbances' = disturbances => B = A
  BY <1>5
<1> QED
  BY <1>4, <1>5, <1>6, <1>7, <1>8

\* The ages that are compared are numbers.
LEMMA EntryAges ==
    ASSUME MemoryTypes, NEW a \in Assets
    PROVE  /\ state[a].age \in Nat /\ file[a].age \in Nat
           /\ sinceRefresh \in Nat /\ sinceRefresh <= Refresh /\ Refresh \in Nat \ {0}
BY ForgottenNat, BroadcasterAssumption DEF MemoryTypes, Entries

\* What leaves the agent alone may only disturb, or take a feed's source.
LEMMA OthersAge ==
    ASSUME OwnerTypes, MemoryTypes, RefreshInv, UNCHANGED agentVars,
           disturbances' \in {disturbances, disturbances + 1}, lapsed \subseteq lapsed',
           \A a \in Assets \ lapsed' : feeds'[a] # Unset
    PROVE  RefreshInv'
<1> USE DEF RefreshInv, agentVars
<1>1. PICK A, B \in Nat : A = Allowed /\ B = Allowed' /\ A <= B
  <2>1. disturbances \in Nat /\ Refresh \in Nat
    BY OracleAssumption, BroadcasterAssumption DEF OwnerTypes
  <2> QED
    BY <2>1, AllowedSteps
<1>2. \A a \in Steady' : a \in Steady
  BY DEF Steady
<1>3. \A a \in Assets : Refreshed(a) => Refreshed(a)'
  <2>1. ASSUME NEW a \in Assets, Within(state[a], A), Within(file[a], A + Refresh)
        PROVE  Within(state[a], B) /\ Within(file[a], B + Refresh)
    BY <1>1, <2>1, EntryAges DEF Within
  <2> QED
    BY <1>1, <2>1 DEF Refreshed
<1>4. Aging'
  <2>1. ASSUME NEW a \in Steady'
        PROVE  /\ Within(state[a], sinceRefresh + B)
               /\ Within(file[a], sinceRefresh + B + Refresh)
               /\ \/ up # "down" /\ state[a].age >= sinceRefresh
                  \/ Within(file[a], sinceRefresh + B)
    <3>1. a \in Assets /\ a \in Steady
      BY <1>2 DEF Steady
    <3>2. /\ Within(state[a], sinceRefresh + A)
          /\ Within(file[a], sinceRefresh + A + Refresh)
          /\ \/ up # "down" /\ state[a].age >= sinceRefresh
             \/ Within(file[a], sinceRefresh + A)
      BY <1>1, <3>1 DEF Aging
    <3> QED
      BY <1>1, <3>1, <3>2, EntryAges DEF Within
  <2> QED
    BY <1>1, <2>1 DEF Aging
<1>5. InFlight' = InFlight
  BY DEF InFlight
<1>6. RefreshUnderWay'
  <2>1. ASSUME NEW t \in InFlight, ticks[t].mode = "full"
        PROVE  /\ \/ sinceRefresh = Refresh
                  \/ \A a \in Steady' : Refreshed(a)' \/ state[a] = file[a]
               /\ \A j \in Indices : j < ticks[t].i /\ Feeds[j] \in Steady' => Refreshed(Feeds[j])'
    BY <1>2, <1>3, <2>1, FeedsInAssets DEF RefreshUnderWay, Steady
  <2> QED
    BY <1>5, <2>1 DEF RefreshUnderWay
<1>7. SteadyLoaded'
  BY <1>2 DEF SteadyLoaded, Registered, Steady
<1>8. OnlyFeedsSaved' /\ DownIdle'
  BY <1>5 DEF OnlyFeedsSaved, DownIdle
<1> QED
  BY <1>4, <1>6, <1>7, <1>8

\* The loop goes on from a feed that the refresh has seen to.
LEMMA RefreshGoesOn ==
    ASSUME TickTypes, RefreshInv, NEW t \in Ticks,
           ticks[t].at \in {"read", "send", "save"}, Continue(t), UNCHANGED loaded,
           SteadyLoaded', OnlyFeedsSaved',
           \A a \in Steady' : (a \in Steady => Refreshed(a)) => Refreshed(a)',
           \A a \in Steady' : (a \in Steady => Refreshed(a) \/ state[a] = file[a])
                                  => Refreshed(a)' \/ state'[a] = file'[a],
           \A a \in Steady' : ticks[t].mode = "full" /\ a = FeedOf(t) => Refreshed(a)'
    PROVE  /\ RefreshUnderWay'
           /\ sinceRefresh' = sinceRefresh \/ \A a \in Steady' : Refreshed(a)'
<1> USE DEF RefreshInv
<1>1. PICK mode \in Modes, i \in Indices : mode = ticks[t].mode /\ i = ticks[t].i
  BY InFlightFeed
<1>2. t \in InFlight /\ i \in Nat
  BY InFlightFeed DEF Indices
<1>3. PICK n : n = Handling(loaded, mode, i)
  OBVIOUS
<1>4. n \in {Done} \cup Reads
  BY <1>2, <1>3, HandlingTypes, Zenon
<1>5. n # Done => n.mode = mode /\ \A j \in (i + 1)..(n.i - 1) : loaded[Feeds[j]] = Unset
  <2>1. Handling(loaded, mode, i) # Done =>
            /\ Handling(loaded, mode, i).mode = mode
            /\ \A j \in (i + 1)..(Handling(loaded, mode, i).i - 1) : loaded[Feeds[j]] = Unset
    BY <1>2, HandlingTypes
  <2> QED
    BY <1>3, <2>1, Zenon
<1>6. n = Done => After(loaded, i) = {}
  BY <1>2, <1>3, HandlingTypes
<1>7. ticks' = [ticks EXCEPT ![t] = n]
  BY <1>1, <1>3 DEF Continue
<1>8. up' # "down"
  BY <1>2 DEF DownIdle, Continue
<1>9. \A a \in Steady' : loaded[a] # Unset
  BY <1>8 DEF SteadyLoaded
<1>10. ASSUME mode = "full", NEW j \in Indices, j < i, Feeds[j] \in Steady'
       PROVE  Refreshed(Feeds[j])'
  <2>1. Feeds[j] \in Steady => Refreshed(Feeds[j])
    BY <1>1, <1>2, <1>10 DEF RefreshUnderWay
  <2> QED
    BY <1>10, <2>1
<1>11. mode = "full" /\ Feeds[i] \in Steady' => Refreshed(Feeds[i])'
  BY <1>1 DEF FeedOf
<1>12. ASSUME Last(t), mode = "full"
       PROVE  \A a \in Steady' : Refreshed(a)'
  <2>1. ASSUME NEW j \in Indices, Feeds[j] \in Steady'
        PROVE  Refreshed(Feeds[j])'
    <3>1. ~(j \in (i + 1)..Len(Feeds))
      BY <1>1, <1>9, <1>12, <2>1 DEF Last, After
    <3>2. j < i \/ j = i
      BY <3>1, BroadcasterAssumption DEF Indices
    <3> QED
      BY <1>10, <1>11, <1>12, <2>1, <3>2
  <2>2. ASSUME NEW a \in Steady', a \notin {Feeds[j] : j \in Indices}
        PROVE  Refreshed(a)'
    <3>1. state'[a] = NoEntry /\ file'[a] = NoEntry
      BY <2>2 DEF OnlyFeedsSaved, Steady
    <3> QED
      BY <3>1 DEF Refreshed, Within
  <2> QED
    BY <2>1, <2>2
<1>13. sinceRefresh' = sinceRefresh \/ \A a \in Steady' : Refreshed(a)'
  BY <1>1, <1>12 DEF Continue
<1>14. ASSUME NEW u \in InFlight', ticks'[u].mode = "full", u # t
       PROVE  /\ u \in InFlight /\ ticks[u].mode = "full"
              /\ ticks'[u] = ticks[u]
  BY <1>7, <1>14 DEF InFlight, TickTypes
<1>15. ASSUME NEW u \in InFlight', ticks'[u].mode = "full"
       PROVE  \/ sinceRefresh' = Refresh
              \/ \A a \in Steady' : Refreshed(a)' \/ state'[a] = file'[a]
  <2>1. \E v \in InFlight : ticks[v].mode = "full"
    <3>1. CASE u = t
      <4>1. ticks'[t] = n
        BY <1>7 DEF TickTypes
      <4>2. n # Done /\ n.mode = "full"
        BY <1>15, <3>1, <4>1 DEF InFlight
      <4> QED
        BY <1>1, <1>2, <1>5, <4>2
    <3>2. CASE u # t
      BY <1>14, <1>15, <3>2
    <3> QED
      BY <3>1, <3>2
  <2>2. \/ sinceRefresh = Refresh
        \/ \A a \in Steady : Refreshed(a) \/ state[a] = file[a]
    BY <2>1 DEF RefreshUnderWay
  <2> QED
    BY <1>13, <2>2
<1>16. ASSUME NEW u \in InFlight', ticks'[u].mode = "full",
              NEW j \in Indices, j < ticks'[u].i, Feeds[j] \in Steady'
       PROVE  Refreshed(Feeds[j])'
  <2>1. CASE u # t
    <3>1. u \in InFlight /\ ticks[u].mode = "full" /\ j < ticks[u].i
      BY <1>14, <1>16, <2>1
    <3>2. Feeds[j] \in Steady => Refreshed(Feeds[j])
      BY <3>1 DEF RefreshUnderWay
    <3> QED
      BY <1>16, <3>2
  <2>2. CASE u = t
    <3>1. ticks'[t] = n
      BY <1>7 DEF TickTypes
    <3>2. n # Done /\ n.mode = "full" /\ j < n.i
      BY <1>16, <2>2, <3>1 DEF InFlight
    <3>3. n.i \in Indices
      BY <1>4, <3>2 DEF Reads
    <3>4. mode = "full"
      BY <1>5, <3>2
    <3>5. ~(j \in (i + 1)..(n.i - 1))
      BY <1>5, <1>9, <1>16, <3>2
    <3>6. j < i \/ j = i
      BY <3>2, <3>3, <3>5 DEF Indices
    <3> QED
      BY <1>10, <1>11, <1>16, <3>4, <3>6
  <2> QED
    BY <2>1, <2>2
<1>17. RefreshUnderWay'
  BY <1>15, <1>16 DEF RefreshUnderWay
<1> QED
  BY <1>13, <1>17

\* A tick that begins or goes on with its feed leaves the entries as they are.
LEMMA TickGoesOn ==
    ASSUME TickTypes, RefreshInv, NEW t \in Ticks,
           UNCHANGED <<up, loaded, state, file, sinceRefresh, lapsed, feeds, disturbances>>,
           up # "down", NEW n, ticks' = [ticks EXCEPT ![t] = n],
           n \in {Idle, Done} \/
               (n.mode = "full" =>
                  /\ \/ sinceRefresh = Refresh
                     \/ \A a \in Steady : Refreshed(a) \/ state[a] = file[a]
                  /\ \A j \in Indices : j < n.i /\ Feeds[j] \in Steady => Refreshed(Feeds[j]))
    PROVE  RefreshInv'
<1> USE DEF RefreshInv
<1>1. Steady' = Steady /\ Allowed' = Allowed
  BY DEF Steady, Allowed
<1>2. \A a \in Assets : Refreshed(a)' <=> Refreshed(a)
  BY <1>1 DEF Refreshed
<1>3. Aging'
  BY <1>1 DEF Aging
<1>4. SteadyLoaded' /\ OnlyFeedsSaved' /\ DownIdle'
  BY <1>1 DEF SteadyLoaded, OnlyFeedsSaved, DownIdle, Registered
<1>5. ASSUME NEW u \in InFlight', ticks'[u].mode = "full"
      PROVE  /\ \/ sinceRefresh = Refresh
                \/ \A a \in Steady : Refreshed(a) \/ state[a] = file[a]
             /\ \A j \in Indices : j < ticks'[u].i /\ Feeds[j] \in Steady => Refreshed(Feeds[j])
  <2>1. CASE u = t
    <3>1. ticks'[u] = n
      BY <2>1 DEF TickTypes
    <3>2. n \notin {Idle, Done} /\ n.mode = "full"
      BY <1>5, <3>1 DEF InFlight
    <3> QED
      BY <3>1, <3>2
  <2>2. CASE u # t
    <3>1. u \in InFlight /\ ticks'[u] = ticks[u]
      BY <1>5, <2>2 DEF InFlight, TickTypes
    <3> QED
      BY <1>5, <3>1 DEF RefreshUnderWay
  <2> QED
    BY <2>1, <2>2
<1>6. RefreshUnderWay'
  BY <1>1, <1>2, <1>5, FeedsInAssets DEF RefreshUnderWay, Steady
<1> QED
  BY <1>3, <1>4, <1>6

LEMMA FromZero == \A m, n \in Nat : 0 + m = m /\ 0 + m + n = m + n
OBVIOUS

\* The refresh that ends starts the interval again.
LEMMA ContinueAges ==
    ASSUME MemoryTypes', NEW t \in Ticks, Continue(t), up # "down",
           sinceRefresh \in Nat, NEW B \in Nat, B = Allowed',
           sinceRefresh' = sinceRefresh \/ \A a \in Steady' : Refreshed(a)',
           \A a \in Steady' :
               /\ Within(state'[a], sinceRefresh + B)
               /\ Within(file'[a], sinceRefresh + B + Refresh)
               /\ state'[a].age >= sinceRefresh \/ Within(file'[a], sinceRefresh + B)
    PROVE  Aging' /\ DownIdle'
<1>1. up' # "down"
  BY DEF Continue
<1>2. CASE sinceRefresh' = sinceRefresh
  BY <1>1, <1>2 DEF Aging, DownIdle
<1>3. CASE sinceRefresh' # sinceRefresh
  <2>1. sinceRefresh' = 0
    BY <1>3 DEF Continue
  <2>2. ASSUME NEW a \in Steady'
        PROVE  /\ Within(state'[a], 0 + B) /\ Within(file'[a], 0 + B + Refresh)
               /\ state'[a].age >= 0
    <3>1. Within(state'[a], B) /\ Within(file'[a], B + Refresh)
      BY <1>3 DEF Refreshed
    <3>2. Refresh \in Nat
      BY BroadcasterAssumption
    <3>3. 0 + B = B /\ 0 + B + Refresh = B + Refresh
      BY <3>2, FromZero, Zenon
    <3>4. state'[a].age >= 0
      BY ForgottenNat DEF MemoryTypes, Entries, Steady
    <3> QED
      BY <3>1, <3>3, <3>4
  <2> QED
    BY <1>1, <2>1, <2>2 DEF Aging, DownIdle
<1> QED
  BY <1>2, <1>3

\* A feed that is passed over.
LEMMA SkipAges ==
    ASSUME TickTypes, OwnerTypes, MemoryTypes, MemoryTypes', RefreshInv, NEW t \in Ticks,
           ticks[t].at \in {"read", "send"}, Continue(t),
           UNCHANGED <<loaded, state, file, lapsed, feeds, disturbances>>,
           ticks[t].mode = "full" /\ FeedOf(t) \in Steady => Refreshed(FeedOf(t))
    PROVE  RefreshInv'
<1> USE DEF RefreshInv
<1>1. Steady' = Steady /\ Allowed' = Allowed
  BY DEF Steady, Allowed
<1>2. \A a \in Assets : Refreshed(a)' <=> Refreshed(a)
  BY <1>1 DEF Refreshed
<1>3. t \in InFlight
  BY InFlightFeed
<1>4. SteadyLoaded' /\ OnlyFeedsSaved'
  BY <1>1, <1>3 DEF SteadyLoaded, OnlyFeedsSaved, Registered, DownIdle, Continue
<1>5. \A a \in Steady' : ticks[t].mode = "full" /\ a = FeedOf(t) => Refreshed(a)'
  BY <1>1, <1>2 DEF Steady
<1>6. \A a \in Steady' : (a \in Steady => Refreshed(a)) => Refreshed(a)'
  BY <1>1, <1>2 DEF Steady
<1>7. \A a \in Steady' : (a \in Steady => Refreshed(a) \/ state[a] = file[a])
                             => Refreshed(a)' \/ state'[a] = file'[a]
  BY <1>1, <1>2 DEF Steady
<1>8. RefreshUnderWay' /\ (sinceRefresh' = sinceRefresh \/ \A a \in Steady' : Refreshed(a)')
  BY <1>4, <1>5, <1>6, <1>7, RefreshGoesOn
<1>9. PICK B \in Nat : B = Allowed
  BY AllowedSteps, OracleAssumption DEF OwnerTypes
<1>10. up # "down" /\ sinceRefresh \in Nat
  BY <1>3, BroadcasterAssumption DEF DownIdle, MemoryTypes
<1>11. \A a \in Steady :
          /\ Within(state[a], sinceRefresh + B)
          /\ Within(file[a], sinceRefresh + B + Refresh)
          /\ state[a].age >= sinceRefresh \/ Within(file[a], sinceRefresh + B)
  BY <1>9 DEF Aging
<1>12. Aging' /\ DownIdle'
  BY <1>1, <1>8, <1>9, <1>10, <1>11, ContinueAges
<1> QED
  BY <1>4, <1>8, <1>12

\* A feed that is sent and saved: the file is what memory is.
LEMMA SaveAges ==
    ASSUME TickTypes, OwnerTypes, MemoryTypes, MemoryTypes', RefreshInv, NEW t \in Ticks, Save(t)
    PROVE  RefreshInv'
<1> USE DEF RefreshInv
<1>1. /\ ticks[t].at = "save" /\ Continue(t) /\ UNCHANGED <<loaded, feeds, disturbances>>
      /\ lapsed' = IF Registered(FeedOf(t)) THEN lapsed \ {FeedOf(t)} ELSE lapsed
  BY DEF Save, oracleVars, contractVars
<1>2. PICK b \in Assets : b = FeedOf(t) /\ loaded[b] # Unset
  BY <1>1, InFlightFeed, OracleAssumption
<1>3. t \in InFlight /\ b \in {Feeds[i] : i \in Indices}
  BY <1>1, <1>2, InFlightFeed DEF FeedOf
<1>4. PICK e : e.age = 0 /\ state' = [state EXCEPT ![b] = e] /\ file' = state'
  BY <1>1, <1>2 DEF Save, Sent
<1>5. /\ state'[b].age = 0
      /\ \A a \in Assets : file'[a] = state'[a] /\ (a # b => state'[a] = state[a])
  BY <1>4 DEF MemoryTypes, Entries
<1>6. \A a \in Steady' : a \in Assets /\ (a \in Steady \/ a = b)
  BY <1>1, <1>2 DEF Steady
<1>7. PICK A \in Nat : A = Allowed /\ A = Allowed' /\ A >= Refresh
  BY <1>1, AllowedSteps, OracleAssumption DEF OwnerTypes
<1>8. Refresh \in Nat \ {0} /\ sinceRefresh \in Nat /\ up # "down"
  BY <1>3, BroadcasterAssumption DEF MemoryTypes, DownIdle
<1>9. SteadyLoaded'
  <2>1. \A a \in Steady' : Registered(a)
    BY <1>1, <1>2, <1>6 DEF SteadyLoaded, Steady
  <2>2. \A a \in Steady' : loaded[a] # Unset
    BY <1>2, <1>6, <1>8 DEF SteadyLoaded
  <2> QED
    BY <1>1, <2>1, <2>2 DEF SteadyLoaded, Registered
<1>10. OnlyFeedsSaved'
  BY <1>3, <1>5 DEF OnlyFeedsSaved
<1>11. ASSUME NEW a \in Steady', a = b \/ (a \in Steady => Refreshed(a))
       PROVE  Refreshed(a)'
  <2>1. Within(state'[a], A)
    BY <1>5, <1>6, <1>7, <1>8, <1>11 DEF Refreshed, Within
  <2>2. state'[a] = NoEntry \/ state'[a].age \in Nat
    BY <1>6, ForgottenNat DEF MemoryTypes, Entries
  <2>3. Within(file'[a], A + Refresh)
    BY <1>5, <1>6, <1>7, <1>8, <2>1, <2>2 DEF Within
  <2> QED
    BY <1>7, <2>1, <2>3 DEF Refreshed
<1>12. \A a \in Steady' : state'[a] = file'[a]
  BY <1>5, <1>6
<1>13. /\ RefreshUnderWay'
       /\ sinceRefresh' = sinceRefresh \/ \A a \in Steady' : Refreshed(a)'
  <2>1. \A a \in Steady' : ticks[t].mode = "full" /\ a = FeedOf(t) => Refreshed(a)'
    BY <1>2, <1>11
  <2>2. \A a \in Steady' : (a \in Steady => Refreshed(a)) => Refreshed(a)'
    BY <1>11
  <2>3. \A a \in Steady' : (a \in Steady => Refreshed(a) \/ state[a] = file[a])
                             => Refreshed(a)' \/ state'[a] = file'[a]
    BY <1>12
  <2> QED
    BY <1>1, <1>9, <1>10, <2>1, <2>2, <2>3, RefreshGoesOn
<1>14. ASSUME NEW a \in Steady'
       PROVE  /\ Within(state'[a], sinceRefresh + A)
              /\ Within(file'[a], sinceRefresh + A + Refresh)
              /\ Within(file'[a], sinceRefresh + A)
  <2>1. Within(state'[a], sinceRefresh + A)
    <3>1. CASE a = b
      BY <1>5, <1>7, <1>8, <3>1 DEF Within
    <3>2. CASE a # b
      BY <1>5, <1>6, <1>7, <3>2 DEF Aging
    <3> QED
      BY <3>1, <3>2
  <2>2. state'[a] = NoEntry \/ state'[a].age \in Nat
    BY <1>6, ForgottenNat DEF MemoryTypes, Entries
  <2> QED
    BY <1>5, <1>6, <1>7, <1>8, <2>1, <2>2 DEF Within
<1>15. Aging' /\ DownIdle'
  BY <1>1, <1>7, <1>8, <1>13, <1>14, ContinueAges
<1> QED
  BY <1>9, <1>10, <1>13, <1>15

\* A feed that fails may be an interval older, in the file and in memory.
LEMMA FailAges ==
    ASSUME TickTypes, OwnerTypes, MemoryTypes, MemoryTypes', RefreshInv, NEW t \in Ticks, Fails(t)
    PROVE  RefreshInv'
<1> USE DEF RefreshInv
<1>1. /\ ticks[t].at \in {"read", "send", "save"} /\ Continue(t) /\ t \in InFlight
      /\ UNCHANGED <<loaded, feeds, file, lapsed>> /\ disturbances' = disturbances + 1
  BY DEF Fails, contractVars, Disturb, InFlight, TickTypes, Reads, Sends
<1>2. PICK b \in Assets : b = FeedOf(t) /\ b \in {Feeds[i] : i \in Indices}
  BY <1>1, InFlightFeed DEF FeedOf
<1>3. /\ state'[b] = state[b] \/ state'[b].age = 0
      /\ \A a \in Assets : a # b => state'[a] = state[a]
  <2>1. CASE state' = state
    BY <2>1
  <2>2. CASE state' = Sent(t)
    <3>1. PICK e : e.age = 0 /\ state' = [state EXCEPT ![b] = e]
      BY <1>2, <2>2 DEF Sent
    <3> QED
      BY <3>1 DEF MemoryTypes, Entries
  <2> QED
    BY <2>1, <2>2 DEF Fails
<1>4. Steady' = Steady /\ Steady \subseteq Assets
  BY <1>1 DEF Steady
<1>5. PICK A, B \in Nat : A = Allowed /\ B = Allowed' /\ A >= Refresh /\ B = A + Refresh
  BY <1>1, AllowedSteps, OracleAssumption DEF OwnerTypes
<1>6. /\ Refresh \in Nat \ {0} /\ sinceRefresh \in Nat /\ sinceRefresh <= Refresh
      /\ up # "down" /\ up' # "down"
  BY <1>1, BroadcasterAssumption DEF MemoryTypes, DownIdle, Continue
<1>7. SteadyLoaded' /\ OnlyFeedsSaved'
  BY <1>1, <1>2, <1>3, <1>4, <1>6 DEF SteadyLoaded, OnlyFeedsSaved, Registered
<1>8. ASSUME NEW a \in Steady
      PROVE  /\ Within(state[a], sinceRefresh + A)
             /\ Within(file[a], sinceRefresh + A + Refresh)
             /\ state[a].age \in Nat /\ file[a].age \in Nat
  BY <1>4, <1>5, EntryAges DEF Aging
<1>9. ASSUME NEW a \in Steady, a = b \/ Refreshed(a)
      PROVE  Within(state'[a], B) /\ Within(file[a], B + Refresh)
  <2>1. CASE a = b
    BY <1>3, <1>5, <1>6, <1>8, <2>1 DEF Within
  <2>2. CASE a # b
    <3>1. Within(state[a], A) /\ Within(file[a], A + Refresh) /\ state'[a] = state[a]
      BY <1>3, <1>4, <1>5, <1>9, <2>2 DEF Refreshed
    <3> QED
      BY <1>5, <1>6, <1>8, <3>1 DEF Within
  <2> QED
    BY <2>1, <2>2
<1>10. ASSUME NEW a \in Steady', a = b \/ Refreshed(a)
       PROVE  Refreshed(a)'
  BY <1>1, <1>4, <1>5, <1>9, <1>10 DEF Refreshed
<1>11. /\ RefreshUnderWay'
       /\ sinceRefresh' = sinceRefresh \/ \A a \in Steady' : Refreshed(a)'
  <2>1. \A a \in Steady' : ticks[t].mode = "full" /\ a = FeedOf(t) => Refreshed(a)'
    BY <1>2, <1>10
  <2>2. \A a \in Steady' : (a \in Steady => Refreshed(a)) => Refreshed(a)'
    BY <1>4, <1>10
  <2>3. \A a \in Steady' : (a \in Steady => Refreshed(a) \/ state[a] = file[a])
                             => Refreshed(a)' \/ state'[a] = file'[a]
    <3>1. ASSUME NEW a \in Steady', a # b, state[a] = file[a]
          PROVE  state'[a] = file'[a]
      BY <1>1, <1>3, <1>4, <3>1
    <3> QED
      BY <1>4, <1>10, <3>1
  <2> QED
    BY <1>1, <1>7, <2>1, <2>2, <2>3, RefreshGoesOn
<1>12. ASSUME NEW a \in Steady
       PROVE  /\ Within(state'[a], sinceRefresh + B)
              /\ Within(file[a], sinceRefresh + B + Refresh)
              /\ Within(file[a], sinceRefresh + B)
  <2>1. Within(state'[a], sinceRefresh + B)
    <3>1. CASE state'[a] = state[a]
      BY <1>5, <1>6, <1>8, <3>1 DEF Within
    <3>2. CASE state'[a].age = 0
      BY <1>5, <1>6, <3>2 DEF Within
    <3> QED
      BY <1>3, <1>4, <3>1, <3>2
  <2> QED
    BY <1>5, <1>6, <1>8, <2>1 DEF Within
<1>13. Aging' /\ DownIdle'
  BY <1>1, <1>4, <1>5, <1>6, <1>11, <1>12, ContinueAges
<1> QED
  BY <1>7, <1>11, <1>13

\* The first refresh compares with the file.
LEMMA BootAges ==
    ASSUME FeedTypes, MemoryTypes, RefreshInv, NEW t \in Ticks, Boot(t)
    PROVE  RefreshInv'
<1> USE DEF RefreshInv
<1>1. /\ up = "down" /\ up' = "boot" /\ loaded' = feeds /\ state' = file
      /\ UNCHANGED <<feeds, file, sinceRefresh, lapsed, disturbances>>
  BY DEF Boot, oracleVars, contractVars
<1>2. Steady' = Steady /\ Allowed' = Allowed /\ Steady \subseteq Assets
  BY <1>1 DEF Steady, Allowed
<1>3. PICK n : n = Handling(feeds, "full", 0)
  OBVIOUS
<1>4. n \in {Done} \cup Reads
  BY <1>3, HandlingTypes DEF Modes
<1>5. n # Done => \A j \in (0 + 1)..(n.i - 1) : feeds[Feeds[j]] = Unset
  <2>1. Handling(feeds, "full", 0) # Done =>
            \A j \in (0 + 1)..(Handling(feeds, "full", 0).i - 1) : feeds[Feeds[j]] = Unset
    BY HandlingTypes DEF Modes
  <2> QED
    BY <1>3, <2>1, Zenon
<1>6. ticks' = [u \in Ticks |-> IF u = t THEN n ELSE Idle]
  BY <1>3 DEF Boot
<1>7. \A a \in Steady : feeds[a] # Unset
  BY DEF SteadyLoaded, Registered
<1>8. SteadyLoaded' /\ OnlyFeedsSaved' /\ DownIdle'
  BY <1>1, <1>2, <1>7 DEF SteadyLoaded, OnlyFeedsSaved, DownIdle, Registered
<1>9. Aging'
  <2>1. \A a \in Steady : Within(file[a], sinceRefresh + Allowed)
    BY <1>1 DEF Aging
  <2> QED
    BY <1>1, <1>2, <2>1 DEF Aging
<1>10. ASSUME NEW u \in InFlight', NEW j \in Indices, j < ticks'[u].i, Feeds[j] \in Steady
       PROVE  FALSE
  <2>1. u = t /\ ticks'[u] = n /\ n # Done
    BY <1>6, <1>10 DEF InFlight
  <2>2. n.i \in Indices /\ j < n.i
    BY <1>4, <1>10, <2>1 DEF Reads
  <2>3. j \in (0 + 1)..(n.i - 1)
    BY <2>2 DEF Indices
  <2> QED
    BY <1>5, <1>7, <1>10, <2>1, <2>3
<1>11. RefreshUnderWay'
  BY <1>1, <1>2, <1>10 DEF RefreshUnderWay
<1> QED
  BY <1>8, <1>9, <1>11

\* A tick that starts, a reading that is sent, a send that is saved.
LEMMA TickStartAges ==
    ASSUME TickTypes, MemoryTypes, RefreshInv, NEW t \in Ticks, TickStarts(t)
    PROVE  RefreshInv'
<1>1. PICK mode \in Modes : mode = IF RefreshDue THEN "full" ELSE "check"
  BY DEF Modes
<1>2. PICK n : n = Handling(loaded, mode, 0)
  OBVIOUS
<1>3. n \in {Done} \cup Reads
  BY <1>2, HandlingTypes
<1>4. n # Done => n.mode = mode /\ \A j \in (0 + 1)..(n.i - 1) : loaded[Feeds[j]] = Unset
  <2>1. Handling(loaded, mode, 0) # Done =>
            /\ Handling(loaded, mode, 0).mode = mode
            /\ \A j \in (0 + 1)..(Handling(loaded, mode, 0).i - 1) : loaded[Feeds[j]] = Unset
    BY HandlingTypes
  <2> QED
    BY <1>2, <2>1, Zenon
<1>5. /\ ticks' = [ticks EXCEPT ![t] = n] /\ up # "down"
      /\ UNCHANGED <<up, loaded, state, file, sinceRefresh, lapsed, feeds, disturbances>>
  BY <1>1, <1>2 DEF TickStarts, oracleVars, contractVars
<1>6. ASSUME n # Done, n.mode = "full"
      PROVE  /\ sinceRefresh = Refresh
             /\ \A j \in Indices : j < n.i => Feeds[j] \notin Steady
  <2>1. RefreshDue
    BY <1>1, <1>4, <1>6
  <2>2. sinceRefresh = Refresh
    BY <2>1, BroadcasterAssumption DEF RefreshDue, MemoryTypes
  <2>3. \A a \in Steady : loaded[a] # Unset
    BY <1>5 DEF RefreshInv, SteadyLoaded
  <2>4. n.i \in Indices
    BY <1>3, <1>6 DEF Reads
  <2>5. \A j \in Indices : j < n.i => j \in (0 + 1)..(n.i - 1)
    BY <2>4 DEF Indices
  <2> QED
    BY <1>4, <1>6, <2>2, <2>3, <2>5
<1> QED
  BY <1>5, <1>6, TickGoesOn

\* What a tick in flight has left behind stays so while it handles its feed.
LEMMA StageAges ==
    ASSUME TickTypes, RefreshInv, NEW t \in InFlight,
           UNCHANGED <<up, loaded, state, file, sinceRefresh, lapsed, feeds, disturbances>>,
           NEW n, n.mode = ticks[t].mode, n.i = ticks[t].i, ticks' = [ticks EXCEPT ![t] = n]
    PROVE  RefreshInv'
<1>1. t \in Ticks /\ up # "down"
  BY DEF InFlight, RefreshInv, DownIdle
<1>2. n.mode = "full" =>
          /\ \/ sinceRefresh = Refresh
             \/ \A a \in Steady : Refreshed(a) \/ state[a] = file[a]
          /\ \A j \in Indices : j < n.i /\ Feeds[j] \in Steady => Refreshed(Feeds[j])
  BY DEF RefreshInv, RefreshUnderWay
<1> QED
  BY <1>1, <1>2, TickGoesOn

\* A refresh passes over what was written within the interval.
LEMMA ReadAges ==
    ASSUME TickTypes, OwnerTypes, MemoryTypes, MemoryTypes', RefreshInv, NEW t \in Ticks, Read(t)
    PROVE  RefreshInv'
<1>1. /\ ticks[t].at = "read"
      /\ UNCHANGED <<loaded, state, file, lapsed, feeds, disturbances>>
  BY DEF Read, oracleVars, contractVars
<1>2. t \in InFlight /\ FeedOf(t) \in Assets
  BY <1>1, InFlightFeed
<1>3. PICK current : current = rate[loaded[FeedOf(t)]]
  OBVIOUS
<1>4. CASE WorthSending(t, current)
  <2>1. PICK n : n = [at |-> "send", mode |-> ticks[t].mode, i |-> ticks[t].i, value |-> current]
    OBVIOUS
  <2>2. ticks' = [ticks EXCEPT ![t] = n] /\ UNCHANGED <<up, sinceRefresh>>
    BY <1>3, <1>4, <2>1 DEF Read
  <2>3. n.mode = ticks[t].mode /\ n.i = ticks[t].i
    BY <2>1
  <2> QED
    BY <1>1, <1>2, <2>2, <2>3, StageAges
<1>5. CASE ~WorthSending(t, current)
  <2>1. Continue(t)
    BY <1>3, <1>5 DEF Read
  <2>2. ASSUME ticks[t].mode = "full", FeedOf(t) \in Steady
        PROVE  Refreshed(FeedOf(t))
    <3>1. PICK a \in Steady : a = FeedOf(t)
      BY <2>2
    <3>2. PICK A \in Nat : A = Allowed /\ A >= Refresh
      BY <1>1, AllowedSteps, OracleAssumption DEF OwnerTypes
    <3>3. /\ state[a].age \in Nat /\ file[a].age \in Nat
          /\ sinceRefresh \in Nat /\ sinceRefresh <= Refresh /\ Refresh \in Nat \ {0}
      BY <1>2, <3>1, EntryAges
    <3>4. state[a].age < Refresh
      BY <1>5, <2>2, <3>1, <3>3 DEF WorthSending
    <3>5. Within(state[a], A)
      BY <3>2, <3>3, <3>4 DEF Within
    <3>6. CASE Refreshed(a) \/ state[a] = file[a]
      BY <3>1, <3>2, <3>3, <3>4, <3>5, <3>6 DEF Refreshed, Within
    <3>7. CASE sinceRefresh = Refresh
      <4>1. Within(file[a], sinceRefresh + A)
        BY <3>2, <3>3, <3>4, <3>7 DEF RefreshInv, Aging
      <4> QED
        BY <3>1, <3>2, <3>3, <3>5, <3>7, <4>1 DEF Refreshed, Within
    <3> QED
      BY <1>2, <2>2, <3>6, <3>7 DEF RefreshInv, RefreshUnderWay
  <2> QED
    BY <1>1, <2>1, <2>2, SkipAges
<1> QED
  BY <1>4, <1>5

\* A steady feed has a source, so its send goes through.
LEMMA SendAges ==
    ASSUME TickTypes, OwnerTypes, MemoryTypes, MemoryTypes', RefreshInv, NEW t \in Ticks, Send(t)
    PROVE  RefreshInv'
<1>1. /\ ticks[t].at = "send"
      /\ UNCHANGED <<loaded, state, file, lapsed, feeds, disturbances>>
  BY DEF Send
<1>2. t \in InFlight
  BY <1>1, InFlightFeed
<1>3. CASE Registered(FeedOf(t))
  <2>1. PICK n : n = [at |-> "save", mode |-> ticks[t].mode, i |-> ticks[t].i,
                      value |-> ticks[t].value]
    OBVIOUS
  <2>2. ticks' = [ticks EXCEPT ![t] = n] /\ UNCHANGED <<up, sinceRefresh>>
    BY <1>3, <2>1 DEF Send
  <2>3. n.mode = ticks[t].mode /\ n.i = ticks[t].i
    BY <2>1
  <2> QED
    BY <1>1, <1>2, <2>2, <2>3, StageAges
<1>4. CASE ~Registered(FeedOf(t))
  <2>1. Continue(t)
    BY <1>4 DEF Send
  <2>2. FeedOf(t) \notin Steady
    BY <1>4 DEF RefreshInv, SteadyLoaded
  <2> QED
    BY <1>1, <2>1, <2>2, SkipAges
<1> QED
  BY <1>3, <1>4

\* No tick dies with an entry older than a disturbance allows for.
LEMMA CrashAges ==
    ASSUME OwnerTypes, MemoryTypes, RefreshInv, Crash
    PROVE  RefreshInv'
<1> USE DEF RefreshInv
<1>1. /\ up' = "down" /\ ticks' = [t \in Ticks |-> Idle]
      /\ UNCHANGED <<feeds, loaded, state, file, sinceRefresh, lapsed>>
      /\ disturbances' = disturbances + 1
  BY DEF Crash, Disturb, contractVars
<1>2. Steady' = Steady /\ Steady \subseteq Assets
  BY <1>1 DEF Steady
<1>3. InFlight' = {}
  BY <1>1 DEF InFlight
<1>4. PICK A, B \in Nat : A = Allowed /\ B = Allowed' /\ B = A + Refresh
  BY <1>1, AllowedSteps, OracleAssumption DEF OwnerTypes
<1>5. ASSUME NEW a \in Steady
      PROVE  /\ Within(state[a], sinceRefresh + B)
             /\ Within(file[a], sinceRefresh + B + Refresh)
             /\ Within(file[a], sinceRefresh + B)
  <2>1. Within(state[a], sinceRefresh + A) /\ Within(file[a], sinceRefresh + A + Refresh)
    BY <1>4 DEF Aging
  <2> QED
    BY <1>2, <1>4, <2>1, EntryAges DEF Within
<1>6. Aging'
  BY <1>1, <1>2, <1>4, <1>5 DEF Aging
<1> QED
  BY <1>1, <1>2, <1>3, <1>6 DEF RefreshUnderWay, SteadyLoaded, OnlyFeedsSaved, DownIdle, Registered

\* A unit of time makes every entry a unit older, and the interval too.
LEMMA TimeAges ==
    ASSUME OwnerTypes, MemoryTypes, RefreshInv, Time
    PROVE  RefreshInv'
<1> USE DEF RefreshInv
<1>1. /\ up # "down" /\ up' = up /\ ticks' = [t \in Ticks |-> Idle]
      /\ sinceRefresh' = sinceRefresh + 1 /\ sinceRefresh < Refresh
      /\ UNCHANGED <<loaded, lapsed, feeds>>
      /\ disturbances' \in {disturbances, disturbances + 1}
  <2>1. sinceRefresh < Refresh
    BY BroadcasterAssumption DEF Time, RefreshDue, MemoryTypes
  <2> QED
    BY <2>1 DEF Time, TimePasses, Disturb
<1>2. Steady' = Steady /\ Steady \subseteq Assets
  BY <1>1 DEF Steady
<1>3. InFlight' = {}
  BY <1>1 DEF InFlight
<1>4. PICK A, B \in Nat : A = Allowed /\ B = Allowed' /\ A <= B
  <2>1. disturbances \in Nat /\ Refresh \in Nat
    BY OracleAssumption, BroadcasterAssumption DEF OwnerTypes
  <2> QED
    BY <1>1, <2>1, AllowedSteps
<1>5. Forgotten \in Nat /\ Refresh \in Nat \ {0} /\ sinceRefresh \in Nat /\ Forgotten > Refresh
  <2>1. PICK n \in Nat : n = MaxDisturbances /\ Refresh \in Nat \ {0}
    BY OracleAssumption, BroadcasterAssumption
  <2>2. \A m, r \in Nat : (2 + m) * r = r + (1 + m) * r /\ (1 + m) * r \in Nat
    OBVIOUS
  <2>3. (2 + n) * Refresh = Refresh + (1 + n) * Refresh /\ (1 + n) * Refresh \in Nat
    BY <2>1, <2>2
  <2>4. Forgotten = (2 + n) * Refresh + 1
    BY <2>1 DEF Forgotten
  <2> QED
    BY <2>1, <2>3, <2>4 DEF MemoryTypes
<1>6. ASSUME NEW entry \in [value : Rates \cup {0}, age : 0..Forgotten], NEW after,
             after = [entry EXCEPT !.age = Grown(@)]
      PROVE  /\ entry = NoEntry => after = NoEntry
             /\ after.age \in Nat /\ entry.age \in Nat
             /\ after.age <= entry.age + 1
             /\ entry.age >= sinceRefresh => after.age >= sinceRefresh + 1
  <2>1. after = [value |-> entry.value, age |-> Grown(entry.age)]
    BY <1>6
  <2>2. entry.age \in 0..Forgotten
    BY <1>6
  <2>3. entry = NoEntry => after = NoEntry
    BY <1>5, <1>6, <2>1 DEF NoEntry, Grown
  <2> QED
    BY <1>1, <1>5, <2>1, <2>2, <2>3 DEF Grown
<1>7. ASSUME NEW a \in Assets
      PROVE  /\ state[a] = NoEntry => state'[a] = NoEntry
             /\ file[a] = NoEntry => file'[a] = NoEntry
             /\ {state[a].age, state'[a].age, file[a].age, file'[a].age} \subseteq Nat
             /\ state'[a].age <= state[a].age + 1 /\ file'[a].age <= file[a].age + 1
             /\ state[a].age >= sinceRefresh => state'[a].age >= sinceRefresh + 1
  <2>1. /\ state'[a] = [state[a] EXCEPT !.age = Grown(@)]
        /\ file'[a] = [file[a] EXCEPT !.age = Grown(@)]
    BY DEF Time
  <2>2. /\ state[a] \in [value : Rates \cup {0}, age : 0..Forgotten]
        /\ file[a] \in [value : Rates \cup {0}, age : 0..Forgotten]
    BY DEF MemoryTypes, Entries
  <2> QED
    BY <1>6, <2>1, <2>2
<1>8. ASSUME NEW a \in Steady
      PROVE  /\ Within(state'[a], sinceRefresh + 1 + B)
             /\ Within(file'[a], sinceRefresh + 1 + B + Refresh)
             /\ \/ state'[a].age >= sinceRefresh + 1
                \/ Within(file'[a], sinceRefresh + 1 + B)
  <2>1. /\ Within(state[a], sinceRefresh + A)
        /\ Within(file[a], sinceRefresh + A + Refresh)
        /\ state[a].age >= sinceRefresh \/ Within(file[a], sinceRefresh + A)
    BY <1>4 DEF Aging
  <2> QED
    BY <1>2, <1>4, <1>5, <1>7, <2>1 DEF Within
<1>9. Aging'
  BY <1>1, <1>2, <1>4, <1>8 DEF Aging
<1>10. OnlyFeedsSaved'
  BY <1>7 DEF OnlyFeedsSaved
<1> QED
  BY <1>1, <1>2, <1>3, <1>9, <1>10 DEF RefreshUnderWay, SteadyLoaded, DownIdle, Registered

LEMMA RefreshStep ==
    ASSUME FeedTypes, TickTypes, OwnerTypes, MemoryTypes, RefreshInv, [Next]_vars
    PROVE  RefreshInv'
<1>1. MemoryTypes'
  BY MemoryTypesStep
<1>2. ASSUME NEW t \in Ticks, Boot(t) \/ TickStarts(t) \/ TickStep(t) \/ Fails(t)
      PROVE  RefreshInv'
  BY <1>1, <1>2, BootAges, TickStartAges, ReadAges, SendAges, SaveAges, FailAges DEF TickStep
<1>3. CASE Crash
  BY <1>3, CrashAges
<1>4. CASE Time
  BY <1>4, TimeAges
<1>5. CASE OwnerMoves
  <2>1. disturbances' = disturbances + 1
    BY <1>5 DEF OwnerMoves, Owner, SetOracle, RegisterFeed, SetMaxPriceAge,
                SetAuthorizedEmitter, Disturb
  <2>2. /\ UNCHANGED agentVars /\ lapsed \subseteq lapsed'
        /\ \A a \in Assets \ lapsed' : feeds'[a] # Unset
    BY <1>5 DEF OwnerMoves
  <2> QED
    BY <2>1, <2>2, OthersAge
<1>6. CASE \/ Delivers \/ UNCHANGED vars
           \/ \E a \in Assets : AnyoneSends(a)
           \/ \E s \in Sources, r \in Rates : SourceMoves(s, r) /\ UNCHANGED <<agentVars, lapsed>>
  <2>1. UNCHANGED <<agentVars, lapsed, feeds>> /\ disturbances' \in {disturbances, disturbances + 1}
    <3>1. CASE UNCHANGED vars
      BY <3>1 DEF vars, oracleVars, contractVars
    <3>2. CASE Delivers
      BY <3>2 DEF Delivers, ReceiveMessage
    <3>3. CASE \E a \in Assets : AnyoneSends(a)
      BY <3>3 DEF AnyoneSends, Disturb
    <3>4. CASE \E s \in Sources, r \in Rates : SourceMoves(s, r) /\ UNCHANGED <<agentVars, lapsed>>
      BY <3>4 DEF SourceMoves, contractVars
    <3> QED
      BY <1>6, <3>1, <3>2, <3>3, <3>4
  <2>2. \A a \in Assets \ lapsed' : feeds'[a] # Unset
    BY <2>1 DEF RefreshInv, SteadyLoaded, Steady, Registered
  <2> QED
    BY <2>1, <2>2, OthersAge
<1> QED
  BY <1>2, <1>3, <1>4, <1>5, <1>6 DEF Next

\* No feed with a source goes without a send for two refresh intervals, and
\* one more for each disturbance, whatever ticks overlap, fail or die.
THEOREM RefreshedInTimeAlways == Spec => []RefreshedInTime
<1> DEFINE Inv == FeedInv /\ OwnerTypes /\ MemoryTypes /\ RefreshInv
<1>1. Init => Inv
  <2>1. Init => OwnerTypes /\ MemoryTypes
    BY OracleAssumption, ForgottenNat, BroadcasterAssumption
       DEF Init, OracleInit, OwnerTypes, MemoryTypes, NoEntry, Entries
  <2>2. Init => RefreshInv
    BY DEF Init, OracleInit, RefreshInv, Aging, RefreshUnderWay, SteadyLoaded, OnlyFeedsSaved,
           DownIdle, InFlight, Steady, Within, Registered
  <2> QED
    BY <2>1, <2>2, FeedInit
<1>2. Inv /\ [Next]_vars => Inv'
  BY FeedStep, OwnerTypesStep, MemoryTypesStep, RefreshStep DEF FeedInv
<1>3. Inv => RefreshedInTime
  <2>1. ASSUME Inv, NEW a \in Assets \ lapsed, state[a] # NoEntry
        PROVE  state[a].age < (2 + disturbances) * Refresh
    <3>1. PICK d \in Nat : d = disturbances
      BY <2>1, OracleAssumption DEF OwnerTypes
    <3>2. \A m, r \in Nat : (2 + m) * r = (1 + m) * r + r /\ (1 + m) * r \in Nat
      OBVIOUS
    <3>3. PICK A \in Nat : A = (1 + d) * Refresh /\ (2 + d) * Refresh = A + Refresh
      BY <3>2, BroadcasterAssumption
    <3>4. state[a].age < sinceRefresh + A
      BY <2>1, <3>1, <3>3 DEF RefreshInv, Aging, Steady, Within, Allowed
    <3>5. state[a].age \in Nat /\ sinceRefresh \in Nat /\ sinceRefresh <= Refresh
      BY <2>1, EntryAges
    <3> QED
      BY <3>1, <3>3, <3>4, <3>5, BroadcasterAssumption
  <2> QED
    BY <2>1 DEF RefreshedInTime
<1> HIDE DEF Inv
<1> QED
  BY <1>1, <1>2, <1>3, PTL DEF Spec
=============================================================================
