----------------------------- MODULE Broadcaster -----------------------------
(* The agent that has the emitters publish: it compares what each source     *)
(* says with what it last sent, and sends every feed again when its last     *)
(* send is a refresh interval old.  A timer starts ticks whether or not the  *)
(* last one has ended, so ticks overlap; what was sent is kept in a file     *)
(* that the next start reads.                                                *)
EXTENDS OracleFeed, Sequences

CONSTANTS Feeds,       \* the assets in the order the agent goes through them
          Threshold,   \* change that is worth sending, in basis points
          Refresh,     \* fullRefreshMs, in units of time
          Ticks        \* bound: ticks of one unit of time, which may overlap

ASSUME BroadcasterAssumption ==
    /\ Feeds \in Seq(Assets) /\ Threshold \in Nat
    /\ Refresh \in Nat \ {0} /\ Ticks # {}

VARIABLES up,            \* "down", "boot" while the first refresh runs, "running"
          loaded,        \* the feeds as loadFeeds found them: their source
          state, file,   \* what was last sent, in memory and on disk
          sinceRefresh,  \* how long ago the last full refresh began
          ticks,
          lapsed         \* history: the feeds without a source at some time since
                         \* they were last saved
agentVars == <<up, loaded, state, file, sinceRefresh, ticks>>
vars == <<oracleVars, agentVars, lapsed>>

(* Bound: ages of entries are told apart up to here. *)
Forgotten == (2 + MaxDisturbances) * Refresh + 1
Grown(age) == IF age < Forgotten THEN age + 1 ELSE Forgotten
(* A feed with no entry: any value is a change, and its refresh is due. *)
NoEntry == [value |-> 0, age |-> Forgotten]

(* A tick that has not started in this unit of time, and one that has ended. *)
Idle == [at |-> "idle"]
Done == [at |-> "done"]
InFlight == {t \in Ticks : ticks[t] \notin {Idle, Done}}

(* The loop over the loaded feeds; a tick of either kind ends after the last.*)
After(sources, i) == {j \in (i + 1)..Len(Feeds) : sources[Feeds[j]] # Unset}
Handling(sources, mode, i) ==
    IF After(sources, i) = {} THEN Done
    ELSE [at |-> "read", mode |-> mode,
          i |-> CHOOSE j \in After(sources, i) : \A k \in After(sources, i) : j <= k]
FeedOf(t) == Feeds[ticks[t].i]
Last(t) == After(loaded, ticks[t].i) = {}

(* lastFullRefresh is set when the refresh ends, to the time it began, and   *)
(* the timer starts after the first one.                                     *)
Continue(t) ==
    /\ ticks' = [ticks EXCEPT ![t] = Handling(loaded, @.mode, @.i)]
    /\ sinceRefresh' = IF Last(t) /\ ticks[t].mode = "full" THEN 0 ELSE sinceRefresh
    /\ up' = IF Last(t) THEN "running" ELSE up

(* loadFeeds keeps the sources it finds; the state is what the file says. *)
Boot(t) ==
    /\ up = "down" /\ After(feeds, 0) # {}
    /\ up' = "boot" /\ loaded' = feeds /\ state' = file
    /\ ticks' = [u \in Ticks |-> IF u = t THEN Handling(feeds, "full", 0) ELSE Idle]
    /\ UNCHANGED <<oracleVars, file, sinceRefresh, lapsed>>
Crash ==
    /\ up # "down" /\ Disturb
    /\ up' = "down" /\ ticks' = [t \in Ticks |-> Idle]
    /\ UNCHANGED <<rate, contractVars, said, loaded, state, file, sinceRefresh, lapsed>>

(* Mutant: one interval late. *)
RefreshDueLate == sinceRefresh > Refresh
RefreshDue == sinceRefresh >= Refresh
TickStarts(t) ==
    /\ up = "running" /\ ticks[t] = Idle
    /\ ticks' = [ticks EXCEPT ![t] = Handling(loaded, IF RefreshDue THEN "full" ELSE "check", 0)]
    /\ UNCHANGED <<oracleVars, up, loaded, state, file, sinceRefresh, lapsed>>

(* hasChangedBeyondThreshold *)
Changed(current, last) ==
    \/ last = 0
    \/ (IF current > last THEN current - last ELSE last - current) * 10000 > last * Threshold
(* Mutant: a send of exactly one interval ago is recent enough. *)
WorthSendingLate(t, current) ==
    IF ticks[t].mode = "full" THEN state[FeedOf(t)].age > Refresh
                              ELSE Changed(current, state[FeedOf(t)].value)
(* broadcastAll skips what was sent within the interval, checkAndBroadcast   *)
(* what has not changed.                                                     *)
WorthSending(t, current) ==
    IF ticks[t].mode = "full" THEN state[FeedOf(t)].age >= Refresh
                              ELSE Changed(current, state[FeedOf(t)].value)
(* The value is read at the source that was loaded. *)
Read(t) ==
    /\ ticks[t].at = "read"
    /\ LET current == rate[loaded[FeedOf(t)]]
       IN  IF WorthSending(t, current)
           THEN /\ ticks' = [ticks EXCEPT ![t] = [at |-> "send", mode |-> @.mode,
                                                  i |-> @.i, value |-> current]]
                /\ UNCHANGED <<up, sinceRefresh>>
           ELSE Continue(t)
    /\ UNCHANGED <<oracleVars, loaded, state, file, lapsed>>

(* The emitter reads the source that is registered; without one it reverts. *)
Send(t) ==
    /\ ticks[t].at = "send"
    /\ IF Registered(FeedOf(t))
       THEN /\ Publish(FeedOf(t))
            /\ ticks' = [ticks EXCEPT ![t] = [at |-> "save", mode |-> @.mode,
                                              i |-> @.i, value |-> @.value]]
            /\ UNCHANGED <<up, sinceRefresh>>
       ELSE Continue(t) /\ UNCHANGED vaas
    /\ UNCHANGED <<rate, feeds, latest, oracles, authorized, maxPriceAge, said,
                   disturbances, loaded, state, file, lapsed>>

(* What is kept is the value read before, not the rate published. *)
Sent(t) == [state EXCEPT ![FeedOf(t)] = [value |-> ticks[t].value, age |-> 0]]
Save(t) ==
    /\ ticks[t].at = "save"
    /\ state' = Sent(t) /\ file' = Sent(t)
    /\ lapsed' = IF Registered(FeedOf(t)) THEN lapsed \ {FeedOf(t)} ELSE lapsed
    /\ Continue(t)
    /\ UNCHANGED <<oracleVars, loaded>>

(* A read or a send fails, its receipt is not heard, or the file cannot be   *)
(* written: the error is logged and the next feed is taken.                  *)
Fails(t) ==
    /\ t \in InFlight /\ Disturb
    /\ Continue(t)
    /\ \/ UNCHANGED state
       \/ ticks[t].at = "save" /\ state' = Sent(t)
    /\ UNCHANGED <<rate, contractVars, said, loaded, file, lapsed>>

(* `send` is anyone's to call. *)
AnyoneSends(a) ==
    /\ Publish(a) /\ Disturb
    /\ UNCHANGED <<rate, feeds, latest, oracles, authorized, maxPriceAge, said, agentVars, lapsed>>

(* A tick takes seconds, and a refresh that is due is not put off: a unit of *)
(* time passes between ticks.                                                *)
Time ==
    /\ up = "running" /\ InFlight = {} /\ ~RefreshDue
    /\ TimePasses
    /\ state' = [a \in Assets |-> [state[a] EXCEPT !.age = Grown(@)]]
    /\ file' = [a \in Assets |-> [file[a] EXCEPT !.age = Grown(@)]]
    /\ sinceRefresh' = sinceRefresh + 1
    /\ ticks' = [t \in Ticks |-> Idle]
    /\ UNCHANGED <<up, loaded, lapsed>>

Init ==
    /\ OracleInit
    /\ up = "down" /\ loaded = [a \in Assets |-> Unset]
    /\ state = [a \in Assets |-> NoEntry] /\ file = state
    /\ sinceRefresh = 0 /\ ticks = [t \in Ticks |-> Idle]
    /\ lapsed = {a \in Assets : ~Registered(a)}

OwnerMoves == /\ Owner
              /\ lapsed' = lapsed \cup {a \in Assets : feeds'[a] = Unset}
              /\ UNCHANGED agentVars
Delivers == /\ \E m \in vaas : ReceiveMessage(m)
            /\ UNCHANGED <<agentVars, lapsed>>
TickStep(t) == Read(t) \/ Send(t) \/ Save(t)
Next ==
    \/ \E t \in Ticks : Boot(t) \/ TickStarts(t) \/ TickStep(t) \/ Fails(t)
    \/ Crash \/ Time \/ Delivers
    \/ \E a \in Assets : AnyoneSends(a)
    \/ \E s \in Sources, r \in Rates : SourceMoves(s, r) /\ UNCHANGED <<agentVars, lapsed>>
    \/ OwnerMoves
Spec == Init /\ [][Next]_vars

(* The container restarts the process, its timer and its calls go on,        *)
(* relayers deliver what the receiver takes, and time passes.                *)
FairSpec ==
    /\ Spec
    /\ WF_vars(\E t \in Ticks : Boot(t) \/ TickStarts(t))
    /\ \A t \in Ticks : WF_vars(TickStep(t))
    /\ WF_vars(Delivers) /\ WF_vars(Time)

----------------------------------------------------------------------------
(* Every state is one the contracts and the agent can be in: no message may  *)
(* still be taken whose stamp the receiver has reached.                      *)
TypeOK ==
    /\ rate \in [Sources -> Rates] /\ feeds \in [Assets -> Sources \cup {Unset}]
    /\ vaas \subseteq [asset : Assets, rate : Rates, age : 0..MaxAge]
    /\ latest \in [Assets -> [rate : Rates \cup {0}, age : 0..Ancient]]
    /\ oracles \subseteq Assets /\ authorized \in BOOLEAN /\ maxPriceAge \in MaxPriceAges
    /\ said \in [Assets -> [0..MaxAge -> SUBSET Rates]]
    /\ disturbances \in 0..MaxDisturbances
    /\ up \in {"down", "boot", "running"}
    /\ loaded \in [Assets -> Sources \cup {Unset}]
    /\ \A entries \in {state, file} :
           entries \in [Assets -> [value : Rates \cup {0}, age : 0..Forgotten]]
    /\ sinceRefresh \in 0..Refresh /\ lapsed \subseteq Assets
    /\ \A t \in InFlight : /\ ticks[t].mode \in {"full", "check"}
                           /\ FeedOf(t) \in Assets /\ loaded[FeedOf(t)] # Unset

(* docs/oracle/spec.md, decisions 3 and 7: each price is one its source said *)
(* at the time it is stamped with, and stamps only move forward, whatever    *)
(* the overlapping ticks, the order of delivery, the owner and other callers.*)
Feed == INSTANCE PriceFeed WITH shown <- latest
PricesAreFeeds == Feed!Spec

(* loop.ts, "Publish every feed whose last send is older than the            *)
(* full-refresh window": the windows of the refresh and of a feed's own      *)
(* entry together leave no feed without a send for two intervals; each       *)
(* failed send, crash or unreadable file may cost one more.  A feed that was *)
(* without a source is not counted before it is saved again: its sends       *)
(* revert, once for each refresh.                                            *)
RefreshedInTime ==
    up = "running" =>
        \A a \in Assets \ lapsed :
            state[a] # NoEntry => state[a].age < (2 + disturbances) * Refresh

(* A source that comes to rest is shown in the end, though the value last    *)
(* sent may have been read before another was published, sent by another     *)
(* tick, lost with a crash or refused by the receiver: a refresh repairs it. *)
AtRest(a, r) ==
    /\ Registered(a) /\ loaded[a] = feeds[a] /\ rate[feeds[a]] = r
    /\ a \in oracles /\ authorized
EventuallyCurrent ==
    \A a \in Assets, r \in Rates :
        ScaledPrice(r) > 0 => (<>[]AtRest(a, r) => <>[](latest[a].rate = r))
=============================================================================
