----------------------------- MODULE ScanDrain ------------------------------
(* A reader of the event store, with the Basejump flow it fills: batches     *)
(* merged into one table in one transaction with the reader's cursor, a      *)
(* failed batch retried row by row, a row that keeps failing parked.         *)
EXTENDS EventStore

CONSTANTS
    ReaderChains, \* the reader's chains, in the order it drains them
    Batch,        \* events taken at a time
    RowAttempts,  \* how often a row is tried by itself
    None          \* an absent column

Kinds == {"initiated", "completed", "queued", "fulfilled"}
ASSUME ReaderAssumption ==
    /\ \A l \in Logs : Event[l].kind \in Kinds
    /\ None \notin Logs \union Kinds
    /\ ReaderChains \in Seq(Chains) /\ ReaderChains # <<>>
    /\ Batch \in Nat \ {0} /\ RowAttempts \in Nat \ {0}

(* A queued payout has an id of its own, under which its landing logs the    *)
(* same transfer once more, later, when it is paid.  What was indexed before *)
(* holds no log twice, and no fulfilment without the queueing, unless that   *)
(* is one of the late.                                                       *)
OfPending(l, m) ==
    /\ Event[l].kind = "queued" /\ Event[m].kind = "fulfilled"
    /\ Event[l].pending = Event[m].pending

ASSUME LedgerAssumption ==
    /\ \A c \in Chains : \A l \in ToSet(Ledger[c]) \union ToSet(Indexed[c]) : Event[l].chain = c
    /\ \A l \in Logs : Event[l].kind \in {"queued", "fulfilled"} => Event[l].pending # None
    /\ \A l, m \in Logs : OfPending(l, m) => Event[l].transfer = Event[m].transfer
    /\ \A l, m \in Logs :
           Event[l].kind = "fulfilled" /\ Event[m].kind = "fulfilled" =>
               (Event[l].pending = Event[m].pending => l = m)
    /\ \A c \in Chains : \A i \in DOMAIN Ledger[c] :
           Event[Ledger[c][i]].kind = "fulfilled" =>
               \E j \in 1..(i - 1) : /\ OfPending(Ledger[c][j], Ledger[c][i])
                                    /\ Event[Ledger[c][j]].block <= Event[Ledger[c][i]].block
    /\ \A c \in Chains : \A i, j \in DOMAIN Indexed[c] : Indexed[c][i] = Indexed[c][j] => i = j
    /\ \A c \in Chains : \A i \in DOMAIN Indexed[c] :
           Event[Indexed[c][i]].kind = "fulfilled" =>
               \/ \E j \in 1..(i - 1) : OfPending(Indexed[c][j], Indexed[c][i])
               \/ \E l \in Late : OfPending(l, Indexed[c][i])

VARIABLES
    reader,       \* chain |-> the seq it has read to
    rows,         \* the table basejump_transfers
    dead,         \* events parked
    rebuildAsked,
    drain,        \* where the run is: its chain, its events, the row, its attempt
    commitLost    \* a commit's answer was lost

readerVars == <<reader, rows, dead, rebuildAsked, drain, commitLost>>
vars == <<storeVars, readerVars>>

(* ----- the flow: one row per transfer, merged from its logs -------------- *)

Rank(state) ==
    CASE state = None -> 0 [] state = "initiated" -> 1
      [] state \in {"completed", "queued"} -> 2 [] state = "fulfilled" -> 3

Absent(id) ==
    [id |-> id, state |-> None, transfer |-> None, pending |-> None, initiated |-> None,
     completed |-> None, queued |-> None, fulfilled |-> None]

StateLast(old, new) == new
StateByRank(old, new) == IF Rank(new) > Rank(old) THEN new ELSE old

(* The upsert: what the leg names is written, the rest of the row stays.     *)
Reconcile(table, id, l) ==
    LET e == Event[l]
        prev == {r \in table : r.id = id}
        old == IF prev = {} THEN Absent(id) ELSE CHOOSE r \in prev : TRUE
    IN  (table \ prev) \union
            {[old EXCEPT !.state = StateByRank(@, e.kind), ![e.kind] = l,
                         !.transfer = e.transfer,
                         !.pending = IF e.kind \in {"queued", "fulfilled"} THEN e.pending ELSE @]}

Oldest(block) == CHOOSE r \in DOMAIN block : \A s \in DOMAIN block : block[r] <= block[s]

Orphan(l) == <<"orphan", l>>
IsOrphan(r, kinds) == r.id[1] = "orphan" /\ Event[r.id[2]].kind \in kinds
Delivered(r) == Event[IF r.completed # None THEN r.completed ELSE r.queued].block

(* A source takes over the oldest delivery that found no source.             *)
AdoptNone(table, l) == table
AdoptOrphan(table, l) ==
    LET id == <<"init", l>>
        waiting == {r \in table : /\ IsOrphan(r, {"completed", "queued"})
                                  /\ r.initiated = None /\ r.transfer = Event[l].transfer}
        taken == Oldest([r \in waiting |-> Delivered(r)])
    IN  IF waiting = {} \/ \E r \in table : r.id = id THEN table
        ELSE (table \ {taken}) \union {[taken EXCEPT !.id = id]}

Awaiting(r) == /\ r.initiated # None /\ r.completed = None
               /\ r.queued = None /\ r.fulfilled = None

(* A delivery goes to the oldest source of its transfer still awaiting one.  *)
FindInitiated(table, l) ==
    LET found == {r \in table : Awaiting(r) /\ r.transfer = Event[l].transfer} IN
    IF found = {} THEN Orphan(l) ELSE Oldest([r \in found |-> Event[r.initiated].block]).id

FindPending(table, l) ==
    LET found == {r \in table : r.pending = Event[l].pending /\ r.fulfilled = None} IN
    IF found = {} THEN Orphan(l) ELSE (CHOOSE r \in found : TRUE).id

Key(table, l) ==
    CASE Event[l].kind = "initiated" -> <<"init", l>>
      [] Event[l].kind \in {"completed", "queued"} -> FindInitiated(table, l)
      [] Event[l].kind = "fulfilled" -> FindPending(table, l)

ApplyLog(table, l) ==
    Reconcile(IF Event[l].kind = "initiated" THEN AdoptOrphan(table, l) ELSE table,
              Key(table, l), l)

(* The rows a sequence of logs leaves.                                       *)
Merged(table, logs) ==
    LET after[n \in 0..Len(logs)] ==
            IF n = 0 THEN table ELSE ApplyLog(after[n - 1], logs[n])
    IN  after[Len(logs)]

(* ----- the drain --------------------------------------------------------- *)

Idle == [at |-> "idle", k |-> 1, first |-> 0, last |-> 0, row |-> 0, attempt |-> 0]
Reading(k) == IF k > Len(ReaderChains) THEN Idle ELSE [Idle EXCEPT !.at = "take", !.k = k]
Here == ReaderChains[drain.k]

Row(i) == [drain EXCEPT !.at = "row", !.row = i, !.attempt = 1]
NextRow == IF drain.row = drain.last THEN Reading(drain.k) ELSE Row(drain.row + 1)

Unread == rebuildAsked \/ \E c \in Chains : reader[c] < Len(stored[c])

RunStarts ==
    /\ drain = Idle
    /\ Unread
    /\ drain' = Reading(1)
    /\ UNCHANGED storeVars
    /\ UNCHANGED commitLost
    /\ IF rebuildAsked
         THEN /\ rebuildAsked' = FALSE /\ rows' = {} /\ dead' = {}
              /\ reader' = [c \in Chains |-> 0]
         ELSE UNCHANGED <<reader, rows, dead, rebuildAsked>>

(* A rebuild that fails is logged, and the run goes on without it.           *)
RebuildFails ==
    /\ drain = Idle /\ rebuildAsked
    /\ Disturb
    /\ drain' = Reading(1)
    /\ UNCHANGED <<head, stored, cursor, rewinds, watcher>>
    /\ UNCHANGED <<reader, rows, dead, rebuildAsked, commitLost>>

TakeEvents ==
    LET from == reader[Here]
        all == Len(stored[Here])
        to == IF from + Batch < all THEN from + Batch ELSE all
    IN  /\ drain.at = "take"
        /\ drain' = IF from = all THEN Reading(drain.k + 1)
                    ELSE [drain EXCEPT !.at = "batch", !.first = from + 1, !.last = to]
        /\ UNCHANGED storeVars
        /\ UNCHANGED <<reader, rows, dead, rebuildAsked, commitLost>>

(* The transaction of the events from first to last: merged and read past,   *)
(* or none of it.  A commit whose answer is lost looks like a rollback.      *)
ApplyBatch(first, last, done, failed) ==
    LET events == SubSeq(stored[Here], first, last)
        fails == \E l \in ToSet(events) : Event[l].bad
        Commits == /\ ~fails
                   /\ rows' = Merged(rows, events)
                   /\ reader' = [reader EXCEPT ![Here] = last]
    IN  /\ UNCHANGED <<head, stored, cursor, rewinds, watcher>>
        /\ UNCHANGED <<dead, rebuildAsked>>
        /\ \/ Commits /\ drain' = done /\ UNCHANGED <<disturbances, commitLost>>
           \/ Commits /\ drain' = failed /\ Disturb /\ commitLost' = TRUE
           \/ /\ IF fails THEN UNCHANGED disturbances ELSE Disturb
              /\ drain' = failed
              /\ UNCHANGED <<reader, rows, commitLost>>

BatchTried ==
    /\ drain.at = "batch"
    /\ ApplyBatch(drain.first, drain.last, Reading(drain.k), Row(drain.first))

RowTried ==
    /\ drain.at = "row"
    /\ ApplyBatch(drain.row, drain.row, NextRow,
            IF drain.attempt < RowAttempts THEN [drain EXCEPT !.attempt = @ + 1]
            ELSE [drain EXCEPT !.at = "park"])

DeadLetter ==
    /\ drain.at = "park"
    /\ dead' = dead \union {stored[Here][drain.row]}
    /\ drain' = [drain EXCEPT !.at = "parked"]
    /\ UNCHANGED storeVars
    /\ UNCHANGED <<reader, rows, rebuildAsked, commitLost>>

(* Past the parked row, in a statement of its own.                           *)
StepOverBatch == reader' = [reader EXCEPT ![Here] = drain.last]
StepOver == reader' = [reader EXCEPT ![Here] = drain.row]

Parked ==
    /\ drain.at = "parked"
    /\ StepOver
    /\ drain' = NextRow
    /\ UNCHANGED storeVars
    /\ UNCHANGED <<rows, dead, rebuildAsked, commitLost>>

(* A read, the connection of a transaction, or the writes about a parked row *)
(* fail: on to the next chain.                                               *)
ChainFails ==
    /\ drain.at \in {"take", "batch", "row", "park", "parked"}
    /\ Disturb
    /\ drain' = Reading(drain.k + 1)
    /\ UNCHANGED <<head, stored, cursor, rewinds, watcher>>
    /\ UNCHANGED <<reader, rows, dead, rebuildAsked, commitLost>>

ReaderCrash ==
    /\ drain # Idle
    /\ Disturb
    /\ drain' = Idle
    /\ UNCHANGED <<head, stored, cursor, rewinds, watcher>>
    /\ UNCHANGED <<reader, rows, dead, rebuildAsked, commitLost>>

AsksRebuild ==
    /\ ~rebuildAsked
    /\ Disturb
    /\ rebuildAsked' = TRUE
    /\ UNCHANGED <<head, stored, cursor, rewinds, watcher>>
    /\ UNCHANGED <<reader, rows, dead, drain, commitLost>>

Init ==
    /\ StoreInit
    /\ reader = [c \in Chains |-> 0]
    /\ rows = {} /\ dead = {}
    /\ rebuildAsked = FALSE /\ commitLost = FALSE
    /\ drain = Idle

Drain == RunStarts \/ TakeEvents \/ BatchTried \/ RowTried \/ DeadLetter \/ Parked

Next ==
    \/ StoreNext /\ UNCHANGED readerVars
    \/ Drain \/ RebuildFails \/ ChainFails \/ ReaderCrash \/ AsksRebuild

(* The watchers' sweeps and the drain's interval come round; failures and    *)
(* requests may or may not.  Weak fairness of Drain and of each Watch, with  *)
(* ENABLED written out: the drain can move while it is busy or has something *)
(* to read, a watcher while it ticks or has a rewind or a block before it.   *)
Spec == Init /\ [][Next]_vars
FairSpec ==
    /\ Spec
    /\ []<>(drain = Idle /\ ~Unread) \/ []<><<Drain>>_vars
    /\ \A c \in Chains :
        \/ []<>(~watcher[c].on /\ rewinds[c] = 0 /\ head[c] <= cursor[c])
        \/ []<><<Watch(c) /\ UNCHANGED readerVars>>_vars

(* ----- properties -------------------------------------------------------- *)

(* Cursors stay behind what is final and what is stored, and a run is at an  *)
(* event the store has (flow/drain.ts, db.ts).                               *)
TypeOK ==
    /\ \A c \in Chains : cursor[c] <= head[c] /\ reader[c] <= Len(stored[c])
    /\ dead \subseteq Logs
    /\ \A r \in rows : DOMAIN r = DOMAIN Absent(None) /\ r.state # None
    /\ drain.last <= Len(stored[Here])
    /\ drain.at \in {"row", "park", "parked"} => drain.row \in drain.first..drain.last

Refs(r) == {r.initiated, r.completed, r.queued, r.fulfilled} \ {None}
Shown(l) == \E r \in rows : l \in Refs(r)

(* Nothing is passed over: what a chain's cursor covers is in the store, and *)
(* what the reader's covers is on a row or parked, whichever write, commit   *)
(* or process failed in between (db.ts advanceReader, evm/watcher.ts tick).  *)
NothingSkipped ==
    \A c \in Chains :
        /\ CursorCovered(c)
        /\ \A i \in 1..reader[c] : Shown(stored[c][i]) \/ stored[c][i] \in dead

(* Whichever chain is read first, each log is on one row, no payout waits as *)
(* an orphan beside a source that awaits it, and a fulfilment is its own     *)
(* orphan only if its queueing was parked or its watch gained late.  A       *)
(* commit whose answer was lost is applied again, and is excepted            *)
(* (basejump/flows.ts).                                                      *)
PayoutsMatched ==
    ~commitLost =>
        /\ \A r, s \in rows : r # s => Refs(r) \intersect Refs(s) = {}
        /\ \A r, s \in rows : ~(/\ IsOrphan(r, {"completed", "queued"}) /\ Awaiting(s)
                                /\ r.transfer = s.transfer)
        /\ \A r \in rows : IsOrphan(r, {"fulfilled"}) =>
                \E l \in dead \union Late :
                    Event[l].kind = "queued" /\ Event[l].pending = r.pending

(* What the table shows of a transfer it keeps showing, in a state of no     *)
(* lower rank, unless the table is rebuilt (flow/upsert.ts).                 *)
NeverUnshown ==
    [][(rebuildAsked' \/ ~rebuildAsked) =>
        \A r \in rows : \A l \in Refs(r) :
            \E s \in rows' : l \in Refs(s) /\ Rank(s.state) >= Rank(r.state)]_vars

(* A log before its watcher, or asked for again, ends on a row or parked:    *)
(* neither a bad log, nor a crash, nor a contract added behind the cursor    *)
(* holds it back for ever (flow/drain.ts, admin.ts).                         *)
EveryLogIndexed == \A l \in Logs : Ahead(l) ~> (Shown(l) \/ l \in dead)
=============================================================================
