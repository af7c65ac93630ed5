----------------------------- MODULE EventStore -----------------------------
(* The scan's ingest: each chain's watcher reads the blocks past its cursor, *)
(* writes their logs into the shared event store one by one and saves the    *)
(* cursor every so many blocks.  An operator may ask for a re-scan, which    *)
(* the watcher applies when it starts again.                                 *)
EXTENDS Naturals, SequencesExt

CONSTANTS
    Chains,
    Event,          \* log |-> its chain, block and arguments
    Ledger,         \* chain |-> what its watched contracts log, in log order
    Covered,        \* chain |-> the block it had been indexed to at the start
    Indexed,        \* chain |-> its events at the start
    Late,           \* logs of contracts a watch gained behind its cursor
    RewindBlocks,   \* blocks a re-scan is asked from
    SaveEvery,      \* chain |-> blocks between two saves of its cursor
    LastBlock,      \* chain |-> bound on its length
    MaxDisturbances \* bound on failures, crashes and operators' requests

Logs == DOMAIN Event
Watched(c) == ToSet(Ledger[c]) \ Late

(* What was indexed before holds every log up to there but the late ones.    *)
ASSUME StoreAssumption ==
    /\ Covered \in [Chains -> Nat]
    /\ \A l \in Logs : Event[l].block \in Nat
    /\ Ledger \in [Chains -> Seq(Logs)] /\ Indexed \in [Chains -> Seq(Logs)]
    /\ \A c \in Chains : \A l \in Watched(c) :
           Event[l].block <= Covered[c] => l \in ToSet(Indexed[c])
    /\ RewindBlocks \subseteq Nat \ {0}

VARIABLES
    head,        \* chain |-> the highest block a watcher may read
    stored,      \* chain |-> its events, in the order of their seq
    cursor,      \* chain |-> the block it is indexed to
    rewinds,     \* chain |-> the block to re-scan from; 0 when none is asked
    watcher,     \* chain |-> the block its tick is at, and the one it ends at
    disturbances

storeVars == <<head, stored, cursor, rewinds, watcher, disturbances>>

Stored(c) == ToSet(stored[c])
Resting == [on |-> FALSE, block |-> 0, safe |-> 0]
(* A tick from a block on, to the head it has read.                          *)
Ticking(block, safe) == [on |-> TRUE, block |-> block, safe |-> safe]

Disturb ==
    /\ disturbances < MaxDisturbances
    /\ disturbances' = disturbances + 1

(* The final blocks of a chain, its confirmations deep.                      *)
Finalizes(c) ==
    /\ head[c] < LastBlock[c]
    /\ head' = [head EXCEPT ![c] = @ + 1]
    /\ UNCHANGED <<stored, cursor, rewinds, watcher, disturbances>>

AsksRewind(c, block) ==
    /\ Disturb
    /\ rewinds' = [rewinds EXCEPT ![c] = IF @ = 0 \/ block < @ THEN block ELSE @]
    /\ UNCHANGED <<head, stored, cursor, watcher>>

(* Where a rewind leaves a cursor: before the block, and never further on.   *)
RewoundAhead(at, block) == IF block = 0 THEN at ELSE block - 1
RewoundShort(at, block) == IF block = 0 \/ at < block THEN at ELSE block
Rewound(at, block) == IF block = 0 \/ at < block THEN at ELSE block - 1

IngestStarts(c) ==
    LET from == Rewound(cursor[c], rewinds[c]) IN
    /\ ~watcher[c].on
    /\ rewinds[c] # 0 \/ head[c] > cursor[c]
    /\ cursor' = [cursor EXCEPT ![c] = from]
    /\ rewinds' = [rewinds EXCEPT ![c] = 0]
    /\ watcher' = [watcher EXCEPT ![c] =
            IF head[c] > from THEN Ticking(from + 1, head[c]) ELSE Resting]
    /\ UNCHANGED <<head, stored, disturbances>>

(* What the chain answers for a block, less what is stored already: the      *)
(* places of those logs among the watched contracts'.                        *)
Missing(c, block) ==
    {i \in DOMAIN Ledger[c] : /\ Event[Ledger[c][i]].block = block
                              /\ Ledger[c][i] \notin Stored(c)}

(* One event is one statement; one that is stored already is left alone.     *)
InsertEvents(c) ==
    LET missing == Missing(c, watcher[c].block) IN
    /\ watcher[c].on
    /\ \E i \in missing :
        /\ \A j \in missing : i <= j
        /\ stored' = [stored EXCEPT ![c] = Append(@, Ledger[c][i])]
    /\ UNCHANGED <<head, cursor, rewinds, watcher, disturbances>>

(* Whether the cursor is saved at a block: often enough, and at the end.     *)
SaveDue(c, block) == block - cursor[c] >= SaveEvery[c] \/ block = watcher[c].safe

BlockWritten(c) ==
    LET block == watcher[c].block IN
    /\ watcher[c].on
    /\ Missing(c, block) = {}
    /\ cursor' = [cursor EXCEPT ![c] = IF SaveDue(c, block) THEN block ELSE @]
    /\ watcher' = [watcher EXCEPT ![c] =
            IF block = @.safe THEN Resting ELSE Ticking(block + 1, @.safe)]
    /\ UNCHANGED <<head, stored, rewinds, disturbances>>

(* A read or a write fails and ends the tick.                                *)
IngestFails(c) ==
    /\ watcher[c].on
    /\ Disturb
    /\ watcher' = [watcher EXCEPT ![c] = Resting]
    /\ UNCHANGED <<head, stored, cursor, rewinds>>

(* The process dies, or exits because a tick hangs.                          *)
IngestCrash ==
    /\ \E c \in Chains : watcher[c].on
    /\ Disturb
    /\ watcher' = [c \in Chains |-> Resting]
    /\ UNCHANGED <<head, stored, cursor, rewinds>>

StoreInit ==
    /\ head = Covered /\ cursor = Covered
    /\ stored = Indexed
    /\ rewinds = [c \in Chains |-> 0]
    /\ watcher = [c \in Chains |-> Resting]
    /\ disturbances = 0

Watch(c) == IngestStarts(c) \/ InsertEvents(c) \/ BlockWritten(c)

StoreNext ==
    \/ IngestCrash
    \/ \E c \in Chains :
        \/ Finalizes(c) \/ Watch(c) \/ IngestFails(c)
        \/ \E block \in RewindBlocks : AsksRewind(c, block)

(* A chain's cursor never passes a log that is not in the store.             *)
CursorCovered(c) ==
    \A l \in Watched(c) : Event[l].block <= cursor[c] => l \in Stored(c)

(* A log its watcher still has before it, or a re-scan will bring back.      *)
Ahead(l) ==
    LET e == Event[l] IN
    /\ e.block <= head[e.chain]
    /\ cursor[e.chain] < e.block \/ rewinds[e.chain] \in 1..e.block
=============================================================================
