----------------------------- MODULE ScanProofs -----------------------------
(***************************************************************************)
(* For every ledger, batch, interval between saves and number of failures: *)
(* nothing is passed over, what is shown stays shown, and payouts are on   *)
(* the rows of their sources.  Three invariants carry it.                  *)
(*                                                                         *)
(* StoreInv, of ingest.  A tick runs ahead of the cursor it saves, so what *)
(* is below the block it is at must be stored too, and the tick must lie   *)
(* between the cursor and the head.                                        *)
(*                                                                         *)
(* ReaderInv, of the drain.  A run is at events the store has and never    *)
(* further than one past the reader, so a commit leaves no gap; what the   *)
(* reader covers has a fate.  That a merge keeps what the table shows      *)
(* rests on TableOK: rows have ids of their own and are named for the      *)
(* source or the delivery they hold, so a leg never overwrites a column    *)
(* that another log filled.                                                *)
(*                                                                         *)
(* MatchInv, of a reader that has lost no commit's answer.  Its run is     *)
(* exactly one past the reader and its rows show only what was read, so    *)
(* every log is merged once; and the store has a fulfilment after its      *)
(* queueing, so the queueing is on a row, or parked, or of a late watch.   *)
(*                                                                         *)
(* Batches are merged by a recursive function; that it has the values its  *)
(* equation states, and each fact about a batch, is by induction on its    *)
(* length (SumLemmas!Induction).                                           *)
(***************************************************************************)
EXTENDS ScanDrain, SumLemmas, TLAPS

StoreTypes ==
    /\ head \in [Chains -> Nat] /\ cursor \in [Chains -> Nat]
    /\ stored \in [Chains -> Seq(Logs)]
    /\ rewinds \in [Chains -> Nat]
    /\ watcher \in [Chains -> [on : BOOLEAN, block : Nat, safe : Nat]]
BehindHead(c) == cursor[c] <= head[c]
TickCovered(c) ==
    watcher[c].on =>
        /\ cursor[c] < watcher[c].block
        /\ watcher[c].block <= watcher[c].safe /\ watcher[c].safe <= head[c]
        /\ \A l \in Watched(c) : Event[l].block < watcher[c].block => l \in Stored(c)
ChainInv(c) == BehindHead(c) /\ CursorCovered(c) /\ TickCovered(c)
StoreInv == StoreTypes /\ \A c \in Chains : ChainInv(c)

ingestVars == <<head, stored, cursor, rewinds, watcher>>

-----------------------------------------------------------------------------

LEMMA RewoundNatural ==
    ASSUME NEW at \in Nat, NEW block \in Nat
    PROVE  Rewound(at, block) \in Nat /\ Rewound(at, block) <= at
  BY DEF Rewound

LEMMA WatchedLogs ==
    \A c \in Chains : \A l \in Watched(c) : l \in Logs /\ Event[l].block \in Nat
  BY StoreAssumption DEF Watched, ToSet

LEMMA ChainStays ==
    ASSUME NEW c \in Chains, ChainInv(c), head'[c] = head[c], stored'[c] = stored[c],
           cursor'[c] = cursor[c], watcher'[c] = watcher[c]
    PROVE  ChainInv(c)'
  BY DEF ChainInv, BehindHead, CursorCovered, TickCovered, Stored

\* One chain's state changes and the others' stays.
LEMMA OneChain ==
    ASSUME StoreInv, StoreTypes', NEW c \in Chains, ChainInv(c)',
           \A d \in Chains \ {c} : /\ head'[d] = head[d] /\ stored'[d] = stored[d]
                                   /\ cursor'[d] = cursor[d] /\ watcher'[d] = watcher[d]
    PROVE  StoreInv'
<1>1. ASSUME NEW d \in Chains PROVE ChainInv(d)'
  <2>1. CASE d = c
    BY <2>1
  <2>2. CASE d # c
    <3>1. ChainInv(d)
      BY DEF StoreInv
    <3> QED
      BY <2>2, <3>1, ChainStays
  <2> QED
    BY <2>1, <2>2
<1> QED
  BY <1>1 DEF StoreInv

LEMMA InitInv == Init => StoreInv
<1> SUFFICES ASSUME Init PROVE StoreInv
  OBVIOUS
<1>1. StoreTypes
  BY StoreAssumption DEF Init, StoreInit, StoreTypes, Resting
<1>2. ASSUME NEW c \in Chains PROVE ChainInv(c)
  <2>1. BehindHead(c)
    BY StoreAssumption DEF Init, StoreInit, BehindHead
  <2>2. CursorCovered(c)
    BY StoreAssumption DEF Init, StoreInit, CursorCovered, Stored
  <2>3. TickCovered(c)
    BY DEF Init, StoreInit, TickCovered, Resting
  <2> QED
    BY <2>1, <2>2, <2>3 DEF ChainInv
<1> QED
  BY <1>1, <1>2 DEF StoreInv

-----------------------------------------------------------------------------
(* The watcher's steps. *)

LEMMA FinalizesInv ==
    ASSUME StoreInv, NEW c \in Chains, Finalizes(c) PROVE StoreInv'
<1>1. StoreTypes'
  BY DEF StoreInv, StoreTypes, Finalizes
<1>2. head'[c] = head[c] + 1 /\ \A d \in Chains \ {c} : head'[d] = head[d]
  BY DEF StoreInv, StoreTypes, Finalizes
<1>3. UNCHANGED <<stored, cursor, watcher>>
  BY DEF Finalizes
<1>4. ChainInv(c)'
  BY <1>2, <1>3 DEF StoreInv, StoreTypes, ChainInv, BehindHead, CursorCovered, TickCovered, Stored
<1> QED
  BY <1>1, <1>2, <1>3, <1>4, OneChain

LEMMA AsksRewindInv ==
    ASSUME StoreInv, NEW c \in Chains, NEW block \in RewindBlocks, AsksRewind(c, block)
    PROVE  StoreInv'
<1>1. block \in Nat
  BY StoreAssumption
<1>2. StoreTypes'
  BY <1>1 DEF StoreInv, StoreTypes, AsksRewind
<1>3. UNCHANGED <<head, stored, cursor, watcher>>
  BY DEF AsksRewind
<1> QED
  BY <1>2, <1>3, ChainStays DEF StoreInv

LEMMA IngestStartsInv ==
    ASSUME StoreInv, NEW c \in Chains, IngestStarts(c) PROVE StoreInv'
<1> DEFINE from == Rewound(cursor[c], rewinds[c])
           tick == IF head[c] > from THEN Ticking(from + 1, head[c]) ELSE Resting
<1>1. from \in Nat /\ from <= cursor[c] /\ cursor[c] \in Nat /\ head[c] \in Nat
  BY RewoundNatural DEF StoreInv, StoreTypes
<1>2. /\ UNCHANGED <<head, stored>>
      /\ cursor' = [cursor EXCEPT ![c] = from] /\ watcher' = [watcher EXCEPT ![c] = tick]
      /\ rewinds' = [rewinds EXCEPT ![c] = 0]
  BY DEF IngestStarts
<1>3. tick \in [on : BOOLEAN, block : Nat, safe : Nat]
  BY <1>1 DEF Resting, Ticking
<1> HIDE DEF from
<1>4. StoreTypes'
  BY <1>1, <1>2, <1>3 DEF StoreInv, StoreTypes
<1>5. cursor'[c] = from /\ watcher'[c] = tick
  BY <1>2 DEF StoreInv, StoreTypes
<1>6. \A l \in Watched(c) : Event[l].block <= from => l \in Stored(c)
  BY <1>1, WatchedLogs DEF StoreInv, ChainInv, CursorCovered
<1>7. BehindHead(c)' /\ CursorCovered(c)'
  BY <1>1, <1>2, <1>5, <1>6 DEF StoreInv, ChainInv, BehindHead, CursorCovered, Stored
<1>8. TickCovered(c)'
  <2>1. CASE head[c] > from
    <3>1. watcher'[c] = [on |-> TRUE, block |-> from + 1, safe |-> head[c]]
      BY <1>5, <2>1 DEF Ticking
    <3>2. \A l \in Watched(c) : Event[l].block < from + 1 => l \in Stored(c)
      BY <1>1, <1>6, WatchedLogs
    <3> QED
      BY <1>1, <1>2, <1>5, <2>1, <3>1, <3>2 DEF TickCovered, Stored
  <2>2. CASE ~(head[c] > from)
    BY <1>5, <2>2 DEF TickCovered, Resting
  <2> QED
    BY <2>1, <2>2
<1>9. ChainInv(c)'
  BY <1>7, <1>8 DEF ChainInv
<1>10. \A d \in Chains \ {c} : cursor'[d] = cursor[d] /\ watcher'[d] = watcher[d]
  BY <1>2 DEF StoreInv, StoreTypes
<1> QED
  BY <1>2, <1>4, <1>9, <1>10, OneChain

LEMMA InsertEventsInv ==
    ASSUME StoreInv, NEW c \in Chains, InsertEvents(c) PROVE StoreInv'
<1>1. PICK i \in DOMAIN Ledger[c] : stored' = [stored EXCEPT ![c] = Append(@, Ledger[c][i])]
  BY DEF InsertEvents, Missing
<1>2. UNCHANGED <<head, cursor, rewinds, watcher>>
  BY DEF InsertEvents
<1>3. Ledger[c][i] \in Logs /\ stored[c] \in Seq(Logs)
  BY StoreAssumption DEF StoreInv, StoreTypes
<1>4. stored'[c] = Append(stored[c], Ledger[c][i])
      /\ \A d \in Chains \ {c} : stored'[d] = stored[d]
  BY <1>1 DEF StoreInv, StoreTypes
<1>5. StoreTypes'
  BY <1>1, <1>2, <1>3 DEF StoreInv, StoreTypes
<1>6. Stored(c) \subseteq Stored(c)'
  BY <1>3, <1>4 DEF Stored, ToSet
<1>7. ChainInv(c)'
  BY <1>2, <1>6 DEF StoreInv, ChainInv, BehindHead, CursorCovered, TickCovered
<1> QED
  BY <1>2, <1>4, <1>5, <1>7, OneChain

LEMMA BlockWrittenInv ==
    ASSUME StoreInv, NEW c \in Chains, BlockWritten(c) PROVE StoreInv'
<1> DEFINE w == watcher[c]
           saved == IF SaveDue(c, w.block) THEN w.block ELSE cursor[c]
           next == IF w.block = w.safe THEN Resting ELSE Ticking(w.block + 1, w.safe)
<1>1. /\ w \in [on : BOOLEAN, block : Nat, safe : Nat]
      /\ w.on /\ w.block \in Nat /\ w.safe \in Nat
      /\ cursor[c] \in Nat /\ head[c] \in Nat
  BY DEF StoreInv, StoreTypes, BlockWritten
<1>2. cursor[c] < w.block /\ w.block <= w.safe /\ w.safe <= head[c]
  BY <1>1 DEF StoreInv, ChainInv, TickCovered
<1>3. UNCHANGED <<head, stored, rewinds>> /\ cursor' = [cursor EXCEPT ![c] = saved]
  BY DEF BlockWritten
<1>5. watcher' = [watcher EXCEPT ![c] = next]
  BY DEF BlockWritten
<1>6. saved \in Nat /\ next \in [on : BOOLEAN, block : Nat, safe : Nat]
  BY <1>1 DEF Resting, Ticking
<1>7. StoreTypes'
  BY <1>3, <1>5, <1>6 DEF StoreInv, StoreTypes
<1>8. cursor'[c] = saved /\ watcher'[c] = next
  BY <1>3, <1>5 DEF StoreInv, StoreTypes
\* Whatever the block holds was not missing any more.
<1>9. \A l \in Watched(c) : Event[l].block = w.block => l \in Stored(c)
  <2>1. \A i \in DOMAIN Ledger[c] :
           Event[Ledger[c][i]].block = w.block => Ledger[c][i] \in Stored(c)
    BY DEF BlockWritten, Missing
  <2>2. \A l \in Watched(c) : \E i \in DOMAIN Ledger[c] : l = Ledger[c][i]
    BY DEF Watched, ToSet
  <2> QED
    BY <2>1, <2>2
<1>10. \A l \in Watched(c) : Event[l].block <= w.block => l \in Stored(c)
  BY <1>1, <1>9, WatchedLogs DEF StoreInv, ChainInv, TickCovered
<1>11. saved <= w.block
  BY <1>1, <1>2
<1> HIDE DEF saved
<1>12. BehindHead(c)' /\ CursorCovered(c)'
  <2>1. \A l \in Watched(c) : Event[l].block <= saved => l \in Stored(c)
    BY <1>1, <1>6, <1>10, <1>11, WatchedLogs
  <2>2. BehindHead(c)'
    BY <1>1, <1>2, <1>3, <1>6, <1>8, <1>11 DEF BehindHead
  <2> QED
    BY <1>3, <1>8, <2>1, <2>2 DEF CursorCovered, Stored
<1>13. TickCovered(c)'
  <2>1. CASE w.block = w.safe
    BY <1>8, <2>1 DEF TickCovered, Resting
  <2>2. CASE w.block # w.safe
    <3>1. watcher'[c] = [on |-> TRUE, block |-> w.block + 1, safe |-> w.safe]
      BY <1>8, <2>2 DEF Ticking
    <3>2. \A l \in Watched(c) : Event[l].block < w.block + 1 => l \in Stored(c)
      BY <1>1, <1>10, WatchedLogs
    <3> QED
      BY <1>1, <1>2, <1>3, <1>6, <1>8, <1>11, <2>2, <3>1, <3>2 DEF TickCovered, Stored
  <2> QED
    BY <2>1, <2>2
<1>14. ChainInv(c)'
  BY <1>12, <1>13 DEF ChainInv
<1>15. \A d \in Chains \ {c} : cursor'[d] = cursor[d] /\ watcher'[d] = watcher[d]
  BY <1>3, <1>5 DEF StoreInv, StoreTypes
<1> QED
  BY <1>3, <1>7, <1>14, <1>15, OneChain

\* A tick that fails, and a process that dies, leave cursors where they were saved.
LEMMA TicksEnd ==
    ASSUME StoreInv, UNCHANGED <<head, stored, cursor, rewinds>>,
           watcher' \in [Chains -> [on : BOOLEAN, block : Nat, safe : Nat]],
           \A c \in Chains : watcher'[c] = watcher[c] \/ watcher'[c] = Resting
    PROVE  StoreInv'
<1>1. StoreTypes'
  BY DEF StoreInv, StoreTypes
<1>2. ASSUME NEW c \in Chains PROVE ChainInv(c)'
  BY <1>2 DEF StoreInv, ChainInv, BehindHead, CursorCovered, TickCovered, Stored, Resting
<1> QED
  BY <1>1, <1>2 DEF StoreInv

LEMMA IngestFailsInv ==
    ASSUME StoreInv, NEW c \in Chains, IngestFails(c) PROVE StoreInv'
  BY TicksEnd DEF StoreInv, StoreTypes, IngestFails, Resting

LEMMA IngestCrashInv ==
    ASSUME StoreInv, IngestCrash PROVE StoreInv'
  BY TicksEnd DEF IngestCrash, Resting

LEMMA IngestStays ==
    ASSUME StoreInv, UNCHANGED ingestVars PROVE StoreInv'
<1>1. UNCHANGED <<head, stored, cursor, rewinds, watcher>>
  BY DEF ingestVars
<1>2. StoreTypes'
  BY <1>1 DEF StoreInv, StoreTypes
<1> QED
  BY <1>1, <1>2, ChainStays DEF StoreInv

-----------------------------------------------------------------------------

\* The reader never touches what ingest works on.
LEMMA ReaderStays ==
    ASSUME \/ Drain \/ RebuildFails \/ ChainFails \/ ReaderCrash \/ AsksRebuild
    PROVE  UNCHANGED ingestVars
<1>1. ASSUME Drain PROVE UNCHANGED ingestVars
  <2>1. ASSUME RunStarts \/ TakeEvents \/ DeadLetter \/ Parked PROVE UNCHANGED ingestVars
    BY <2>1 DEF RunStarts, TakeEvents, DeadLetter, Parked, storeVars, ingestVars
  <2>2. ASSUME BatchTried \/ RowTried PROVE UNCHANGED ingestVars
    BY <2>2 DEF BatchTried, RowTried, ApplyBatch, ingestVars
  <2> QED
    BY <1>1, <2>1, <2>2 DEF Drain
<1>2. ASSUME RebuildFails \/ ChainFails \/ ReaderCrash \/ AsksRebuild PROVE UNCHANGED ingestVars
  BY <1>2 DEF RebuildFails, ChainFails, ReaderCrash, AsksRebuild, ingestVars
<1> QED
  BY <1>1, <1>2

LEMMA StepInv == StoreInv /\ [Next]_vars => StoreInv'
<1> SUFFICES ASSUME StoreInv, [Next]_vars PROVE StoreInv'
  OBVIOUS
<1>1. CASE StoreNext
  <2>1. CASE IngestCrash
    BY <2>1, IngestCrashInv
  <2>2. ASSUME NEW c \in Chains, \/ Finalizes(c) \/ Watch(c) \/ IngestFails(c)
                                \/ \E block \in RewindBlocks : AsksRewind(c, block)
        PROVE  StoreInv'
    <3>1. CASE Finalizes(c)
      BY <3>1, FinalizesInv
    <3>2. CASE Watch(c)
      BY <3>2, IngestStartsInv, InsertEventsInv, BlockWrittenInv DEF Watch
    <3>3. CASE IngestFails(c)
      BY <3>3, IngestFailsInv
    <3>4. CASE \E block \in RewindBlocks : AsksRewind(c, block)
      BY <3>4, AsksRewindInv
    <3> QED
      BY <2>2, <3>1, <3>2, <3>3, <3>4
  <2> QED
    BY <1>1, <2>1, <2>2 DEF StoreNext
<1>2. CASE Drain \/ RebuildFails \/ ChainFails \/ ReaderCrash \/ AsksRebuild
  BY <1>2, ReaderStays, IngestStays
<1>3. CASE UNCHANGED vars
  BY <1>3, IngestStays DEF vars, storeVars, ingestVars
<1> QED
  BY <1>1, <1>2, <1>3 DEF Next

(* What a chain's cursor covers is in the store, and no cursor passes what   *)
(* is final, whichever read, write or process fails, whenever a re-scan is   *)
(* asked for and however seldom cursors are saved (evm/watcher.ts tick).     *)
THEOREM IngestSkipsNothing ==
    Spec => [](\A c \in Chains : CursorCovered(c) /\ cursor[c] <= head[c])
<1>1. StoreInv => \A c \in Chains : CursorCovered(c) /\ cursor[c] <= head[c]
  BY DEF StoreInv, ChainInv, BehindHead
<1> QED
  BY InitInv, StepInv, <1>1, PTL DEF Spec

-----------------------------------------------------------------------------
(* The table. *)

Ref == Logs \union {None}
Ids == {"init", "orphan"} \X Logs
Transfers == {Event[l].transfer : l \in Logs} \union {None}
Pendings == {Event[l].pending : l \in Logs} \union {None}
RowSet == [id : Ids, state : Kinds \union {None}, transfer : Transfers, pending : Pendings,
           initiated : Ref, completed : Ref, queued : Ref, fulfilled : Ref]

\* A row is named for the source it has, or for the delivery it began with.
RowNamed(r) ==
    LET l == r.id[2] IN
    /\ r.id[1] = "init" => r.initiated \in {None, l}
    /\ r.id[1] = "orphan" => /\ r.initiated = None
                             /\ Event[l].kind # "initiated"
                             /\ r[Event[l].kind] = l
RowOK(r) == r \in RowSet /\ r.state # None /\ RowNamed(r)
OneRowEach(table) == \A r, s \in table : r.id = s.id => r = s
TableOK(table) == OneRowEach(table) /\ \A r \in table : RowOK(r)

ShownIn(table, l) == \E r \in table : l \in Refs(r)
Keeps(table, after) ==
    \A r \in table : \A l \in Refs(r) :
        \E s \in after : l \in Refs(s) /\ Rank(s.state) >= Rank(r.state)

-----------------------------------------------------------------------------
LEMMA RankNatural == \A state \in Kinds \union {None} : Rank(state) \in Nat
  BY ReaderAssumption DEF Rank, Kinds

LEMMA RankKept ==
    ASSUME NEW old \in Kinds \union {None}, NEW new \in Kinds
    PROVE  /\ StateByRank(old, new) \in Kinds \union {None}
           /\ Rank(StateByRank(old, new)) >= Rank(old)
           /\ StateByRank(old, new) # None
  BY ReaderAssumption DEF Rank, StateByRank, Kinds

\* The row a log's leg writes: its slot, its state and what it knows of the transfer.
Kind(l) == Event[l].kind
WrittenPending(old, l) ==
    IF Kind(l) \in {"queued", "fulfilled"} THEN Event[l].pending ELSE old.pending
Written(old, l) ==
    [id |-> old.id, state |-> StateByRank(old.state, Kind(l)),
     transfer |-> Event[l].transfer, pending |-> WrittenPending(old, l),
     initiated |-> IF Kind(l) = "initiated" THEN l ELSE old.initiated,
     completed |-> IF Kind(l) = "completed" THEN l ELSE old.completed,
     queued |-> IF Kind(l) = "queued" THEN l ELSE old.queued,
     fulfilled |-> IF Kind(l) = "fulfilled" THEN l ELSE old.fulfilled]

LEMMA EventFields ==
    ASSUME NEW l \in Logs
    PROVE  /\ Kind(l) \in Kinds /\ l # None /\ l \in Ref
           /\ Event[l].transfer \in Transfers /\ Event[l].pending \in Pendings
           /\ Event[l].block \in Nat
  BY ReaderAssumption, StoreAssumption DEF Kind, Ref, Transfers, Pendings

LEMMA WrittenIs ==
    ASSUME NEW old \in RowSet, NEW l \in Logs
    PROVE  [old EXCEPT !.state = StateByRank(@, Event[l].kind), ![Event[l].kind] = l,
                       !.transfer = Event[l].transfer,
                       !.pending = IF Event[l].kind \in {"queued", "fulfilled"}
                                   THEN Event[l].pending ELSE @] = Written(old, l)
<1> DEFINE k == Event[l].kind
           s == StateByRank(old.state, k)
           p == WrittenPending(old, l)
           tr == Event[l].transfer
           new == [old EXCEPT !.state = s, ![k] = l, !.transfer = tr, !.pending = p]
<1>1. k \in Kinds /\ old.state \in Kinds \union {None} /\ old.pending \in Pendings
  BY EventFields DEF Kind, RowSet
<1>2. s \in Kinds \union {None} /\ p \in Pendings /\ tr \in Transfers
  BY <1>1, RankKept, EventFields DEF WrittenPending
<1> HIDE DEF s, p
<1>3. PICK kk \in Kinds, ss \in Kinds \union {None}, tt \in Transfers, pp \in Pendings :
           kk = k /\ ss = s /\ tt = tr /\ pp = p
  BY <1>1, <1>2, Zenon
<1>4. new = [old EXCEPT !.state = ss, ![kk] = l, !.transfer = tt, !.pending = pp]
  BY <1>3, Zenon
<1> HIDE DEF new
<1>5. new = [id |-> old.id, state |-> ss, transfer |-> tt, pending |-> pp,
             initiated |-> IF kk = "initiated" THEN l ELSE old.initiated,
             completed |-> IF kk = "completed" THEN l ELSE old.completed,
             queued |-> IF kk = "queued" THEN l ELSE old.queued,
             fulfilled |-> IF kk = "fulfilled" THEN l ELSE old.fulfilled]
  <2>1. CASE kk = "initiated"
    <3>1. new = [id |-> old.id, state |-> ss, transfer |-> tt, pending |-> pp,
                 initiated |-> l, completed |-> old.completed,
                 queued |-> old.queued, fulfilled |-> old.fulfilled]
      BY <1>4, <2>1 DEF RowSet
    <3> QED
      BY <2>1, <3>1
  <2>2. CASE kk = "completed"
    <3>1. new = [id |-> old.id, state |-> ss, transfer |-> tt, pending |-> pp,
                 initiated |-> old.initiated, completed |-> l,
                 queued |-> old.queued, fulfilled |-> old.fulfilled]
      BY <1>4, <2>2 DEF RowSet
    <3> QED
      BY <2>2, <3>1
  <2>3. CASE kk = "queued"
    <3>1. new = [id |-> old.id, state |-> ss, transfer |-> tt, pending |-> pp,
                 initiated |-> old.initiated, completed |-> old.completed,
                 queued |-> l, fulfilled |-> old.fulfilled]
      BY <1>4, <2>3 DEF RowSet
    <3> QED
      BY <2>3, <3>1
  <2>4. CASE kk = "fulfilled"
    <3>1. new = [id |-> old.id, state |-> ss, transfer |-> tt, pending |-> pp,
                 initiated |-> old.initiated, completed |-> old.completed,
                 queued |-> old.queued, fulfilled |-> l]
      BY <1>4, <2>4 DEF RowSet
    <3> QED
      BY <2>4, <3>1
  <2> QED
    BY <2>1, <2>2, <2>3, <2>4 DEF Kinds
<1>6. new = Written(old, l)
  BY <1>3, <1>5, Zenon DEF Written, Kind, k, s, p, tr, WrittenPending
<1> QED
  BY <1>6, Zenon DEF new, k, s, p, tr, WrittenPending, Kind

\* A row's logs, by their kinds.
LEMMA Slots ==
    ASSUME NEW r \in RowSet
    PROVE  /\ Refs(r) = {r[k] : k \in Kinds} \ {None}
           /\ \A k \in Kinds : r[k] \in Ref
<1>1. \A k \in Kinds : r[k] \in Ref
  BY DEF RowSet, Kinds
<1>2. {r[k] : k \in Kinds} = {r.initiated, r.completed, r.queued, r.fulfilled}
  BY DEF Kinds
<1> QED
  BY <1>1, <1>2 DEF Refs

LEMMA AbsentRow ==
    ASSUME NEW id \in Ids
    PROVE  /\ Absent(id) \in RowSet /\ Absent(id).id = id
           /\ \A k \in Kinds : Absent(id)[k] = None
           /\ Absent(id).state = None
  BY DEF Absent, RowSet, Ref, Transfers, Pendings, Kinds

LEMMA WrittenRow ==
    ASSUME NEW old \in RowSet, NEW l \in Logs
    PROVE  /\ Written(old, l) \in RowSet /\ Written(old, l).id = old.id
           /\ \A k \in Kinds : Written(old, l)[k] = IF k = Kind(l) THEN l ELSE old[k]
           /\ Written(old, l).state # None
           /\ Rank(Written(old, l).state) >= Rank(old.state)
<1>1. Kind(l) \in Kinds /\ old.state \in Kinds \union {None} /\ old.pending \in Pendings
  BY EventFields DEF RowSet
<1>2. PICK new : new = Written(old, l)
  OBVIOUS
<1>3. PICK s : s = StateByRank(old.state, Kind(l))
  OBVIOUS
<1>4. s \in Kinds \union {None} /\ Rank(s) >= Rank(old.state) /\ s # None
  BY <1>1, <1>3, RankKept
<1>5. PICK p \in Pendings : p = WrittenPending(old, l)
  BY <1>1, EventFields DEF WrittenPending
<1>6. PICK k0 \in Kinds : k0 = Kind(l)
  BY <1>1
<1>7. PICK tr \in Transfers : tr = Event[l].transfer
  BY EventFields
<1>8. new = [id |-> old.id, state |-> s, transfer |-> tr, pending |-> p,
             initiated |-> IF k0 = "initiated" THEN l ELSE old.initiated,
             completed |-> IF k0 = "completed" THEN l ELSE old.completed,
             queued |-> IF k0 = "queued" THEN l ELSE old.queued,
             fulfilled |-> IF k0 = "fulfilled" THEN l ELSE old.fulfilled]
  BY <1>2, <1>3, <1>5, <1>6, <1>7, Zenon DEF Written
<1>9. new \in RowSet /\ new.id = old.id /\ new.state = s
  BY <1>4, <1>8, EventFields DEF RowSet
<1>10. \A k \in Kinds : new[k] = IF k = k0 THEN l ELSE old[k]
  BY <1>8 DEF Kinds
<1> QED
  BY <1>2, <1>4, <1>6, <1>9, <1>10, Zenon

LEMMA WrittenCovers ==
    ASSUME NEW old \in RowSet, NEW l \in Logs, old[Kind(l)] \in {None, l}
    PROVE  /\ Refs(old) \subseteq Refs(Written(old, l)) /\ l \in Refs(Written(old, l))
           /\ Refs(Written(old, l)) = Refs(old) \union {l}
<1>1. PICK new \in RowSet : new = Written(old, l)
  BY WrittenRow
<1>2. \A k \in Kinds : new[k] = IF k = Kind(l) THEN l ELSE old[k]
  BY <1>1, WrittenRow
<1>3. Kind(l) \in Kinds /\ l # None
  BY EventFields
<1>4. Refs(old) = {old[k] : k \in Kinds} \ {None} /\ Refs(new) = {new[k] : k \in Kinds} \ {None}
  BY Slots
<1> QED
  BY <1>1, <1>2, <1>3, <1>4

LEMMA ReconcileIs ==
    ASSUME NEW table, TableOK(table), NEW id \in Ids, NEW l \in Logs
    PROVE  \E old \in RowSet :
               /\ old.id = id
               /\ \/ old \in table
                  \/ old = Absent(id) /\ \A r \in table : r.id # id
               /\ \A r \in table : r.id = id <=> r = old
               /\ Reconcile(table, id, l) = (table \ {old}) \union {Written(old, l)}
<1> DEFINE prev == {r \in table : r.id = id}
           old == IF prev = {} THEN Absent(id) ELSE CHOOSE r \in prev : TRUE
<1>1. \A r \in table : r \in RowSet
  BY DEF TableOK, RowOK
<1>2. CASE prev = {}
  <2>1. old = Absent(id) /\ old \in RowSet /\ old.id = id /\ old \notin table
    BY <1>2, AbsentRow
  <2>2. [old EXCEPT !.state = StateByRank(@, Event[l].kind), ![Event[l].kind] = l,
                    !.transfer = Event[l].transfer,
                    !.pending = IF Event[l].kind \in {"queued", "fulfilled"}
                                THEN Event[l].pending ELSE @] = Written(old, l)
    BY <2>1, WrittenIs, Zenon
  <2>3. Reconcile(table, id, l) = (table \ prev) \union {Written(old, l)}
    BY <2>2, Zenon DEF Reconcile
  <2>4. table \ prev = table \ {old}
    BY <1>2, <2>1
  <2> QED
    BY <1>2, <2>1, <2>3, <2>4
<1>3. CASE prev # {}
  <2>1. old \in table /\ old.id = id /\ old \in RowSet
    BY <1>1, <1>3
  <2>2. [old EXCEPT !.state = StateByRank(@, Event[l].kind), ![Event[l].kind] = l,
                    !.transfer = Event[l].transfer,
                    !.pending = IF Event[l].kind \in {"queued", "fulfilled"}
                                THEN Event[l].pending ELSE @] = Written(old, l)
    BY <2>1, WrittenIs, Zenon
  <2>3. Reconcile(table, id, l) = (table \ prev) \union {Written(old, l)}
    BY <2>2, Zenon DEF Reconcile
  <2>4. \A r \in table : r.id = id <=> r = old
    BY <2>1 DEF TableOK, OneRowEach
  <2>5. table \ prev = table \ {old}
    BY <2>4
  <2> HIDE DEF old
  <2> QED
    BY <2>1, <2>3, <2>4, <2>5
<1> QED
  BY <1>2, <1>3

\* What a leg may be keyed to: a row whose slot is free, or the log's own.
KeyFits(table, id, l) ==
    /\ \A r \in table : r.id = id => r[Kind(l)] \in {None, l}
    /\ Kind(l) = "initiated" => id = <<"init", l>>
    /\ Kind(l) # "initiated" => id = Orphan(l) \/ \E r \in table : r.id = id

LEMMA ReconcileOK ==
    ASSUME NEW table, TableOK(table), NEW id \in Ids, NEW l \in Logs, KeyFits(table, id, l)
    PROVE  /\ TableOK(Reconcile(table, id, l)) /\ Keeps(table, Reconcile(table, id, l))
           /\ ShownIn(Reconcile(table, id, l), l)
<1>1. PICK old \in RowSet :
               /\ old.id = id
               /\ \/ old \in table
                  \/ old = Absent(id) /\ \A r \in table : r.id # id
               /\ \A r \in table : r.id = id <=> r = old
               /\ Reconcile(table, id, l) = (table \ {old}) \union {Written(old, l)}
  BY ReconcileIs
<1>2. PICK new \in RowSet : new = Written(old, l)
  BY WrittenRow
<1>3. /\ new.id = id /\ new.state # None /\ Rank(new.state) >= Rank(old.state)
      /\ \A k \in Kinds : new[k] = IF k = Kind(l) THEN l ELSE old[k]
  BY <1>1, <1>2, WrittenRow
<1>4. PICK after : after = Reconcile(table, id, l)
  OBVIOUS
<1>5. after = (table \ {old}) \union {new}
  BY <1>1, <1>2, <1>4
<1>6. Kind(l) \in Kinds /\ l # None /\ \A m \in Logs : Kind(m) \in Kinds
  BY EventFields
<1>7. old[Kind(l)] \in {None, l}
  BY <1>1, <1>6, AbsentRow DEF KeyFits
<1>8. Refs(old) \subseteq Refs(new) /\ l \in Refs(new)
  BY <1>2, <1>7, WrittenCovers
<1>9. OneRowEach(after)
  BY <1>1, <1>3, <1>5 DEF TableOK, OneRowEach
<1>10. RowNamed(new)
  <2>1. PICK m \in Logs : m = id[2]
    BY DEF Ids
  <2>2. ASSUME id[1] = "init" PROVE new.initiated \in {None, m}
    <3>1. CASE Kind(l) = "initiated"
      BY <1>3, <1>6, <2>1, <3>1 DEF KeyFits, Kinds
    <3>2. CASE Kind(l) # "initiated"
      <4>1. new.initiated = old.initiated
        BY <1>3, <1>6, <3>2 DEF Kinds
      <4>2. CASE old \in table
        BY <1>1, <2>1, <2>2, <4>1, <4>2 DEF TableOK, RowOK, RowNamed
      <4>3. CASE old = Absent(id)
        BY <4>1, <4>3 DEF Absent
      <4> QED
        BY <1>1, <4>2, <4>3
    <3> QED
      BY <3>1, <3>2
  <2>3. ASSUME id[1] = "orphan"
        PROVE  new.initiated = None /\ Kind(m) # "initiated" /\ new[Kind(m)] = m
    <3>1. Kind(l) # "initiated"
      BY <2>3 DEF KeyFits
    <3>2. new.initiated = old.initiated
      BY <1>3, <1>6, <3>1 DEF Kinds
    <3>3. CASE old \in table
      <4>1. old.initiated = None /\ Kind(m) # "initiated" /\ old[Kind(m)] = m
        BY <1>1, <2>1, <2>3, <3>3 DEF TableOK, RowOK, RowNamed, Kind
      <4>2. m # None /\ Kind(m) \in Kinds
        BY <1>6, EventFields
      <4> QED
        BY <1>3, <1>7, <3>2, <4>1, <4>2
    <3>4. CASE old = Absent(id) /\ \A r \in table : r.id # id
      <4>1. id = Orphan(l)
        BY <3>1, <3>4 DEF KeyFits
      <4>2. m = l
        BY <2>1, <4>1 DEF Orphan
      <4>3. old.initiated = None
        BY <3>4 DEF Absent
      <4> QED
        BY <1>3, <1>6, <3>1, <3>2, <4>2, <4>3
    <3> QED
      BY <1>1, <3>3, <3>4
  <2> QED
    BY <1>3, <2>1, <2>2, <2>3 DEF RowNamed, Kind
<1>11. TableOK(after)
  BY <1>3, <1>5, <1>9, <1>10 DEF TableOK, RowOK
<1>12. Keeps(table, after)
  <2> SUFFICES ASSUME NEW r \in table, NEW m \in Refs(r)
               PROVE  \E s \in after : m \in Refs(s) /\ Rank(s.state) >= Rank(r.state)
    BY DEF Keeps
  <2>1. Rank(r.state) \in Nat
    BY RankNatural DEF TableOK, RowOK, RowSet
  <2>2. CASE r = old
    BY <1>3, <1>5, <1>8, <2>2
  <2>3. CASE r # old
    BY <1>5, <2>1, <2>3
  <2> QED
    BY <2>2, <2>3
<1>13. ShownIn(after, l)
  BY <1>5, <1>8 DEF ShownIn
<1> QED
  BY <1>4, <1>11, <1>12, <1>13

-----------------------------------------------------------------------------
(* The row a log goes to. *)

LEMMA OldestIs ==
    ASSUME NEW block, NEW S, S # {}, S = DOMAIN block, \A r \in S : block[r] \in Nat
    PROVE  Oldest(block) \in S
<1> DEFINE blocks == {block[r] : r \in S}
<1>1. PICK n \in blocks : \A m \in blocks : n <= m
  <2>1. blocks \in SUBSET Nat /\ blocks # {}
    OBVIOUS
  <2> HIDE DEF blocks
  <2> QED
    BY <2>1, LeastExists
<1>2. PICK r \in S : block[r] = n
  BY <1>1
<1>3. \A s \in DOMAIN block : block[r] <= block[s]
  BY <1>1, <1>2
<1>4. \E q \in DOMAIN block : \A s \in DOMAIN block : block[q] <= block[s]
  BY <1>2, <1>3
<1> QED
  BY <1>4, Zenon DEF Oldest

LEMMA OrphanDelivery ==
    ASSUME NEW r, RowOK(r), IsOrphan(r, {"completed", "queued"})
    PROVE  /\ r.id[2] \in Logs /\ r.initiated = None /\ Delivered(r) \in Nat
           /\ r.id[1] = "orphan"
           /\ r.id = Orphan(r.id[2]) /\ r[Kind(r.id[2])] = r.id[2]
           /\ Kind(r.id[2]) \in {"completed", "queued"}
<1>1. r.id \in Ids /\ r.completed \in Ref /\ r.queued \in Ref
  BY DEF RowOK, RowSet
<1>2. r.id[2] \in Logs /\ r.id = <<"orphan", r.id[2]>> /\ r.id[1] = "orphan"
  BY <1>1 DEF Ids, IsOrphan
<1>3. r[Kind(r.id[2])] = r.id[2] /\ r.initiated = None
  BY <1>2 DEF RowOK, RowNamed, Kind
<1>4. Kind(r.id[2]) \in {"completed", "queued"}
  BY DEF IsOrphan, Kind
<1>5. r.completed # None \/ (r.queued # None /\ r.queued \in Logs)
  BY <1>1, <1>2, <1>3, <1>4, EventFields DEF Ref
<1>6. Delivered(r) \in Nat
  BY <1>1, <1>5, EventFields DEF Delivered, Ref
<1> QED
  BY <1>2, <1>3, <1>4, <1>6 DEF Orphan

Waiting(table, l) ==
    {r \in table : /\ IsOrphan(r, {"completed", "queued"})
                   /\ r.initiated = None /\ r.transfer = Event[l].transfer}

\* The orphan that is renamed for its source, if there is one.
LEMMA AdoptIs ==
    ASSUME NEW table, TableOK(table), NEW l \in Logs
    PROVE  \/ /\ AdoptOrphan(table, l) = table
              /\ Waiting(table, l) = {} \/ \E r \in table : r.id = <<"init", l>>
           \/ /\ \A r \in table : r.id # <<"init", l>>
              /\ \E taken \in Waiting(table, l) :
                    AdoptOrphan(table, l) =
                       (table \ {taken}) \union {[taken EXCEPT !.id = <<"init", l>>]}
<1> DEFINE id == <<"init", l>>
           waiting == Waiting(table, l)
           blocks == [r \in waiting |-> Delivered(r)]
           taken == Oldest(blocks)
<1>1. CASE waiting = {} \/ \E r \in table : r.id = id
  BY <1>1, Zenon DEF AdoptOrphan, Waiting
<1>2. CASE waiting # {} /\ \A r \in table : r.id # id
  <2>1. \A r \in waiting : Delivered(r) \in Nat
    BY OrphanDelivery DEF Waiting, TableOK
  <2>2. taken \in waiting
    <3>1. DOMAIN blocks = waiting /\ \A r \in waiting : blocks[r] \in Nat
      BY <2>1
    <3> HIDE DEF blocks, waiting
    <3> QED
      BY <1>2, <3>1, OldestIs
  <2>3. AdoptOrphan(table, l) = (table \ {taken}) \union {[taken EXCEPT !.id = id]}
    BY <1>2, Zenon DEF AdoptOrphan, Waiting
  <2> HIDE DEF taken
  <2> QED
    BY <1>2, <2>2, <2>3
<1> QED
  BY <1>1, <1>2

LEMMA AdoptOK ==
    ASSUME NEW table, TableOK(table), NEW l \in Logs
    PROVE  TableOK(AdoptOrphan(table, l)) /\ Keeps(table, AdoptOrphan(table, l))
<1>0. \A r \in table : Rank(r.state) \in Nat
  BY RankNatural DEF TableOK, RowOK, RowSet
<1>1. CASE AdoptOrphan(table, l) = table
  BY <1>0, <1>1 DEF Keeps
<1>2. ASSUME \A r \in table : r.id # <<"init", l>>,
             NEW taken \in Waiting(table, l),
             AdoptOrphan(table, l) =
                 (table \ {taken}) \union {[taken EXCEPT !.id = <<"init", l>>]}
      PROVE  TableOK(AdoptOrphan(table, l)) /\ Keeps(table, AdoptOrphan(table, l))
  <2>1. PICK new : new = [taken EXCEPT !.id = <<"init", l>>]
    OBVIOUS
  <2>2. PICK after : after = AdoptOrphan(table, l)
    OBVIOUS
  <2>3. after = (table \ {taken}) \union {new}
    BY <1>2, <2>1, <2>2, Zenon
  <2>4. taken \in table /\ taken \in RowSet /\ taken.state # None /\ taken.initiated = None
    BY DEF Waiting, TableOK, RowOK
  <2>5. <<"init", l>> \in Ids
    BY DEF Ids
  <2>6. /\ new \in RowSet /\ new.id = <<"init", l>> /\ new.state = taken.state
        /\ new.initiated = taken.initiated /\ new.completed = taken.completed
        /\ new.queued = taken.queued /\ new.fulfilled = taken.fulfilled
    BY <2>1, <2>4, <2>5 DEF RowSet
  <2>7. RowNamed(new)
    BY <2>4, <2>6 DEF RowNamed
  <2>8. OneRowEach(after)
    BY <1>2, <2>3, <2>6 DEF TableOK, OneRowEach
  <2>9. TableOK(after)
    BY <2>3, <2>4, <2>6, <2>7, <2>8 DEF TableOK, RowOK
  <2>10. Refs(new) = Refs(taken)
    BY <2>6 DEF Refs
  <2>11. Keeps(table, after)
    BY <1>0, <2>3, <2>4, <2>6, <2>10 DEF Keeps
  <2> QED
    BY <2>2, <2>9, <2>11
<1> QED
  BY <1>1, <1>2, AdoptIs

LEMMA FindInitiatedIs ==
    ASSUME NEW table, TableOK(table), NEW l \in Logs
    PROVE  \/ FindInitiated(table, l) = Orphan(l)
              /\ \A r \in table : ~(Awaiting(r) /\ r.transfer = Event[l].transfer)
           \/ \E r \in table : /\ Awaiting(r) /\ r.transfer = Event[l].transfer
                               /\ FindInitiated(table, l) = r.id
<1> DEFINE found == {r \in table : Awaiting(r) /\ r.transfer = Event[l].transfer}
           blocks == [r \in found |-> Event[r.initiated].block]
<1>1. CASE found = {}
  BY <1>1 DEF FindInitiated
<1>2. CASE found # {}
  <2>1. \A r \in found : Event[r.initiated].block \in Nat
    BY EventFields DEF TableOK, RowOK, RowSet, Ref, Awaiting
  <2>2. Oldest(blocks) \in found
    <3>1. DOMAIN blocks = found /\ \A r \in found : blocks[r] \in Nat
      BY <2>1
    <3> HIDE DEF blocks, found
    <3> QED
      BY <1>2, <3>1, OldestIs
  <2>3. FindInitiated(table, l) = Oldest(blocks).id
    BY <1>2, Zenon DEF FindInitiated
  <2> QED
    BY <2>2, <2>3, Zenon
<1> QED
  BY <1>1, <1>2

LEMMA FindPendingIs ==
    ASSUME NEW table, NEW l \in Logs
    PROVE  \/ FindPending(table, l) = Orphan(l)
              /\ \A r \in table : ~(r.pending = Event[l].pending /\ r.fulfilled = None)
           \/ \E r \in table : /\ r.pending = Event[l].pending /\ r.fulfilled = None
                               /\ FindPending(table, l) = r.id
<1> DEFINE found == {r \in table : r.pending = Event[l].pending /\ r.fulfilled = None}
<1>1. CASE found = {}
  BY <1>1 DEF FindPending
<1>2. CASE found # {}
  <2>1. (CHOOSE r \in found : TRUE) \in found
    BY <1>2
  <2>2. FindPending(table, l) = (CHOOSE r \in found : TRUE).id
    BY <1>2, Zenon DEF FindPending
  <2> QED
    BY <2>1, <2>2, Zenon
<1> QED
  BY <1>1, <1>2

LEMMA KeyOK ==
    ASSUME NEW table, TableOK(table), NEW l \in Logs
    PROVE  Key(table, l) \in Ids /\ KeyFits(table, Key(table, l), l)
<1>1. Kind(l) \in Kinds /\ Orphan(l) \in Ids /\ <<"init", l>> \in Ids
  BY EventFields DEF Ids, Orphan
<1>2. \A r \in table : r \in RowSet /\ r.id \in Ids /\ RowNamed(r)
  BY DEF TableOK, RowOK, RowSet
<1>3. \A r \in table : r.id = Orphan(l) => r[Kind(l)] \in {None, l}
  BY <1>2 DEF RowNamed, Orphan, Kind
<1>4. CASE Kind(l) = "initiated"
  <2>1. Key(table, l) = <<"init", l>>
    BY <1>4 DEF Key, Kind
  <2>2. \A r \in table : r.id = <<"init", l>> => r.initiated \in {None, l}
    BY <1>2 DEF RowNamed
  <2> QED
    BY <1>1, <1>4, <2>1, <2>2 DEF KeyFits
<1>5. CASE Kind(l) \in {"completed", "queued"}
  <2>1. Key(table, l) = FindInitiated(table, l)
    BY <1>5 DEF Key, Kind
  <2>2. CASE FindInitiated(table, l) = Orphan(l)
    BY <1>1, <1>3, <1>5, <2>1, <2>2 DEF KeyFits
  <2>3. ASSUME NEW r \in table, Awaiting(r), FindInitiated(table, l) = r.id
        PROVE  Key(table, l) \in Ids /\ KeyFits(table, Key(table, l), l)
    <3>1. r[Kind(l)] = None
      BY <1>5, <2>3 DEF Awaiting
    <3>2. \A s \in table : s.id = r.id => s = r
      BY DEF TableOK, OneRowEach
    <3> QED
      BY <1>2, <1>5, <2>1, <2>3, <3>1, <3>2 DEF KeyFits
  <2> QED
    BY <2>2, <2>3, FindInitiatedIs
<1>6. CASE Kind(l) = "fulfilled"
  <2>1. Key(table, l) = FindPending(table, l)
    BY <1>6 DEF Key, Kind
  <2>2. CASE FindPending(table, l) = Orphan(l)
    BY <1>1, <1>3, <1>6, <2>1, <2>2 DEF KeyFits
  <2>3. ASSUME NEW r \in table, r.fulfilled = None, FindPending(table, l) = r.id
        PROVE  Key(table, l) \in Ids /\ KeyFits(table, Key(table, l), l)
    <3>1. \A s \in table : s.id = r.id => s = r
      BY DEF TableOK, OneRowEach
    <3> QED
      BY <1>2, <1>6, <2>1, <2>3, <3>1 DEF KeyFits
  <2> QED
    BY <2>2, <2>3, FindPendingIs
<1> QED
  BY <1>1, <1>4, <1>5, <1>6 DEF Kinds

LEMMA KeepsOn ==
    ASSUME NEW a, NEW b, NEW c, Keeps(a, b), Keeps(b, c),
           TableOK(a), TableOK(b), TableOK(c)
    PROVE  Keeps(a, c)
<1>1. \A r \in a \union b \union c : Rank(r.state) \in Nat
  BY RankNatural DEF TableOK, RowOK, RowSet
<1> QED
  BY <1>1 DEF Keeps

LEMMA KeepsSelf == ASSUME NEW table, TableOK(table) PROVE Keeps(table, table)
<1>1. \A r \in table : Rank(r.state) \in Nat
  BY RankNatural DEF TableOK, RowOK, RowSet
<1> QED
  BY <1>1 DEF Keeps

LEMMA KeepsShown ==
    ASSUME NEW a, NEW b, Keeps(a, b), NEW l, ShownIn(a, l) PROVE ShownIn(b, l)
  BY DEF Keeps, ShownIn

LEMMA ApplyLogOK ==
    ASSUME NEW table, TableOK(table), NEW l \in Logs
    PROVE  /\ TableOK(ApplyLog(table, l)) /\ Keeps(table, ApplyLog(table, l))
           /\ ShownIn(ApplyLog(table, l), l)
<1>1. PICK base : base = IF Kind(l) = "initiated" THEN AdoptOrphan(table, l) ELSE table
  OBVIOUS
<1>2. PICK id : id = Key(table, l)
  OBVIOUS
<1>3. TableOK(base) /\ Keeps(table, base)
  BY <1>1, AdoptOK, KeepsSelf
<1>4. id \in Ids
  BY <1>2, KeyOK
<1>5. KeyFits(base, id, l)
  <2>1. CASE Kind(l) = "initiated"
    <3>1. id = <<"init", l>> /\ Key(base, l) = <<"init", l>>
      BY <1>2, <2>1 DEF Key, Kind
    <3> QED
      BY <1>3, <3>1, KeyOK
  <2>2. CASE Kind(l) # "initiated"
    BY <1>1, <1>2, <2>2, KeyOK
  <2> QED
    BY <2>1, <2>2
<1>6. ApplyLog(table, l) = Reconcile(base, id, l)
  BY <1>1, <1>2, Zenon DEF ApplyLog, Kind
<1>7. /\ TableOK(Reconcile(base, id, l)) /\ Keeps(base, Reconcile(base, id, l))
      /\ ShownIn(Reconcile(base, id, l), l)
  BY <1>3, <1>4, <1>5, ReconcileOK
<1> QED
  BY <1>3, <1>6, <1>7, KeepsOn

-----------------------------------------------------------------------------
(* The rows a batch leaves. *)

Merges(after, table, logs, last) ==
    after = [n \in 0..last |-> IF n = 0 THEN table ELSE ApplyLog(after[n - 1], logs[n])]

LEMMA MergeExists ==
    ASSUME NEW table, NEW logs
    PROVE  \A last \in Nat : \E after : Merges(after, table, logs, last)
<1> DEFINE Good == {last \in Nat : \E after : Merges(after, table, logs, last)}
<1>1. 0 \in Good
  <2>1. Merges([n \in 0..0 |-> table], table, logs, 0)
    BY DEF Merges
  <2> QED
    BY <2>1
<1>2. ASSUME NEW last \in Good PROVE last + 1 \in Good
  <2>1. PICK f : Merges(f, table, logs, last)
    OBVIOUS
  <2>2. last \in Nat
    OBVIOUS
  <2> DEFINE g == [n \in 0..(last + 1) |->
                      IF n = last + 1 THEN ApplyLog(f[last], logs[n]) ELSE f[n]]
  <2>3. \A n \in 0..last : f[n] = IF n = 0 THEN table ELSE ApplyLog(f[n - 1], logs[n])
    BY <2>1 DEF Merges
  <2>4. \A n \in 0..(last + 1) : g[n] = IF n = 0 THEN table ELSE ApplyLog(g[n - 1], logs[n])
    <3> SUFFICES ASSUME NEW n \in 0..(last + 1)
                 PROVE  g[n] = IF n = 0 THEN table ELSE ApplyLog(g[n - 1], logs[n])
      OBVIOUS
    <3>1. CASE n = last + 1
      <4>1. g[n] = ApplyLog(f[last], logs[n]) /\ n # 0 /\ n - 1 = last /\ g[n - 1] = f[last]
        BY <2>2, <3>1
      <4> QED
        BY <4>1, Zenon
    <3>2. CASE n # last + 1
      <4>1. n \in 0..last /\ g[n] = f[n]
        BY <2>2, <3>2
      <4>2. n # 0 => g[n - 1] = f[n - 1]
        BY <2>2, <4>1
      <4> HIDE DEF g
      <4> QED
        BY <2>3, <4>1, <4>2, Zenon
    <3> QED
      BY <3>1, <3>2
  <2>5. g = [n \in 0..(last + 1) |-> g[n]]
    OBVIOUS
  <2> HIDE DEF g
  <2>6. Merges(g, table, logs, last + 1)
    BY <2>4, <2>5, Zenon DEF Merges
  <2>7. last + 1 \in Nat
    BY <2>2
  <2> QED
    BY <2>6, <2>7
<1>3. Good \in SUBSET Nat
  OBVIOUS
<1> HIDE DEF Good
<1>4. Good = Nat
  BY <1>1, <1>2, <1>3, Induction
<1> QED
  BY <1>4 DEF Good

\* The tables one log after the other.
StepByStep(after, table, logs) ==
    /\ Merged(table, logs) = after[Len(logs)] /\ after[0] = table
    /\ \A n \in Nat : n + 1 <= Len(logs) =>
           /\ logs[n + 1] \in Logs
           /\ after[n + 1] = ApplyLog(after[n], logs[n + 1])

LEMMA MergedSteps ==
    ASSUME NEW table, NEW logs \in Seq(Logs)
    PROVE  \E after : StepByStep(after, table, logs)
<1> DEFINE last == Len(logs)
           after == CHOOSE f : Merges(f, table, logs, last)
<1>1. last \in Nat
  OBVIOUS
<1>2. Merges(after, table, logs, last)
  BY <1>1, MergeExists
<1>3. Merged(table, logs) = after[last]
  BY Zenon DEF Merged, Merges
<1> HIDE DEF after
<1>4. \A n \in 0..last : after[n] = IF n = 0 THEN table ELSE ApplyLog(after[n - 1], logs[n])
  BY <1>2 DEF Merges
<1>5. after[0] = table
  BY <1>1, <1>4
<1>6. ASSUME NEW n \in Nat, n + 1 <= last
      PROVE  logs[n + 1] \in Logs /\ after[n + 1] = ApplyLog(after[n], logs[n + 1])
  <2>1. n + 1 \in 0..last /\ n + 1 # 0 /\ (n + 1) - 1 = n /\ n + 1 \in DOMAIN logs
    BY <1>1, <1>6
  <2>2. after[n + 1] = ApplyLog(after[n], logs[n + 1])
    BY <1>4, <2>1, Zenon
  <2> QED
    BY <2>1, <2>2
<1> HIDE DEF last
<1>7. /\ Merged(table, logs) = after[last] /\ after[0] = table
      /\ \A n \in Nat : n + 1 <= last =>
             /\ logs[n + 1] \in Logs
             /\ after[n + 1] = ApplyLog(after[n], logs[n + 1])
  BY <1>3, <1>5, <1>6, Zenon
<1> QED
  BY <1>7, Zenon DEF last, StepByStep

LEMMA MergedOK ==
    ASSUME NEW table, TableOK(table), NEW logs \in Seq(Logs)
    PROVE  /\ TableOK(Merged(table, logs)) /\ Keeps(table, Merged(table, logs))
           /\ \A i \in 1..Len(logs) : ShownIn(Merged(table, logs), logs[i])
<1>0. PICK after : StepByStep(after, table, logs)
  BY MergedSteps, Zenon
<1> DEFINE last == Len(logs)
<1>1. last \in Nat
  OBVIOUS
<1> DEFINE Holds(n) == /\ TableOK(after[n]) /\ Keeps(table, after[n])
                       /\ \A i \in 1..n : ShownIn(after[n], logs[i])
           Good == {n \in Nat : n <= last => Holds(n)}
<1>5. 0 \in Good
  <2>1. Holds(0)
    BY <1>0, KeepsSelf DEF StepByStep
  <2> QED
    BY <2>1
<1>6. ASSUME NEW n \in Good PROVE n + 1 \in Good
  <2>1. n \in Nat /\ n + 1 \in Nat
    OBVIOUS
  <2>2. SUFFICES ASSUME n + 1 <= last PROVE Holds(n + 1)
    BY <2>1
  <2>3. Holds(n)
    BY <1>1, <2>1, <2>2
  <2>5. after[n + 1] = ApplyLog(after[n], logs[n + 1]) /\ logs[n + 1] \in Logs
    BY <1>0, <2>1, <2>2 DEF StepByStep
  <2>6. logs[n + 1] \in Logs
    BY <2>5
  <2>7. PICK a, b : a = after[n] /\ b = after[n + 1]
    OBVIOUS
  <2>8. /\ TableOK(ApplyLog(a, logs[n + 1])) /\ Keeps(a, ApplyLog(a, logs[n + 1]))
        /\ ShownIn(ApplyLog(a, logs[n + 1]), logs[n + 1])
    BY <2>3, <2>6, <2>7, ApplyLogOK, Zenon
  <2>9. TableOK(b) /\ Keeps(a, b) /\ ShownIn(b, logs[n + 1])
    BY <2>5, <2>7, <2>8, Zenon
  <2>10. TableOK(a) /\ Keeps(table, a) /\ \A i \in 1..n : ShownIn(a, logs[i])
    BY <2>3, <2>7, Zenon
  <2>11. Keeps(table, b)
    BY <2>9, <2>10, KeepsOn
  <2>12. ASSUME NEW i \in 1..(n + 1) PROVE ShownIn(b, logs[i])
    <3>1. CASE i = n + 1
      BY <2>9, <3>1
    <3>2. CASE i # n + 1
      <4>1. i \in 1..n
        BY <2>1, <3>2
      <4> QED
        BY <2>9, <2>10, <4>1, KeepsShown
    <3> QED
      BY <3>1, <3>2
  <2> QED
    BY <2>7, <2>9, <2>11, <2>12, Zenon
<1>7. Good \in SUBSET Nat
  OBVIOUS
<1>8. Good = Nat
  <2> HIDE DEF Good
  <2> QED
    BY <1>5, <1>6, <1>7, Induction
<1>9. Holds(last)
  BY <1>1, <1>8
<1> QED
  BY <1>0, <1>9, Zenon DEF StepByStep

-----------------------------------------------------------------------------
(* Matching: which rows the logs of a transfer end on. *)

\* A row's logs are in their columns, and of its transfer and its pending payout.
SlotsOK(r) ==
    \A k \in Kinds : r[k] # None => Kind(r[k]) = k /\ Event[r[k]].transfer = r.transfer
PendingOK(r) ==
    /\ r.queued # None => r.pending = Event[r.queued].pending
    /\ r.fulfilled # None => r.pending = Event[r.fulfilled].pending
    /\ r.pending # None => r.queued # None \/ r.fulfilled # None
SourceOK(r) == r.id[1] = "init" => r.initiated = r.id[2]
\* The queueing of a fulfilment that found no row is among those that are gone.
QueueGone(r, gone) ==
    IsOrphan(r, {"fulfilled"}) =>
        \E l \in gone : Event[l].kind = "queued" /\ Event[l].pending = r.pending
MatchedRow(r, gone) == SlotsOK(r) /\ PendingOK(r) /\ SourceOK(r) /\ QueueGone(r, gone)
OnOneRow(table) == \A r, s \in table : r # s => Refs(r) \intersect Refs(s) = {}
NoneBeside(table) ==
    \A r, s \in table : ~(/\ IsOrphan(r, {"completed", "queued"}) /\ Awaiting(s)
                          /\ r.transfer = s.transfer)
MatchedOK(table, gone) ==
    /\ TableOK(table) /\ \A r \in table : MatchedRow(r, gone)
    /\ OnOneRow(table) /\ NoneBeside(table)

\* How a log finds its row: a source, a pending payout, an orphan to adopt, or none.
ToSource(r, l) ==
    Kind(l) \in {"completed", "queued"} /\ Awaiting(r) /\ r.transfer = Event[l].transfer
ToPending(r, l) ==
    Kind(l) = "fulfilled" /\ r.pending = Event[l].pending /\ r.fulfilled = None
NoneFound(table, l) ==
    /\ Kind(l) \in {"completed", "queued"} =>
           \A r \in table : ~(Awaiting(r) /\ r.transfer = Event[l].transfer)
    /\ Kind(l) = "fulfilled" =>
           \A r \in table : ~(r.pending = Event[l].pending /\ r.fulfilled = None)
    /\ Kind(l) = "initiated" => Waiting(table, l) = {}
OwnId(l) == IF Kind(l) = "initiated" THEN <<"init", l>> ELSE Orphan(l)

\* The row a log is written to, and the row of the table it was.
WrittenTo(table, l, from, old) ==
    /\ ApplyLog(table, l) = (table \ {from}) \union {Written(old, l)}
    /\ old.initiated = from.initiated /\ old.completed = from.completed
    /\ old.queued = from.queued /\ old.fulfilled = from.fulfilled
    /\ old.transfer = from.transfer /\ old.pending = from.pending
    /\ \/ from \in table /\ old = from /\ (ToSource(from, l) \/ ToPending(from, l))
       \/ /\ from \in Waiting(table, l) /\ Kind(l) = "initiated"
          /\ old.id = <<"init", l>>
       \/ /\ from = Absent(OwnId(l)) /\ old = from /\ from \notin table
          /\ NoneFound(table, l)

\* A log that is on no row has no row of its own.
LEMMA NoOwnRow ==
    ASSUME NEW table, NEW gone, MatchedOK(table, gone), NEW l \in Logs, ~ShownIn(table, l),
           NEW r \in table
    PROVE  r.id # <<"init", l>> /\ r.id # Orphan(l)
<1>1. /\ r \in RowSet /\ RowNamed(r) /\ SourceOK(r)
      /\ l # None /\ Kind(l) \in Kinds
  BY EventFields DEF MatchedOK, TableOK, RowOK, MatchedRow
<1>2. \A k \in Kinds : r[k] # l
  BY <1>1, Slots DEF ShownIn
<1>3. ASSUME r.id = <<"init", l>> PROVE FALSE
  <2>1. r.initiated = l
    BY <1>1, <1>3 DEF SourceOK
  <2> QED
    BY <1>2, <2>1 DEF Kinds
<1>4. ASSUME r.id = Orphan(l) PROVE FALSE
  <2>1. r[Kind(l)] = l
    BY <1>1, <1>4 DEF RowNamed, Orphan, Kind
  <2> QED
    BY <1>1, <1>2, <2>1
<1> QED
  BY <1>3, <1>4

\* What Reconcile does at a row of the table, and at an id it has no row for.
LEMMA ReconcileAt ==
    ASSUME NEW table, TableOK(table), NEW r \in table, NEW l \in Logs
    PROVE  Reconcile(table, r.id, l) = (table \ {r}) \union {Written(r, l)}
<1>1. r.id \in Ids /\ \A s \in table : s.id = r.id => s = r
  BY DEF TableOK, RowOK, RowSet, OneRowEach
<1>2. PICK id \in Ids : id = r.id
  BY <1>1
<1>3. PICK old \in RowSet :
               /\ old.id = id
               /\ \/ old \in table
                  \/ old = Absent(id) /\ \A s \in table : s.id # id
               /\ \A s \in table : s.id = id <=> s = old
               /\ Reconcile(table, id, l) = (table \ {old}) \union {Written(old, l)}
  BY ReconcileIs
<1>4. old = r
  BY <1>2, <1>3
<1> QED
  BY <1>2, <1>3, <1>4

LEMMA ReconcileNew ==
    ASSUME NEW table, TableOK(table), NEW id \in Ids, NEW l \in Logs,
           \A r \in table : r.id # id
    PROVE  /\ Reconcile(table, id, l) = (table \ {Absent(id)}) \union {Written(Absent(id), l)}
           /\ Absent(id) \notin table
<1>1. PICK old \in RowSet :
               /\ old.id = id
               /\ \/ old \in table
                  \/ old = Absent(id) /\ \A s \in table : s.id # id
               /\ \A s \in table : s.id = id <=> s = old
               /\ Reconcile(table, id, l) = (table \ {old}) \union {Written(old, l)}
  BY ReconcileIs
<1> QED
  BY <1>1

LEMMA WrittenSomewhere ==
    ASSUME NEW table, NEW gone, MatchedOK(table, gone), NEW l \in Logs, ~ShownIn(table, l)
    PROVE  \E from, old \in RowSet : WrittenTo(table, l, from, old)
<1>1. TableOK(table) /\ \A r \in table : r \in RowSet
  BY DEF MatchedOK, TableOK, RowOK
<1>2. /\ Kind(l) \in Kinds /\ OwnId(l) \in Ids
      /\ \A r \in table : r.id # <<"init", l>> /\ r.id # Orphan(l)
  BY EventFields, NoOwnRow DEF Ids, OwnId, Orphan
<1>3. PICK own \in Ids : own = OwnId(l)
  BY <1>2
<1>4. \A r \in table : r.id # own
  BY <1>2, <1>3 DEF OwnId
<1>5. /\ Reconcile(table, own, l) = (table \ {Absent(own)}) \union {Written(Absent(own), l)}
      /\ Absent(own) \notin table /\ Absent(own) \in RowSet
  BY <1>1, <1>4, ReconcileNew, AbsentRow
\* To no row that is there: its own.
<1>6. ASSUME ApplyLog(table, l) = Reconcile(table, own, l), NoneFound(table, l)
      PROVE  WrittenTo(table, l, Absent(own), Absent(own))
  BY <1>3, <1>5, <1>6, Zenon DEF WrittenTo
\* To a row that is there.
<1>7. ASSUME NEW r \in table, ApplyLog(table, l) = Reconcile(table, r.id, l),
             ToSource(r, l) \/ ToPending(r, l)
      PROVE  WrittenTo(table, l, r, r)
  <2>1. Reconcile(table, r.id, l) = (table \ {r}) \union {Written(r, l)}
    BY <1>1, <1>7, ReconcileAt
  <2> QED
    BY <1>7, <2>1, Zenon DEF WrittenTo
<1>8. CASE Kind(l) = "initiated"
  <2>1. own = <<"init", l>> /\ Key(table, l) = own
    BY <1>3, <1>8 DEF OwnId, Key, Kind
  <2>2. ApplyLog(table, l) = Reconcile(AdoptOrphan(table, l), own, l)
    BY <1>8, <2>1, Zenon DEF ApplyLog, Kind
  <2>3. CASE AdoptOrphan(table, l) = table /\ Waiting(table, l) = {}
    <3>1. ApplyLog(table, l) = Reconcile(table, own, l)
      BY <2>2, <2>3
    <3>2. NoneFound(table, l)
      BY <1>8, <2>3 DEF NoneFound
    <3> QED
      BY <1>5, <1>6, <3>1, <3>2
  <2>4. ASSUME NEW taken \in Waiting(table, l),
               AdoptOrphan(table, l) =
                   (table \ {taken}) \union {[taken EXCEPT !.id = <<"init", l>>]}
        PROVE  \E from, old \in RowSet : WrittenTo(table, l, from, old)
    <3>1. PICK old : old = [taken EXCEPT !.id = <<"init", l>>]
      OBVIOUS
    <3>2. PICK base : base = AdoptOrphan(table, l)
      OBVIOUS
    <3>3. base = (table \ {taken}) \union {old}
      BY <2>4, <3>1, <3>2, Zenon
    <3>4. taken \in table /\ taken \in RowSet
      BY <1>1 DEF Waiting
    <3>5. /\ old \in RowSet /\ old.id = own
          /\ old.initiated = taken.initiated /\ old.completed = taken.completed
          /\ old.queued = taken.queued /\ old.fulfilled = taken.fulfilled
          /\ old.transfer = taken.transfer /\ old.pending = taken.pending
      BY <2>1, <3>1, <3>4 DEF RowSet
    <3>6. TableOK(base)
      BY <1>1, <3>2, AdoptOK
    <3>7. Reconcile(base, old.id, l) = (base \ {old}) \union {Written(old, l)}
      BY <3>3, <3>6, ReconcileAt
    <3>8. old \notin table
      BY <1>4, <3>5
    <3>9. base \ {old} = table \ {taken}
      BY <3>3, <3>8
    <3>10. ApplyLog(table, l) = (table \ {taken}) \union {Written(old, l)}
      BY <2>2, <3>2, <3>5, <3>7, <3>9
    <3>11. WrittenTo(table, l, taken, old)
      BY <1>8, <2>1, <3>5, <3>10 DEF WrittenTo
    <3> QED
      BY <3>4, <3>5, <3>11
  <2> QED
    BY <1>1, <1>2, <2>3, <2>4, AdoptIs
<1>9. CASE Kind(l) \in {"completed", "queued"}
  <2>1. own = Orphan(l) /\ Key(table, l) = FindInitiated(table, l)
    BY <1>3, <1>9 DEF OwnId, Key, Kind
  <2>2. ApplyLog(table, l) = Reconcile(table, FindInitiated(table, l), l)
    BY <1>9, <2>1, Zenon DEF ApplyLog, Kind
  <2>3. CASE /\ FindInitiated(table, l) = Orphan(l)
             /\ \A r \in table : ~(Awaiting(r) /\ r.transfer = Event[l].transfer)
    <3>1. NoneFound(table, l)
      BY <1>9, <2>3 DEF NoneFound
    <3> QED
      BY <1>5, <1>6, <2>1, <2>2, <2>3, <3>1
  <2>4. ASSUME NEW r \in table, Awaiting(r), r.transfer = Event[l].transfer,
               FindInitiated(table, l) = r.id
        PROVE  \E from, old \in RowSet : WrittenTo(table, l, from, old)
    <3>1. WrittenTo(table, l, r, r)
      BY <1>7, <1>9, <2>2, <2>4 DEF ToSource
    <3> QED
      BY <1>1, <3>1
  <2> QED
    BY <1>1, <2>3, <2>4, FindInitiatedIs
<1>10. CASE Kind(l) = "fulfilled"
  <2>1. own = Orphan(l) /\ Key(table, l) = FindPending(table, l)
    BY <1>3, <1>10 DEF OwnId, Key, Kind
  <2>2. ApplyLog(table, l) = Reconcile(table, FindPending(table, l), l)
    BY <1>10, <2>1, Zenon DEF ApplyLog, Kind
  <2>3. CASE /\ FindPending(table, l) = Orphan(l)
             /\ \A r \in table : ~(r.pending = Event[l].pending /\ r.fulfilled = None)
    <3>1. NoneFound(table, l)
      BY <1>10, <2>3 DEF NoneFound
    <3> QED
      BY <1>5, <1>6, <2>1, <2>2, <2>3, <3>1
  <2>4. ASSUME NEW r \in table, r.pending = Event[l].pending, r.fulfilled = None,
               FindPending(table, l) = r.id
        PROVE  \E from, old \in RowSet : WrittenTo(table, l, from, old)
    <3>1. WrittenTo(table, l, r, r)
      BY <1>7, <1>10, <2>2, <2>4 DEF ToPending
    <3> QED
      BY <1>1, <3>1
  <2> QED
    BY <2>3, <2>4, FindPendingIs
<1> QED
  BY <1>2, <1>8, <1>9, <1>10 DEF Kinds

\* The row a log leaves is as it should be, whichever row it was.
LEMMA WrittenMatched ==
    ASSUME NEW table, NEW gone, MatchedOK(table, gone), NEW l \in Logs, ~ShownIn(table, l),
           Kind(l) = "fulfilled" => \E q : OfPending(q, l) /\ (q \in gone \/ ShownIn(table, q)),
           NEW from \in RowSet, NEW old \in RowSet, WrittenTo(table, l, from, old),
           NEW new \in RowSet, new = Written(old, l)
    PROVE  /\ MatchedRow(new, gone) /\ Refs(new) = Refs(from) \union {l}
           /\ from \in table \/ Refs(from) = {}
           /\ \A s \in table : /\ ~(/\ IsOrphan(new, {"completed", "queued"}) /\ Awaiting(s)
                                     /\ new.transfer = s.transfer)
                               /\ ~(/\ IsOrphan(s, {"completed", "queued"}) /\ Awaiting(new)
                                     /\ new.transfer = s.transfer)
<1>1. /\ Kind(l) \in Kinds /\ l # None
      /\ \A k \in Kinds : from[k] \in Ref /\ old[k] = from[k]
  BY EventFields, Slots DEF Kinds, WrittenTo
<1>2. /\ new.id = old.id
      /\ \A k \in Kinds : new[k] = IF k = Kind(l) THEN l ELSE from[k]
  BY <1>1, WrittenRow
<1>3. new.transfer = Event[l].transfer /\ new.pending = WrittenPending(old, l)
  BY DEF Written
<1>4. \A r \in table : r \in RowSet /\ RowNamed(r) /\ MatchedRow(r, gone)
  BY DEF MatchedOK, TableOK, RowOK
<1> DEFINE Source == /\ from \in table /\ old = from /\ ToSource(from, l)
                     /\ from.initiated # None /\ from.completed = None
                     /\ from.queued = None /\ from.fulfilled = None /\ from.pending = None
           Pending == /\ from \in table /\ old = from /\ ToPending(from, l)
                      /\ from.queued # None /\ from.fulfilled = None
           Adopted == /\ from \in Waiting(table, l) /\ Kind(l) = "initiated"
                      /\ old.id = <<"init", l>> /\ from \in table
                      /\ from.completed # None \/ from.queued # None
                      /\ from.initiated = None
           Own == /\ old = from /\ from.id = OwnId(l) /\ NoneFound(table, l)
                  /\ from.transfer = None /\ from.pending = None
                  /\ \A k \in Kinds : from[k] = None
<1>5. Source \/ Pending \/ Adopted \/ Own
  <2>1. CASE from \in table /\ old = from /\ ToSource(from, l)
    <3>1. /\ from.initiated # None /\ from.completed = None
          /\ from.queued = None /\ from.fulfilled = None
      BY <2>1 DEF ToSource, Awaiting
    <3>2. from.pending = None
      BY <1>4, <2>1, <3>1 DEF MatchedRow, PendingOK
    <3> QED
      BY <2>1, <3>1, <3>2
  <2>2. CASE from \in table /\ old = from /\ ToPending(from, l)
    <3>1. Event[l].pending # None
      BY <2>2, LedgerAssumption DEF ToPending, Kind
    <3>2. from.fulfilled = None /\ from.pending = Event[l].pending
      BY <2>2 DEF ToPending
    <3>3. from.queued # None
      BY <1>4, <2>2, <3>1, <3>2 DEF MatchedRow, PendingOK
    <3> QED
      BY <2>2, <3>2, <3>3
  <2>3. CASE /\ from \in Waiting(table, l) /\ Kind(l) = "initiated"
             /\ old.id = <<"init", l>>
    <3>1. from \in table /\ RowOK(from) /\ IsOrphan(from, {"completed", "queued"})
      BY <2>3 DEF Waiting, MatchedOK, TableOK
    <3>2. /\ from.id[2] \in Logs /\ from.initiated = None
          /\ from[Kind(from.id[2])] = from.id[2]
          /\ Kind(from.id[2]) \in {"completed", "queued"}
      BY <3>1, OrphanDelivery
    <3>3. from.completed # None \/ from.queued # None
      BY <3>2, EventFields
    <3> QED
      BY <2>3, <3>1, <3>2, <3>3
  <2>4. CASE from = Absent(OwnId(l)) /\ old = from /\ NoneFound(table, l)
    BY <2>4 DEF Absent, Kinds
  <2> QED
    BY <2>1, <2>2, <2>3, <2>4 DEF WrittenTo
<1>6. from[Kind(l)] = None
  <2>1. CASE Source
    BY <2>1 DEF ToSource
  <2>2. CASE Pending
    BY <2>2 DEF ToPending
  <2>3. CASE Adopted
    BY <2>3
  <2>4. CASE Own
    BY <1>1, <2>4
  <2> QED
    BY <1>5, <2>1, <2>2, <2>3, <2>4
<1>7. Refs(new) = Refs(from) \union {l}
  <2>1. old[Kind(l)] = None
    BY <1>1, <1>6
  <2>2. Refs(old) = Refs(from)
    BY DEF WrittenTo, Refs
  <2> QED
    BY <2>1, <2>2, WrittenCovers
<1>8. from \in table \/ Refs(from) = {}
  BY <1>5 DEF Refs, Kinds
\* Whichever row it was, it was of the log's transfer or of none.
<1>9. from \in table => /\ MatchedRow(from, gone) /\ RowNamed(from)
                        /\ from.transfer = Event[l].transfer
  <2> SUFFICES ASSUME from \in table PROVE from.transfer = Event[l].transfer
    BY <1>4
  <2>1. CASE Source
    BY <2>1 DEF ToSource
  <2>2. CASE Pending
    <3>1. PICK q : q = from.queued
      OBVIOUS
    <3>2. q \in Logs /\ Kind(q) = "queued" /\ Event[q].transfer = from.transfer
          /\ Event[q].pending = from.pending
      <4>1. "queued" \in Kinds
        BY DEF Kinds
      <4>2. from["queued"] = from.queued
        OBVIOUS
      <4> QED
        BY <1>1, <1>4, <2>2, <3>1, <4>1, <4>2 DEF MatchedRow, SlotsOK, PendingOK, Ref
    <3>3. OfPending(q, l)
      BY <2>2, <3>2 DEF OfPending, ToPending, Kind
    <3> QED
      BY <3>2, <3>3, LedgerAssumption
  <2>3. CASE Adopted
    BY <2>3 DEF Waiting
  <2>4. CASE Own
    <3>1. from \notin table
      BY <2>4, NoOwnRow DEF OwnId
    <3> QED
      BY <3>1
  <2> QED
    BY <1>5, <2>1, <2>2, <2>3, <2>4
<1>10. SlotsOK(new)
  <2> SUFFICES ASSUME NEW k \in Kinds, new[k] # None
               PROVE  Kind(new[k]) = k /\ Event[new[k]].transfer = new.transfer
    BY DEF SlotsOK
  <2>1. CASE k = Kind(l)
    BY <1>2, <1>3, <2>1
  <2>2. CASE k # Kind(l)
    <3>1. new[k] = from[k]
      BY <1>2, <2>2
    <3>2. from \in table
      BY <1>5, <3>1
    <3> QED
      BY <1>3, <1>9, <3>1, <3>2 DEF MatchedRow, SlotsOK
  <2> QED
    BY <2>1, <2>2
<1>11. /\ new.initiated = IF Kind(l) = "initiated" THEN l ELSE from.initiated
       /\ new.completed = IF Kind(l) = "completed" THEN l ELSE from.completed
       /\ new.queued = IF Kind(l) = "queued" THEN l ELSE from.queued
       /\ new.fulfilled = IF Kind(l) = "fulfilled" THEN l ELSE from.fulfilled
  BY <1>2 DEF Kinds
<1>12. new.pending = IF Kind(l) \in {"queued", "fulfilled"} THEN Event[l].pending ELSE from.pending
  BY <1>3 DEF WrittenPending, WrittenTo
<1>13. PendingOK(new)
  <2>1. CASE Source
    BY <1>1, <1>11, <1>12, <2>1 DEF PendingOK, ToSource
  <2>2. CASE Pending
    BY <1>1, <1>9, <1>11, <1>12, <2>2 DEF PendingOK, ToPending, MatchedRow
  <2>3. CASE Adopted
    BY <1>1, <1>9, <1>11, <1>12, <2>3 DEF PendingOK, MatchedRow
  <2>4. CASE Own
    <3>1. from.queued = None /\ from.fulfilled = None /\ from.pending = None
      BY <2>4 DEF Kinds
    <3> QED
      BY <1>1, <1>11, <1>12, <3>1 DEF PendingOK, Kinds
  <2> QED
    BY <1>5, <2>1, <2>2, <2>3, <2>4
<1>14. SourceOK(new)
  <2>1. CASE Source \/ Pending
    <3>1. new.id = from.id /\ Kind(l) # "initiated"
      BY <1>2, <2>1 DEF ToSource, ToPending
    <3> QED
      BY <1>9, <1>11, <2>1, <3>1 DEF SourceOK, MatchedRow
  <2>2. CASE Adopted
    BY <1>2, <1>11, <2>2 DEF SourceOK
  <2>3. CASE Own
    BY <1>2, <1>11, <2>3 DEF SourceOK, OwnId, Orphan
  <2> QED
    BY <1>5, <2>1, <2>2, <2>3
\* An orphan that was written to was an orphan before, or is the log's own.
<1>15. ASSUME NEW kinds, IsOrphan(new, kinds)
       PROVE  /\ new.id = from.id /\ new.id[1] = "orphan"
              /\ (Pending /\ IsOrphan(from, kinds)) \/ (Own /\ new.id = Orphan(l) /\ Kind(l) \in kinds)
  <2>1. new.id[1] = "orphan"
    BY <1>15 DEF IsOrphan
  <2>2. CASE Source
    <3>1. from.id[1] = "orphan"
      BY <1>2, <2>1, <2>2
    <3>2. from.initiated = None
      BY <1>9, <2>2, <3>1 DEF RowNamed
    <3> QED
      BY <2>2, <3>2
  <2>3. CASE Pending
    <3>1. new.id = from.id
      BY <1>2, <2>3
    <3> QED
      BY <1>15, <2>1, <2>3, <3>1 DEF IsOrphan
  <2>4. CASE Adopted
    BY <1>2, <2>1, <2>4
  <2>5. CASE Own
    <3>1. new.id = from.id /\ new.id = Orphan(l)
      BY <1>2, <2>1, <2>5 DEF OwnId
    <3>2. Kind(l) \in kinds
      BY <1>15, <3>1 DEF IsOrphan, Orphan, Kind
    <3> QED
      BY <2>1, <2>5, <3>1, <3>2
  <2> QED
    BY <1>5, <2>2, <2>3, <2>4, <2>5
<1>16. QueueGone(new, gone)
  <2> SUFFICES ASSUME IsOrphan(new, {"fulfilled"})
               PROVE  \E m \in gone : Event[m].kind = "queued" /\ Event[m].pending = new.pending
    BY DEF QueueGone
  <2>1. CASE Pending /\ IsOrphan(from, {"fulfilled"})
    <3>1. new.pending = from.pending
      BY <1>12, <2>1 DEF ToPending
    <3> QED
      BY <1>9, <2>1, <3>1 DEF MatchedRow, QueueGone
  <2>2. CASE Own /\ Kind(l) \in {"fulfilled"}
    <3>1. PICK q : OfPending(q, l) /\ (q \in gone \/ ShownIn(table, q))
      BY <2>2
    <3>2. new.pending = Event[l].pending /\ Event[q].pending = Event[l].pending
          /\ Kind(q) = "queued"
      BY <1>12, <2>2, <3>1 DEF OfPending, Kind
    <3>3. ASSUME ShownIn(table, q) PROVE FALSE
      <4>1. PICK r \in table : q \in Refs(r)
        BY <3>3 DEF ShownIn
      <4>2. r \in RowSet /\ SlotsOK(r) /\ PendingOK(r) /\ q # None
        BY <1>4, <4>1 DEF MatchedRow, Refs
      <4>3. PICK k \in Kinds : r[k] = q
        BY <4>1, <4>2, Slots
      <4>4. r.queued = q
        BY <3>2, <4>2, <4>3 DEF SlotsOK
      <4>5. r.pending = Event[l].pending
        BY <3>2, <4>2, <4>4 DEF PendingOK
      <4>6. r.fulfilled # None
        BY <2>2, <4>5 DEF NoneFound
      <4>7. PICK f : f = r.fulfilled
        OBVIOUS
      <4>8. f \in Logs /\ Kind(f) = "fulfilled" /\ Event[f].pending = r.pending
        <5>1. "fulfilled" \in Kinds /\ r.fulfilled \in Ref
          BY <4>2 DEF Kinds, RowSet
        <5>2. r["fulfilled"] = r.fulfilled
          OBVIOUS
        <5> QED
          BY <4>2, <4>6, <4>7, <5>1, <5>2 DEF SlotsOK, PendingOK, Ref
      <4>9. f = l
        BY <2>2, <4>5, <4>8, LedgerAssumption DEF Kind
      <4> QED
        BY <1>1, <4>1, <4>7, <4>9 DEF ShownIn, Refs
    <3> QED
      BY <3>1, <3>2, <3>3 DEF Kind
  <2> QED
    BY <1>15, <2>1, <2>2
<1>17. ASSUME NEW s \in table, IsOrphan(new, {"completed", "queued"}), Awaiting(s),
              new.transfer = s.transfer
       PROVE  FALSE
  <2>1. CASE Pending /\ IsOrphan(from, {"completed", "queued"})
    BY <1>3, <1>9, <1>17, <2>1 DEF MatchedOK, NoneBeside
  <2>2. CASE Own /\ Kind(l) \in {"completed", "queued"}
    BY <1>3, <1>17, <2>2 DEF NoneFound
  <2> QED
    BY <1>15, <1>17, <2>1, <2>2
<1>18. ASSUME NEW s \in table, IsOrphan(s, {"completed", "queued"}), Awaiting(new),
              new.transfer = s.transfer
       PROVE  FALSE
  <2>1. Kind(l) = "initiated" /\ from.completed = None /\ from.queued = None
    BY <1>1, <1>11, <1>18 DEF Awaiting, Kinds
  <2>2. Own
    BY <1>5, <2>1 DEF ToSource, ToPending
  <2>3. s.initiated = None
    BY <1>4, <1>18 DEF RowNamed, IsOrphan
  <2>4. s \in Waiting(table, l)
    BY <1>3, <1>18, <2>3 DEF Waiting
  <2> QED
    BY <2>1, <2>2, <2>4 DEF NoneFound
<1> QED
  BY <1>7, <1>8, <1>10, <1>13, <1>14, <1>16, <1>17, <1>18 DEF MatchedRow

LEMMA ApplyLogMatched ==
    ASSUME NEW table, NEW gone, MatchedOK(table, gone), NEW l \in Logs, ~ShownIn(table, l),
           Kind(l) = "fulfilled" => \E q : OfPending(q, l) /\ (q \in gone \/ ShownIn(table, q))
    PROVE  /\ MatchedOK(ApplyLog(table, l), gone)
           /\ \A m : ShownIn(ApplyLog(table, l), m) => ShownIn(table, m) \/ m = l
<1>1. PICK from, old \in RowSet : WrittenTo(table, l, from, old)
  BY WrittenSomewhere
<1>2. PICK new \in RowSet : new = Written(old, l)
  BY WrittenRow
<1>3. PICK after : after = ApplyLog(table, l)
  OBVIOUS
<1>4. after = (table \ {from}) \union {new}
  BY <1>1, <1>2, <1>3 DEF WrittenTo
<1>5. /\ MatchedRow(new, gone) /\ Refs(new) = Refs(from) \union {l}
      /\ from \in table \/ Refs(from) = {}
      /\ \A s \in table : /\ ~(/\ IsOrphan(new, {"completed", "queued"}) /\ Awaiting(s)
                                /\ new.transfer = s.transfer)
                          /\ ~(/\ IsOrphan(s, {"completed", "queued"}) /\ Awaiting(new)
                                /\ new.transfer = s.transfer)
  BY <1>1, <1>2, WrittenMatched
<1>6. TableOK(table) /\ (\A r \in table : MatchedRow(r, gone)) /\ OnOneRow(table)
      /\ NoneBeside(table)
  BY DEF MatchedOK
<1>7. TableOK(after)
  BY <1>3, <1>6, ApplyLogOK
<1>8. \A r \in table : l \notin Refs(r)
  BY DEF ShownIn
<1>9. OnOneRow(after)
  <2>1. \A r \in table \ {from} : Refs(r) \intersect Refs(new) = {}
    BY <1>5, <1>6, <1>8 DEF OnOneRow
  <2> QED
    BY <1>4, <1>6, <2>1 DEF OnOneRow
<1>10. NoneBeside(after)
  <2>1. ~(IsOrphan(new, {"completed", "queued"}) /\ Awaiting(new))
    <3>1. new \in after
      BY <1>4
    <3> QED
      BY <1>7, <3>1 DEF TableOK, RowOK, RowNamed, IsOrphan, Awaiting
  <2> SUFFICES ASSUME NEW r \in after, NEW s \in after,
                      IsOrphan(r, {"completed", "queued"}), Awaiting(s),
                      r.transfer = s.transfer
               PROVE  FALSE
    BY DEF NoneBeside
  <2>2. (r \in table \/ r = new) /\ (s \in table \/ s = new)
    BY <1>4
  <2> QED
    BY <1>5, <1>6, <2>1, <2>2 DEF NoneBeside
<1>11. \A m : ShownIn(after, m) => ShownIn(table, m) \/ m = l
  BY <1>4, <1>5 DEF ShownIn
<1> QED
  BY <1>3, <1>4, <1>5, <1>6, <1>7, <1>9, <1>10, <1>11 DEF MatchedOK

\* Logs that no row shows, each once, a fulfilment after its queueing or once that is gone.
InTurn(table, gone, logs) ==
    /\ \A i, j \in DOMAIN logs : logs[i] = logs[j] => i = j
    /\ \A i \in DOMAIN logs : ~ShownIn(table, logs[i])
    /\ \A i \in DOMAIN logs : Kind(logs[i]) = "fulfilled" =>
           \E q : /\ OfPending(q, logs[i])
                  /\ q \in gone \/ ShownIn(table, q) \/ \E j \in 1..(i - 1) : logs[j] = q

LEMMA MergedMatched ==
    ASSUME NEW table, NEW gone, MatchedOK(table, gone), NEW logs \in Seq(Logs),
           InTurn(table, gone, logs)
    PROVE  /\ MatchedOK(Merged(table, logs), gone)
           /\ \A m : ShownIn(Merged(table, logs), m) =>
                        ShownIn(table, m) \/ \E i \in 1..Len(logs) : logs[i] = m
<1>0. PICK after : StepByStep(after, table, logs)
  BY MergedSteps, Zenon
<1> DEFINE last == Len(logs)
<1>1. last \in Nat /\ DOMAIN logs = 1..last
  OBVIOUS
<1> DEFINE Holds(n) ==
             /\ MatchedOK(after[n], gone)
             /\ \A m : ShownIn(after[n], m) =>
                          ShownIn(table, m) \/ \E i \in 1..n : logs[i] = m
             /\ Keeps(table, after[n])
             /\ \A i \in 1..n : ShownIn(after[n], logs[i])
           Good == {n \in Nat : n <= last => Holds(n)}
<1>2. 0 \in Good
  <2>1. TableOK(table)
    BY DEF MatchedOK
  <2>2. Holds(0)
    BY <1>0, <2>1, KeepsSelf DEF StepByStep
  <2> QED
    BY <2>2
<1>3. ASSUME NEW n \in Good PROVE n + 1 \in Good
  <2>1. n \in Nat /\ n + 1 \in Nat
    OBVIOUS
  <2>2. SUFFICES ASSUME n + 1 <= last PROVE Holds(n + 1)
    BY <2>1
  <2>3. Holds(n)
    BY <1>1, <2>1, <2>2
  <2>4. PICK l \in Logs : l = logs[n + 1] /\ after[n + 1] = ApplyLog(after[n], l)
    BY <1>0, <2>1, <2>2 DEF StepByStep
  <2>5. PICK a, b : a = after[n] /\ b = after[n + 1]
    OBVIOUS
  <2>6. /\ MatchedOK(a, gone) /\ Keeps(table, a)
        /\ \A m : ShownIn(a, m) => ShownIn(table, m) \/ \E i \in 1..n : logs[i] = m
        /\ \A i \in 1..n : ShownIn(a, logs[i])
    BY <2>3, <2>5, Zenon
  <2>7. n + 1 \in DOMAIN logs /\ \A i \in 1..n : i \in DOMAIN logs /\ i # n + 1
    BY <1>1, <2>1, <2>2
  <2>8. ~ShownIn(a, l)
    BY <2>4, <2>6, <2>7 DEF InTurn
  <2>9. Kind(l) = "fulfilled" => \E q : OfPending(q, l) /\ (q \in gone \/ ShownIn(a, q))
    <3> SUFFICES ASSUME Kind(l) = "fulfilled"
                 PROVE  \E q : OfPending(q, l) /\ (q \in gone \/ ShownIn(a, q))
      OBVIOUS
    <3>1. PICK q : /\ OfPending(q, l)
                   /\ q \in gone \/ ShownIn(table, q) \/ \E j \in 1..((n + 1) - 1) : logs[j] = q
      BY <2>4, <2>7 DEF InTurn
    <3>2. (n + 1) - 1 = n
      BY <2>1
    <3>3. ShownIn(table, q) => ShownIn(a, q)
      BY <2>6, KeepsShown
    <3> QED
      BY <2>6, <3>1, <3>2, <3>3
  <2>10. /\ MatchedOK(ApplyLog(a, l), gone)
         /\ \A m : ShownIn(ApplyLog(a, l), m) => ShownIn(a, m) \/ m = l
    BY <2>6, <2>8, <2>9, ApplyLogMatched
  <2>11. TableOK(table) /\ TableOK(a)
    BY <2>6 DEF MatchedOK
  <2>12. /\ TableOK(ApplyLog(a, l)) /\ Keeps(a, ApplyLog(a, l)) /\ ShownIn(ApplyLog(a, l), l)
    BY <2>11, ApplyLogOK
  <2>13. /\ MatchedOK(b, gone) /\ \A m : ShownIn(b, m) => ShownIn(a, m) \/ m = l
         /\ TableOK(b) /\ Keeps(a, b) /\ ShownIn(b, l)
    BY <2>4, <2>5, <2>10, <2>12, Zenon
  <2>14. Keeps(table, b)
    BY <2>6, <2>11, <2>13, KeepsOn
  <2>15. \A i \in 1..(n + 1) : i \in 1..n \/ i = n + 1
    BY <2>1
  <2>16. \A i \in 1..(n + 1) : ShownIn(b, logs[i])
    BY <2>4, <2>6, <2>13, <2>15, KeepsShown
  <2>17. \A m : ShownIn(b, m) => ShownIn(table, m) \/ \E i \in 1..(n + 1) : logs[i] = m
    <3>1. n + 1 \in 1..(n + 1) /\ \A i \in 1..n : i \in 1..(n + 1)
      BY <2>1
    <3> QED
      BY <2>4, <2>6, <2>13, <3>1
  <2> QED
    BY <2>5, <2>13, <2>14, <2>16, <2>17, Zenon
<1>4. Good \in SUBSET Nat
  OBVIOUS
<1>5. Good = Nat
  <2> HIDE DEF Good
  <2> QED
    BY <1>2, <1>3, <1>4, Induction
<1>6. Holds(last)
  BY <1>1, <1>5
<1> QED
  BY <1>0, <1>6, Zenon DEF StepByStep

-----------------------------------------------------------------------------
(* The drain. *)

Runs == [at : {"idle", "take", "batch", "row", "park", "parked"}, k : 1..Len(ReaderChains),
         first : Nat, last : Nat, row : Nat, attempt : Nat]
ReaderTypes ==
    /\ reader \in [Chains -> Nat] /\ drain \in Runs
    /\ dead \subseteq Logs /\ TableOK(rows)
ReadBehind == \A c \in Chains : reader[c] <= Len(stored[c])
HasFate(l) == Shown(l) \/ l \in dead
ReadFates == \A c \in Chains : \A i \in 1..reader[c] : HasFate(stored[c][i])
\* A run is at events the store has, none of them further than one past the reader.
InPlace ==
    /\ drain.last <= Len(stored[Here])
    /\ drain.at = "batch" =>
           drain.first \in 1..drain.last /\ drain.first <= reader[Here] + 1
    /\ drain.at \in {"row", "park", "parked"} =>
           /\ drain.first >= 1 /\ drain.row \in drain.first..drain.last
           /\ drain.row <= reader[Here] + 1
    /\ drain.at = "parked" => stored[Here][drain.row] \in dead
ReaderInv == ReaderTypes /\ ReadBehind /\ ReadFates /\ InPlace

LEMMA HereChain == drain \in Runs => Here \in Chains
  BY ReaderAssumption DEF Runs, Here

LEMMA ReadingRun ==
    ASSUME NEW k \in Nat \ {0}
    PROVE  Reading(k) \in Runs /\ Reading(k).last = 0 /\ Reading(k).at \in {"idle", "take"}
<1>1. Len(ReaderChains) \in Nat \ {0}
  BY ReaderAssumption
<1>2. CASE k > Len(ReaderChains)
  <2>1. Reading(k) = Idle
    BY <1>2 DEF Reading
  <2> QED
    BY <1>1, <2>1 DEF Idle, Runs
<1>3. CASE ~(k > Len(ReaderChains))
  <2>1. k \in 1..Len(ReaderChains)
    BY <1>1, <1>3
  <2>2. Reading(k) = [at |-> "take", k |-> k, first |-> 0, last |-> 0, row |-> 0, attempt |-> 0]
    BY <1>3 DEF Reading, Idle
  <2> QED
    BY <2>1, <2>2 DEF Runs
<1> QED
  BY <1>2, <1>3

LEMMA RowRun ==
    ASSUME drain \in Runs, NEW i \in Nat
    PROVE  /\ Row(i) \in Runs /\ Row(i).at = "row" /\ Row(i).k = drain.k /\ Row(i).row = i
           /\ Row(i).first = drain.first /\ Row(i).last = drain.last
  BY DEF Row, Runs

\* A run between chains is in place.
LEMMA BetweenChains ==
    ASSUME drain' \in Runs, drain'.last = 0, drain'.at \in {"idle", "take"},
           stored' \in [Chains -> Seq(Logs)]
    PROVE  InPlace'
<1>1. Here' \in Chains
  BY ReaderAssumption DEF Runs, Here
<1>2. Len(stored'[Here']) \in Nat
  BY <1>1
<1> QED
  BY <1>2 DEF InPlace

\* The tables and the reader stay, the run moves on to a chain.
LEMMA MovesOn ==
    ASSUME ReaderInv, StoreTypes, UNCHANGED ingestVars, UNCHANGED <<reader, rows, dead>>,
           NEW k \in Nat \ {0}, drain' = Reading(k)
    PROVE  ReaderInv'
<1>1. drain' \in Runs /\ drain'.last = 0 /\ drain'.at \in {"idle", "take"}
  BY ReadingRun
<1>2. stored' = stored
  BY DEF ingestVars
<1>3. ReaderTypes' /\ ReadBehind' /\ ReadFates'
  BY <1>1, <1>2 DEF ReaderInv, ReaderTypes, ReadBehind, ReadFates, HasFate, Shown
<1>4. InPlace'
  BY <1>1, <1>2, BetweenChains DEF StoreTypes
<1> QED
  BY <1>3, <1>4 DEF ReaderInv

\* The store only grows at its end.
LEMMA StoreGrows ==
    ASSUME StoreTypes, StoreNext, NEW c \in Chains
    PROVE  /\ Len(stored[c]) <= Len(stored'[c])
           /\ \A i \in 1..Len(stored[c]) : stored'[c][i] = stored[c][i]
<1>1. CASE stored' = stored
  BY <1>1 DEF StoreTypes
<1>2. ASSUME NEW d \in Chains, InsertEvents(d)
      PROVE  /\ Len(stored[c]) <= Len(stored'[c])
             /\ \A i \in 1..Len(stored[c]) : stored'[c][i] = stored[c][i]
  <2>1. PICK i \in DOMAIN Ledger[d] : stored' = [stored EXCEPT ![d] = Append(@, Ledger[d][i])]
    BY <1>2 DEF InsertEvents, Missing
  <2>2. Ledger[d][i] \in Logs /\ stored[c] \in Seq(Logs)
    <3>1. PICK l : l = Ledger[d]
      OBVIOUS
    <3>2. l \in Seq(Logs)
      BY <3>1, StoreAssumption, Zenon
    <3>3. l[i] \in Logs
      BY <2>1, <3>1, <3>2
    <3> QED BY <3>1, <3>3 DEF StoreTypes
  <2>3. stored'[c] = stored[c] \/ stored'[c] = Append(stored[c], Ledger[d][i])
    BY <2>1 DEF StoreTypes
  <2> QED
    BY <2>2, <2>3
<1>3. CASE IngestCrash
  BY <1>1, <1>3 DEF IngestCrash
<1>4. ASSUME NEW d \in Chains, \/ Finalizes(d) \/ IngestStarts(d) \/ BlockWritten(d) \/ IngestFails(d)
                              \/ \E block \in RewindBlocks : AsksRewind(d, block)
      PROVE  stored' = stored
  BY <1>4 DEF Finalizes, IngestStarts, BlockWritten, IngestFails, AsksRewind
<1> QED
  BY <1>1, <1>2, <1>3, <1>4 DEF StoreNext, Watch

LEMMA StoreNextReader ==
    ASSUME ReaderInv, StoreTypes, StoreTypes', StoreNext, UNCHANGED readerVars PROVE ReaderInv'
<1>1. UNCHANGED <<reader, rows, dead, drain>>
  BY DEF readerVars
<1>2. \A c \in Chains : /\ Len(stored[c]) \in Nat /\ Len(stored'[c]) \in Nat
                        /\ Len(stored[c]) <= Len(stored'[c])
                        /\ \A i \in 1..Len(stored[c]) : stored'[c][i] = stored[c][i]
  BY StoreGrows DEF StoreTypes
<1>3. ReaderTypes'
  BY <1>1 DEF ReaderInv, ReaderTypes
<1>4. reader \in [Chains -> Nat] /\ drain \in Runs /\ Here \in Chains /\ Here' = Here
  BY <1>1, HereChain DEF ReaderInv, ReaderTypes, Here
<1>5. ReadBehind'
  BY <1>1, <1>2, <1>4 DEF ReaderInv, ReadBehind
<1>6. ReadFates'
  <2>1. \A c \in Chains : \A i \in 1..reader[c] : i \in 1..Len(stored[c])
    BY <1>2, <1>4 DEF ReaderInv, ReadBehind
  <2> QED
    BY <1>1, <1>2, <2>1 DEF ReaderInv, ReadFates, HasFate, Shown
<1>7. InPlace'
  <2>1. drain.last \in Nat /\ drain.first \in Nat /\ drain.row \in Nat
    BY <1>4 DEF Runs
  <2>2. drain.last <= Len(stored'[Here])
    BY <1>2, <1>4, <2>1 DEF ReaderInv, InPlace
  <2>3. drain.at = "parked" => stored'[Here][drain.row] \in dead
    <3> SUFFICES ASSUME drain.at = "parked" PROVE stored'[Here][drain.row] \in dead
      OBVIOUS
    <3>1. drain.row \in 1..Len(stored[Here]) /\ stored[Here][drain.row] \in dead
      BY <1>2, <1>4, <2>1 DEF ReaderInv, InPlace
    <3> QED
      BY <1>2, <1>4, <3>1
  <2> QED
    BY <1>1, <1>4, <2>2, <2>3 DEF ReaderInv, InPlace
<1> QED
  BY <1>3, <1>5, <1>6, <1>7 DEF ReaderInv

LEMMA RunStartsReader ==
    ASSUME ReaderInv, StoreTypes, RunStarts
    PROVE  ReaderInv' /\ ((rebuildAsked' \/ ~rebuildAsked) => Keeps(rows, rows'))
<1>1. UNCHANGED ingestVars /\ drain' = Reading(1)
  BY DEF RunStarts, storeVars, ingestVars
<1>2. CASE rebuildAsked
  <2>1. rebuildAsked' = FALSE /\ rows' = {} /\ dead' = {} /\ reader' = [c \in Chains |-> 0]
    BY <1>2 DEF RunStarts
  <2>2. drain' \in Runs /\ drain'.last = 0 /\ drain'.at \in {"idle", "take"} /\ stored' = stored
    BY <1>1, ReadingRun DEF ingestVars
  <2>3. ReaderTypes' /\ ReadBehind' /\ ReadFates'
    BY <2>1, <2>2 DEF ReaderTypes, TableOK, OneRowEach, ReadBehind, ReadFates, StoreTypes
  <2>4. InPlace'
    BY <2>2, BetweenChains DEF StoreTypes
  <2> QED
    BY <1>2, <2>1, <2>3, <2>4 DEF ReaderInv
<1>3. CASE ~rebuildAsked
  <2>1. UNCHANGED <<reader, rows, dead>>
    BY <1>3 DEF RunStarts
  <2> QED
    BY <1>1, <2>1, MovesOn, KeepsSelf DEF ReaderInv, ReaderTypes
<1> QED
  BY <1>2, <1>3

LEMMA TakeEventsReader ==
    ASSUME ReaderInv, StoreTypes, TakeEvents
    PROVE  ReaderInv' /\ UNCHANGED <<rows, stored>>
<1>1. UNCHANGED ingestVars /\ UNCHANGED <<reader, rows, dead>>
  BY DEF TakeEvents, storeVars, ingestVars
<1>2. PICK from : from = reader[Here]
  OBVIOUS
<1>3. PICK all : all = Len(stored[Here])
  OBVIOUS
<1>4. PICK to : to = IF from + Batch < all THEN from + Batch ELSE all
  OBVIOUS
<1>5. drain' = IF from = all THEN Reading(drain.k + 1)
               ELSE [drain EXCEPT !.at = "batch", !.first = from + 1, !.last = to]
  BY <1>2, <1>3, <1>4, Zenon DEF TakeEvents
<1>6. drain \in Runs /\ Here \in Chains
  BY HereChain DEF ReaderInv, ReaderTypes
<1>7. from \in Nat /\ all \in Nat /\ from <= all
  BY <1>2, <1>3, <1>6 DEF ReaderInv, ReaderTypes, ReadBehind, StoreTypes
<1>8. CASE from = all
  <2>1. drain.k + 1 \in Nat \ {0}
    BY <1>6 DEF Runs
  <2> QED
    BY <1>1, <1>5, <1>8, <2>1, MovesOn DEF ingestVars
<1>9. CASE from # all
  <2>1. to \in Nat /\ from + 1 <= to /\ to <= all
    BY <1>4, <1>7, <1>9, ReaderAssumption
  <2>2. PICK run : run = drain'
    OBVIOUS
  <2>3. run = [drain EXCEPT !.at = "batch", !.first = from + 1, !.last = to]
    BY <1>5, <1>9, <2>2
  <2>4. /\ run \in Runs /\ run.k = drain.k /\ run.at = "batch"
        /\ run.first = from + 1 /\ run.last = to
    <3>1. PICK first \in Nat : first = from + 1
      BY <1>7
    <3>2. run = [at |-> "batch", k |-> drain.k, first |-> first, last |-> to,
                 row |-> drain.row, attempt |-> drain.attempt]
      BY <1>6, <2>3, <3>1 DEF Runs
    <3> QED
      BY <1>6, <2>1, <3>1, <3>2 DEF Runs
  <2>5. Here' = Here /\ reader' = reader /\ stored' = stored /\ rows' = rows /\ dead' = dead
    BY <1>1, <2>2, <2>4 DEF Here, ingestVars
  <2>6. ReaderTypes' /\ ReadBehind' /\ ReadFates'
    BY <2>2, <2>4, <2>5 DEF ReaderInv, ReaderTypes, ReadBehind, ReadFates, HasFate, Shown
  <2>7. InPlace'
    BY <1>2, <1>3, <1>7, <2>1, <2>2, <2>4, <2>5 DEF InPlace
  <2> QED
    BY <2>5, <2>6, <2>7 DEF ReaderInv
<1> QED
  BY <1>8, <1>9

\* What a commit leaves, wherever the run goes from there.
LEMMA CommitReader ==
    ASSUME ReaderInv, StoreTypes, NEW first \in Nat \ {0}, NEW last \in Nat, first <= last,
           last <= Len(stored[Here]), first <= reader[Here] + 1,
           rows' = Merged(rows, SubSeq(stored[Here], first, last)),
           reader' = [reader EXCEPT ![Here] = last], stored' = stored, dead' = dead
    PROVE  /\ TableOK(rows') /\ Keeps(rows, rows') /\ reader' \in [Chains -> Nat]
           /\ ReadBehind' /\ ReadFates' /\ reader'[Here] = last
<1> DEFINE events == SubSeq(stored[Here], first, last)
<1>1. Here \in Chains /\ reader \in [Chains -> Nat]
  BY HereChain DEF ReaderInv, ReaderTypes
<1>2. stored[Here] \in Seq(Logs)
  BY <1>1 DEF StoreTypes
<1>3. /\ events \in Seq(Logs) /\ Len(events) = last - first + 1
      /\ \A i \in first..last :
            i - first + 1 \in 1..Len(events) /\ events[i - first + 1] = stored[Here][i]
  BY <1>2
<1> HIDE DEF events
<1>4. PICK after : after = rows'
  OBVIOUS
<1>5. after = Merged(rows, events)
  BY <1>4 DEF events
<1>6. /\ TableOK(Merged(rows, events)) /\ Keeps(rows, Merged(rows, events))
      /\ \A i \in 1..Len(events) : ShownIn(Merged(rows, events), events[i])
  BY <1>3, MergedOK DEF ReaderInv, ReaderTypes
<1>7. /\ TableOK(after) /\ Keeps(rows, after)
      /\ \A i \in 1..Len(events) : ShownIn(after, events[i])
  BY <1>5, <1>6, Zenon
<1>8. \A i \in first..last : ShownIn(after, stored[Here][i])
  BY <1>3, <1>7
<1>9. reader' \in [Chains -> Nat] /\ reader'[Here] = last
      /\ \A c \in Chains \ {Here} : reader'[c] = reader[c]
  BY <1>1
<1>10. ReadBehind'
  <2> SUFFICES ASSUME NEW c \in Chains PROVE reader'[c] <= Len(stored[c])
    BY DEF ReadBehind
  <2>1. CASE c = Here
    BY <1>9, <2>1
  <2>2. CASE c # Here
    BY <1>9, <2>2 DEF ReaderInv, ReadBehind
  <2> QED
    BY <2>1, <2>2
<1>11. \A l : HasFate(l) => ShownIn(after, l) \/ l \in dead
  BY <1>7, KeepsShown DEF HasFate, Shown, ShownIn
<1>12. ReadFates'
  <2>1. ASSUME NEW c \in Chains, NEW i \in 1..reader'[c]
        PROVE  ShownIn(after, stored[c][i]) \/ stored[c][i] \in dead
    <3>1. CASE c = Here /\ i >= first
      <4>1. i \in first..last
        BY <1>9, <3>1
      <4> QED
        BY <1>8, <3>1, <4>1
    <3>2. CASE c # Here \/ i < first
      <4>1. i \in 1..reader[c]
        BY <1>1, <1>9, <3>2
      <4> QED
        BY <1>11, <4>1 DEF ReaderInv, ReadFates
    <3> QED
      BY <3>1, <3>2
  <2> QED
    BY <1>4, <2>1 DEF ReadFates, HasFate, Shown, ShownIn
<1> QED
  BY <1>4, <1>7, <1>9, <1>10, <1>12

LEMMA ApplyBatchIs ==
    ASSUME NEW first, NEW last, NEW done, NEW failed, ApplyBatch(first, last, done, failed)
    PROVE  /\ UNCHANGED ingestVars /\ dead' = dead /\ stored' = stored
           /\ \/ /\ rows' = Merged(rows, SubSeq(stored[Here], first, last))
                 /\ reader' = [reader EXCEPT ![Here] = last]
                 /\ drain' = done \/ drain' = failed
              \/ UNCHANGED <<rows, reader>> /\ drain' = failed
<1>1. UNCHANGED <<head, stored, cursor, rewinds, watcher>> /\ dead' = dead
  BY Zenon DEF ApplyBatch
<1>2. \/ /\ rows' = Merged(rows, SubSeq(stored[Here], first, last))
         /\ reader' = [reader EXCEPT ![Here] = last]
         /\ drain' = done \/ drain' = failed
      \/ UNCHANGED <<rows, reader>> /\ drain' = failed
  BY Zenon DEF ApplyBatch
<1> QED
  BY <1>1, <1>2 DEF ingestVars

\* A failed attempt leaves the run at the first row, or at the row it was at.
LEMMA BatchTriedReader ==
    ASSUME ReaderInv, StoreTypes, BatchTried
    PROVE  ReaderInv' /\ Keeps(rows, rows')
<1>1. PICK first, last : first = drain.first /\ last = drain.last
  OBVIOUS
<1>2. drain \in Runs /\ Here \in Chains /\ drain.at = "batch"
  BY HereChain DEF ReaderInv, ReaderTypes, BatchTried
<1>3. /\ first \in Nat \ {0} /\ last \in Nat /\ first <= last
      /\ last <= Len(stored[Here]) /\ first <= reader[Here] + 1
  BY <1>1, <1>2 DEF ReaderInv, InPlace, Runs
<1>4. PICK done, failed : done = Reading(drain.k) /\ failed = Row(first)
  OBVIOUS
<1>5. ApplyBatch(first, last, done, failed)
  BY <1>1, <1>4, Zenon DEF BatchTried
<1>6. dead' = dead /\ stored' = stored
  BY <1>5, ApplyBatchIs
<1>8. /\ TableOK(rows') /\ Keeps(rows, rows') /\ reader' \in [Chains -> Nat]
      /\ ReadBehind' /\ ReadFates' /\ reader'[Here] >= first - 1
      /\ drain' = done \/ drain' = failed
  <2>1. CASE UNCHANGED <<rows, reader>> /\ drain' = failed
    <3>1. Keeps(rows, rows') /\ TableOK(rows') /\ reader' \in [Chains -> Nat]
      BY <2>1, KeepsSelf DEF ReaderInv, ReaderTypes
    <3>2. ReadBehind' /\ ReadFates'
      BY <1>6, <2>1 DEF ReaderInv, ReadBehind, ReadFates, HasFate, Shown
    <3>3. reader[Here] \in Nat
      BY <1>2 DEF ReaderInv, ReaderTypes
    <3> QED
      BY <1>3, <2>1, <3>1, <3>2, <3>3
  <2>2. CASE /\ rows' = Merged(rows, SubSeq(stored[Here], first, last))
             /\ reader' = [reader EXCEPT ![Here] = last]
             /\ drain' = done \/ drain' = failed
    <3>1. /\ TableOK(rows') /\ Keeps(rows, rows') /\ reader' \in [Chains -> Nat]
          /\ ReadBehind' /\ ReadFates' /\ reader'[Here] = last
      BY <1>3, <1>6, <2>2, CommitReader
    <3> QED
      BY <1>3, <2>2, <3>1
  <2> QED
    BY <1>5, <2>1, <2>2, ApplyBatchIs
<1>9. CASE drain' = done
  <2>1. drain.k \in Nat \ {0}
    BY <1>2 DEF Runs
  <2>2. drain' \in Runs /\ drain'.last = 0 /\ drain'.at \in {"idle", "take"}
    BY <1>4, <1>9, <2>1, ReadingRun
  <2>3. InPlace'
    BY <1>6, <2>2, BetweenChains DEF StoreTypes
  <2> QED
    BY <1>6, <1>8, <2>2, <2>3 DEF ReaderInv, ReaderTypes
<1>10. CASE drain' = failed
  <2>1. PICK run : run = drain'
    OBVIOUS
  <2>2. /\ run \in Runs /\ run.at = "row" /\ run.k = drain.k /\ run.row = first
        /\ run.first = first /\ run.last = last
    BY <1>1, <1>2, <1>3, <1>4, <1>10, <2>1, RowRun
  <2>3. Here' = Here
    BY <2>1, <2>2 DEF Here
  <2>4. reader'[Here] \in Nat
    BY <1>2, <1>8
  <2>5. first <= reader'[Here] + 1
    BY <1>3, <1>8, <2>4
  <2>6. InPlace'
    BY <1>3, <1>6, <2>1, <2>2, <2>3, <2>5 DEF InPlace
  <2> QED
    BY <1>6, <1>8, <2>1, <2>2, <2>6 DEF ReaderInv, ReaderTypes
<1> QED
  BY <1>8, <1>9, <1>10

\* At a row, what is before it has been read past.
LEMMA AtRow ==
    ASSUME ReaderInv, StoreTypes, drain.at \in {"row", "park", "parked"}
    PROVE  /\ drain \in Runs /\ Here \in Chains /\ drain.k \in Nat \ {0}
           /\ drain.row \in Nat \ {0} /\ drain.first \in Nat \ {0} /\ drain.last \in Nat
           /\ drain.first <= drain.row /\ drain.row <= drain.last
           /\ drain.last <= Len(stored[Here]) /\ drain.row <= reader[Here] + 1
           /\ reader[Here] \in Nat /\ stored[Here][drain.row] \in Logs
<1>1. /\ drain \in Runs /\ Here \in Chains /\ drain.k \in Nat \ {0}
      /\ reader[Here] \in Nat /\ stored[Here] \in Seq(Logs)
  BY HereChain DEF ReaderInv, ReaderTypes, Runs, StoreTypes
<1>2. drain.row \in Nat /\ drain.first \in Nat /\ drain.last \in Nat
  BY <1>1 DEF Runs
<1>3. /\ drain.first >= 1 /\ drain.first <= drain.row /\ drain.row <= drain.last
      /\ drain.last <= Len(stored[Here]) /\ drain.row <= reader[Here] + 1
  BY <1>2 DEF ReaderInv, InPlace
<1>4. drain.row \in 1..Len(stored[Here])
  BY <1>1, <1>2, <1>3
<1> QED
  BY <1>1, <1>2, <1>3, <1>4

\* The run goes on to the next row, the row it was at read past.
LEMMA NextRowInPlace ==
    ASSUME ReaderInv, StoreTypes, drain.at \in {"row", "park", "parked"},
           drain' = NextRow, stored' = stored, reader'[Here] = drain.row
    PROVE  InPlace' /\ drain' \in Runs
<1>1. /\ drain \in Runs /\ Here \in Chains /\ drain.k \in Nat \ {0}
      /\ drain.row \in Nat \ {0} /\ drain.first \in Nat \ {0} /\ drain.last \in Nat
      /\ drain.first <= drain.row /\ drain.row <= drain.last
      /\ drain.last <= Len(stored[Here])
  BY AtRow
<1>2. CASE drain.row = drain.last
  <2>1. drain' = Reading(drain.k)
    BY <1>2 DEF NextRow
  <2>2. drain' \in Runs /\ drain'.last = 0 /\ drain'.at \in {"idle", "take"}
    BY <1>1, <2>1, ReadingRun
  <2> QED
    BY <2>2, BetweenChains DEF StoreTypes
<1>3. CASE drain.row # drain.last
  <2>1. PICK i \in Nat : i = drain.row + 1
    BY <1>1
  <2>2. PICK run : run = drain'
    OBVIOUS
  <2>3. run = Row(i)
    BY <1>3, <2>1, <2>2 DEF NextRow
  <2>4. /\ run \in Runs /\ run.at = "row" /\ run.k = drain.k /\ run.row = i
        /\ run.first = drain.first /\ run.last = drain.last
    BY <1>1, <2>1, <2>3, RowRun
  <2>5. Here' = Here
    BY <2>2, <2>4 DEF Here
  <2>6. i \in run.first..run.last /\ i <= reader'[Here] + 1
    BY <1>1, <1>3, <2>1, <2>4
  <2> QED
    BY <1>1, <2>2, <2>4, <2>5, <2>6 DEF InPlace
<1> QED
  BY <1>2, <1>3

\* The run stays at its row, before or after what it tries there.
LEMMA SameRow ==
    ASSUME ReaderInv, StoreTypes, drain.at \in {"row", "park", "parked"},
           NEW run \in Runs, drain' = run, run.k = drain.k, run.row = drain.row,
           run.first = drain.first, run.last = drain.last,
           run.at \in {"row", "park", "parked"},
           run.at = "parked" => stored[Here][drain.row] \in dead',
           stored' = stored, reader'[Here] >= drain.row - 1, reader'[Here] \in Nat
    PROVE  InPlace'
<1>1. /\ drain.row \in Nat \ {0} /\ drain.first \in Nat \ {0} /\ drain.last \in Nat
      /\ drain.first <= drain.row /\ drain.row <= drain.last
      /\ drain.last <= Len(stored[Here])
  BY AtRow
<1>2. Here' = Here
  BY DEF Here
<1>3. drain.row \in drain.first..drain.last /\ drain.row <= reader'[Here] + 1
  BY <1>1
<1> QED
  BY <1>1, <1>2, <1>3 DEF InPlace

LEMMA RowTriedReader ==
    ASSUME ReaderInv, StoreTypes, RowTried
    PROVE  ReaderInv' /\ Keeps(rows, rows')
<1>1. drain.at = "row"
  BY DEF RowTried
<1>2. /\ drain \in Runs /\ Here \in Chains /\ drain.row \in Nat \ {0} /\ drain.last \in Nat
      /\ drain.row <= drain.last /\ drain.last <= Len(stored[Here])
      /\ drain.row <= reader[Here] + 1 /\ reader[Here] \in Nat /\ Len(stored[Here]) \in Nat
  BY <1>1, AtRow DEF StoreTypes
<1>3. PICK row \in Nat \ {0} : row = drain.row
  BY <1>2
<1>4. row <= row /\ row <= Len(stored[Here]) /\ row <= reader[Here] + 1
  BY <1>2, <1>3
<1>5. PICK done, failed :
        /\ done = NextRow
        /\ failed = IF drain.attempt < RowAttempts THEN [drain EXCEPT !.attempt = @ + 1]
                    ELSE [drain EXCEPT !.at = "park"]
  OBVIOUS
<1>6. ApplyBatch(row, row, done, failed)
  BY <1>3, <1>5, Zenon DEF RowTried
<1>7. /\ failed \in Runs /\ failed.k = drain.k /\ failed.row = drain.row
      /\ failed.first = drain.first /\ failed.last = drain.last
      /\ failed.at \in {"row", "park"}
  <2>1. CASE drain.attempt < RowAttempts
    <3>1. failed = [drain EXCEPT !.attempt = @ + 1] /\ drain.attempt + 1 \in Nat
      BY <1>2, <1>5, <2>1 DEF Runs
    <3> QED BY <1>1, <1>2, <3>1 DEF Runs
  <2>2. CASE ~(drain.attempt < RowAttempts)
    <3>1. failed = [drain EXCEPT !.at = "park"]
      BY <1>5, <2>2
    <3> QED BY <1>2, <3>1 DEF Runs
  <2> QED BY <2>1, <2>2
<1>8. dead' = dead /\ stored' = stored
  BY <1>6, ApplyBatchIs
<1>9. /\ TableOK(rows') /\ Keeps(rows, rows') /\ reader' \in [Chains -> Nat]
      /\ ReadBehind' /\ ReadFates' /\ reader'[Here] >= row - 1
      /\ drain' = failed \/ (drain' = done /\ reader'[Here] = row)
  <2>1. CASE UNCHANGED <<rows, reader>> /\ drain' = failed
    <3>1. Keeps(rows, rows') /\ TableOK(rows') /\ reader' \in [Chains -> Nat]
      BY <2>1, KeepsSelf DEF ReaderInv, ReaderTypes
    <3>2. ReadBehind' /\ ReadFates'
      BY <1>8, <2>1 DEF ReaderInv, ReadBehind, ReadFates, HasFate, Shown
    <3> QED
      BY <1>2, <1>3, <2>1, <3>1, <3>2
  <2>2. CASE /\ rows' = Merged(rows, SubSeq(stored[Here], row, row))
             /\ reader' = [reader EXCEPT ![Here] = row]
             /\ drain' = done \/ drain' = failed
    <3>1. /\ TableOK(rows') /\ Keeps(rows, rows') /\ reader' \in [Chains -> Nat]
          /\ ReadBehind' /\ ReadFates' /\ reader'[Here] = row
      BY <1>4, <1>8, <2>2, CommitReader
    <3> QED
      BY <1>3, <2>2, <3>1
  <2> QED
    BY <1>6, <2>1, <2>2, ApplyBatchIs
<1>10. InPlace' /\ drain' \in Runs
  <2>1. CASE drain' = failed
    <3>1. reader'[Here] \in Nat /\ reader'[Here] >= drain.row - 1
      BY <1>2, <1>3, <1>9
    <3> QED
      BY <1>1, <1>7, <1>8, <2>1, <3>1, SameRow
  <2>2. CASE drain' = done /\ reader'[Here] = row
    BY <1>1, <1>3, <1>5, <1>8, <2>2, NextRowInPlace
  <2> QED
    BY <1>9, <2>1, <2>2
<1> QED
  BY <1>8, <1>9, <1>10 DEF ReaderInv, ReaderTypes

LEMMA DeadLetterReader ==
    ASSUME ReaderInv, StoreTypes, DeadLetter PROVE ReaderInv' /\ rows' = rows
<1>1. /\ drain.at = "park" /\ dead' = dead \union {stored[Here][drain.row]}
      /\ drain' = [drain EXCEPT !.at = "parked"]
      /\ stored' = stored /\ reader' = reader /\ rows' = rows
  BY DEF DeadLetter, storeVars
<1>2. /\ drain \in Runs /\ stored[Here][drain.row] \in Logs /\ reader[Here] \in Nat
      /\ drain.row \in Nat /\ drain.row <= reader[Here] + 1
  BY <1>1, AtRow
<1>3. PICK run : run = drain'
  OBVIOUS
<1>4. /\ run \in Runs /\ run.k = drain.k /\ run.row = drain.row /\ run.first = drain.first
      /\ run.last = drain.last /\ run.at = "parked"
  BY <1>1, <1>2, <1>3 DEF Runs
<1>5. stored[Here][drain.row] \in dead' /\ reader'[Here] \in Nat
      /\ reader'[Here] >= drain.row - 1
  BY <1>1, <1>2
<1>6. InPlace'
  BY <1>1, <1>3, <1>4, <1>5, SameRow
<1>7. ReaderTypes' /\ ReadBehind' /\ ReadFates'
  BY <1>1, <1>2, <1>3, <1>4
     DEF ReaderInv, ReaderTypes, ReadBehind, ReadFates, HasFate, Shown
<1> QED
  BY <1>1, <1>6, <1>7 DEF ReaderInv

LEMMA ParkedReader ==
    ASSUME ReaderInv, StoreTypes, Parked PROVE ReaderInv' /\ rows' = rows
<1>1. /\ drain.at = "parked" /\ drain' = NextRow
      /\ reader' = [reader EXCEPT ![Here] = drain.row]
      /\ stored' = stored /\ rows' = rows /\ dead' = dead
  BY DEF Parked, StepOver, storeVars
<1>2. /\ Here \in Chains /\ drain.row \in Nat \ {0} /\ drain.row <= drain.last
      /\ drain.last \in Nat /\ drain.last <= Len(stored[Here])
      /\ drain.row <= reader[Here] + 1 /\ reader[Here] \in Nat
  BY <1>1, AtRow
<1>3. reader \in [Chains -> Nat] /\ stored[Here][drain.row] \in dead /\ Len(stored[Here]) \in Nat
  BY <1>1, <1>2 DEF ReaderInv, ReaderTypes, InPlace, StoreTypes
<1>4. /\ reader' \in [Chains -> Nat] /\ reader'[Here] = drain.row
      /\ \A c \in Chains \ {Here} : reader'[c] = reader[c]
  BY <1>1, <1>2, <1>3
<1>5. InPlace' /\ drain' \in Runs
  BY <1>1, <1>4, NextRowInPlace
<1>6. ReadBehind'
  <2> SUFFICES ASSUME NEW c \in Chains PROVE reader'[c] <= Len(stored[c])
    BY <1>1 DEF ReadBehind
  <2>1. CASE c = Here
    BY <1>2, <1>3, <1>4, <2>1
  <2>2. CASE c # Here
    BY <1>4, <2>2 DEF ReaderInv, ReadBehind
  <2> QED
    BY <2>1, <2>2
<1>7. ReadFates'
  <2>1. ASSUME NEW c \in Chains, NEW i \in 1..reader'[c] PROVE HasFate(stored[c][i])
    <3>1. CASE c = Here /\ i = drain.row
      BY <1>3, <3>1 DEF HasFate
    <3>2. CASE c # Here \/ i # drain.row
      <4>1. i \in 1..reader[c]
        BY <1>2, <1>3, <1>4, <3>2
      <4> QED
        BY <4>1 DEF ReaderInv, ReadFates
    <3> QED
      BY <3>1, <3>2
  <2> QED
    BY <1>1, <2>1 DEF ReadFates, HasFate, Shown
<1> QED
  BY <1>1, <1>4, <1>5, <1>6, <1>7 DEF ReaderInv, ReaderTypes

\* Failures, crashes and requests: the tables stay, the run is left or goes on.
LEMMA DisturbedReader ==
    ASSUME ReaderInv, StoreTypes, RebuildFails \/ ChainFails \/ ReaderCrash \/ AsksRebuild
    PROVE  ReaderInv' /\ rows' = rows
<1>1. UNCHANGED ingestVars /\ UNCHANGED <<reader, rows, dead>>
  BY DEF RebuildFails, ChainFails, ReaderCrash, AsksRebuild, ingestVars
<1>2. CASE RebuildFails
  BY <1>1, <1>2, MovesOn DEF RebuildFails
<1>3. CASE ChainFails
  <2>1. drain.k + 1 \in Nat \ {0}
    BY DEF ReaderInv, ReaderTypes, Runs
  <2> QED
    BY <1>1, <1>3, <2>1, MovesOn DEF ChainFails
<1>4. CASE ReaderCrash
  <2>1. drain' = Reading(Len(ReaderChains) + 1)
    <3>1. Len(ReaderChains) + 1 > Len(ReaderChains)
      BY ReaderAssumption
    <3> QED
      BY <1>4, <3>1 DEF ReaderCrash, Reading
  <2>2. Len(ReaderChains) + 1 \in Nat \ {0}
    BY ReaderAssumption
  <2> QED
    BY <1>1, <2>1, <2>2, MovesOn
<1>5. CASE AsksRebuild
  <2>1. UNCHANGED <<drain, stored>>
    BY <1>1, <1>5 DEF AsksRebuild, ingestVars
  <2> QED
    BY <1>1, <2>1
       DEF ReaderInv, ReaderTypes, ReadBehind, ReadFates, InPlace, HasFate, Shown, Here
<1> QED
  BY <1>2, <1>3, <1>4, <1>5

LEMMA InitReader == Init => ReaderInv
<1> SUFFICES ASSUME Init PROVE ReaderInv
  OBVIOUS
<1>1. /\ reader = [c \in Chains |-> 0] /\ rows = {} /\ dead = {} /\ drain = Idle
      /\ stored \in [Chains -> Seq(Logs)]
  BY StoreAssumption DEF Init, StoreInit
<1>2. Len(ReaderChains) \in Nat \ {0}
  BY ReaderAssumption
<1>3. drain \in Runs /\ drain.last = 0 /\ drain.at = "idle"
  BY <1>1, <1>2 DEF Runs, Idle
<1>4. Here \in Chains
  BY <1>3, HereChain
<1>5. Len(stored[Here]) \in Nat
  BY <1>1, <1>4
<1>6. ReaderTypes /\ ReadBehind /\ ReadFates
  BY <1>1, <1>3 DEF ReaderTypes, TableOK, OneRowEach, ReadBehind, ReadFates
<1> QED
  BY <1>3, <1>5, <1>6 DEF ReaderInv, InPlace

ScanInv == StoreInv /\ ReaderInv
KeptUnlessRebuilt == (rebuildAsked' \/ ~rebuildAsked) => Keeps(rows, rows')

LEMMA StepScan == ScanInv /\ [Next]_vars => ScanInv' /\ KeptUnlessRebuilt
<1> SUFFICES ASSUME ScanInv, [Next]_vars PROVE ReaderInv' /\ KeptUnlessRebuilt
  BY StepInv DEF ScanInv
<1>1. ReaderInv /\ StoreTypes /\ StoreTypes'
  BY StepInv DEF ScanInv, StoreInv
<1>2. Keeps(rows, rows)
  BY <1>1, KeepsSelf DEF ReaderInv, ReaderTypes
<1>3. CASE StoreNext /\ UNCHANGED readerVars
  BY <1>1, <1>2, <1>3, StoreNextReader DEF KeptUnlessRebuilt, readerVars
<1>4. CASE RunStarts
  BY <1>1, <1>4, RunStartsReader DEF KeptUnlessRebuilt
<1>5. CASE TakeEvents
  BY <1>1, <1>2, <1>5, TakeEventsReader DEF KeptUnlessRebuilt
<1>6. CASE BatchTried
  BY <1>1, <1>6, BatchTriedReader DEF KeptUnlessRebuilt
<1>7. CASE RowTried
  BY <1>1, <1>7, RowTriedReader DEF KeptUnlessRebuilt
<1>8. CASE DeadLetter
  BY <1>1, <1>2, <1>8, DeadLetterReader DEF KeptUnlessRebuilt
<1>9. CASE Parked
  BY <1>1, <1>2, <1>9, ParkedReader DEF KeptUnlessRebuilt
<1>10. CASE RebuildFails \/ ChainFails \/ ReaderCrash \/ AsksRebuild
  BY <1>1, <1>2, <1>10, DisturbedReader DEF KeptUnlessRebuilt
<1>11. CASE UNCHANGED vars
  <2>1. UNCHANGED <<reader, rows, dead, drain, stored>>
    BY <1>11 DEF vars, storeVars, readerVars
  <2> QED
    BY <1>1, <1>2, <2>1
       DEF ReaderInv, ReaderTypes, ReadBehind, ReadFates, InPlace, HasFate, Shown, Here,
           KeptUnlessRebuilt
<1> QED
  BY <1>3, <1>4, <1>5, <1>6, <1>7, <1>8, <1>9, <1>10, <1>11 DEF Next, Drain

LEMMA ScanInvAlways == Spec => []ScanInv
<1>1. Init => ScanInv
  BY InitInv, InitReader DEF ScanInv
<1> QED
  BY <1>1, StepScan, PTL DEF Spec

(* The reader is at events the store has, and its rows are whole, for every *)
(* ledger, batch, number of attempts and of failures (flow/drain.ts, db.ts). *)
THEOREM ScanTypeOK == Spec => []TypeOK
<1>1. ScanInv => TypeOK
  <2> SUFFICES ASSUME ScanInv PROVE TypeOK
    OBVIOUS
  <2>1. \A c \in Chains : cursor[c] <= head[c] /\ reader[c] <= Len(stored[c])
    BY DEF ScanInv, StoreInv, ChainInv, BehindHead, ReaderInv, ReadBehind
  <2>2. \A r \in rows : DOMAIN r = DOMAIN Absent(None) /\ r.state # None
    BY DEF ScanInv, ReaderInv, ReaderTypes, TableOK, RowOK, RowSet, Absent
  <2> QED
    BY <2>1, <2>2 DEF TypeOK, ScanInv, ReaderInv, ReaderTypes, InPlace
<1> QED
  BY ScanInvAlways, <1>1, PTL

(* Nothing is passed over, whichever batch fails, is cut short or committed *)
(* without an answer, and wherever a process dies: what a cursor covers is   *)
(* stored, what the reader's covers is on a row or parked (db.ts            *)
(* advanceReader, flow/drain.ts applyEachRow).                               *)
THEOREM NothingSkippedAlways == Spec => []NothingSkipped
<1>1. ScanInv => NothingSkipped
  BY DEF ScanInv, StoreInv, ChainInv, ReaderInv, ReadFates, HasFate, NothingSkipped
<1> QED
  BY ScanInvAlways, <1>1, PTL

(* What the table shows of a transfer it keeps showing, in a state of no     *)
(* lower rank, whichever legs of it are merged in which order, until the    *)
(* table is rebuilt (flow/upsert.ts, basejump/flows.ts).                     *)
THEOREM NeverUnshownAlways == Spec => NeverUnshown
<1>1. KeptUnlessRebuilt =>
        ((rebuildAsked' \/ ~rebuildAsked) =>
            \A r \in rows : \A l \in Refs(r) :
                \E s \in rows' : l \in Refs(s) /\ Rank(s.state) >= Rank(r.state))
  BY DEF KeptUnlessRebuilt, Keeps
<1> QED
  BY ScanInvAlways, StepScan, <1>1, PTL DEF Spec, NeverUnshown

-----------------------------------------------------------------------------
(* Payouts: the order of the store, and what a reader that loses no commit   *)
(* has on its rows.                                                          *)

\* A chain's events are its own, each once, a fulfilment after its queueing.
StoreOrder(c) ==
    /\ \A i \in DOMAIN stored[c] : Event[stored[c][i]].chain = c
    /\ \A i, j \in DOMAIN stored[c] : stored[c][i] = stored[c][j] => i = j
    /\ \A i \in DOMAIN stored[c] : Kind(stored[c][i]) = "fulfilled" =>
           \/ \E j \in 1..(i - 1) : OfPending(stored[c][j], stored[c][i])
           \/ \E l \in Late : OfPending(l, stored[c][i])

\* A run is one past the reader, and rows show only what has been read.
Exact ==
    /\ drain.at = "batch" => drain.first = reader[Here] + 1
    /\ drain.at \in {"row", "park", "parked"} => drain.row = reader[Here] + 1
OnlyRead ==
    \A l : Shown(l) => \E c \in Chains : \E i \in 1..reader[c] : stored[c][i] = l
Gone == dead \union Late
Matching == Exact /\ OnlyRead /\ MatchedOK(rows, Gone)
MatchInv == (\A c \in Chains : StoreOrder(c)) /\ (~commitLost => Matching)

LEMMA IndexedOrder == Init => \A c \in Chains : StoreOrder(c)
<1> SUFFICES ASSUME Init, NEW c \in Chains PROVE StoreOrder(c)
  OBVIOUS
<1>1. stored[c] = Indexed[c] /\ Indexed[c] \in Seq(Logs)
  BY StoreAssumption DEF Init, StoreInit
<1>2. \A i \in DOMAIN Indexed[c] : Indexed[c][i] \in ToSet(Indexed[c])
  BY DEF ToSet
<1> QED
  BY <1>1, <1>2, LedgerAssumption DEF StoreOrder, Kind

\* A log that is written goes after every log it must.
LEMMA InsertOrder ==
    ASSUME StoreInv, \A d \in Chains : StoreOrder(d), NEW c \in Chains, InsertEvents(c)
    PROVE  \A d \in Chains : StoreOrder(d)'
<1> DEFINE block == watcher[c].block
           missing == Missing(c, block)
<1>1. PICK i \in missing : /\ \A j \in missing : i <= j
                           /\ stored' = [stored EXCEPT ![c] = Append(@, Ledger[c][i])]
  BY Zenon DEF InsertEvents
<1>2. PICK l : l = Ledger[c][i]
  OBVIOUS
<1>3. /\ Ledger[c] \in Seq(Logs) /\ stored[c] \in Seq(Logs) /\ i \in DOMAIN Ledger[c]
      /\ l \in Logs /\ Event[l].block = block /\ l \notin Stored(c)
      /\ watcher[c].on /\ block \in Nat
  <2>1. i \in DOMAIN Ledger[c] /\ Event[l].block = block /\ l \notin Stored(c)
    BY <1>1, <1>2 DEF Missing
  <2>2. Ledger[c] \in Seq(Logs) /\ stored[c] \in Seq(Logs) /\ block \in Nat
    BY StoreAssumption DEF StoreInv, StoreTypes
  <2>3. l \in Logs
    BY <1>2, <2>1, <2>2
  <2>4. watcher[c].on
    BY DEF InsertEvents
  <2> QED
    BY <2>1, <2>2, <2>3, <2>4
<1>4. PICK n \in Nat : n = Len(stored[c])
  BY <1>3
<1>5. /\ stored'[c] = Append(stored[c], l)
      /\ \A d \in Chains \ {c} : stored'[d] = stored[d]
  BY <1>1, <1>2 DEF StoreInv, StoreTypes
<1>6. /\ DOMAIN stored[c] = 1..n /\ DOMAIN stored'[c] = 1..(n + 1)
      /\ \A k \in 1..n : stored'[c][k] = stored[c][k] /\ k \in 1..(n + 1) /\ k # n + 1
      /\ stored'[c][n + 1] = l
      /\ \A k \in 1..(n + 1) : k \in 1..n \/ k = n + 1
  BY <1>3, <1>4, <1>5
<1>7. \A k \in 1..n : stored[c][k] # l
  BY <1>3, <1>6 DEF Stored, ToSet
<1>8. Event[l].chain = c
  BY <1>2, <1>3, LedgerAssumption DEF ToSet
<1>9. Kind(l) = "fulfilled" =>
         (\E k \in 1..n : OfPending(stored[c][k], l)) \/ (\E q \in Late : OfPending(q, l))
  <2> SUFFICES ASSUME Kind(l) = "fulfilled", \A q \in Late : ~OfPending(q, l)
               PROVE  \E k \in 1..n : OfPending(stored[c][k], l)
    OBVIOUS
  <2>1. PICK j \in 1..(i - 1) : /\ OfPending(Ledger[c][j], l)
                                /\ Event[Ledger[c][j]].block <= Event[l].block
    BY <1>2, <1>3, LedgerAssumption DEF Kind
  <2>2. j \in DOMAIN Ledger[c] /\ ~(i <= j)
    BY <1>3
  <2>3. PICK q : q = Ledger[c][j]
    OBVIOUS
  <2>4. q \in Watched(c) /\ q \in Logs /\ Event[q].block \in Nat
    BY <1>3, <2>1, <2>2, <2>3, StoreAssumption DEF Watched, ToSet
  <2>5. q \in Stored(c)
    <3>1. CASE Event[q].block = block
      <4>1. j \notin missing
        BY <1>1, <2>2
      <4> QED
        BY <2>2, <2>3, <3>1, <4>1 DEF Missing
    <3>2. CASE Event[q].block # block
      <4>1. Event[q].block < block
        BY <1>3, <2>1, <2>3, <2>4, <3>2
      <4> QED
        BY <1>3, <2>4, <4>1 DEF StoreInv, ChainInv, TickCovered
    <3> QED
      BY <3>1, <3>2
  <2>6. PICK k \in 1..n : stored[c][k] = q
    BY <1>6, <2>5 DEF Stored, ToSet
  <2> QED
    BY <2>1, <2>3, <2>6
<1>10. StoreOrder(c)'
  <2>1. \A k \in 1..(n + 1) : Event[stored'[c][k]].chain = c
    BY <1>6, <1>8 DEF StoreOrder
  <2>2. \A k, m \in 1..(n + 1) : stored'[c][k] = stored'[c][m] => k = m
    BY <1>6, <1>7 DEF StoreOrder
  <2>3. ASSUME NEW k \in 1..(n + 1), Kind(stored'[c][k]) = "fulfilled"
        PROVE  \/ \E j \in 1..(k - 1) : OfPending(stored'[c][j], stored'[c][k])
               \/ \E q \in Late : OfPending(q, stored'[c][k])
    <3>1. CASE k = n + 1
      <4>1. k - 1 = n
        BY <3>1
      <4> QED
        BY <1>6, <1>9, <2>3, <3>1, <4>1
    <3>2. CASE k # n + 1
      <4>1. k \in 1..n /\ stored'[c][k] = stored[c][k] /\ \A j \in 1..(k - 1) : j \in 1..n
        BY <1>6, <3>2
      <4>2. \/ \E j \in 1..(k - 1) : OfPending(stored[c][j], stored[c][k])
            \/ \E q \in Late : OfPending(q, stored[c][k])
        BY <1>6, <2>3, <4>1 DEF StoreOrder
      <4> QED
        BY <1>6, <4>1, <4>2
    <3> QED
      BY <3>1, <3>2
  <2> QED
    BY <1>6, <2>1, <2>2, <2>3 DEF StoreOrder
<1>11. ASSUME NEW d \in Chains, d # c PROVE StoreOrder(d)'
  <2>1. stored'[d] = stored[d] /\ StoreOrder(d)
    BY <1>5, <1>11
  <2> QED
    BY <2>1 DEF StoreOrder
<1> QED
  BY <1>10, <1>11

LEMMA OrderStays ==
    ASSUME \A d \in Chains : StoreOrder(d), stored' = stored
    PROVE  \A d \in Chains : StoreOrder(d)'
  BY DEF StoreOrder

LEMMA StepOrder ==
    ASSUME StoreInv, \A d \in Chains : StoreOrder(d), [Next]_vars
    PROVE  \A d \in Chains : StoreOrder(d)'
<1>1. CASE StoreNext
  <2>1. ASSUME NEW c \in Chains, InsertEvents(c) PROVE \A d \in Chains : StoreOrder(d)'
    BY <2>1, InsertOrder
  <2>2. CASE IngestCrash
    BY <2>2, OrderStays DEF IngestCrash
  <2>3. ASSUME NEW c \in Chains,
               \/ Finalizes(c) \/ IngestStarts(c) \/ BlockWritten(c) \/ IngestFails(c)
               \/ \E block \in RewindBlocks : AsksRewind(c, block)
        PROVE  \A d \in Chains : StoreOrder(d)'
    <3>1. stored' = stored
      BY <2>3 DEF Finalizes, IngestStarts, BlockWritten, IngestFails, AsksRewind
    <3> QED
      BY <3>1, OrderStays
  <2> QED
    BY <1>1, <2>1, <2>2, <2>3 DEF StoreNext, Watch
<1>2. CASE Drain \/ RebuildFails \/ ChainFails \/ ReaderCrash \/ AsksRebuild
  <2>1. stored' = stored
    BY <1>2, ReaderStays DEF ingestVars
  <2> QED
    BY <2>1, OrderStays
<1>3. CASE UNCHANGED vars
  BY <1>3, OrderStays DEF vars, storeVars
<1> QED
  BY <1>1, <1>2, <1>3 DEF Next

LEMMA GoneGrows ==
    ASSUME NEW table, NEW gone, NEW more, gone \subseteq more, MatchedOK(table, gone)
    PROVE  MatchedOK(table, more)
  BY DEF MatchedOK, MatchedRow, QueueGone

\* What is shown stays read when the reader stays and the store only grows.
LEMMA ReadStays ==
    ASSUME ReaderInv, StoreTypes, OnlyRead, rows' = rows, reader' = reader,
           \A c \in Chains : \A i \in 1..Len(stored[c]) : stored'[c][i] = stored[c][i]
    PROVE  OnlyRead'
<1> SUFFICES ASSUME NEW l, Shown(l)'
             PROVE  \E c \in Chains : \E i \in 1..reader'[c] : stored'[c][i] = l
  BY DEF OnlyRead
<1>1. Shown(l)
  BY DEF Shown
<1>2. PICK c \in Chains : \E i \in 1..reader[c] : stored[c][i] = l
  BY <1>1 DEF OnlyRead
<1>3. PICK i \in 1..reader[c] : stored[c][i] = l
  BY <1>2
<1>4. reader[c] \in Nat /\ reader[c] <= Len(stored[c]) /\ Len(stored[c]) \in Nat
  BY DEF ReaderInv, ReaderTypes, ReadBehind, StoreTypes
<1>5. i \in 1..Len(stored[c])
  BY <1>4
<1> QED
  BY <1>3, <1>5

\* A step that commits nothing.
LEMMA NothingCommitted ==
    ASSUME ReaderInv, StoreTypes, Matching, rows' = rows, reader' = reader,
           dead \subseteq dead', Exact',
           \A c \in Chains : \A i \in 1..Len(stored[c]) : stored'[c][i] = stored[c][i]
    PROVE  Matching'
<1>1. OnlyRead'
  BY ReadStays DEF Matching
<1>2. MatchedOK(rows', Gone')
  <2>1. Gone \subseteq Gone'
    BY DEF Gone
  <2>2. PICK table, gone, more : table = rows /\ gone = Gone /\ more = Gone'
    OBVIOUS
  <2>3. MatchedOK(table, more)
    BY <2>1, <2>2, GoneGrows DEF Matching
  <2> QED
    BY <2>2, <2>3
<1> QED
  BY <1>1, <1>2 DEF Matching

\* A commit of what comes next.
LEMMA CommitMatched ==
    ASSUME ScanInv, \A d \in Chains : StoreOrder(d), Matching,
           NEW first \in Nat \ {0}, NEW last \in Nat, first <= last,
           last <= Len(stored[Here]), first = reader[Here] + 1,
           rows' = Merged(rows, SubSeq(stored[Here], first, last)),
           reader' = [reader EXCEPT ![Here] = last], stored' = stored, dead' = dead
    PROVE  OnlyRead' /\ MatchedOK(rows', Gone')
<1> DEFINE logs == SubSeq(stored[Here], first, last)
<1>1. /\ Here \in Chains /\ reader \in [Chains -> Nat] /\ stored \in [Chains -> Seq(Logs)]
      /\ ReadBehind /\ ReadFates
  BY HereChain DEF ScanInv, StoreInv, StoreTypes, ReaderInv, ReaderTypes
<1>2. PICK c \in Chains : c = Here
  BY <1>1
<1>3. PICK s \in Seq(Logs) : s = stored[c]
  BY <1>1
<1>4. PICK at \in Nat : at = reader[c]
  BY <1>1
<1>5. first = at + 1 /\ last <= Len(s) /\ Len(s) \in Nat /\ DOMAIN s = 1..Len(s)
  BY <1>2, <1>3, <1>4
<1>6. /\ logs \in Seq(Logs) /\ Len(logs) = last - at /\ DOMAIN logs = 1..(last - at)
      /\ \A i \in 1..(last - at) : logs[i] = s[at + i] /\ at + i \in DOMAIN s
  <2>1. logs = SubSeq(s, at + 1, last)
    BY <1>2, <1>3, <1>5
  <2>2. at + 1 <= last /\ last <= Len(s) /\ Len(s) \in Nat /\ DOMAIN s = 1..Len(s)
    BY <1>5
  <2> HIDE DEF logs
  <2>3. logs \in Seq(Logs) /\ Len(logs) = last - at
    BY <2>1, <2>2
  <2>4. \A i \in 1..(last - at) : logs[i] = s[at + i] /\ at + i \in DOMAIN s
    BY <2>1, <2>2
  <2> QED
    BY <2>3, <2>4
<1> HIDE DEF logs
<1>7. /\ \A i \in DOMAIN s : Event[s[i]].chain = c
      /\ \A i, j \in DOMAIN s : s[i] = s[j] => i = j
      /\ \A i \in DOMAIN s : Kind(s[i]) = "fulfilled" =>
             \/ \E j \in 1..(i - 1) : OfPending(s[j], s[i])
             \/ \E l \in Late : OfPending(l, s[i])
  BY <1>3 DEF StoreOrder
\* What is on a row was read, and is none of these.
<1>8. \A i \in DOMAIN logs : ~ShownIn(rows, logs[i])
  <2> SUFFICES ASSUME NEW i \in 1..(last - at), ShownIn(rows, logs[i]) PROVE FALSE
    BY <1>6
  <2>1. logs[i] = s[at + i] /\ at + i \in DOMAIN s
    BY <1>6
  <2>2. PICK d \in Chains : \E j \in 1..reader[d] : stored[d][j] = s[at + i]
    BY <2>1 DEF Matching, OnlyRead, Shown, ShownIn
  <2>3. PICK j \in 1..reader[d] : stored[d][j] = s[at + i]
    BY <2>2
  <2>4. j \in DOMAIN stored[d]
    BY <1>1 DEF ReadBehind
  <2>5. d = c
    BY <1>7, <2>1, <2>3, <2>4 DEF StoreOrder
  <2>6. j = at + i
    BY <1>3, <1>7, <2>1, <2>3, <2>4, <2>5
  <2> QED
    BY <1>4, <2>3, <2>5, <2>6
<1>9. \A i, j \in DOMAIN logs : logs[i] = logs[j] => i = j
  <2> SUFFICES ASSUME NEW i \in 1..(last - at), NEW j \in 1..(last - at), logs[i] = logs[j]
               PROVE  i = j
    BY <1>6
  <2>1. at + i = at + j
    BY <1>6, <1>7
  <2> QED
    BY <2>1
<1>10. \A i \in DOMAIN logs : Kind(logs[i]) = "fulfilled" =>
          \E q : /\ OfPending(q, logs[i])
                 /\ q \in Gone \/ ShownIn(rows, q) \/ \E j \in 1..(i - 1) : logs[j] = q
  <2> SUFFICES ASSUME NEW i \in 1..(last - at), Kind(logs[i]) = "fulfilled"
               PROVE  \E q : /\ OfPending(q, logs[i])
                             /\ q \in Gone \/ ShownIn(rows, q)
                                \/ \E j \in 1..(i - 1) : logs[j] = q
    BY <1>6
  <2>1. logs[i] = s[at + i] /\ at + i \in DOMAIN s
    BY <1>6
  <2>2. CASE \E l \in Late : OfPending(l, s[at + i])
    BY <2>1, <2>2 DEF Gone
  <2>3. ASSUME NEW j \in 1..((at + i) - 1), OfPending(s[j], s[at + i])
        PROVE  \E q : /\ OfPending(q, logs[i])
                      /\ q \in Gone \/ ShownIn(rows, q)
                         \/ \E k \in 1..(i - 1) : logs[k] = q
    <3>1. CASE j <= at
      <4>1. HasFate(s[j])
        BY <1>1, <1>2, <1>3, <1>4, <3>1 DEF ReadFates
      <4> QED
        BY <2>1, <2>3, <4>1 DEF HasFate, Shown, ShownIn, Gone
    <3>2. CASE ~(j <= at)
      <4>1. PICK k \in 1..(i - 1) : at + k = j
        <5>1. j - at \in 1..(i - 1) /\ at + (j - at) = j
          BY <3>2
        <5> QED
          BY <5>1
      <4>2. k \in 1..(last - at)
        OBVIOUS
      <4>3. logs[k] = s[j]
        BY <1>6, <4>1, <4>2
      <4> QED
        BY <2>1, <2>3, <4>3
    <3> QED
      BY <3>1, <3>2
  <2>4. \/ \E j \in 1..((at + i) - 1) : OfPending(s[j], s[at + i])
        \/ \E l \in Late : OfPending(l, s[at + i])
    <3>1. Kind(s[at + i]) = "fulfilled"
      BY <2>1
    <3> QED
      BY <1>7, <2>1, <3>1, Zenon
  <2> QED
    BY <2>2, <2>3, <2>4, Zenon
<1>11. PICK table, gone : table = rows /\ gone = Gone
  OBVIOUS
<1>12. MatchedOK(table, gone) /\ InTurn(table, gone, logs)
  BY <1>8, <1>9, <1>10, <1>11 DEF Matching, InTurn
<1>13. /\ MatchedOK(Merged(table, logs), gone)
       /\ \A m : ShownIn(Merged(table, logs), m) =>
                    ShownIn(table, m) \/ \E i \in 1..Len(logs) : logs[i] = m
  BY <1>6, <1>12, MergedMatched, Zenon
<1>14. rows' = Merged(table, logs) /\ Gone' = gone
  BY <1>11 DEF logs, Gone
<1>15. PICK after : after = rows'
  OBVIOUS
<1>16. /\ MatchedOK(after, gone)
       /\ \A m : ShownIn(after, m) => ShownIn(rows, m) \/ \E i \in 1..Len(logs) : logs[i] = m
  BY <1>11, <1>13, <1>14, <1>15, Zenon
<1>17. /\ reader'[c] = last /\ \A d \in Chains \ {c} : reader'[d] = reader[d]
  BY <1>1, <1>2
<1>18. OnlyRead'
  <2> SUFFICES ASSUME NEW l, ShownIn(after, l)
               PROVE  \E d \in Chains : \E i \in 1..reader'[d] : stored[d][i] = l
    BY <1>15 DEF OnlyRead, Shown, ShownIn
  <2>1. CASE ShownIn(rows, l)
    <3>1. PICK d \in Chains : \E i \in 1..reader[d] : stored[d][i] = l
      BY <2>1 DEF Matching, OnlyRead, Shown, ShownIn
    <3>2. PICK i \in 1..reader[d] : stored[d][i] = l
      BY <3>1
    <3>3. i \in 1..reader'[d]
      BY <1>1, <1>4, <1>5, <1>17
    <3> QED
      BY <3>2, <3>3
  <2>2. ASSUME NEW i \in 1..Len(logs), logs[i] = l
        PROVE  \E d \in Chains : \E j \in 1..reader'[d] : stored[d][j] = l
    <3>1. i \in 1..(last - at) /\ at + i \in 1..last
      BY <1>5, <1>6
    <3>2. s[at + i] = l
      BY <1>6, <2>2, <3>1
    <3> QED
      BY <1>3, <1>17, <3>1, <3>2
  <2> QED
    BY <1>16, <2>1, <2>2
<1> QED
  BY <1>14, <1>15, <1>16, <1>18

\* What becomes of a batch: committed and known, committed and not known, or not.
LEMMA ApplyBatchLoses ==
    ASSUME NEW first, NEW last, NEW done, NEW failed, ApplyBatch(first, last, done, failed)
    PROVE  \/ commitLost'
           \/ /\ rows' = Merged(rows, SubSeq(stored[Here], first, last))
              /\ reader' = [reader EXCEPT ![Here] = last]
              /\ drain' = done /\ commitLost' = commitLost
           \/ UNCHANGED <<rows, reader, commitLost>> /\ drain' = failed
  BY Zenon DEF ApplyBatch

LEMMA BatchTriedMatched ==
    ASSUME ScanInv, MatchInv, BatchTried PROVE ~commitLost' => Matching'
<1>0. SUFFICES ASSUME ~commitLost' PROVE Matching'
  OBVIOUS
<1>1. PICK first, last : first = drain.first /\ last = drain.last
  OBVIOUS
<1>2. PICK done, failed : done = Reading(drain.k) /\ failed = Row(first)
  OBVIOUS
<1>3. ApplyBatch(first, last, done, failed)
  BY <1>1, <1>2, Zenon DEF BatchTried
<1>4. /\ drain \in Runs /\ Here \in Chains /\ drain.at = "batch" /\ ReaderInv /\ StoreTypes
      /\ reader[Here] \in Nat
  BY HereChain DEF ScanInv, StoreInv, ReaderInv, ReaderTypes, BatchTried
<1>5. /\ first \in Nat \ {0} /\ last \in Nat /\ first <= last
      /\ last <= Len(stored[Here])
  BY <1>1, <1>4 DEF ReaderInv, InPlace, Runs
<1>6. dead' = dead /\ stored' = stored
  BY <1>3, ApplyBatchIs
<1>7. CASE /\ rows' = Merged(rows, SubSeq(stored[Here], first, last))
           /\ reader' = [reader EXCEPT ![Here] = last]
           /\ drain' = done /\ commitLost' = commitLost
  <2>1. Matching /\ first = reader[Here] + 1
    BY <1>0, <1>1, <1>4, <1>7 DEF MatchInv, Matching, Exact
  <2>2. OnlyRead' /\ MatchedOK(rows', Gone')
    BY <1>5, <1>6, <1>7, <2>1, CommitMatched DEF MatchInv
  <2>3. drain.k \in Nat \ {0}
    BY <1>4 DEF Runs
  <2>4. drain'.at \in {"idle", "take"}
    BY <1>2, <1>7, <2>3, ReadingRun
  <2> QED
    BY <2>2, <2>4 DEF Matching, Exact
<1>8. CASE UNCHANGED <<rows, reader, commitLost>> /\ drain' = failed
  <2>1. Matching /\ first = reader[Here] + 1
    BY <1>0, <1>1, <1>4, <1>8 DEF MatchInv, Matching, Exact
  <2>2. PICK run : run = drain'
    OBVIOUS
  <2>3. run.at = "row" /\ run.k = drain.k /\ run.row = first
    BY <1>2, <1>4, <1>5, <1>8, <2>2, RowRun
  <2>4. Exact'
    BY <1>8, <2>1, <2>2, <2>3 DEF Exact, Here
  <2> QED
    BY <1>4, <1>6, <1>8, <2>1, <2>4, NothingCommitted
<1> QED
  BY <1>0, <1>3, <1>7, <1>8, ApplyBatchLoses

\* At the next row, the reader has read past the one before.
LEMMA NextRowExact ==
    ASSUME ScanInv, drain.at \in {"row", "park", "parked"}, drain' = NextRow,
           reader'[Here] = drain.row
    PROVE  Exact'
<1>1. drain \in Runs /\ drain.k \in Nat \ {0} /\ drain.row \in Nat \ {0}
  BY AtRow DEF ScanInv, StoreInv
<1>2. CASE drain.row = drain.last
  <2>1. drain'.at \in {"idle", "take"}
    BY <1>1, <1>2, ReadingRun DEF NextRow
  <2> QED
    BY <2>1 DEF Exact
<1>3. CASE drain.row # drain.last
  <2>1. PICK i \in Nat : i = drain.row + 1
    BY <1>1
  <2>2. PICK run : run = drain'
    OBVIOUS
  <2>3. run.at = "row" /\ run.k = drain.k /\ run.row = i
    BY <1>1, <1>3, <2>1, <2>2, RowRun DEF NextRow
  <2> QED
    BY <2>1, <2>2, <2>3 DEF Exact, Here
<1> QED
  BY <1>2, <1>3

LEMMA RowTriedMatched ==
    ASSUME ScanInv, MatchInv, RowTried PROVE ~commitLost' => Matching'
<1>0. SUFFICES ASSUME ~commitLost' PROVE Matching'
  OBVIOUS
<1>1. drain.at = "row" /\ ReaderInv /\ StoreTypes
  BY DEF RowTried, ScanInv, StoreInv
<1>2. /\ drain \in Runs /\ Here \in Chains /\ drain.row \in Nat \ {0} /\ drain.last \in Nat
      /\ drain.row <= drain.last /\ drain.last <= Len(stored[Here])
      /\ reader[Here] \in Nat /\ Len(stored[Here]) \in Nat /\ reader \in [Chains -> Nat]
  BY <1>1, AtRow DEF StoreTypes, ReaderInv, ReaderTypes
<1>3. PICK row \in Nat \ {0} : row = drain.row
  BY <1>2
<1>4. row <= row /\ row <= Len(stored[Here])
  BY <1>2, <1>3
<1>5. PICK done, failed :
        /\ done = NextRow
        /\ failed = IF drain.attempt < RowAttempts THEN [drain EXCEPT !.attempt = @ + 1]
                    ELSE [drain EXCEPT !.at = "park"]
  OBVIOUS
<1>6. ApplyBatch(row, row, done, failed)
  BY <1>3, <1>5, Zenon DEF RowTried
<1>7. dead' = dead /\ stored' = stored
  BY <1>6, ApplyBatchIs
<1>8. CASE /\ rows' = Merged(rows, SubSeq(stored[Here], row, row))
           /\ reader' = [reader EXCEPT ![Here] = row]
           /\ drain' = done /\ commitLost' = commitLost
  <2>1. Matching /\ row = reader[Here] + 1
    BY <1>0, <1>1, <1>3, <1>8 DEF MatchInv, Matching, Exact
  <2>2. OnlyRead' /\ MatchedOK(rows', Gone')
    BY <1>4, <1>7, <1>8, <2>1, CommitMatched DEF MatchInv
  <2>3. reader'[Here] = drain.row
    BY <1>2, <1>3, <1>8
  <2>4. Exact'
    BY <1>1, <1>5, <1>8, <2>3, NextRowExact
  <2> QED
    BY <2>2, <2>4 DEF Matching
<1>9. CASE UNCHANGED <<rows, reader, commitLost>> /\ drain' = failed
  <2>1. Matching /\ row = reader[Here] + 1
    BY <1>0, <1>1, <1>3, <1>9 DEF MatchInv, Matching, Exact
  <2>2. PICK run : run = drain'
    OBVIOUS
  <2>3. run.k = drain.k /\ run.row = row /\ run.at \in {"row", "park"}
    BY <1>1, <1>2, <1>3, <1>5, <1>9, <2>2 DEF Runs
  <2>4. Exact'
    BY <1>9, <2>1, <2>2, <2>3 DEF Exact, Here
  <2> QED
    BY <1>1, <1>7, <1>9, <2>1, <2>4, NothingCommitted
<1> QED
  BY <1>0, <1>6, <1>8, <1>9, ApplyBatchLoses

LEMMA StepMatched == ScanInv /\ MatchInv /\ [Next]_vars => MatchInv'
<1> SUFFICES ASSUME ScanInv, MatchInv, [Next]_vars PROVE ~commitLost' => Matching'
  BY StepOrder DEF MatchInv, ScanInv
<1>0. /\ StoreInv /\ StoreTypes /\ ReaderInv /\ drain \in Runs /\ reader \in [Chains -> Nat]
      /\ Here \in Chains
      /\ \A c \in Chains : \A i \in 1..Len(stored[c]) : stored[c][i] = stored[c][i]
  BY HereChain DEF ScanInv, StoreInv, ReaderInv, ReaderTypes
<1>1. CASE StoreNext /\ UNCHANGED readerVars
  <2>1. UNCHANGED <<reader, rows, dead, drain, commitLost>>
    BY <1>1 DEF readerVars
  <2>2. \A c \in Chains : \A i \in 1..Len(stored[c]) : stored'[c][i] = stored[c][i]
    BY <1>0, <1>1, StoreGrows
  <2>3. Matching => Exact'
    BY <2>1 DEF Matching, Exact, Here
  <2> QED
    BY <1>0, <2>1, <2>2, <2>3, NothingCommitted DEF MatchInv
<1>2. CASE RunStarts
  <2>1. drain'.at \in {"idle", "take"} /\ commitLost' = commitLost /\ stored' = stored
    BY <1>2, ReadingRun DEF RunStarts, storeVars
  <2>2. Exact'
    BY <2>1 DEF Exact
  <2>3. CASE rebuildAsked
    <3>1. rows' = {}
      BY <1>2, <2>3 DEF RunStarts
    <3>2. OnlyRead'
      BY <3>1 DEF OnlyRead, Shown
    <3>3. MatchedOK(rows', Gone')
      BY <3>1 DEF MatchedOK, TableOK, OneRowEach, OnOneRow, NoneBeside
    <3> QED
      BY <2>2, <3>2, <3>3 DEF Matching
  <2>4. CASE ~rebuildAsked
    <3>1. UNCHANGED <<reader, rows, dead>>
      BY <1>2, <2>4 DEF RunStarts
    <3> QED
      BY <1>0, <2>1, <2>2, <3>1, NothingCommitted DEF MatchInv
  <2> QED
    BY <2>3, <2>4
<1>3. CASE TakeEvents
  <2>1. UNCHANGED <<reader, rows, dead, commitLost, stored>>
    BY <1>3 DEF TakeEvents, storeVars
  <2>2. PICK run : run = drain'
    OBVIOUS
  <2>3. PICK at \in Nat : at = reader[Here]
    BY <1>0
  <2>4. PICK to : run = IF at = Len(stored[Here]) THEN Reading(drain.k + 1)
                        ELSE [drain EXCEPT !.at = "batch", !.first = at + 1, !.last = to]
    BY <1>3, <2>2, <2>3, Zenon DEF TakeEvents
  <2>5. CASE at = Len(stored[Here])
    <3>1. drain.k + 1 \in Nat \ {0}
      BY <1>0 DEF Runs
    <3>2. run.at \in {"idle", "take"}
      BY <2>4, <2>5, <3>1, ReadingRun
    <3>3. Exact'
      BY <2>2, <3>2 DEF Exact
    <3> QED
      BY <1>0, <2>1, <3>3, NothingCommitted DEF MatchInv
  <2>6. CASE at # Len(stored[Here])
    <3>1. PICK first : first = at + 1
      OBVIOUS
    <3>2. run = [drain EXCEPT !.at = "batch", !.first = first, !.last = to]
      BY <2>4, <2>6, <3>1
    <3>3. run.at = "batch" /\ run.first = first /\ run.k = drain.k
      BY <1>0, <3>2 DEF Runs
    <3>4. Exact'
      BY <2>1, <2>2, <2>3, <3>1, <3>3 DEF Exact, Here
    <3> QED
      BY <1>0, <2>1, <3>4, NothingCommitted DEF MatchInv
  <2> QED
    BY <2>5, <2>6
<1>4. CASE BatchTried
  BY <1>4, BatchTriedMatched
<1>5. CASE RowTried
  BY <1>5, RowTriedMatched
<1>6. CASE DeadLetter
  <2>1. /\ UNCHANGED <<reader, rows, commitLost, stored>> /\ dead \subseteq dead'
        /\ drain.at = "park" /\ drain' = [drain EXCEPT !.at = "parked"]
    BY <1>6 DEF DeadLetter, storeVars
  <2>2. PICK run : run = drain'
    OBVIOUS
  <2>3. run.at = "parked" /\ run.row = drain.row /\ run.k = drain.k
    BY <1>0, <2>1, <2>2 DEF Runs
  <2>4. Matching => Exact'
    BY <2>1, <2>2, <2>3 DEF Matching, Exact, Here
  <2> QED
    BY <1>0, <2>1, <2>4, NothingCommitted DEF MatchInv
<1>7. CASE Parked
  <2>1. /\ UNCHANGED <<rows, dead, commitLost, stored>> /\ drain.at = "parked"
        /\ reader' = [reader EXCEPT ![Here] = drain.row] /\ drain' = NextRow
    BY <1>7 DEF Parked, StepOver, storeVars
  <2>2. reader'[Here] = drain.row /\ \A c \in Chains \ {Here} : reader'[c] = reader[c]
    BY <1>0, <2>1
  <2>3. Exact'
    BY <2>1, <2>2, NextRowExact
  <2>4. ASSUME Matching PROVE OnlyRead'
    <3>1. drain.row = reader[Here] + 1 /\ reader[Here] \in Nat
      BY <1>0, <2>1, <2>4 DEF Matching, Exact
    <3>2. \A c \in Chains : \A i \in 1..reader[c] : i \in 1..reader'[c]
      BY <1>0, <2>2, <3>1
    <3> QED
      BY <2>1, <2>4, <3>2 DEF Matching, OnlyRead, Shown
  <2>5. Gone' = Gone
    BY <2>1 DEF Gone
  <2> QED
    BY <2>1, <2>3, <2>4, <2>5 DEF MatchInv, Matching
<1>8. CASE RebuildFails \/ ChainFails \/ ReaderCrash
  <2>1. UNCHANGED <<reader, rows, dead, commitLost, stored>>
    BY <1>8 DEF RebuildFails, ChainFails, ReaderCrash
  <2>2. drain.k + 1 \in Nat \ {0}
    BY <1>0 DEF Runs
  <2>3. drain'.at \in {"idle", "take"}
    BY <1>8, <2>2, ReadingRun DEF RebuildFails, ChainFails, ReaderCrash, Idle
  <2>4. Exact'
    BY <2>3 DEF Exact
  <2> QED
    BY <1>0, <2>1, <2>4, NothingCommitted DEF MatchInv
<1>9. CASE AsksRebuild \/ UNCHANGED vars
  <2>1. UNCHANGED <<reader, rows, dead, drain, commitLost, stored>>
    BY <1>9 DEF AsksRebuild, vars, storeVars, readerVars
  <2>2. Matching => Exact'
    BY <2>1 DEF Matching, Exact, Here
  <2> QED
    BY <1>0, <2>1, <2>2, NothingCommitted DEF MatchInv
<1> QED
  BY <1>1, <1>2, <1>3, <1>4, <1>5, <1>6, <1>7, <1>8, <1>9 DEF Next, Drain

LEMMA InitMatched == Init => MatchInv
<1> SUFFICES ASSUME Init PROVE Matching
  BY IndexedOrder DEF MatchInv
<1>1. rows = {} /\ drain.at = "idle"
  BY DEF Init, Idle
<1>2. Exact /\ OnlyRead
  BY <1>1 DEF Exact, OnlyRead, Shown
<1>3. MatchedOK(rows, Gone)
  BY <1>1 DEF MatchedOK, TableOK, OneRowEach, OnOneRow, NoneBeside
<1> QED
  BY <1>2, <1>3 DEF Matching

(* Every log is on one row, no payout waits as an orphan beside a source    *)
(* that awaits it, and a fulfilment stands alone only if its queueing is    *)
(* parked or late, whichever chains are read in which order and whichever   *)
(* failures, parked rows and rebuilds come in between, as long as no         *)
(* commit's answer is lost (basejump/flows.ts, flow/drain.ts).               *)
THEOREM PayoutsMatchedAlways == Spec => []PayoutsMatched
<1>1. MatchInv => PayoutsMatched
  BY DEF MatchInv, Matching, MatchedOK, MatchedRow, OnOneRow, NoneBeside, QueueGone, Gone,
         PayoutsMatched
<1> QED
  BY InitMatched, StepMatched, ScanInvAlways, <1>1, PTL DEF Spec
=============================================================================
