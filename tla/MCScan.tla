------------------------------- MODULE MCScan -------------------------------
(* Two transfers of one asset, recipient and amount: the first paid at once  *)
(* by a landing the watch gained late, the second queued and fulfilled, and  *)
(* a log in between that nothing decodes.                                    *)
EXTENDS ScanDrain

Log(chain, block, kind, pending, bad) ==
    [chain |-> chain, block |-> block, kind |-> kind, transfer |-> "usdc",
     pending |-> pending, bad |-> bad]

MCEvent == [
    sent1 |-> Log("ethereum", 1, "initiated", None, FALSE),
    sent2 |-> Log("ethereum", 1, "initiated", None, FALSE),
    paid1 |-> Log("hydration", 1, "completed", None, FALSE),
    queued2 |-> Log("hydration", 2, "queued", 1, FALSE),
    broken |-> Log("hydration", 2, "completed", None, TRUE),
    fulfilled2 |-> Log("hydration", 2, "fulfilled", 1, FALSE)]

MCLedger == [ethereum |-> <<"sent1", "sent2">>,
             hydration |-> <<"paid1", "queued2", "broken", "fulfilled2">>]
MCLate == {"paid1"}
MCCovered == [ethereum |-> 0, hydration |-> 1]
MCIndexed == [ethereum |-> <<>>, hydration |-> <<>>]
MCLastBlock == [ethereum |-> 1, hydration |-> 2]
MCSaveEvery == [ethereum |-> 1, hydration |-> 2]
MCReaderChains == <<"ethereum", "hydration">>
=============================================================================
