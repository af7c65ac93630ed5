SPECIFICATION FairSpec
CONSTANTS
    Event <- MCEvent
    Chains = {"ethereum", "hydration"}
    Ledger <- MCLedger
    Covered <- MCCovered
    Indexed <- MCIndexed
    Late <- MCLate
    SaveEvery <- MCSaveEvery
    ReaderChains <- MCReaderChains
    RewindBlocks = {1, 3}
    LastBlock <- MCLastBlock
    MaxDisturbances = 2
    Batch = 2
    RowAttempts = 2
    None = None
INVARIANTS
    TypeOK
    NothingSkipped
    PayoutsMatched
PROPERTIES
    NeverUnshown
    EveryLogIndexed
CHECK_DEADLOCK FALSE
