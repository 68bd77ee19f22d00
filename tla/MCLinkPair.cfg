SPECIFICATION FairSpec
CONSTANTS
  Handlers = {h1}
  Sweeper = sweeper
  Payloads = {x}
  Finishes <- OneFinish
  Requests = {"finish", "receipt", "poll", "cancel", "leave", "read", "settle"}
  MaxRevision = 2
  MaxFaults = 1
INVARIANTS PairIsWhole TradeAppliesToItsBase AnnouncedIsCommitted
PROPERTIES EverySessionEnds
