SPECIFICATION Spec
CONSTANTS
  Handlers = {h1, h2}
  Sweeper = sweeper
  Payloads = {x}
  Finishes <- OneSided
  Requests = {"finish", "receipt", "cancel"}
  MaxRevision = 2
  MaxFaults = 1
PROPERTIES CommittedPairIsFinal
SYMMETRY Symmetry
