SPECIFICATION FairSpec
CONSTANTS
  Names = {"a", "b"}
  Payloads = {"x", "y"}
  Cap = 2
  MaxSeq = 4
  None = None
INVARIANTS SlotExclusive PolledIsPublished
 
