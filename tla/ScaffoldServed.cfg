SPECIFICATION Spec
CONSTANTS
  None = None
  Names <- MCNames
  Builtin = {"Auth"}
  ByLength <- MCByLength
  Fold <- MCFold
  Ops <- MCOps
  Doc <- MCDoc
  Rank <- MCRank
  GlobalBearer = FALSE
  Params = {"{id}"}
  Colon <- MCColon
  Methods <- MCMethods
  Documents <- MCDocuments
  Iface <- MCIface
  DtoModes = {TRUE}
  HandWays <- MCHandWays
  MaxEdits = 2
  MaxRuns = 2
  MaxHand = 1
INVARIANTS
  FinishedIsServed
CHECK_DEADLOCK FALSE
