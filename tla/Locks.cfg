CONSTANTS
  alice = alice
  bob = bob
  c1 = c1
  c2 = c2
  c3 = c3
  k1 = k1
  k2 = k2
  Users = {alice, bob}
  Callers = {c1, c2, c3}
  Deltas <- MCDeltas
  Page = 2
  MaxAppends = 2
  MaxRows = 4
  Owners = {"ann", "ben"}
  Offers = {"p"}
  OfferOf <- MCOffer
  Sizes = {"small", "gpu"}
  GpuSizes = {"gpu"}
  Technical = {"gpu"}
  Memory <- MCMemory
  Allowance <- MCAllowance
  GpuLimit = 1
  CreateCalls = {k1, k2}
  RowLimit = 2
SPECIFICATION LocksSpec
INVARIANTS ChainIsOne VerifyNeverAccuses ProposalMakesOneRequest AdmissionHolds
SYMMETRY Alike
CHECK_DEADLOCK FALSE
