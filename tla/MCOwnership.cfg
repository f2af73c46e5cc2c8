SPECIFICATION OwnershipSpec
SYMMETRY ObjectSymmetry
CONSTANTS
  Message = {"m1", "m2"}
  Zero = "zero"
  Depth = 3
  MaxBatch = 3
  MaxSent = 5
  MaxFaults = 2
  Clients = {"c1"}
  Kinds = {"gpu", "cpu", "draw"}
  MaxChunks = 2
  MaxJobs = 2
  MaxSubmissions = 2
  MaxBytes = 2
  MaxInFlight = 2
  MaxPressure = 1
  MaxLost = 0
  Page = 2
  Limit = 6
  Sizes = {1, 4}
  ArenaSize = 2
  MaxObjects = 3
  MaxQueue = 1
  TableSlots = {"s1", "s2"}
  Present = {"s1"}
  Objects = {o1, o2}
  o1 = o1
  o2 = o2
  MaxGen = 2
  MaxQueued = 2
  MaxStuck = 1
  Images = {"i1", "i2", "i3", "i4"}
  Refs = 2
  MaxSurfaces = 3
  Stamps = {1, 2, 3}
  Geometries = {"small"}
  MaxId = 1
INVARIANTS
  MemorySafe GapsAreFound SplitSafe
PROPERTIES
  WorkerSafe RingIsChannel DispatchSafe ResourcesSafe SurfacesSafe
CHECK_DEADLOCK FALSE
