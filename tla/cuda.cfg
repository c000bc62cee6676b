SPECIFICATION CudaSpec
CONSTANTS
    MaxDevices = 2
    Memory = 4
INVARIANTS
    NothingStaysAllocated
    RealMeansProved
    DiscoveryIsConsistent
