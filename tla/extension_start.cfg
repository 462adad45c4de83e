SPECIFICATION FairSpec
CONSTANTS
    Kernels <- ThreeKernels
    NoKernel = "nobody"
    Versions = {1, 2}
    Bundle <- BundleOf
    Manual <- TwinManual
INVARIANTS
    TypeOK
    CertifiedHolds
PROPERTIES
    StartEnds
