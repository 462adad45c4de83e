SPECIFICATION Spec
CONSTANTS
    Kernels <- TwoKernels
    NoKernel = "nobody"
    Versions = {1, 2}
    Bundle <- BundleOf
    Manual <- NoManual
PROPERTIES
    RepairRepairs
