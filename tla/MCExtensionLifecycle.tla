----------------------- MODULE MCExtensionLifecycle ------------------------
(* Small instances of ExtensionLifecycle for TLC.                          *)
EXTENDS ExtensionLifecycle

\* Two releases: one kernel of the older, two of the newer, one of which may
\* also start manually.
TwoKernels == {"old", "new"}
ThreeKernels == {"old", "new", "twin"}
BundleOf == [k \in Kernels |-> IF k = "old" THEN 1 ELSE 2]
NoManual == {}
TwinManual == {"twin"}
=============================================================================
