------------------------------- MODULE MCVmm -------------------------------
EXTENDS Vmm, TLC

CONSTANTS d0, d1

(* Three levels of two entries; index 1 of the top level is the kernel's half.
   The loader's tables are 0, on top, and 1, which has nothing mapped yet. *)
TwoData       == {d0, d1}
Bits          == {0, 1}
UserPages     == {<<0, 0, 0>>}
KernelPages   == {<<1, 0, 0>>}
TwoPageDevice == <<<<1, 0, 1>>, <<1, 1, 0>>>>
MCPages       == UserPages \cup KernelPages \cup {TwoPageDevice[1], TwoPageDevice[2]}
MCDevices     == {TwoPageDevice}
Loader        == {0, 1}
MCLoaderTables ==
    0 :> (0 :> None @@ 1 :> [frame |-> 1, flags |-> {"W"}]) @@ 1 :> (0 :> None @@ 1 :> None)
MCUserFlags   == {{"U", "NX", "PCD"}}
MCKernelFlags == {{"W"}}
MCMmioOpts    == {{"W", "G", "NX"}}
=============================================================================
