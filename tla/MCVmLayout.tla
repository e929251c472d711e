---------------------------- MODULE MCVmLayout ----------------------------
(* Small instances of VmLayout for TLC. *)
EXTENDS VmLayout

WholeAndPart == {<<1, "T">>, <<3, "G">>, <<1536, "M">>, <<6144, "">>}

\* Hosts with up to four GPUs on up to three NUMA nodes.
GpuSets == UNION {[1..n -> 0..2] : n \in 0..4}

TwentyGigabytes == {<<20, "G">>}

OneSize == {<<512, "M">>}
NoGpu == {<<>>}
============================================================================
