----------------------------- MODULE MCTargets -----------------------------
EXTENDS Targets

(* Sixteen addresses: /4 is a single address, /2 the longest prefix whose  *)
(* last address is trimmed.  Blocks nest, touch, overlap and reach both    *)
(* ends of the address space; one has host bits set.                       *)
E(a, p) == [ip |-> a, prefix |-> p]
MCIncludeEntries ==
    {E(0, 0), E(6, 2), E(8, 2), E(12, 2), E(14, 3), E(11, NoPrefix), E(15, 4)}
MCExcludeEntries ==
    {E(8, 1), E(4, 2), E(10, 3), E(13, NoPrefix), E(15, NoPrefix)}
MCReserved == <<[base |-> 0, bits |-> 3]>>
MCPrivate == <<[base |-> 6, bits |-> 4], [base |-> 2, bits |-> 4]>>
MCPorts == <<22, 21>>
MCAllPorts == {21, 22, 80}
MCShardCounts == 1 .. 3
MCShardIndexes == 0 .. 2
=============================================================================
