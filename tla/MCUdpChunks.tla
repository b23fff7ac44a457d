---------------------------- MODULE MCUdpChunks ----------------------------
(* Small instances of UdpChunks for TLC. *)
EXTENDS UdpChunks

CONSTANTS Values,       \* what a data cell can hold; 0 is the common value
          Lengths,      \* payload lengths, in cells
          RequestIds,
          MaxChanged    \* data cells of a frame that differ from 0

MCTypes == {"runtime"}
MCFrames ==
    {EncodeFrame(t, id, [i \in 1..n |-> Data(v[i])]) :
        t \in MCTypes, id \in RequestIds,
        <<n, v>> \in UNION {{n} \X {w \in [1..n -> Values] :
                                  Cardinality({i \in 1..n : w[i] # 0}) <= MaxChanged}
                                : n \in Lengths}}

(* The parts the frames are cut into, and a checksum that tells them apart. *)
MCParts == UNION {{PartsOf(f)[i] : i \in DOMAIN PartsOf(f)} : f \in MCFrames}
MCChecksum(p) == <<"crc32", p>>
============================================================================
