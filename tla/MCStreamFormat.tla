--------------------------- MODULE MCStreamFormat ---------------------------
(* Values for TLC: parameter sets and NAL units of every length that the   *)
(* loops of the conversion distinguish, with zeros where they confuse.     *)
EXTENDS StreamFormat

MCVps == {<<64, 1, 12>>}
MCSps == {<<103, 66, 0, 3>>, <<103, 100, 0, 40, 0, 0, 3, 1>>}
MCPps == {<<104, 206, 128>>, <<104, 238, 60, 128>>}
MCNalUnits == {<<10>>, <<9, 16>>, <<101, 0, 1>>, <<65, 0, 0, 3, 1, 7>>}
=============================================================================
