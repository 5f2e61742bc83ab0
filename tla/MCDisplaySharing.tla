-------------------------- MODULE MCDisplaySharing --------------------------
\* Pipelines for TLC: transcoding, with and without post-processing, two
\* post-processors in a row, and elements without a display in between.
EXTENDS DisplaySharing

Hw(kind) == [kind |-> kind, hardware |-> TRUE]
Sw(kind) == [kind |-> kind, hardware |-> FALSE]

MCChains ==
  {<<Hw("vdec"), Hw("venc")>>, <<Hw("vdec"), Hw("vpp"), Hw("venc")>>,
   <<Hw("vdec"), Sw("vpp"), Hw("venc")>>, <<Hw("vpp"), Hw("vpp")>>,
   <<Hw("vpp"), Hw("vpp"), Hw("venc")>>,
   <<Hw("vdec"), Hw("vpp"), Sw("venc")>>}
=============================================================================
