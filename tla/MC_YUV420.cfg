\* ConvertYUV420SemiPlanarToYUV420Planar over every small frame: its reads
\* and stores stay in their planes, and the frame it leaves is planar.
CONSTANT FrameSizes <- MC_FrameSizes
INIT Init
NEXT Next
INVARIANTS TypeOK AccessesInPlanes ConversionPlanar
\* The conversion is a function: it stops when its loops end.
CHECK_DEADLOCK FALSE
