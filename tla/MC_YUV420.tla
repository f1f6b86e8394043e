------------------------------ MODULE MC_YUV420 ------------------------------
EXTENDS YUV420

\* Frame widths a multiple of 4 and even heights, as the encoder's multiples
\* of 16 are, scaled down so that every byte of a frame is distinct.
MC_FrameSizes ==
  {f \in (4..20) \X (2..8) :
     f[1] % 4 = 0 /\ f[2] % 2 = 0 /\ (f[1] * f[2] * 3) \div 2 <= 128}
=============================================================================
