----------------------------- MODULE MCSplitLoop -----------------------------
EXTENDS SplitLoop

MCPopulations == 0..17
MCLimits == 0..7
=============================================================================
