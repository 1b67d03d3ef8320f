----------------------------- MODULE MCLiveHistory -----------------------------
EXTENDS LiveHistory

\* Every other frame is twice as large.
MCSize(frame) == 1 + (frame % 2)
================================================================================
