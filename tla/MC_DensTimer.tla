----------------------------- MODULE MC_DensTimer -----------------------------
EXTENDS DensTimer
=============================================================================
