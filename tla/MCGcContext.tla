----------------------------- MODULE MCGcContext -----------------------------
EXTENDS GcContext
=============================================================================
