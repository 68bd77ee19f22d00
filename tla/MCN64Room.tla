----------------------------- MODULE MCN64Room -----------------------------
EXTENDS N64Room
=============================================================================
