---------------------------- MODULE MCFixedHost ----------------------------
EXTENDS FixedHost, TLC
============================================================================
