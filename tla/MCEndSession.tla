---------------------------- MODULE MCEndSession ----------------------------
EXTENDS EndSession
=============================================================================
