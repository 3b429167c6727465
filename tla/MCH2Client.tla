----------------------------- MODULE MCH2Client -----------------------------
(* H2Client with the backoff bounds of the program (cfg): 1 s and 10 s.    *)
EXTENDS H2Client
=============================================================================
