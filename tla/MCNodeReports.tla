----------------------------- MODULE MCNodeReports -----------------------------
(* A finite instance of NodeReports: one channel, a stale worker beside a new  *)
(* one.                                                                        *)
EXTENDS NodeReports

CONSTANTS h1, h2

=============================================================================
