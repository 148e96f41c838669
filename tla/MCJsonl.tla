-------------------------------- MODULE MCJsonl --------------------------------
(* JsonlCrawl with a small pool, for TLC.                                  *)
EXTENDS JsonlCrawl, TLC
=============================================================================
