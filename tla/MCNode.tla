-------------------------------- MODULE MCNode --------------------------------
(* CrawlNode with symmetric workers, for TLC.                              *)
EXTENDS CrawlNode, TLC

\* Sound for safety runs only: workers are interchangeable.
WorkerSymmetry == Permutations(Workers)
=============================================================================
