--------------------------- MODULE MCGenerationRun ---------------------------
(***************************************************************************)
(* Small instances of GenerationRun.  Workers, dispatchers and sweepers    *)
(* are interchangeable, and so are the runs of a safety check.             *)
(***************************************************************************)
EXTENDS GenerationRun

Actors == Permutations(Workers) \cup Permutations(Dispatchers)
             \cup Permutations(Sweepers)
ActorsAndRuns == Actors \cup Permutations(Runs)

=============================================================================
