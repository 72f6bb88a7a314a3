------------------------------ MODULE MCIngest ------------------------------
(* Instances of the upload pipeline for TLC. *)
EXTENDS IngestProperties, TLC

\* Sound for the runs that check no liveness: uploads, workers, schemas and row
\* counts are interchangeable in every action and every invariant.
Interchangeable ==
  Permutations(Uploads) \union Permutations(Workers)
    \union Permutations(Schemas) \union Permutations(RowCounts)
=============================================================================
