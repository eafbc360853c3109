---------------------------- MODULE MCJobsTable ----------------------------
(***************************************************************************)
(* Instances of JobsTable for TLC: one job with max_retries 0, one with 2. *)
(***************************************************************************)
EXTENDS JobsTable

CONSTANTS j1, j2, h1, h2

(* max_retries 0 still gives one claim; 2 gives two. *)
MixedRetries == [j \in Jobs |-> IF j = j1 THEN 0 ELSE 2]

=============================================================================
