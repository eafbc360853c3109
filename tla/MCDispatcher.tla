---------------------------- MODULE MCDispatcher ----------------------------
(***************************************************************************)
(* Instances of Dispatcher for TLC.                                        *)
(***************************************************************************)
EXTENDS Dispatcher, TLC

CONSTANTS j1, j2, s1, s2

MCHolders == Sessions \cup {Pod, Peer}

(* Two claims per job, and sessions that run every job. *)
TwoTries == [j \in Jobs |-> 2]

(* A job without retries, which has one claim, beside one with three. *)
MixedTries == [j \in Jobs |-> IF j = j1 THEN 0 ELSE 3]

AllJobs == [s \in Sessions |-> Jobs]

(* s1 runs every job, s2 only jobs of which no row is there: more rows can *)
(* be claimed than s1 has slots.                                           *)
OtherJobs == [s \in Sessions |-> IF s = s1 THEN Jobs ELSE {}]

(* Jobs and sessions are interchangeable: Handles, MaxRetries and          *)
(* Overridden treat them alike.                                            *)
Symmetry == Permutations(Jobs) \cup Permutations(Sessions)

=============================================================================
