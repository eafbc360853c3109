---------------------------- MODULE JobLifecycle ----------------------------
(***************************************************************************)
(* What a submitter of jobs is promised, with nothing of how the queue     *)
(* does it and who takes a job: a job waits, is taken, is given back or    *)
(* finished, and ends done for good or in the dead-letter queue, from      *)
(* where an operator may revive it.  tries counts the claims since it was  *)
(* submitted or revived; no life of a job has more than Budget of them.    *)
(***************************************************************************)
EXTENDS Naturals

CONSTANTS
    Jobs,
    Budget        \* claims per life of each job

VARIABLES
    phase,
    tries

lifeVars == <<phase, tries>>

Phases == {"new", "queued", "taken", "done", "dead"}

LifeInit ==
    /\ phase = [j \in Jobs |-> "new"]
    /\ tries = [j \in Jobs |-> 0]

(* The jobs S change from phase p to phase q; their tries become T(j). *)
Move(S, p, q, T(_)) ==
    /\ \A j \in S : phase[j] = p
    /\ phase' = [j \in Jobs |-> IF j \in S THEN q ELSE phase[j]]
    /\ tries' = [j \in Jobs |-> IF j \in S THEN T(j) ELSE tries[j]]

Submit(j) == Move({j}, "new", "queued", LAMBDA k : 0)

Take(S) ==
    /\ \A j \in S : tries[j] < Budget[j]
    /\ Move(S, "queued", "taken", LAMBDA k : tries[k] + 1)

(* The job waits again; which claimant had taken it is not told apart. *)
GiveBack(j) == Move({j}, "taken", "queued", LAMBDA k : tries[k])

Finish(j) == Move({j}, "taken", "done", LAMBDA k : tries[k])

(* A claimant gives up on the job it has taken. *)
Dismiss(j) == Move({j}, "taken", "dead", LAMBDA k : 0)

(* Waiting jobs with no claim left are buried. *)
Bury(S) ==
    /\ \A j \in S : tries[j] >= Budget[j]
    /\ Move(S, "queued", "dead", LAMBDA k : 0)

Revive(j) == Move({j}, "dead", "queued", LAMBDA k : 0)

LifeNext ==
    \/ \E j \in Jobs : \/ Submit(j) \/ GiveBack(j) \/ Finish(j)
                       \/ Dismiss(j) \/ Revive(j)
    \/ \E S \in SUBSET Jobs : Take(S) \/ Bury(S)

LifeSpec == LifeInit /\ [][LifeNext]_lifeVars

=============================================================================
