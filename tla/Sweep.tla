------------------------------- MODULE Sweep -------------------------------
(***************************************************************************)
(* What a scan promises about its progress, whoever probes and however     *)
(* often the process dies: the saved position of checkpoint.json only      *)
(* moves forward over the rounds, and everything it has passed was dealt   *)
(* with.                                                                   *)
(***************************************************************************)
EXTENDS Integers

CONSTANTS N, Attempts   \* targets of the job, rounds of the sweep

VARIABLES
    dealt,   \* pairs of a round and a target: probed, or answered before
    saved    \* position of the checkpoint: round and next target

Pair == (0 .. Attempts - 1) \X (0 .. N - 1)
Position == [round : 0 .. Attempts, next : 0 .. N]

Passed(p, pair) ==
    \/ pair[1] < p.round
    \/ pair[1] = p.round /\ pair[2] < p.next

NotBefore(p, q) ==
    \/ p.round > q.round
    \/ p.round = q.round /\ p.next >= q.next

Covers(p, D) == \A pair \in Pair : Passed(p, pair) => pair \in D

SweepInit ==
    /\ dealt = {}
    /\ saved = [round |-> 0, next |-> 0]

(* some targets are dealt with, or the position is saved *)
SweepNext ==
    /\ dealt \subseteq dealt'
    /\ saved' \in Position
    /\ NotBefore(saved', saved)
    /\ Covers(saved', dealt')

SweepSpec == SweepInit /\ [][SweepNext]_<<dealt, saved>>

=============================================================================
