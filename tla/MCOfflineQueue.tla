-------------------------- MODULE MCOfflineQueue --------------------------
(* Small instances of OfflineQueue for TLC. *)
EXTENDS OfflineQueue, TLC

CONSTANTS run, question, t1, t2

TabSymmetry == Permutations(Tabs)

\* An Active Study run that is passed twice and begun again in between.
RestartedRun == [k \in {run} |-> <<1, 0, 1>>]
\* An attempt that is restarted away.
AbandonedRun == [k \in {run} |-> <<1, 0>>]
\* Three parts in order.
StraightRun == [k \in {run} |-> <<1, 2, 3>>]
TwoParts == [k \in {run} |-> <<1, 2>>]
\* One answer to a question.
OneAnswer == [k \in {question} |-> <<1>>]
=============================================================================
