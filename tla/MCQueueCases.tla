---------------------------- MODULE MCQueueCases ----------------------------
(* Four instances of OfflineQueue for TLC, in one run: part says which one  *)
(* a behaviour is of.  The constants of the configuration are those of      *)
(* "tabs".                                                                  *)
EXTENDS MCOfflineQueue

VARIABLE part

\* A run begun again, flushed by two tabs.
Order == INSTANCE OfflineQueue
  WITH Keys <- {run}, Script <- RestartedRun, Tabs <- {t1, t2}, Forces <- {TRUE}, BatchSize <- 2,
       MaxFaults <- 1, MaxTemporary <- 0, MaxRefusals <- 0, MaxGhosts <- 1, MaxSignOuts <- 0

\* Three parts in one batch, with temporary and final refusals.
Blocked == INSTANCE OfflineQueue
  WITH Keys <- {run}, Script <- StraightRun, Tabs <- {t1}, Forces <- {TRUE}, BatchSize <- 3,
       MaxFaults <- 2, MaxTemporary <- 2, MaxRefusals <- 1, MaxGhosts <- 1, MaxSignOuts <- 0

\* One answer, while the owner signs out and another account signs in and out.
Session == INSTANCE OfflineQueue
  WITH Keys <- {question}, Script <- OneAnswer, Tabs <- {t1, t2}, Forces <- {TRUE}, BatchSize <- 1,
       MaxFaults <- 1, MaxTemporary <- 0, MaxRefusals <- 1, MaxGhosts <- 1, MaxSignOuts <- 2

CasesInit == \/ part = "tabs" /\ Init
             \/ part = "order" /\ Order!Init
             \/ part = "blocked" /\ Blocked!Init
             \/ part = "session" /\ Session!Init

CasesNext == /\ UNCHANGED part
             /\ \/ part = "tabs" /\ Next
                \/ part = "order" /\ Order!Next
                \/ part = "blocked" /\ Blocked!Next
                \/ part = "session" /\ Session!Next

CasesSpec == CasesInit /\ [][CasesNext]_<<part, vars>>

\* An attempt and the Restart after it, in the hands of two tabs, with a
\* refusal and an abandoned request, and an answer that outlives its session:
\* neither vanishes and neither is applied twice (flushServerBatch,
\* replay_batch, forgetOfflineUser).
TwoTabsLoseNothing ==
  /\ part = "tabs" => NoLostWork /\ AppliedAtMostOnce
  /\ part = "session" => Session!NoLostWork /\ Session!AppliedAtMostOnce

\* With two tabs, batches smaller than the queue and a Restart between two
\* passes, no operation is applied before an earlier one of its entity
\* (flushPendingOperations).
LaterWorkHeldBack == part = "order" => Order!HoldsBackLaterWork

\* In the same instance, the server's run ends where the device's stands: a
\* Restart applied twice or late would leave it behind (replay_batch).
ServerIsAsTheDevice == part = "order" => Order!ServerMatchesDevice

\* With temporary and final refusals in the middle of a batch, a flush fails
\* an operation for ever only behind a business-rule refusal (flushServerBatch).
OnlyRulesFailWork == part = "blocked" => Blocked!FailedOnlyForBusinessRule
=============================================================================
