--------------------------- MODULE MCReconciliation ---------------------------
(* Two pull requests and one process, or one pull request, two processes and  *)
(* one event less.                                                            *)
EXTENDS Reconciliation

MCInit ==
  /\ Init
  /\ pull[1] = "OPEN" /\ At(1, "idle")
  /\ pull[2] = "OPEN" <=> At(2, "off")
  /\ events = IF pull[2] = "OPEN" THEN 0 ELSE 1

MCSpec == MCInit /\ [][Next]_vars /\ Fairness
===============================================================================
