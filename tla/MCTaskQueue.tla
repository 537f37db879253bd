---------------------------- MODULE MCTaskQueue ----------------------------
(* Two producers and two consumers on a ring of three slots. *)
EXTENDS TaskQueue, TLC

CONSTANTS p1, p2, c1, c2, t1, t2

MCProducers == {p1, p2}
MCConsumers == {c1, c2}
MCTasks == {t1, t2}
=============================================================================
