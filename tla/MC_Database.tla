---------------------------- MODULE MC_Database ----------------------------
(* Three write requests and a report on two tables, with fewer connections and
   threads than requests: while one writer is between its calls, the others can
   take all threads and wait for it. *)
EXTENDS Database, TLC

CONSTANTS w1, w2, w3, q1, t1, t2

MCWriters == {w1, w2, w3}
MCReaders == {q1}
MCInjected == {w1, w2, q1}
MCTables == {t1, t2}
=============================================================================
