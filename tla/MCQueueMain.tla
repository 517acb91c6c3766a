---------------------------- MODULE MCQueueMain -----------------------------
(* The program of main.cpp on a small instance: the values are the numbers  *)
(* the counter hands out.                                                   *)
EXTENDS QueueMain

MCThreads == Producers \cup Consumers \cup {Main}
MCItems == 0 .. Total - 1
=============================================================================
