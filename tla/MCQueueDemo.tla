---------------------------- MODULE MCQueueDemo -----------------------------
(* demo() with fewer pushes; the queue still fills up and drains.           *)
EXTENDS QueueDemo

MCThreads == {Producer, Consumer}
MCItems == 0 .. Pushes - 1
=============================================================================
