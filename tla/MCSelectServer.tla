--------------------------- MODULE MCSelectServer ---------------------------
(* SelectServer with a table of three slots: the listening socket and two   *)
(* clients.                                                                 *)
EXTENDS SelectServer

MCFdNums == 3 .. 6
=============================================================================
