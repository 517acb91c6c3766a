---------------------------- MODULE MCPollServer ----------------------------
(* PollServer with a table of three entries: the listening socket and two   *)
(* clients.                                                                 *)
EXTENDS PollServer

MCFdNums == 3 .. 6
=============================================================================
