--------------------------- MODULE MCEpollServer ----------------------------
(* EpollServer with few descriptors and few events per epoll_wait(); number *)
(* 4 is the epoll descriptor itself.                                        *)
EXTENDS EpollServer

MCFdNums == {3, 5, 6, 7}
MCFewFds == {3, 5, 6}
=============================================================================
