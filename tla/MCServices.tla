----------------------------- MODULE MCServices -----------------------------
(* Three connections and two descriptors besides the listening socket's;    *)
(* files of three lengths; two UDP clients with two lines each.             *)
EXTENDS Services

MCFdNums == {3, 4, 5}
MCLengths == {0, 1, 2}
=============================================================================
