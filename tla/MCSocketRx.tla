------------------------------ MODULE MCSocketRx ------------------------------
(***************************************************************************)
(* SocketRx on small instances.                                            *)
(***************************************************************************)
EXTENDS SocketRx

(* t1 reads one socket and opens another; t2 closes the first under it. *)
TwoThreads == {<<"t1", "socket", "s1">>, <<"t1", "recvfrom", "s1">>,
               <<"t1", "socket", "s2">>, <<"t2", "close", "s1">>}

OpenAndRead == Thread \X {"socket", "recvfrom"} \X Socket
=============================================================================
