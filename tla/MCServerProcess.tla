-------------------------- MODULE MCServerProcess ---------------------------
(***************************************************************************)
(* ServerProcess with a pool of two threads, of which main's is one, and   *)
(* two clients: one asks for pages and waits for each, the other sends     *)
(* requests that make a handler throw, without waiting.                    *)
(***************************************************************************)
EXTENDS ServerProcess

CONSTANTS c1, c2, t1, t2

MCKindsOf == [c \in Conns |-> IF c = c1 THEN {"get"} ELSE {"throws"}]
MCMaxRequests == [c \in Conns |-> 2]
=============================================================================
