--------------------------- MODULE MCHttpSession ----------------------------
(***************************************************************************)
(* HttpSession with two connections on two threads.                        *)
(***************************************************************************)
EXTENDS HttpSession, TLC

CONSTANTS c1, c2, t1, t2

Gets == [c \in Conns |-> {"get"}]
MCKindsOf == [c \in Conns |-> Kinds]
MCMaxRequests == [c \in Conns |-> 2]

Symmetry == Permutations({c1, c2}) \cup Permutations({t1, t2})
=============================================================================
