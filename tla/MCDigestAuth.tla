---------------------------- MODULE MCDigestAuth ----------------------------
(***************************************************************************)
(* DigestAuth with two addresses: a user who is alone at one of them, and  *)
(* at the other a user and a stranger, who is refused again and again.     *)
(***************************************************************************)
EXTENDS DigestAuth

CONSTANTS c1, c2, c3, alone, known, stranger, home, office

MCBrowserOf ==
  [c \in Conns |-> CASE c = c1 -> alone [] c = c2 -> known [] OTHER -> stranger]
MCAddressOf ==
  [b \in {alone, known, stranger} |-> IF b = alone THEN home ELSE office]
MCUserOf ==
  [b \in {alone, known, stranger} |->
     CASE b = alone -> "View" [] b = known -> "Control" [] OTHER -> "Unknown"]
MCPagesOf ==
  [c \in Conns |-> CASE c = c1 -> {"view", "control"}
                     [] c = c2 -> {"control"}
                     [] OTHER  -> {"view"}]
=============================================================================
