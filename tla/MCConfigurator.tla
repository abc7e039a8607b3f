--------------------------- MODULE MCConfigurator ---------------------------
(***************************************************************************)
(* Configurator with two files that may hold two users, one of whom has no *)
(* permissions, a repeated login, an unknown permission and a broken line; *)
(* one of them may be entered by hand with other permissions, no map       *)
(* groups and a colon in the password.                                     *)
(***************************************************************************)
EXTENDS Configurator

MCTexts == {"ann", "bob", "0", "1", "2", "7", "", "north", "south", "north;south", "pw", "p", "w"}

\* One user's line may be cut in the password, another's in the map groups.
MCBeginnings ==
  [text \in MCTexts |-> IF text = "pw" THEN {"p"}
                        ELSE IF text = "north" THEN {text} ELSE {}]

MCLogins == {"ann"}

MCEntries == {[permissions |-> "View", map_groups |-> "", password |-> <<"p", "w">>]}

MCInitialFiles ==
  {<< <<"ann", "2", "north;south", "pw">>, <<"bob", "7", "", "pw">>, <<"bob", "1", "">>,
      <<"bob", "0", "north", "">>, <<"">>, <<"ann", "1", "", "pw">> >>}
=============================================================================
