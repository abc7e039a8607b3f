------------------------------ MODULE MCBridge ------------------------------
(***************************************************************************)
(* Bridge with a command, a message of a type the server ignores and one   *)
(* of a type it does not know from the clients, and two reports that       *)
(* differ, or a report and an error, from the board.                       *)
(***************************************************************************)
EXTENDS Bridge, TLC

CONSTANTS s1, s2, g1

Raise == [type |-> "change_state", request |-> [type |-> "change_state", id |-> g1]]
Text == [type |-> "text", request |-> [type |-> "text"]]
Unknown == [type |-> "config", request |-> [type |-> "unknown"]]
Garbage == [type |-> "unparsable", request |-> [type |-> "unknown"]]

MCClientMessages == {Raise, Text, Unknown, Garbage}
MCCommands == {Raise}

Report(state) == [type |-> "query_state_result", states |-> [g \in {g1} |-> state]]

MCOneReport == {Report("raised")}
MCReports == {Report("raised"), Report("lowered")}
MCReportsAndErrors == {Report("raised"), [type |-> "error"]}

\* Everybody may be granted anything.
MCPermissionsOf == [s \in Sessions |-> Permissions]

Symmetry == Permutations({s1, s2})
=============================================================================
