---------------------------- MODULE MCGateSystem ----------------------------
(***************************************************************************)
(* GateSystem with gates that take two ticks to travel.  Clients raise and *)
(* lower gates; the board is only ever asked for all gates.                *)
(***************************************************************************)
EXTENDS GateSystem, TLC

CONSTANTS s1, s2

MCQueries == {GateIds}
MCArduinoMessages == {}

Change(g, raise) ==
  [type    |-> "change_state",
   request |-> [type |-> "change_state", id |-> g, state |-> raise]]

MCChanges == {Change(g, raise) : g \in GateIds, raise \in BOOLEAN}

MCAnyPermission == [s \in Sessions |-> Permissions]

\* A controller and a viewer; only messages of a controller have an effect.
MCPermissionsOf == [s \in Sessions |-> IF s = s1 THEN {"Control"} ELSE {"View"}]

Symmetry == Permutations({s1, s2})
=============================================================================
