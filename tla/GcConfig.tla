------------------------------ MODULE GcConfig ------------------------------
(***************************************************************************)
(* gc_config: the file of maps and gates, which the server parses once     *)
(* when it starts, and what it makes of it for the clients.                *)
(*                                                                         *)
(* A JSON value is [type, value]; the value of an object is a record, of   *)
(* an array a sequence.  Texts that become part of a path are sequences of *)
(* the pieces between slashes.                                             *)
(***************************************************************************)
EXTENDS Integers, Sequences

Null == [type |-> "null", value |-> <<>>]

\* A missing key is null: operator[] makes it so.
Field(object, key) ==
  IF key \in DOMAIN object.value THEN object.value[key] ELSE Null

ValidateGateEntry(entry) ==
  /\ entry.type = "object"
  /\ \A key \in {"x", "y", "id"} : Field(entry, key).type = "unsigned"

\* Mutant: gates are not looked at.
ValidateMapEntry_NoGates(entry) ==
  /\ entry.type = "object"
  /\ Field(entry, "id").type = "string"
  /\ Field(entry, "group").type \in {"string", "null"}
  /\ Field(entry, "mapImage").type = "string"
  /\ Field(entry, "gates").type = "array"

ValidateMapEntry(entry) ==
  /\ entry.type = "object"
  /\ Field(entry, "id").type = "string"
  /\ Field(entry, "group").type \in {"string", "null"}
  /\ Field(entry, "mapImage").type = "string"
  /\ Field(entry, "gates").type = "array"
  /\ \A k \in DOMAIN Field(entry, "gates").value :
       ValidateGateEntry(Field(entry, "gates").value[k])

ValidateConfig(document) ==
  /\ document.type = "array"
  /\ \A k \in DOMAIN document.value : ValidateMapEntry(document.value[k])

MapEntry(entry) ==
  [id             |-> Field(entry, "id").value,
   group          |-> Field(entry, "group"),
   map_image_path |-> Field(entry, "mapImage").value,
   gate_config    |-> Field(entry, "gates").value]

\* parse, of a document that validate_config accepts.
Parse(document) == [k \in DOMAIN document.value |-> MapEntry(document.value[k])]

\* open_from_file: <<maps>>, or <<>> for the exception (or the nullopt of a file
\* that cannot be opened), upon which main returns.
OpenFromFile(document) ==
  IF ValidateConfig(document) THEN <<Parse(document)>> ELSE <<>>

ToClientJson(map) == [id |-> map.id, group |-> map.group, gates |-> map.gate_config]

\* Maps that get_maps_for_client leaves out.
Hidden(map, permissions, groups) ==
  /\ permissions = "Control"
  /\ map.group.type = "string"
  /\ map.group.value \notin groups

GetMapsForClient(maps, permissions, groups) ==
  LET jsonified_maps[k \in 0 .. Len(maps)] ==
        IF k = 0 THEN <<>>
        ELSE IF Hidden(maps[k], permissions, groups) THEN jsonified_maps[k - 1]
        ELSE Append(jsonified_maps[k - 1], ToClientJson(maps[k]))
  IN  jsonified_maps[Len(maps)]

\* get_map_by_id: the positions of the maps with this id; the first counts.
WithId(maps, id) == {k \in DOMAIN maps : maps[k].id = id}

GetMapById(maps, id) ==
  maps[CHOOSE k \in WithId(maps, id) : \A l \in WithId(maps, id) : k <= l]
=============================================================================
