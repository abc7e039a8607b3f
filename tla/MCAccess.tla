------------------------------ MODULE MCAccess ------------------------------
(***************************************************************************)
(* Access with the two auth-files of MCConfigurator and two config files:  *)
(* one with maps for all and for a group, gates on each, and one whose     *)
(* gate lacks a coordinate.                                                *)
(***************************************************************************)
EXTENDS Access, MCConfigurator

Json(type, value) == [type |-> type, value |-> value]

Text(value) == Json("string", value)

Unsigned(n) == Json("unsigned", n)

Placed(n) ==
  Json("object", [id |-> Unsigned(n), x |-> Unsigned(470), y |-> Unsigned(250)])

MapOf(id, group, image, gates) ==
  Json("object", [id |-> Text(id), group |-> group, mapImage |-> Text(image),
                  gates |-> Json("array", gates)])

Ungrouped(id, image) ==
  Json("object", [id |-> Text(id), mapImage |-> Text(image),
                  gates |-> Json("array", <<Placed(6)>>)])

MCDocuments ==
  << Json("array", << Ungrouped(<<"yard">>, "yard.png"),
                      MapOf(<<"depot", "north">>, Text("north"), "north.png", <<Placed(0), Placed(3)>>),
                      MapOf(<<"depot", "south">>, Text("south"), "south.png", <<>>) >>),
     Json("array", << MapOf(<<"yard">>, Null, "yard.png",
                            <<Json("object", [id |-> Unsigned(6), x |-> Unsigned(470)])>>) >>),
     Json("object", Ungrouped(<<"yard">>, "yard.png").value) >>

MCTargets ==
  {<<"">>, <<"view">>, <<"view", "">>, <<"view", "index.html">>, <<"control">>,
   <<"control", "index.html">>, <<"control", "config">>, <<"config">>, <<"config", "">>,
   <<"config", "maps", "config">>, <<"config.js">>, <<"maps">>, <<"maps", "">>,
   <<"maps", "yard">>, <<"maps", "depot", "north">>, <<"maps", "depot">>,
   <<"styles.css">>, <<"styles.css", "">>, <<"..", "auth.txt">>, <<>>,
   <<".">>, <<".", "control", "index.html">>, <<"", "view", "">>, <<"", "config">>,
   <<"control", "", "index.html">>, <<"view", ".">>, <<"styles.css", ".">>}

MCDocRoot ==
  {<<"index.html">>, <<"styles.css">>, <<"view", "index.html">>, <<"control", "index.html">>}

\* All parameters, or all but one, two or three.
MCParameters ==
  LET all == AllParameters
  IN  {all, all \ {"qop", "nc", "cnonce"}, all \ {"qop", "nc", "cnonce", "opaque"}}
        \cup {all \ {f} : f \in all} \cup {all \ {"qop", f} : f \in all}

MCImages == {"yard.png", "north.png", "south.png"}

MCGroupsIn ==
  [text \in MCTexts |-> IF text = "" THEN {}
                        ELSE IF text = "north;south" THEN {"north", "south"} ELSE {text}]

\* Nothing depends on a server that runs, so that what may happen meanwhile is
\* what may happen without it: once a file has been saved, it is stopped first.
MCStopsFirst == server # <<>> => server' = <<>> \/ \A p \in Paths : saved[p] = <<>>

\* The files that PagesComplete is about.
ASSUME MCFilesTidy == FilesTidy
=============================================================================
