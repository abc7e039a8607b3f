------------------------------- MODULE Access -------------------------------
(***************************************************************************)
(* What users may see: the configurator edits auth-files while a server is *)
(* started from them and from a config file, and answers requests.         *)
(*                                                                         *)
(* The server reads both files when it starts and never again; requests    *)
(* change nothing, so they are looked at where it starts.                  *)
(***************************************************************************)
EXTENDS Configurator, Routing

CONSTANTS
  Documents,  \* config files the server may be given, as a sequence
  Targets,    \* targets that somebody may ask for
  Parameters, \* which parameters an Authorization field may have
  Nobody      \* stands for clients that send no Authorization field

VARIABLES server  \* <<>>, or auth table and maps of a server that is running

accessVars == <<vars, server>>

\* JSON arrays and targets are sequences, and digest_auth has nine parameters.
ASSUME AccessAssumption ==
  /\ DOMAIN GroupsIn = Texts
  /\ \A k \in DOMAIN Documents : Documents[k].type = "array" =>
       Documents[k].value \in Seq(ToSet(Documents[k].value))
  /\ \A target \in Targets : target \in Seq(ToSet(target))
  /\ Parameters \subseteq SUBSET AllParameters
  /\ Nobody \notin Texts

-----------------------------------------------------------------------------
\* main, up to "Server started": both files can be read and the config is valid;
\* otherwise it returns.
StartServer(p, document) ==
  /\ server = <<>>
  /\ p \in exists
  /\ OpenFromFile(document) # <<>>
  /\ server' = <<[auth_table |-> Load(disk[p]), maps |-> OpenFromFile(document)[1]]>>
  /\ UNCHANGED vars

StopServer ==
  /\ server # <<>>
  /\ server' = <<>>
  /\ UNCHANGED vars

AccessInit == Init /\ server = <<>>

AccessNext ==
  \/ Next /\ UNCHANGED server
  \/ \E p \in Paths, k \in DOMAIN Documents : StartServer(p, Documents[k])
  \/ StopServer

AccessSpec == AccessInit /\ [][AccessNext]_accessVars

-----------------------------------------------------------------------------
Started == server = <<>> /\ server' # <<>>

\* What browsers send once the user has entered his password.
Browser(user) ==
  IF user = Nobody THEN <<>>
  ELSE <<[username |-> user, fields |-> AllParameters,
          right |-> TRUE]>>

\* What the server that has just started answers.
Answer(method, target, user) ==
  HandleRequest(server'[1].auth_table, server'[1].maps,
                [method |-> method, target |-> target, header |-> Browser(user)])

Get(target, user) == Answer("get", target, user)

Maps == {server'[1].maps[k] : k \in DOMAIN server'[1].maps}

\* The maps a user should find on his page: a viewer all of them, a controller
\* those that are of no group or of one of his.
Shown(user) ==
  {map \in Maps : user.permissions = "Control" /\ map.group.type = "string"
                  => map.group.value \in GroupsIn[user.map_groups]}

\* What was entered in the configurator is what the server goes by, across the
\* auth-file: users of the saved table who are let in find the maps that their
\* permissions and groups, as edited, say, and once the save was complete all
\* of them are known and nobody else.
StartedAsEdited ==
  [][\A p \in Paths :
       /\ Started /\ saved[p] # <<>>
       /\ \E k \in DOMAIN Documents : StartServer(p, Documents[k])
       =>
         LET table == saved[p][1]
             known == DOMAIN server'[1].auth_table
         IN  /\ known \subseteq DOMAIN table
             /\ complete[p] => known = DOMAIN table
             /\ \A login \in known :
                  LET answer == Get(<<"config">>, login)
                  IN  IF table[login].permissions = "Blocked" THEN answer.status = 403
                      ELSE {answer.body[k].id : k \in DOMAIN answer.body}
                             = {map.id : map \in Shown(table[login])}
    ]_accessVars

\* No two maps have the same id, none an id that is no target below /maps, and
\* all images exist.
Tidy(maps) ==
  \A j \in DOMAIN maps :
    /\ maps[j].id \in Seq(ToSet(maps[j].id)) \ NoId
    /\ \A n \in DOMAIN maps[j].id : maps[j].id[n] # ".."
    /\ maps[j].map_image_path \in Images
    /\ \A l \in DOMAIN maps : maps[j].id = maps[l].id => j = l

\* The styles are there, and the maps of every config that the server takes tidy.
FilesTidy ==
  /\ <<"styles.css">> \in DocRoot
  /\ \A k \in DOMAIN Documents :
       ValidateConfig(Documents[k]) => Tidy(Parse(Documents[k]))

\* A page never lacks what it asks for: whoever gets /view or /control also gets
\* its styles, /config, and the own image of every map listed there, and every
\* gate listed there has the place that the page needs to show it.
PagesComplete ==
  [][Started =>
       \A user \in DOMAIN server'[1].auth_table, page \in {"view", "control"} :
         Get(<<page>>, user).status = 200 =>
           LET listed == Get(<<"config">>, user).body
           IN  /\ Get(<<"styles.css">>, user).status = 200
               /\ Get(<<"config">>, user).status = 200
               /\ \A k \in DOMAIN listed :
                    /\ \E map \in Maps :
                         /\ ToClientJson(map) = listed[k]
                         /\ Get(<<"maps">> \o listed[k].id, user)
                              = [status |-> 200, body |-> map.map_image_path]
                    /\ \A g \in DOMAIN listed[k].gates :
                         {"x", "y", "id"} \subseteq DOMAIN listed[k].gates[g].value
    ]_accessVars

\* /config and the maps' images: what handle_request does not take from doc_root.
MapData(target) ==
  IsTargetSingleLevel(target, "config") \/ TargetStartsWithSegment(target, "maps")

\* Written without detours: no "." and no empty piece but at the end.
Plain(target) ==
  \A k \in DOMAIN target : target[k] \in Here => target[k] = "" /\ k = Len(target)

\* What the endpoints promise: maps and their images are for users with at least
\* View, however they are asked for; what a plain target finds in view and control
\* is for users with View and with Control.
MayHave(granted, target) ==
  /\ MapData(target) => granted \in {"View", "Control"}
  /\ ~MapData(target) /\ Plain(target) =>
       /\ FileOf(target)[1] = "view" => granted \in {"View", "Control"}
       /\ FileOf(target)[1] = "control" => granted = "Control"

\* Nobody gets what he may not have, whatever the method and however deep the
\* target.  (Files of control and view asked for by targets that are not plain are
\* not promised anything: get_endpoint_permissions goes by the text of a target,
\* the file system by where it leads.)  And no Authorization field, whatever it
\* lacks, makes the check of the password throw, or pass without what it goes by.
GrantedOrRefused ==
  [][Started =>
       /\ \A user \in DOMAIN server'[1].auth_table \cup {Nobody},
             target \in Targets \ {<<>>} :
            LET granted == IF user = Nobody THEN "none"
                           ELSE server'[1].auth_table[user].permissions
            IN  ~MayHave(granted, target) =>
                  \A method \in {"get", "head"} :
                    Answer(method, target, user).status # 200
       /\ \A user \in DOMAIN server'[1].auth_table, right \in BOOLEAN, fields \in Parameters :
            LET header == [username |-> user, fields |-> fields, right |-> right]
            IN  /\ ~CheckThrows(server'[1].auth_table, <<header>>)
                /\ GetAuth(server'[1].auth_table, <<header>>) # {} =>
                     right /\ fields = AllParameters
    ]_accessVars
=============================================================================
