------------------------------ MODULE Routing -------------------------------
(***************************************************************************)
(* handle_request: which response a request gets by its method, target and *)
(* Authorization field.                                                    *)
(*                                                                         *)
(* A target is the sequence of its pieces between slashes, the leading     *)
(* slash left out: "/" is <<"">>, "/view/" is <<"view", "">>, and what     *)
(* does not begin with a slash is <<>>.  The code compares beginnings and  *)
(* ends of strings; the names it looks for are taken to be whole pieces.   *)
(* Queries and percent-encoding are left out.  The file system is POSIX's. *)
(***************************************************************************)
EXTENDS GcConfig, SequencesExt

CONSTANTS
  DocRoot,  \* the files below doc_root
  Images,   \* the map images that exist
  GroupsIn  \* what split_str makes of map groups

Rank == [Blocked |-> 0, View |-> 1, Control |-> 2]

\* endpoint_map; "/" and everything it does not name are open to all.
EndpointMap ==
  [config |-> "View", maps |-> "View", control |-> "Control", view |-> "View"]

Nothing == "nothing"

\* Mutant: what is below an endpoint is not looked up.
GetEndpointPermissions_Exact(target) ==
  IF Len(target) = 1 /\ target[1] \in DOMAIN EndpointMap
  THEN EndpointMap[target[1]] ELSE Nothing

\* get_endpoint_permissions takes pieces off the end until one is left.
GetEndpointPermissions(target) ==
  LET needed[p \in Prefixes(target)] ==
        IF p = <<>> THEN Nothing
        ELSE IF Len(p) > 1 THEN needed[Front(p)]
        ELSE IF p[1] \in DOMAIN EndpointMap THEN EndpointMap[p[1]] ELSE Nothing
  IN  needed[target]

IsTargetSingleLevel(target, name) ==
  /\ target[1] = name
  /\ Last(target) = name \/ (Last(target) = "" /\ Last(Front(target)) = name)

TargetStartsWithSegment(target, name) == target[1] = name

Illegal(request) ==
  \/ request.method \notin {"get", "head"}
  \/ request.target = <<>>
  \/ \E k \in DOMAIN request.target : request.target[k] = ".."

-----------------------------------------------------------------------------
\* auth: an Authorization field is <<>> or <<[username, fields, right]>>: the
\* parameters that are there and not empty (opaque only if it is the server's),
\* and whether the response is the hash of the password and the nonce in force.

Required == {"username", "response", "nonce", "realm", "uri"}

AllParameters == Required \cup {"nc", "cnonce", "opaque", "qop"}

\* digest_auth::is_valid
IsValid(header) ==
  /\ Required \subseteq header.fields
  /\ IF "qop" \in header.fields
     THEN {"cnonce", "nc"} \subseteq header.fields
     ELSE {"cnonce", "nc"} \cap header.fields = {}

\* No field, or one of another scheme, is <<>> to begin with.
ParseDigestAuthField(header) ==
  IF header # <<>> /\ IsValid(header[1]) THEN header ELSE <<>>

\* get_auth gets as far as check_password, and that past its early return.
Checked(table, header) ==
  /\ ParseDigestAuthField(header) # <<>>
  /\ header[1].username \in DOMAIN table
  /\ {"qop", "opaque"} \subseteq header[1].fields

\* nc.value() or cnonce.value() throws: the connection's thread would end.
CheckThrows(table, header) ==
  Checked(table, header) /\ ~({"cnonce", "nc"} \subseteq header[1].fields)

\* get_auth: the user, if there is one.
GetAuth(table, header) ==
  IF Checked(table, header) /\ header[1].right THEN {header[1].username} ELSE {}

-----------------------------------------------------------------------------
Unidentified(table, request) ==
  /\ GetEndpointPermissions(request.target) # Nothing
  /\ GetAuth(table, request.header) = {}

\* auth->permissions, of the user who has been identified.
PermissionsOf(table, request) == table[request.header[1].username].permissions

Forbidden(table, request) ==
  LET needed == GetEndpointPermissions(request.target)
  IN  needed # Nothing /\ Rank[PermissionsOf(table, request)] < Rank[needed]

Refusal(status) == [status |-> status, body |-> <<>>]

\* The body is left out for HEAD.
Success(request, body) ==
  [status |-> 200, body |-> IF request.method = "head" THEN <<>> ELSE body]

\* The path, below doc_root, for a target that is neither /config nor below /maps.
PathOf(target) ==
  IF Last(target) = "" THEN Append(Front(target), "index.html")
  ELSE IF target \in {<<"view">>, <<"control">>} THEN Append(target, "index.html")
  ELSE target

\* Pieces of a path that lead nowhere else.
Here == {"", "."}

\* The file, or directory, that the file system finds by a path.  (A SelectSeq,
\* as a function that can be proved about.)
Resolved(path) ==
  LET resolved[k \in 0 .. Len(path)] ==
        IF k = 0 THEN <<>>
        ELSE IF path[k] \in Here THEN resolved[k - 1]
        ELSE Append(resolved[k - 1], path[k])
  IN  resolved[Len(path)]

FileOf(target) == Resolved(PathOf(target))

\* The response is not sent: its body cannot be read, and the connection ends.
Unsent == [status |-> 0, body |-> <<>>]

ServeFile(request) ==
  LET path == PathOf(request.target)
      file == FileOf(request.target)
  IN  IF file \in DocRoot /\ Last(path) # "." THEN Success(request, file)
      ELSE IF \E p \in Prefixes(file) : p \in DocRoot
           THEN Refusal(500) \* a file is not a directory
      ELSE IF \E f \in DocRoot : file \in Prefixes(f)
           THEN IF request.method = "head" THEN Success(request, file)
                ELSE Unsent \* a directory can be opened, but not read
      ELSE Refusal(404)

\* What follows /maps in "/maps" and "/maps/".
NoId == {<<>>, <<"">>}

\* Below /maps: the image of the map with that id.  (An image that is there and
\* cannot be opened would be a 500: Images are those that can.)
ServeImage(maps, request) ==
  LET id == Tail(request.target)
  IN  IF /\ id \notin NoId
         /\ WithId(maps, id) # {}
         /\ GetMapById(maps, id).map_image_path \in Images
      THEN Success(request, GetMapById(maps, id).map_image_path)
      ELSE Refusal(404)

\* /config: the user is looked up once more (and is there, as the check and this
\* are one step here; DigestAuth has them apart).
ServeConfig(table, maps, request) ==
  LET user == table[request.header[1].username]
  IN  Success(request,
        GetMapsForClient(maps, user.permissions, GroupsIn[user.map_groups]))

HandleRequest(table, maps, request) ==
  IF Illegal(request) THEN Refusal(400)
  ELSE IF Unidentified(table, request) THEN Refusal(401)
  ELSE IF Forbidden(table, request) THEN Refusal(403)
  ELSE IF IsTargetSingleLevel(request.target, "config")
       THEN ServeConfig(table, maps, request)
  ELSE IF TargetStartsWithSegment(request.target, "maps") THEN ServeImage(maps, request)
  ELSE ServeFile(request)
=============================================================================
