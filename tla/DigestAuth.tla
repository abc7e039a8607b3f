----------------------------- MODULE DigestAuth -----------------------------
(***************************************************************************)
(* Digest authentication of the HTTP connections: http_listener keeps one  *)
(* nonce per remote address, shared by every connection from there, and    *)
(* every 401 replaces it.  Connections are served on strands of their own, *)
(* so a handler is two steps wherever it looks at the nonce a second time. *)
(*                                                                         *)
(* A nonce is random and never comes back: a number nobody holds any more. *)
(* The browsers are external: they send what the last challenge they have  *)
(* received asks for, as long as they are refused.                         *)
(***************************************************************************)
EXTENDS Integers, FiniteSets

CONSTANTS
  Conns,       \* what the browsers want, each over connections of its own
  BrowserOf,   \* the browser each of Conns belongs to
  AddressOf,   \* the remote address of each browser
  UserOf,      \* permissions of the user at each browser, by the auth-file
  PagesOf,     \* the pages each of Conns may ask for
  NonceCount   \* bound: nonces in use at one time

Browsers == {BrowserOf[c] : c \in Conns}
Addresses == {AddressOf[b] : b \in Browsers}
Nonces == 1 .. NonceCount
None == 0

\* Not in the auth-file (or the wrong password), and the AuthorizationTypes.
Users == {"Unknown", "Blocked", "View", "Control"}

ASSUME DigestAssumption ==
  /\ AddressOf \in [Browsers -> Addresses] /\ UserOf \in [Browsers -> Users]
  /\ PagesOf \in [Conns -> SUBSET {"view", "control"}]
  /\ IsFiniteSet(Conns) /\ NonceCount \in Nat
  /\ NonceCount > Cardinality(Addresses) + Cardinality(Browsers)
                     + 2 * Cardinality(Conns)

VARIABLES
  associated_nonces,  \* http_listener::associated_nonces
  conn,               \* the requests and their answers
  cache               \* the nonce each browser has been given last

vars == <<associated_nonces, conn, cache>>

AddressOfConn(c) == AddressOf[BrowserOf[c]]
UserOfConn(c) == UserOf[BrowserOf[c]]
Nonce(c) == associated_nonces[AddressOfConn(c)]

-----------------------------------------------------------------------------
\* generate_base64_str(NONCE_SIZE): not a nonce anybody holds.
Held ==
  {associated_nonces[a] : a \in Addresses} \cup {cache[b] : b \in Browsers}
    \cup {conn[c].nonce : c \in Conns} \cup {conn[c].challenge : c \in Conns}

\* Mutant: nonces are counted up and never used again.
GenerateNonce_Counts ==
  CHOOSE n \in Nonces \cup {NonceCount + 1} : \A m \in Held : n > m

GenerateNonce ==
  CHOOSE n \in Nonces \ Held : \A m \in Nonces \ Held : n <= m

\* Mutant: one nonce for all addresses.
ReplaceNonce_Everywhere(c) ==
  associated_nonces' = [a \in Addresses |-> GenerateNonce]

ReplaceNonce(c) ==
  associated_nonces' = [associated_nonces EXCEPT ![AddressOfConn(c)] = GenerateNonce]

\* check_password: the response was computed with the nonce of the header and is
\* compared with one computed with the server's.
CheckPassword(c) == conn[c].nonce # None /\ conn[c].nonce = Nonce(c)

\* get_auth.
GetAuth(c) == IF CheckPassword(c) THEN UserOfConn(c) ELSE "Unknown"

\* http_listener::on_accept.
OnAccept(c) ==
  /\ conn[c].step = "new"
  /\ IF Nonce(c) = None THEN ReplaceNonce(c) ELSE UNCHANGED associated_nonces
  /\ conn' = [conn EXCEPT ![c].step = "open"]
  /\ UNCHANGED cache

\* The browser asks for one of the pages, then for what it wanted before.  (An
\* upgrade without a header makes on_read throw: HttpSession has that.)
Send(c, want) ==
  /\ conn[c].step = "open"
  /\ conn[c].want = want \/ (conn[c].want = "a page" /\ want \in PagesOf[c])
  /\ conn' = [conn EXCEPT ![c].step = "arrived", ![c].want = want,
                          ![c].nonce = cache[BrowserOf[c]]]
  /\ UNCHANGED <<associated_nonces, cache>>

\* The header has been looked at for the last time.
Answer(c, answer) ==
  conn' = [conn EXCEPT ![c].step = "answered", ![c].answer = answer, ![c].nonce = None]

Refuse(c) == conn' = [conn EXCEPT ![c].step = "refused", ![c].nonce = None]

Allowed(user, want) == want \in {"view", "config"} \/ user = "Control"

\* handle_request up to the decision; no header is refused like a wrong one.
HandleRequest(c) ==
  /\ conn[c].step = "arrived"
  /\ conn[c].want # "upgrade"
  /\ IF GetAuth(c) = "Unknown" THEN Refuse(c)
     ELSE IF GetAuth(c) = "Blocked" \/ ~Allowed(GetAuth(c), conn[c].want)
     THEN Answer(c, "403")
     ELSE IF conn[c].want = "config"
     THEN conn' = [conn EXCEPT ![c].step = "serving"]
     ELSE Answer(c, "200")
  /\ UNCHANGED <<associated_nonces, cache>>

\* /config looks at the nonce again to choose the maps: a user no longer known
\* makes handle_request throw, which ends the session.
ServeConfig(c) ==
  /\ conn[c].step = "serving"
  /\ Answer(c, IF GetAuth(c) = "Unknown" THEN "dropped" ELSE "maps")
  /\ UNCHANGED <<associated_nonces, cache>>

\* on_read for an upgrade: the header's nonce is compared with the one in force.
OnUpgrade(c) ==
  /\ conn[c].step = "arrived"
  /\ conn[c].want = "upgrade"
  /\ IF conn[c].nonce = Nonce(c)
     THEN conn' = [conn EXCEPT ![c].step = "accepting"]
     ELSE Refuse(c)
  /\ UNCHANGED <<associated_nonces, cache>>

\* do_accept looks at the nonce again: a session that fails is dropped unanswered.
DoAccept(c) ==
  /\ conn[c].step = "accepting"
  /\ Answer(c, IF GetAuth(c) \in {"View", "Control"} THEN "websocket" ELSE "dropped")
  /\ UNCHANGED <<associated_nonces, cache>>

\* Mutants: the challenge is made before the nonce is replaced; the new nonce is
\* not stored.
UnauthorizedResponse_OldNonce(c) ==
  /\ conn[c].step = "refused"
  /\ ReplaceNonce(c)
  /\ conn' = [conn EXCEPT ![c].step = "answered", ![c].answer = "401",
                          ![c].challenge = Nonce(c),
                          ![c].refusals = IF @ < 2 THEN @ + 1 ELSE @]
  /\ UNCHANGED cache

UnauthorizedResponse_NotStored(c) ==
  /\ conn[c].step = "refused"
  /\ conn' = [conn EXCEPT ![c].step = "answered", ![c].answer = "401",
                          ![c].challenge = GenerateNonce,
                          ![c].refusals = IF @ < 2 THEN @ + 1 ELSE @]
  /\ UNCHANGED <<associated_nonces, cache>>

\* unauthorized_response: every refusal puts a new nonce in force.
UnauthorizedResponse(c) ==
  /\ conn[c].step = "refused"
  /\ ReplaceNonce(c)
  /\ conn' = [conn EXCEPT ![c].step = "answered", ![c].answer = "401",
                          ![c].challenge = GenerateNonce,
                          ![c].refusals = IF @ < 2 THEN @ + 1 ELSE @]
  /\ UNCHANGED cache

\* The browser takes the answer.  Refused, it tries again, on a new connection
\* after an upgrade, as on_read has stopped reading the one that was refused; a
\* page it has got asks for its maps, or for a websocket on another connection.
Receive(c) ==
  /\ conn[c].step = "answered"
  /\ \/ /\ conn[c].answer = "401"
        /\ cache' = [cache EXCEPT ![BrowserOf[c]] = conn[c].challenge]
        /\ conn' = [conn EXCEPT
             ![c].step = IF conn[c].want = "upgrade" THEN "new" ELSE "open",
             ![c].challenge = None]
     \/ /\ conn[c].answer = "200"
        /\ \/ conn' = [conn EXCEPT ![c].step = "open", ![c].want = "config"]
           \/ conn' = [conn EXCEPT ![c].step = "new", ![c].want = "upgrade"]
        /\ UNCHANGED cache
     \/ /\ conn[c].answer \in {"403", "maps", "websocket", "dropped"}
        /\ conn' = [conn EXCEPT ![c].step = "done"]
        /\ UNCHANGED cache
  /\ UNCHANGED associated_nonces

-----------------------------------------------------------------------------
Wants == {"view", "control", "config", "upgrade"}

Init ==
  /\ associated_nonces = [a \in Addresses |-> None]
  /\ conn = [c \in Conns |-> [step |-> "new", want |-> "a page", nonce |-> None,
                              challenge |-> None, answer |-> "none", refusals |-> 0]]
  /\ cache = [b \in Browsers |-> None]

Server(c) ==
  \/ OnAccept(c) \/ HandleRequest(c) \/ ServeConfig(c) \/ OnUpgrade(c)
  \/ DoAccept(c) \/ UnauthorizedResponse(c)

Browser(c) == (\E want \in Wants : Send(c, want)) \/ Receive(c)

Next == \E c \in Conns : Server(c) \/ Browser(c)

Spec == Init /\ [][Next]_vars

\* Strands take their turns on the pool, and browsers do not give up.
FairSpec == Spec /\ \A c \in Conns : WF_vars(Server(c)) /\ WF_vars(Browser(c))

-----------------------------------------------------------------------------
Steps ==
  {"new", "open", "arrived", "serving", "accepting", "refused", "answered", "done"}

Conn ==
  [step : Steps, want : Wants \cup {"a page"}, nonce : Nonces \cup {None},
   challenge : Nonces \cup {None}, refusals : 0 .. 2,
   answer : {"none", "200", "maps", "403", "401", "websocket", "dropped"}]

TypeOK ==
  /\ associated_nonces \in [Addresses -> Nonces \cup {None}]
  /\ conn \in [Conns -> Conn]
  /\ cache \in [Browsers -> Nonces \cup {None}]

\* Another connection from the address of c has been refused.
RivalRefused(c) ==
  \E d \in Conns \ {c} : AddressOfConn(d) = AddressOfConn(c) /\ conn[d].refusals > 0

\* A user of the auth-file is refused once, to learn the nonce, and never again,
\* whatever the other addresses do, unless another connection from the same
\* address is refused and so puts another nonce in force.
RefusedOnceUnlessRival ==
  \A c \in Conns :
    UserOfConn(c) # "Unknown" /\ conn[c].refusals > 1 => RivalRefused(c)

\* The same goes for the upgrade that do_accept drops without an answer, and for
\* the request for the maps that makes handle_request throw.
DroppedOnlyByRival ==
  \A c \in Conns :
    UserOfConn(c) \in {"View", "Control"} /\ conn[c].answer = "dropped"
    => RivalRefused(c)

\* A user of the auth-file who is alone at an address gets an answer that is not
\* a refusal, however long others at other addresses go on being refused.
AloneGetsIn ==
  \A c \in Conns :
    (\A d \in Conns \ {c} : AddressOfConn(d) # AddressOfConn(c))
      /\ UserOfConn(c) # "Unknown"
    => <>(conn[c].step = "done")
=============================================================================
