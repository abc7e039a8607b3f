-------------------------- MODULE DigestAuthProofs ---------------------------
(***************************************************************************)
(* Proofs about DigestAuth, for any browsers, connections, addresses and   *)
(* users.                                                                  *)
(*                                                                         *)
(* The inductive invariant follows a user of the auth-file for as long as  *)
(* no other connection from his address has been refused: once challenged, *)
(* he and the server agree on the nonce from then on.                      *)
(***************************************************************************)
EXTENDS DigestAuth, FiniteSetTheorems, WellFoundedInduction, TLAPS

-----------------------------------------------------------------------------
\* The inductive invariant.

ChallengesCounted ==
  \A c \in Conns :
    conn[c].step = "answered" /\ conn[c].answer = "401" => conn[c].refusals > 0

\* The request w of a user whose browser keeps the nonce cached, before and
\* after he has been challenged; nonce is the one in force.
Unchallenged(w, cached) ==
  /\ w.step \in {"new", "open", "arrived", "refused"}
  /\ w.answer = "none" /\ w.want # "upgrade" /\ w.nonce = None /\ cached = None

Challenged(w, cached, nonce) ==
  /\ nonce # None
  /\ w.step # "refused"
  /\ IF w.step = "answered" /\ w.answer = "401"
     THEN w.challenge = nonce ELSE cached = nonce
  /\ w.step \in {"arrived", "serving", "accepting"} => w.nonce = nonce

Agreed(w, cached, nonce, user) ==
  \/ w.refusals = 0 /\ Unchallenged(w, cached)
  \/ /\ w.refusals = 1 /\ Challenged(w, cached, nonce)
     /\ user \in {"View", "Control"} => w.answer # "dropped"

\* A user of the auth-file who has no rival is refused once.
Settled(c) ==
  UserOfConn(c) # "Unknown" /\ ~RivalRefused(c) =>
    Agreed(conn[c], cache[BrowserOf[c]], Nonce(c), UserOfConn(c))

IInv == TypeOK /\ ChallengesCounted /\ \A c \in Conns : Settled(c)

-----------------------------------------------------------------------------
\* A fresh nonce.

LEMMA ImageBound ==
  ASSUME NEW S, IsFiniteSet(S), NEW T, NEW f \in [S -> T], T = {f[x] : x \in S}
  PROVE  IsFiniteSet(T) /\ Cardinality(T) <= Cardinality(S)
<1>1. f \in Surjection(S, T)
  BY DEF Surjection
<1> QED
  BY <1>1, FS_Surjection

LEMMA UnionBound ==
  ASSUME NEW S, IsFiniteSet(S), NEW m \in Nat, Cardinality(S) <= m,
         NEW T, IsFiniteSet(T), NEW n \in Nat, Cardinality(T) <= n
  PROVE  IsFiniteSet(S \cup T) /\ Cardinality(S \cup T) <= m + n
<1>1. /\ IsFiniteSet(S \cup T) /\ IsFiniteSet(S \cap T)
      /\ Cardinality(S \cup T) = Cardinality(S) + Cardinality(T) - Cardinality(S \cap T)
  BY FS_Union, FS_Intersection
<1>2. /\ Cardinality(S) \in Nat /\ Cardinality(T) \in Nat
      /\ Cardinality(S \cap T) \in Nat /\ Cardinality(S \cup T) \in Nat
  BY <1>1, FS_CardinalityType
<1> QED
  BY <1>1, <1>2

LEMMA SmallestMember ==
  ASSUME NEW S \in SUBSET Nat, S # {}
  PROVE  \E n \in S : \A m \in S : n <= m
<1>1. PICK n \in S : \A m \in S : <<m, n>> \notin OpToRel(<, Nat)
  BY NatLessThanWellFounded, WFMin
<1>2. \A m \in S : ~(m < n)
  BY <1>1 DEF OpToRel
<1> QED
  BY <1>2

LEMMA FewPlaces ==
  /\ IsFiniteSet(Conns) /\ IsFiniteSet(Browsers) /\ IsFiniteSet(Addresses)
  /\ Cardinality(Conns) \in Nat /\ Cardinality(Browsers) \in Nat
  /\ Cardinality(Addresses) \in Nat
<1>1. IsFiniteSet(Conns)
  BY DigestAssumption
<1>2. IsFiniteSet(Browsers)
  <2> DEFINE f == [c \in Conns |-> BrowserOf[c]]
  <2>1. f \in [Conns -> Browsers] /\ Browsers = {f[c] : c \in Conns}
    BY DEF Browsers
  <2> HIDE DEF f
  <2> QED
    BY <1>1, <2>1, ImageBound
<1>3. IsFiniteSet(Addresses)
  <2> DEFINE f == [b \in Browsers |-> AddressOf[b]]
  <2>1. f \in [Browsers -> Addresses] /\ Addresses = {f[b] : b \in Browsers}
    BY DEF Addresses
  <2> HIDE DEF f
  <2> QED
    BY <1>2, <2>1, ImageBound
<1> QED
  BY <1>1, <1>2, <1>3, FS_CardinalityType

\* The bound leaves a nonce that nobody holds.
LEMMA FreshNonce == GenerateNonce \in Nonces \ Held
<1> DEFINE inForce == {associated_nonces[a] : a \in Addresses}
           cached == {cache[b] : b \in Browsers}
           sent == {conn[c].nonce : c \in Conns}
           given == {conn[c].challenge : c \in Conns}
<1>1. IsFiniteSet(inForce) /\ Cardinality(inForce) <= Cardinality(Addresses)
  <2> DEFINE f == [a \in Addresses |-> associated_nonces[a]]
  <2>1. f \in [Addresses -> inForce] /\ inForce = {f[a] : a \in Addresses}
    OBVIOUS
  <2> HIDE DEF f, inForce
  <2> QED
    BY <2>1, FewPlaces, ImageBound
<1>2. IsFiniteSet(cached) /\ Cardinality(cached) <= Cardinality(Browsers)
  <2> DEFINE f == [b \in Browsers |-> cache[b]]
  <2>1. f \in [Browsers -> cached] /\ cached = {f[b] : b \in Browsers}
    OBVIOUS
  <2> HIDE DEF f, cached
  <2> QED
    BY <2>1, FewPlaces, ImageBound
<1>3. IsFiniteSet(sent) /\ Cardinality(sent) <= Cardinality(Conns)
  <2> DEFINE f == [c \in Conns |-> conn[c].nonce]
  <2>1. f \in [Conns -> sent] /\ sent = {f[c] : c \in Conns}
    OBVIOUS
  <2> HIDE DEF f, sent
  <2> QED
    BY <2>1, FewPlaces, ImageBound
<1>4. IsFiniteSet(given) /\ Cardinality(given) <= Cardinality(Conns)
  <2> DEFINE f == [c \in Conns |-> conn[c].challenge]
  <2>1. f \in [Conns -> given] /\ given = {f[c] : c \in Conns}
    OBVIOUS
  <2> HIDE DEF f, given
  <2> QED
    BY <2>1, FewPlaces, ImageBound
<1>5. Held = ((inForce \cup cached) \cup sent) \cup given
  BY DEF Held
<1> HIDE DEF inForce, cached, sent, given
<1> DEFINE bound == Cardinality(Addresses) + Cardinality(Browsers)
                      + Cardinality(Conns) + Cardinality(Conns)
<1>6. IsFiniteSet(Held) /\ Cardinality(Held) <= bound
  <2>1. /\ IsFiniteSet(inForce \cup cached)
        /\ Cardinality(inForce \cup cached) <= Cardinality(Addresses) + Cardinality(Browsers)
    BY <1>1, <1>2, FewPlaces, UnionBound
  <2>2. /\ IsFiniteSet((inForce \cup cached) \cup sent)
        /\ Cardinality((inForce \cup cached) \cup sent)
             <= Cardinality(Addresses) + Cardinality(Browsers) + Cardinality(Conns)
    <3>1. Cardinality(Addresses) + Cardinality(Browsers) \in Nat
      BY FewPlaces
    <3> QED
      BY <1>3, <2>1, <3>1, FewPlaces, UnionBound
  <2>3. Cardinality(Addresses) + Cardinality(Browsers) + Cardinality(Conns) \in Nat
    BY FewPlaces
  <2> QED
    BY <1>4, <1>5, <2>2, <2>3, FewPlaces, UnionBound
<1>7. Cardinality(Nonces) > bound /\ IsFiniteSet(Nonces)
  <2>1. NonceCount \in Nat /\ NonceCount > bound /\ bound \in Nat
    BY DigestAssumption, FewPlaces
  <2>2. IsFiniteSet(1 .. NonceCount) /\ Cardinality(1 .. NonceCount) = NonceCount
    BY <2>1, FS_Interval
  <2> QED
    BY <2>1, <2>2 DEF Nonces
<1>8. Nonces \ Held # {}
  <2> SUFFICES ASSUME Nonces \subseteq Held
               PROVE  FALSE
    OBVIOUS
  <2>1. Cardinality(Nonces) <= Cardinality(Held)
    BY <1>6, FS_Subset
  <2>2. Cardinality(Nonces) \in Nat /\ Cardinality(Held) \in Nat /\ bound \in Nat
    BY <1>6, <1>7, FewPlaces, FS_CardinalityType
  <2> QED
    BY <1>6, <1>7, <2>1, <2>2
<1>9. \E n \in Nonces \ Held : \A m \in Nonces \ Held : n <= m
  <2>1. Nonces \ Held \in SUBSET Nat
    BY DEF Nonces
  <2> QED
    BY <1>8, <2>1, SmallestMember
<1> QED
  BY <1>9 DEF GenerateNonce

-----------------------------------------------------------------------------
\* Steps of one connection c, which becomes w.

\* Nobody else at the address is disturbed but by a nonce that c has been given,
\* or that is the first there.
LEMMA StepIInv ==
  ASSUME IInv, NEW c \in Conns, NEW w \in Conn,
         conn' = [conn EXCEPT ![c] = w],
         w.refusals >= conn[c].refusals,
         w.step = "answered" /\ w.answer = "401" => w.refusals > 0,
         \/ associated_nonces' = associated_nonces
         \/ /\ associated_nonces' = [associated_nonces EXCEPT
                                       ![AddressOfConn(c)] = GenerateNonce]
            /\ Nonce(c) = None \/ w.refusals > 0,
         \/ cache' = cache
         \/ /\ cache' = [cache EXCEPT ![BrowserOf[c]] = conn[c].challenge]
            /\ w.refusals > 0,
         UserOfConn(c) # "Unknown" /\ ~RivalRefused(c) =>
           Agreed(w, cache'[BrowserOf[c]], Nonce(c)', UserOfConn(c))
  PROVE  IInv'
<1>1. /\ conn \in [Conns -> Conn] /\ conn' \in [Conns -> Conn]
      /\ \A d \in Conns : conn'[d] = IF d = c THEN w ELSE conn[d]
      /\ \A d \in Conns : conn[d].refusals \in 0 .. 2
  BY DEF IInv, TypeOK, Conn
<1>2. \A d \in Conns : BrowserOf[d] \in Browsers /\ AddressOfConn(d) \in Addresses
  BY DEF Browsers, Addresses, AddressOfConn
<1>3. /\ associated_nonces \in [Addresses -> Nonces \cup {None}]
      /\ cache \in [Browsers -> Nonces \cup {None}]
      /\ conn[c].challenge \in Nonces \cup {None}
  BY DEF IInv, TypeOK, Conn
<1>4. TypeOK'
  BY <1>1, <1>2, <1>3, FreshNonce DEF TypeOK
<1>5. ChallengesCounted'
  BY <1>1 DEF IInv, ChallengesCounted
<1>6. w.refusals \in 0 .. 2
  BY DEF Conn
<1>7. ASSUME NEW d \in Conns, RivalRefused(d)
      PROVE  RivalRefused(d)'
  BY <1>1, <1>6, <1>7 DEF RivalRefused, AddressOfConn
<1>8. Settled(c)'
  BY <1>1, <1>7 DEF Settled, UserOfConn
<1>9. ASSUME NEW d \in Conns \ {c}, UserOfConn(d) # "Unknown", ~RivalRefused(d)'
      PROVE  Agreed(conn[d], cache'[BrowserOf[d]], Nonce(d)', UserOfConn(d))
  <2>1. Agreed(conn[d], cache[BrowserOf[d]], Nonce(d), UserOfConn(d))
    BY <1>7, <1>9 DEF IInv, Settled
  <2>2. CASE AddressOfConn(d) # AddressOfConn(c)
    <3>1. BrowserOf[d] # BrowserOf[c]
      BY <2>2 DEF AddressOfConn
    <3>2. Nonce(d)' = Nonce(d) /\ cache'[BrowserOf[d]] = cache[BrowserOf[d]]
      BY <1>2, <1>3, <2>2, <3>1 DEF Nonce, AddressOfConn
    <3> QED
      BY <2>1, <3>2
  <2>3. CASE AddressOfConn(d) = AddressOfConn(c)
    <3>1. w.refusals = 0
      BY <1>1, <1>6, <1>9, <2>3 DEF RivalRefused, AddressOfConn
    <3>2. cache' = cache
      BY <3>1
    <3>3. CASE associated_nonces' = associated_nonces
      BY <2>1, <3>2, <3>3 DEF Nonce, AddressOfConn
    <3>4. CASE Nonce(c) = None
      <4>1. Nonce(d) = None
        BY <2>3, <3>4 DEF Nonce
      <4>2. conn[d].refusals = 0 /\ Unchallenged(conn[d], cache[BrowserOf[d]])
        BY <2>1, <4>1 DEF Agreed, Challenged
      <4> QED
        BY <3>2, <4>2 DEF Agreed
    <3> QED
      BY <3>1, <3>3, <3>4
  <2> QED
    BY <2>2, <2>3
<1>10. \A d \in Conns : Settled(d)'
  BY <1>1, <1>8, <1>9 DEF Settled, UserOfConn
<1> QED
  BY <1>4, <1>5, <1>10 DEF IInv

-----------------------------------------------------------------------------
\* The steps one by one.  Each says what becomes of the request, and that the
\* user and the server go on to agree.

\* What the invariant says of the connection that takes a step.
LEMMA Before ==
  ASSUME IInv, NEW c \in Conns
  PROVE  /\ conn[c] \in Conn /\ conn[c].refusals \in 0 .. 2
         /\ conn[c].step = "answered" /\ conn[c].answer = "401" => conn[c].refusals > 0
         /\ UserOfConn(c) # "Unknown" /\ ~RivalRefused(c) =>
              Agreed(conn[c], cache[BrowserOf[c]], Nonce(c), UserOfConn(c))
         /\ UserOfConn(c) \in Users
         /\ BrowserOf[c] \in Browsers /\ AddressOfConn(c) \in Addresses
         /\ cache[BrowserOf[c]] \in Nonces \cup {None}
         /\ associated_nonces \in [Addresses -> Nonces \cup {None}]
<1>1. BrowserOf[c] \in Browsers /\ AddressOfConn(c) \in Addresses
  BY DEF Browsers, Addresses, AddressOfConn
<1>2. UserOfConn(c) \in Users
  BY <1>1, DigestAssumption DEF UserOfConn
<1> QED
  BY <1>1, <1>2 DEF IInv, TypeOK, ChallengesCounted, Settled, Conn

LEMMA OnAcceptStep ==
  ASSUME IInv, NEW c \in Conns, OnAccept(c)
  PROVE  IInv'
<1> DEFINE v == conn[c]
           w == [v EXCEPT !.step = "open"]
<1>1. /\ v \in Conn /\ v.refusals \in 0 .. 2 /\ v.step = "new"
      /\ UserOfConn(c) # "Unknown" /\ ~RivalRefused(c) =>
           Agreed(v, cache[BrowserOf[c]], Nonce(c), UserOfConn(c))
  BY Before DEF OnAccept
<1>2. conn' = [conn EXCEPT ![c] = w] /\ cache' = cache
  BY DEF OnAccept
<1>3. /\ w \in Conn /\ w.step = "open"
      /\ w.refusals = v.refusals /\ w.nonce = v.nonce /\ w.want = v.want
      /\ w.answer = v.answer /\ w.challenge = v.challenge
  BY <1>1 DEF Conn, Steps
<1>4. \/ associated_nonces' = associated_nonces
      \/ /\ associated_nonces' = [associated_nonces EXCEPT
                                    ![AddressOfConn(c)] = GenerateNonce]
         /\ Nonce(c) = None
  BY DEF OnAccept, ReplaceNonce
<1> HIDE DEF w
<1>5. ASSUME Agreed(v, cache[BrowserOf[c]], Nonce(c), UserOfConn(c))
      PROVE  Agreed(w, cache[BrowserOf[c]], Nonce(c)', UserOfConn(c))
  <2>1. CASE Nonce(c) = None
    BY <1>1, <1>3, <1>5, <2>1 DEF Agreed, Unchallenged, Challenged
  <2>2. CASE Nonce(c) # None
    <3>1. Nonce(c)' = Nonce(c)
      BY <1>4, <2>2 DEF Nonce
    <3> QED
      BY <1>1, <1>3, <1>5, <3>1 DEF Agreed, Unchallenged, Challenged
  <2> QED
    BY <2>1, <2>2
<1>6. /\ w.refusals >= v.refusals
      /\ w.step = "answered" /\ w.answer = "401" => w.refusals > 0
  BY <1>1, <1>3
<1>7. UserOfConn(c) # "Unknown" /\ ~RivalRefused(c) =>
        Agreed(w, cache'[BrowserOf[c]], Nonce(c)', UserOfConn(c))
  BY <1>1, <1>2, <1>5
<1> QED
  BY <1>2, <1>3, <1>4, <1>6, <1>7, StepIInv

LEMMA SendStep ==
  ASSUME IInv, NEW c \in Conns, NEW want \in Wants, Send(c, want)
  PROVE  IInv'
<1> DEFINE v == conn[c]
           w == [v EXCEPT !.step = "arrived", !.want = want, !.nonce = cache[BrowserOf[c]]]
<1>1. /\ v \in Conn /\ v.refusals \in 0 .. 2 /\ v.step = "open"
      /\ UserOfConn(c) # "Unknown" /\ ~RivalRefused(c) =>
           Agreed(v, cache[BrowserOf[c]], Nonce(c), UserOfConn(c))
      /\ cache[BrowserOf[c]] \in Nonces \cup {None}
  BY Before DEF Send
<1>2. /\ conn' = [conn EXCEPT ![c] = w]
      /\ cache' = cache /\ associated_nonces' = associated_nonces
  BY DEF Send
<1>3. /\ w \in Conn /\ w.step = "arrived" /\ w.nonce = cache[BrowserOf[c]]
      /\ w.refusals = v.refusals /\ w.answer = v.answer /\ w.want = want
  BY <1>1 DEF Conn, Steps
<1>4. want # "upgrade" \/ v.want = "upgrade"
  <2>1. PagesOf[c] \subseteq {"view", "control"}
    BY DigestAssumption
  <2> QED
    BY <2>1 DEF Send
<1> HIDE DEF w
<1>5. ASSUME Agreed(v, cache[BrowserOf[c]], Nonce(c), UserOfConn(c))
      PROVE  Agreed(w, cache[BrowserOf[c]], Nonce(c)', UserOfConn(c))
  <2>1. Nonce(c)' = Nonce(c)
    BY <1>2 DEF Nonce
  <2> QED
    BY <1>1, <1>3, <1>4, <1>5, <2>1 DEF Agreed, Unchallenged, Challenged
<1>6. /\ w.refusals >= v.refusals
      /\ w.step = "answered" /\ w.answer = "401" => w.refusals > 0
  BY <1>1, <1>3
<1>7. UserOfConn(c) # "Unknown" /\ ~RivalRefused(c) =>
        Agreed(w, cache'[BrowserOf[c]], Nonce(c)', UserOfConn(c))
  BY <1>1, <1>2, <1>5
<1> QED
  BY <1>2, <1>3, <1>4, <1>6, <1>7, StepIInv

\* A handler that answers, refuses or passes the request on, by the nonce of its
\* header and the one in force.
LEMMA DecisionStep ==
  ASSUME IInv, NEW c \in Conns,
         NEW step \in {"serving", "accepting", "refused", "answered"},
         NEW answer \in {"none", "200", "maps", "403", "401", "websocket", "dropped"},
         NEW nonce \in {None, conn[c].nonce},
         conn' = [conn EXCEPT ![c] = [conn[c] EXCEPT !.step = step, !.answer = answer,
                                                     !.nonce = nonce]],
         UNCHANGED <<associated_nonces, cache>>,
         conn[c].step \in {"arrived", "serving", "accepting"},
         answer # "401" \/ step # "answered",
         step \in {"serving", "accepting"} => nonce = conn[c].nonce,
         CheckPassword(c) /\ UserOfConn(c) # "Unknown" =>
           /\ step # "refused"
           /\ answer = "dropped" => UserOfConn(c) = "Blocked" \/ answer = conn[c].answer,
         conn[c].nonce = None /\ conn[c].want # "upgrade" /\ conn[c].step = "arrived" =>
           step = "refused" /\ answer = conn[c].answer /\ nonce = None
  PROVE  IInv'
<1> DEFINE v == conn[c]
           w == [v EXCEPT !.step = step, !.answer = answer, !.nonce = nonce]
<1>1. /\ v \in Conn /\ v.refusals \in 0 .. 2
      /\ UserOfConn(c) # "Unknown" /\ ~RivalRefused(c) =>
           Agreed(v, cache[BrowserOf[c]], Nonce(c), UserOfConn(c))
  BY Before
<1>2. /\ w \in Conn /\ w.step = step /\ w.nonce = nonce /\ w.answer = answer
      /\ w.refusals = v.refusals /\ w.want = v.want /\ w.challenge = v.challenge
  BY <1>1 DEF Conn, Steps
<1>3. /\ conn' = [conn EXCEPT ![c] = w]
      /\ cache' = cache /\ associated_nonces' = associated_nonces
  OBVIOUS
<1> HIDE DEF w
<1>4. ASSUME UserOfConn(c) # "Unknown",
             Agreed(v, cache[BrowserOf[c]], Nonce(c), UserOfConn(c))
      PROVE  Agreed(w, cache[BrowserOf[c]], Nonce(c)', UserOfConn(c))
  <2>1. Nonce(c)' = Nonce(c)
    BY <1>3 DEF Nonce
  <2>2. CASE v.refusals = 0 /\ Unchallenged(v, cache[BrowserOf[c]])
    BY <1>2, <2>1, <2>2 DEF Agreed, Unchallenged
  <2>3. CASE ~(v.refusals = 0 /\ Unchallenged(v, cache[BrowserOf[c]]))
    <3>1. /\ v.refusals = 1 /\ Challenged(v, cache[BrowserOf[c]], Nonce(c))
          /\ UserOfConn(c) \in {"View", "Control"} => v.answer # "dropped"
      BY <1>4, <2>3 DEF Agreed
    <3>2. v.nonce = Nonce(c) /\ cache[BrowserOf[c]] = Nonce(c) /\ Nonce(c) # None
      BY <3>1 DEF Challenged
    <3>3. CheckPassword(c)
      BY <3>2 DEF CheckPassword
    <3>4. Challenged(w, cache[BrowserOf[c]], Nonce(c))
      BY <1>2, <1>4, <3>2, <3>3 DEF Challenged
    <3>5. UserOfConn(c) \in {"View", "Control"} => w.answer # "dropped"
      BY <1>2, <1>4, <3>1, <3>3
    <3> QED
      BY <1>2, <2>1, <3>1, <3>4, <3>5 DEF Agreed
  <2> QED
    BY <2>2, <2>3
<1>5. /\ w.refusals >= v.refusals
      /\ w.step = "answered" /\ w.answer = "401" => w.refusals > 0
  BY <1>1, <1>2
<1>6. UserOfConn(c) # "Unknown" /\ ~RivalRefused(c) =>
        Agreed(w, cache'[BrowserOf[c]], Nonce(c)', UserOfConn(c))
  BY <1>1, <1>3, <1>4
<1> QED
  BY <1>2, <1>3, <1>4, <1>5, <1>6, StepIInv

LEMMA HandleRequestStep ==
  ASSUME IInv, NEW c \in Conns, HandleRequest(c)
  PROVE  IInv'
<1> DEFINE v == conn[c]
<1>1. /\ v \in Conn /\ v.step = "arrived" /\ v.want # "upgrade"
      /\ UserOfConn(c) \in Users
      /\ UNCHANGED <<associated_nonces, cache>>
  BY Before DEF HandleRequest
<1>2. v = [v EXCEPT !.answer = v.answer, !.nonce = v.nonce]
  BY <1>1 DEF Conn
<1>3. CASE GetAuth(c) = "Unknown"
  <2>1. conn' = [conn EXCEPT ![c] = [v EXCEPT !.step = "refused", !.answer = v.answer,
                                              !.nonce = None]]
    <3>1. conn' = [conn EXCEPT ![c] = [v EXCEPT !.step = "refused", !.nonce = None]]
      BY <1>3 DEF HandleRequest, Refuse
    <3>2. [v EXCEPT !.step = "refused", !.nonce = None]
            = [v EXCEPT !.step = "refused", !.answer = v.answer, !.nonce = None]
      BY <1>1 DEF Conn
    <3> QED
      BY <3>1, <3>2
  <2>2. ~(CheckPassword(c) /\ UserOfConn(c) # "Unknown")
    BY <1>3 DEF GetAuth
  <2>3. v.answer \in {"none", "200", "maps", "403", "401", "websocket", "dropped"}
    BY <1>1 DEF Conn
  <2> QED
    BY <1>1, <2>1, <2>2, <2>3, DecisionStep
<1>4. CASE GetAuth(c) # "Unknown"
  <2>1. CheckPassword(c) /\ v.nonce # None
    BY <1>4 DEF GetAuth, CheckPassword
  <2>2. v.answer \in {"none", "200", "maps", "403", "401", "websocket", "dropped"}
    BY <1>1 DEF Conn
  <2>3. \/ \E answer \in {"403", "200"} : Answer(c, answer)
        \/ conn' = [conn EXCEPT ![c].step = "serving"]
    BY <1>4 DEF HandleRequest
  <2>4. CASE conn' = [conn EXCEPT ![c].step = "serving"]
    <3>1. conn' = [conn EXCEPT ![c] = [v EXCEPT !.step = "serving"]]
      BY <2>4
    <3>2. [v EXCEPT !.step = "serving"]
            = [v EXCEPT !.step = "serving", !.answer = v.answer, !.nonce = v.nonce]
      BY <1>1 DEF Conn
    <3>3. conn' = [conn EXCEPT ![c] = [v EXCEPT !.step = "serving", !.answer = v.answer,
                                                !.nonce = v.nonce]]
      BY <3>1, <3>2
    <3> QED
      BY <1>1, <2>1, <2>2, <3>3, DecisionStep
  <2>5. ASSUME NEW answer \in {"403", "200"}, Answer(c, answer)
        PROVE  IInv'
    <3>1. conn' = [conn EXCEPT ![c] = [v EXCEPT !.step = "answered", !.answer = answer,
                                                !.nonce = None]]
      BY <2>5 DEF Answer
    <3> QED
      BY <1>1, <2>1, <3>1, DecisionStep
  <2> QED
    BY <2>3, <2>4, <2>5
<1> QED
  BY <1>3, <1>4

\* /config, and do_accept, look at the nonce a second time.
LEMMA SecondLookStep ==
  ASSUME IInv, NEW c \in Conns, ServeConfig(c) \/ DoAccept(c)
  PROVE  IInv'
<1> DEFINE v == conn[c]
           answer == IF ServeConfig(c)
                     THEN IF GetAuth(c) = "Unknown" THEN "dropped" ELSE "maps"
                     ELSE IF GetAuth(c) \in {"View", "Control"} THEN "websocket"
                                                               ELSE "dropped"
<1>1. /\ conn' = [conn EXCEPT ![c] = [v EXCEPT !.step = "answered", !.answer = answer,
                                               !.nonce = None]]
      /\ v.step \in {"serving", "accepting"}
      /\ UNCHANGED <<associated_nonces, cache>>
  BY DEF ServeConfig, DoAccept, Answer
<1>2. ASSUME CheckPassword(c), UserOfConn(c) # "Unknown", answer = "dropped"
      PROVE  UserOfConn(c) = "Blocked"
  BY <1>2, Before DEF GetAuth, Users
<1>3. answer \in {"websocket", "maps", "dropped"}
  OBVIOUS
<1> HIDE DEF answer
<1> QED
  BY <1>1, <1>2, <1>3, DecisionStep

LEMMA OnUpgradeStep ==
  ASSUME IInv, NEW c \in Conns, OnUpgrade(c)
  PROVE  IInv'
<1> DEFINE v == conn[c]
           step == IF v.nonce = Nonce(c) THEN "accepting" ELSE "refused"
           nonce == IF v.nonce = Nonce(c) THEN v.nonce ELSE None
<1>1. /\ v \in Conn /\ v.step = "arrived" /\ v.want = "upgrade"
      /\ UNCHANGED <<associated_nonces, cache>>
  BY Before DEF OnUpgrade
<1>2. conn' = [conn EXCEPT ![c] = [v EXCEPT !.step = step, !.answer = v.answer,
                                            !.nonce = nonce]]
  <2>1. \/ v.nonce = Nonce(c) /\ conn' = [conn EXCEPT ![c] = [v EXCEPT !.step = "accepting"]]
        \/ /\ v.nonce # Nonce(c)
           /\ conn' = [conn EXCEPT ![c] = [v EXCEPT !.step = "refused", !.nonce = None]]
    BY DEF OnUpgrade, Refuse
  <2>2. /\ [v EXCEPT !.step = "accepting"]
             = [v EXCEPT !.step = "accepting", !.answer = v.answer, !.nonce = v.nonce]
        /\ [v EXCEPT !.step = "refused", !.nonce = None]
             = [v EXCEPT !.step = "refused", !.answer = v.answer, !.nonce = None]
    BY <1>1 DEF Conn
  <2> QED
    BY <2>1, <2>2
<1>3. CheckPassword(c) => step # "refused"
  BY DEF CheckPassword
<1>4. v.answer \in {"none", "200", "maps", "403", "401", "websocket", "dropped"}
  BY <1>1 DEF Conn
<1>5. /\ step \in {"accepting", "refused"} /\ nonce \in {None, v.nonce}
      /\ step = "accepting" => nonce = v.nonce
  OBVIOUS
<1> HIDE DEF step, nonce
<1> QED
  BY <1>1, <1>2, <1>3, <1>4, <1>5, DecisionStep

LEMMA UnauthorizedResponseStep ==
  ASSUME IInv, NEW c \in Conns, UnauthorizedResponse(c)
  PROVE  IInv'
<1> DEFINE v == conn[c]
           n == GenerateNonce
           refusals == IF v.refusals < 2 THEN v.refusals + 1 ELSE v.refusals
           w == [v EXCEPT !.step = "answered", !.answer = "401", !.challenge = n,
                          !.refusals = refusals]
<1>1. /\ v \in Conn /\ v.refusals \in 0 .. 2 /\ v.step = "refused"
      /\ UserOfConn(c) # "Unknown" /\ ~RivalRefused(c) =>
           Agreed(v, cache[BrowserOf[c]], Nonce(c), UserOfConn(c))
      /\ AddressOfConn(c) \in Addresses
      /\ associated_nonces \in [Addresses -> Nonces \cup {None}]
  BY Before DEF UnauthorizedResponse
<1>2. /\ conn' = [conn EXCEPT ![c] = w] /\ cache' = cache
      /\ associated_nonces' = [associated_nonces EXCEPT ![AddressOfConn(c)] = n]
  BY DEF UnauthorizedResponse, ReplaceNonce
<1>3. n \in Nonces /\ n # None
  BY FreshNonce DEF Nonces, None
<1> HIDE DEF n
<1>4. refusals \in 0 .. 2 /\ refusals > 0 /\ refusals >= v.refusals /\ (v.refusals = 0 => refusals = 1)
  BY <1>1
<1> HIDE DEF refusals
<1>5. /\ w \in Conn /\ w.step = "answered" /\ w.answer = "401" /\ w.challenge = n
      /\ w.refusals = refusals
  <2>1. n \in Nonces \cup {None}
    BY <1>3
  <2> QED
    BY <1>1, <1>4, <2>1 DEF Conn, Steps
<1> HIDE DEF w
<1>6. Nonce(c)' = n
  BY <1>1, <1>2 DEF Nonce
<1>7. ASSUME Agreed(v, cache[BrowserOf[c]], Nonce(c), UserOfConn(c))
      PROVE  Agreed(w, cache'[BrowserOf[c]], Nonce(c)', UserOfConn(c))
  BY <1>1, <1>2, <1>3, <1>4, <1>5, <1>6, <1>7 DEF Agreed, Challenged
<1>8. /\ w.refusals >= v.refusals
      /\ w.refusals > 0
  BY <1>4, <1>5
<1>9. UserOfConn(c) # "Unknown" /\ ~RivalRefused(c) =>
        Agreed(w, cache'[BrowserOf[c]], Nonce(c)', UserOfConn(c))
  BY <1>1, <1>7
<1> QED
  BY <1>2, <1>5, <1>8, <1>9, StepIInv DEF n

LEMMA ReceiveStep ==
  ASSUME IInv, NEW c \in Conns, Receive(c)
  PROVE  IInv'
<1> DEFINE v == conn[c]
<1>1. /\ v \in Conn /\ v.refusals \in 0 .. 2 /\ v.step = "answered"
      /\ v.answer = "401" => v.refusals > 0
      /\ UserOfConn(c) # "Unknown" /\ ~RivalRefused(c) =>
           Agreed(v, cache[BrowserOf[c]], Nonce(c), UserOfConn(c))
      /\ BrowserOf[c] \in Browsers
  BY Before DEF Receive
<1>2. Nonce(c)' = Nonce(c) /\ associated_nonces' = associated_nonces
  BY DEF Receive, Nonce
<1>3. CASE v.answer = "401"
  <2> DEFINE w == [v EXCEPT !.step = IF v.want = "upgrade" THEN "new" ELSE "open",
                            !.challenge = None]
  <2>1. /\ conn' = [conn EXCEPT ![c] = w]
        /\ cache' = [cache EXCEPT ![BrowserOf[c]] = v.challenge]
    BY <1>3 DEF Receive
  <2>2. /\ w \in Conn /\ w.step \in {"new", "open"} /\ w.refusals = v.refusals
        /\ w.answer = v.answer
    BY <1>1 DEF Conn, Steps
  <2> HIDE DEF w
  <2>3. cache'[BrowserOf[c]] = v.challenge
    BY <1>1, <2>1 DEF IInv, TypeOK
  <2>4. ASSUME Agreed(v, cache[BrowserOf[c]], Nonce(c), UserOfConn(c))
        PROVE  Agreed(w, cache'[BrowserOf[c]], Nonce(c)', UserOfConn(c))
    BY <1>1, <1>2, <1>3, <2>2, <2>3, <2>4 DEF Agreed, Unchallenged, Challenged
  <2>5. UserOfConn(c) # "Unknown" /\ ~RivalRefused(c) =>
          Agreed(w, cache'[BrowserOf[c]], Nonce(c)', UserOfConn(c))
    BY <1>1, <2>4
  <2>6. w.refusals >= v.refusals /\ w.refusals > 0
    BY <1>1, <1>3, <2>2
  <2> QED
    BY <1>2, <2>1, <2>2, <2>5, <2>6, StepIInv
<1>4. CASE v.answer # "401"
  <2>1. PICK step \in {"open", "new", "done"}, want \in {"config", "upgrade", v.want} :
          /\ conn' = [conn EXCEPT ![c] = [v EXCEPT !.step = step, !.want = want]]
          /\ cache' = cache
    <3>1. v = [v EXCEPT !.want = v.want]
      BY <1>1 DEF Conn
    <3>2. [v EXCEPT !.step = "done"] = [v EXCEPT !.step = "done", !.want = v.want]
      BY <1>1 DEF Conn
    <3>3. /\ cache' = cache
          /\ \/ conn' = [conn EXCEPT ![c] = [v EXCEPT !.step = "open", !.want = "config"]]
             \/ conn' = [conn EXCEPT ![c] = [v EXCEPT !.step = "new", !.want = "upgrade"]]
             \/ conn' = [conn EXCEPT ![c] = [v EXCEPT !.step = "done"]]
      BY <1>4 DEF Receive
    <3> QED
      BY <3>2, <3>3
  <2> DEFINE w == [v EXCEPT !.step = step, !.want = want]
  <2>2. /\ w \in Conn /\ w.step = step /\ w.refusals = v.refusals
        /\ w.answer = v.answer
    BY <1>1 DEF Conn, Steps, Wants
  <2>3. conn' = [conn EXCEPT ![c] = w]
    BY <2>1
  <2> HIDE DEF w
  <2>4. ASSUME Agreed(v, cache[BrowserOf[c]], Nonce(c), UserOfConn(c))
        PROVE  Agreed(w, cache'[BrowserOf[c]], Nonce(c)', UserOfConn(c))
    BY <1>1, <1>2, <1>4, <2>1, <2>2, <2>4 DEF Agreed, Unchallenged, Challenged
  <2>5. UserOfConn(c) # "Unknown" /\ ~RivalRefused(c) =>
          Agreed(w, cache'[BrowserOf[c]], Nonce(c)', UserOfConn(c))
    BY <1>1, <2>4
  <2>6. w.refusals >= v.refusals /\ w.step # "answered"
    BY <1>1, <2>2
  <2> QED
    BY <1>2, <2>1, <2>2, <2>3, <2>5, <2>6, StepIInv
<1> QED
  BY <1>3, <1>4

-----------------------------------------------------------------------------
LEMMA InitIInv == Init => IInv
<1> SUFFICES ASSUME Init
             PROVE  IInv
  OBVIOUS
<1>1. TypeOK
  <2>1. [step |-> "new", want |-> "a page", nonce |-> None, challenge |-> None,
         answer |-> "none", refusals |-> 0] \in Conn
    BY DEF Conn, Steps
  <2> QED
    BY <2>1 DEF Init, TypeOK
<1>2. ASSUME NEW c \in Conns
      PROVE  /\ conn[c].step = "new" /\ conn[c].answer = "none" /\ conn[c].nonce = None
             /\ conn[c].want = "a page" /\ conn[c].refusals = 0
             /\ cache[BrowserOf[c]] = None
  BY DEF Init, Browsers
<1> QED
  BY <1>1, <1>2 DEF IInv, ChallengesCounted, Settled, Agreed, Unchallenged

LEMMA NextIInv == IInv /\ [Next]_vars => IInv'
<1> SUFFICES ASSUME IInv, [Next]_vars
             PROVE  IInv'
  OBVIOUS
<1>1. CASE UNCHANGED vars
  BY <1>1 DEF vars, IInv, TypeOK, ChallengesCounted, Settled, RivalRefused, Nonce
<1>2. ASSUME NEW c \in Conns, Server(c) \/ Browser(c)
      PROVE  IInv'
  BY <1>2, OnAcceptStep, HandleRequestStep, SecondLookStep, OnUpgradeStep,
     UnauthorizedResponseStep, SendStep, ReceiveStep
     DEF Server, Browser
<1> QED
  BY <1>1, <1>2 DEF Next

LEMMA Invariance == Spec => []IInv
BY InitIInv, NextIInv, PTL DEF Spec

\* The nonces, the requests and the browsers' caches stay well typed: a nonce
\* that nobody holds can always be drawn.
THEOREM Typing == Spec => []TypeOK
BY Invariance, PTL DEF IInv

\* unauthorized_response refuses a user of the auth-file once at most, unless a
\* connection that shares his address has been refused too.
THEOREM RefusedOnce == Spec => []RefusedOnceUnlessRival
<1>1. IInv => RefusedOnceUnlessRival
  BY DEF IInv, Settled, Agreed, RefusedOnceUnlessRival
<1> QED
  BY <1>1, Invariance, PTL

\* do_accept and /config, which look at the nonce a second time, drop a user of
\* the auth-file only if a connection that shares his address has been refused.
THEOREM DroppedByRival == Spec => []DroppedOnlyByRival
<1>1. IInv => DroppedOnlyByRival
  BY DEF IInv, Settled, Agreed, Unchallenged, DroppedOnlyByRival
<1> QED
  BY <1>1, Invariance, PTL
=============================================================================
