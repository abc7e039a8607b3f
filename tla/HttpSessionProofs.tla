------------------------- MODULE HttpSessionProofs --------------------------
(***************************************************************************)
(* Proofs about HttpSession, for any numbers of connections and threads,   *)
(* any queue limit, and clients that pipeline or not.                      *)
(*                                                                         *)
(* The inductive invariant adds to the checked invariants what a handler   *)
(* that waits looks like: it has one response in hand, and its connection  *)
(* is served by no other thread.  Upon it, Flow follows the numbers of a   *)
(* connection's requests from the client through the read loop and the     *)
(* write in flight back to the client.                                     *)
(***************************************************************************)
EXTENDS HttpSession, TLAPS

\* At most one thread is in a strand, with a response in hand; and only a write
\* in flight can have been delivered.
OneHandler ==
  \A c \in Conns :
    /\ \A t, u \in Threads : serving[t] = c /\ serving[u] = c => t = u
    /\ Busy(c) => Len(http[c].held) = 1
    /\ ~Busy(c) => http[c].held = <<>>
    /\ http[c].delivered => Len(http[c].writing) = 1

IInv == TypeOK /\ PermitAccounting /\ QueueNeverFills /\ OneHandler

-----------------------------------------------------------------------------
\* The strand's queue.

\* Queueing a completion adds at most itself to the writes done.
LEMMA WritesOfAppend ==
  ASSUME NEW ready \in Seq(Handlers), NEW handler \in Handlers
  PROVE  /\ Append(ready, handler) \in Seq(Handlers)
         /\ handler.op \notin {"on_write", "write_error"} =>
              WritesOf(Append(ready, handler)) = WritesOf(ready)
         /\ handler.op \in {"on_write", "write_error"} =>
              WritesOf(Append(ready, handler)) = WritesOf(ready) \cup {Len(ready) + 1}
BY DEF WritesOf

\* Taking the first completion off moves the others up.
LEMMA WritesOfTail ==
  ASSUME NEW ready \in Seq(Handlers), ready # <<>>
  PROVE  /\ Tail(ready) \in Seq(Handlers)
         /\ Head(ready) \in Handlers
         /\ WritesOf(ready) = {} =>
              /\ WritesOf(Tail(ready)) = {}
              /\ Head(ready).op \notin {"on_write", "write_error"}
         /\ \A k \in DOMAIN ready : WritesOf(ready) = {k} =>
              IF Head(ready).op \in {"on_write", "write_error"}
              THEN WritesOf(Tail(ready)) = {}
              ELSE \E l \in DOMAIN Tail(ready) : WritesOf(Tail(ready)) = {l}
<1>1. Tail(ready) \in Seq(Handlers) /\ Head(ready) \in Handlers
  OBVIOUS
<1>2. \A k \in DOMAIN ready : k = 1 \/ k - 1 \in DOMAIN Tail(ready)
  OBVIOUS
<1>3. \A l \in DOMAIN Tail(ready) : l + 1 \in DOMAIN ready /\ Tail(ready)[l] = ready[l + 1]
  OBVIOUS
<1>4. 1 \in DOMAIN ready /\ Head(ready) = ready[1]
  OBVIOUS
<1>5. \A k \in WritesOf(ready) : k = 1 \/ k - 1 \in WritesOf(Tail(ready))
  BY <1>2, <1>3 DEF WritesOf
<1>6. \A l \in WritesOf(Tail(ready)) : l + 1 \in WritesOf(ready)
  BY <1>3 DEF WritesOf
<1>7. 1 \in WritesOf(ready) <=> Head(ready).op \in {"on_write", "write_error"}
  BY <1>4 DEF WritesOf
<1>8. WritesOf(Tail(ready)) \subseteq DOMAIN Tail(ready) /\ DOMAIN Tail(ready) \subseteq Nat \ {0}
  BY <1>1 DEF WritesOf
<1>9. ASSUME WritesOf(ready) = {}
      PROVE  WritesOf(Tail(ready)) = {} /\ Head(ready).op \notin {"on_write", "write_error"}
  BY <1>9, <1>6, <1>7
<1>10. ASSUME NEW k \in DOMAIN ready, WritesOf(ready) = {k},
              Head(ready).op \in {"on_write", "write_error"}
       PROVE  WritesOf(Tail(ready)) = {}
  <2>1. k = 1
    BY <1>10, <1>7
  <2> QED
    BY <2>1, <1>10, <1>6, <1>8
<1>11. ASSUME NEW k \in DOMAIN ready, WritesOf(ready) = {k},
              Head(ready).op \notin {"on_write", "write_error"}
       PROVE  \E l \in DOMAIN Tail(ready) : WritesOf(Tail(ready)) = {l}
  <2>1. k # 1
    BY <1>11, <1>7
  <2>2. k - 1 \in WritesOf(Tail(ready))
    BY <2>1, <1>11, <1>5
  <2>3. \A l \in WritesOf(Tail(ready)) : l = k - 1
    BY <1>11, <1>6, <1>8
  <2> QED
    BY <2>2, <2>3, <1>8
<1> QED
  BY <1>1, <1>9, <1>10, <1>11

\* The completions of reads in a strand's queue.
ReadsOf(ready) == {k \in DOMAIN ready : ready[k].op = "on_read"}

LEMMA ReadsOfAppend ==
  ASSUME NEW ready \in Seq(Handlers), NEW handler \in Handlers
  PROVE  /\ handler.op # "on_read" =>
              /\ ReadsOf(Append(ready, handler)) = ReadsOf(ready)
              /\ \A k \in DOMAIN ready : k \in DOMAIN Append(ready, handler)
         /\ handler.op = "on_read" =>
              /\ ReadsOf(Append(ready, handler)) = ReadsOf(ready) \cup {Len(ready) + 1}
              /\ Len(ready) + 1 \in DOMAIN Append(ready, handler)
BY DEF ReadsOf

LEMMA ReadsOfTail ==
  ASSUME NEW ready \in Seq(Handlers), ready # <<>>
  PROVE  /\ ReadsOf(ready) = {} =>
              ReadsOf(Tail(ready)) = {} /\ Head(ready).op # "on_read"
         /\ \A k \in DOMAIN ready : ReadsOf(ready) = {k} =>
              IF Head(ready).op = "on_read"
              THEN ReadsOf(Tail(ready)) = {}
              ELSE \E l \in DOMAIN Tail(ready) : ReadsOf(Tail(ready)) = {l}
<1>1. \A k \in DOMAIN ready : k = 1 \/ k - 1 \in DOMAIN Tail(ready)
  OBVIOUS
<1>2. \A l \in DOMAIN Tail(ready) :
        l \in Nat \ {0} /\ l + 1 \in DOMAIN ready /\ Tail(ready)[l] = ready[l + 1]
  OBVIOUS
<1>3. 1 \in DOMAIN ready /\ Head(ready) = ready[1]
  OBVIOUS
<1>4. \A k \in ReadsOf(ready) : k = 1 \/ k - 1 \in ReadsOf(Tail(ready))
  BY <1>1, <1>2 DEF ReadsOf
<1>5. \A l \in ReadsOf(Tail(ready)) : l \in Nat \ {0} /\ l + 1 \in ReadsOf(ready)
  BY <1>2 DEF ReadsOf
<1>6. 1 \in ReadsOf(ready) <=> Head(ready).op = "on_read"
  BY <1>3 DEF ReadsOf
<1>7. ASSUME NEW k \in DOMAIN ready, ReadsOf(ready) = {k}
      PROVE  IF Head(ready).op = "on_read"
             THEN ReadsOf(Tail(ready)) = {}
             ELSE \E l \in DOMAIN Tail(ready) : ReadsOf(Tail(ready)) = {l}
  <2>1. CASE Head(ready).op = "on_read"
    <3>1. k = 1
      BY <2>1, <1>6, <1>7
    <3> QED
      BY <2>1, <3>1, <1>5, <1>7
  <2>2. CASE Head(ready).op # "on_read"
    <3>1. k - 1 \in ReadsOf(Tail(ready))
      BY <2>2, <1>4, <1>6, <1>7
    <3>2. \A l \in ReadsOf(Tail(ready)) : l = k - 1
      BY <1>5, <1>7
    <3>3. k - 1 \in DOMAIN Tail(ready)
      BY <3>1 DEF ReadsOf
    <3> QED
      BY <2>2, <3>1, <3>2, <3>3
  <2> QED
    BY <2>1, <2>2
<1> QED
  BY <1>5, <1>6, <1>7

-----------------------------------------------------------------------------
\* One connection's part of the invariant.
Accounted(session) ==
  LET done == WritesOf(session.ready)
  IN  \/ session.permits = 1 /\ session.writing = <<>> /\ done = {}
      \/ session.permits = 0 /\ Len(session.writing) = 1 /\ done = {}
      \/ /\ session.permits = 0 /\ session.writing = <<>>
         /\ \E k \in DOMAIN session.ready : done = {k}

Good(session) ==
  /\ session \in HttpObject
  /\ Accounted(session)
  /\ session.queue = <<>>
  /\ session.delivered => Len(session.writing) = 1

LEMMA GoodSessions == IInv => \A c \in Conns : Good(http[c])
BY DEF IInv, TypeOK, PermitAccounting, QueueNeverFills, OneHandler, Good, Accounted

\* A step of the network that leaves the connection good leaves the invariant
\* true.
LEMMA NetworkStep ==
  ASSUME IInv, NEW c \in Conns, NEW session,
         Good(session), session.held = http[c].held,
         http' = [http EXCEPT ![c] = session],
         client' \in [Conns -> [open : BOOLEAN, sent : Nat, got : Seq(Nat)]],
         UNCHANGED serving
  PROVE  IInv'
<1>1. TypeOK'
  BY DEF IInv, TypeOK, Good
<1>2. \A d \in Conns : http'[d] = IF d = c THEN session ELSE http[d]
  BY DEF IInv, TypeOK
<1>3. \A d \in Conns : Good(http'[d]) /\ http'[d].held = http[d].held
  BY <1>2, GoodSessions
<1>4. PermitAccounting' /\ QueueNeverFills'
  BY <1>3 DEF Good, Accounted, PermitAccounting, QueueNeverFills
<1>5. OneHandler'
  BY <1>3 DEF OneHandler, IInv, Busy, Good
<1> QED
  BY <1>1, <1>4, <1>5 DEF IInv

\* The first half of a handler.  Only a response in hand makes it wait, and it
\* takes a permit from nobody.
LEMMA RunGood ==
  ASSUME NEW session, Good(session), session.ready # <<>>, session.held = <<>>,
         NEW handler, handler = Head(session.ready),
         NEW popped, popped = [session EXCEPT !.ready = Tail(@)]
  PROVE  /\ Good(Run(popped, handler))
         /\ \/ Run(popped, handler).held = <<>>
            \/ Len(Run(popped, handler).held) = 1 /\ ~Throws(handler)
<1> DEFINE after == Run(popped, handler)
<1> USE HttpAssumption
<1>1. /\ session \in HttpObject
      /\ session.queue = <<>>
      /\ handler \in Handlers
      /\ popped \in HttpObject
      /\ popped.ready = Tail(session.ready)
      /\ popped.permits = session.permits /\ popped.writing = session.writing
      /\ popped.queue = <<>> /\ popped.held = <<>>
      /\ popped.delivered = session.delivered
  BY WritesOfTail DEF Good, HttpObject
<1>2. CASE handler.op \notin {"on_write", "write_error"}
  <2>1. Accounted(popped)
    BY <1>1, <1>2, WritesOfTail DEF Good, Accounted, HttpObject
  <2>2. Good(popped)
    BY <1>1, <2>1 DEF Good
  <2>3. CASE handler.op = "on_read"
    <3>1. handler.data \in Request
      BY <1>1, <2>3 DEF Handlers
    <3>2. Response(handler.data) \in Responses
      BY <3>1 DEF Response, Responses, Request
    <3>3. ASSUME NEW response \in Responses, NEW resume \in BOOLEAN
          PROVE  /\ Good(QueueWrite(popped, response, resume))
                 /\ Len(QueueWrite(popped, response, resume).held) = 1
      <4> DEFINE longer == [popped EXCEPT !.queue = Append(@, response)]
                 new == [longer EXCEPT !.held = <<response>>, !.queue = <<>>,
                                       !.resume = resume]
      <4>1. <<response>> \in Seq(Responses) /\ <<>> \in Seq(Responses)
        OBVIOUS
      <4>2. Append(popped.queue, response) = <<response>>
        <5>1. Append(<<>>, response) = <<response>>
          OBVIOUS
        <5> QED
          BY <5>1, <1>1, Zenon
      <4>3. longer \in HttpObject /\ longer.queue = <<response>>
        <5>1. longer = [popped EXCEPT !.queue = <<response>>]
          BY <4>2, Zenon
        <5> QED
          BY <5>1, <4>1, <1>1 DEF HttpObject
      <4>4. QueueWrite(popped, response, resume) = DoWrite(longer, resume)
        BY <4>3 DEF QueueWrite
      <4>5. Head(longer.queue) = response /\ Tail(longer.queue) = <<>>
        <5>1. Head(<<response>>) = response /\ Tail(<<response>>) = <<>>
          OBVIOUS
        <5>2. longer.queue = <<response>>
          BY <4>3
        <5> HIDE DEF longer
        <5> QED
          BY <5>1, <5>2, Zenon
      <4>6. DoWrite(longer, resume) = new
        BY <4>5 DEF DoWrite
      <4>7. /\ longer.ready = popped.ready /\ longer.permits = popped.permits
            /\ longer.writing = popped.writing
            /\ longer.delivered = popped.delivered
        BY <1>1 DEF HttpObject
      <4>8. /\ new \in HttpObject /\ new.queue = <<>> /\ new.held = <<response>>
            /\ new.ready = popped.ready /\ new.permits = popped.permits
            /\ new.writing = popped.writing /\ new.delivered = popped.delivered
        <5> HIDE DEF longer
        <5> QED
          BY <4>1, <4>3, <4>7 DEF HttpObject
      <4>9. Good(new)
        <5> HIDE DEF new
        <5> QED
          BY <4>8, <2>2 DEF Good, Accounted
      <4>10. Len(new.held) = 1
        BY <4>8
      <4> QED
        BY <4>4, <4>6, <4>9, <4>10
    <3>4. CASE handler.data.kind \in {"get", "stale"}
      <4>1. ~Throws(handler)
        BY <3>4 DEF Throws
      <4>2. \E resume \in BOOLEAN :
              after = QueueWrite(popped, Response(handler.data), resume)
        BY <2>3, <3>4 DEF Run, OnRead
      <4> QED
        BY <4>1, <4>2, <3>2, <3>3
    <3>5. CASE handler.data.kind = "upgrade"
      <4>1. after = [popped EXCEPT !.released = TRUE]
        BY <2>3, <3>5 DEF Run, OnRead
      <4>2. Good([popped EXCEPT !.released = TRUE])
        BY <1>1, <2>2 DEF Good, Accounted, HttpObject
      <4>3. [popped EXCEPT !.released = TRUE].held = <<>>
        BY <1>1 DEF HttpObject
      <4> QED
        BY <4>1, <4>2, <4>3
    <3>6. CASE handler.data.kind = "throws"
      <4>1. after = popped
        BY <2>3, <3>6 DEF Run, OnRead
      <4> QED
        BY <4>1, <1>1, <2>2
    <3> QED
      BY <3>1, <3>4, <3>5, <3>6 DEF Request, Kinds
  <2>4. CASE handler.op = "end_of_stream"
    <3>1. after = [popped EXCEPT !.shut = TRUE]
      BY <2>4 DEF Run, DoClose
    <3>2. Good([popped EXCEPT !.shut = TRUE])
      BY <1>1, <2>2 DEF Good, Accounted, HttpObject
    <3>3. [popped EXCEPT !.shut = TRUE].held = <<>>
      BY <1>1 DEF HttpObject
    <3> QED
      BY <3>1, <3>2, <3>3
  <2>5. CASE handler.op = "read_error"
    <3>1. after = popped
      BY <2>5 DEF Run
    <3> QED
      BY <3>1, <1>1, <2>2
  <2> QED
    BY <1>1, <1>2, <2>3, <2>4, <2>5 DEF Handlers
<1>3. CASE handler.op \in {"on_write", "write_error"}
  <2> DEFINE free == [popped EXCEPT !.permits = @ + 1]
  <2>1. /\ session.permits = 0 /\ session.writing = <<>>
        /\ WritesOf(Tail(session.ready)) = {}
    BY <1>1, <1>3, WritesOfTail DEF Good, Accounted, HttpObject
  <2>2. free = [popped EXCEPT !.permits = 1]
    <3>1. popped.permits + 1 = 1
      BY <1>1, <2>1
    <3> QED
      BY <3>1, Zenon
  <2>3. /\ free \in HttpObject /\ free.permits = 1 /\ free.writing = <<>>
        /\ free.ready = Tail(session.ready) /\ free.queue = <<>>
        /\ free.held = <<>> /\ free.delivered = session.delivered
    BY <1>1, <2>1, <2>2 DEF HttpObject
  <2> HIDE DEF free
  <2>4. Good(free)
    BY <2>1, <2>3 DEF Good, Accounted
  <2>5. Good([free EXCEPT !.shut = TRUE]) /\ [free EXCEPT !.shut = TRUE].held = <<>>
    BY <2>3, <2>4 DEF Good, Accounted, HttpObject
  <2>6. after = free \/ after = [free EXCEPT !.shut = TRUE]
    <3>1. CASE handler.op = "write_error"
      BY <3>1 DEF Run, free
    <3>2. CASE handler.op = "on_write"
      <4>1. after = OnWrite(popped, handler.data)
        BY <3>2 DEF Run
      <4>2. OnWrite(popped, handler.data) =
              IF ~handler.data.keep THEN DoClose(free)
              ELSE IF free.queue = <<>> THEN free
              ELSE DoWrite(free, Len(free.queue) = QueueLimit)
        BY DEF OnWrite, free
      <4> QED
        BY <4>1, <4>2, <2>3 DEF DoClose
    <3> QED
      BY <1>3, <3>1, <3>2
  <2> QED
    BY <2>3, <2>4, <2>5, <2>6
<1> QED
  BY <1>2, <1>3

\* What a handler leaves alone, and what it can have in hand: the response to the
\* request it was given.
Untaken(old, new) ==
  /\ new.input = old.input /\ new.reading = old.reading
  /\ new.writing = old.writing /\ new.delivered = old.delivered
  /\ old.shut => new.shut
  /\ old.released => new.released

LEMMA RunShape ==
  ASSUME NEW session, Good(session), session.ready # <<>>, session.held = <<>>,
         NEW handler, handler = Head(session.ready),
         NEW popped, popped = [session EXCEPT !.ready = Tail(@)]
  PROVE  LET after == Run(popped, handler)
         IN  /\ after.ready = Tail(session.ready)
             /\ Untaken(session, after)
             /\ handler.op # "on_read" \/ Throws(handler) => after.held = <<>>
             /\ handler.op = "on_read" =>
                  /\ after.permits = session.permits
                  /\ after.held # <<>> =>
                       /\ handler.data.kind \in {"get", "stale"}
                       /\ after.held = <<Response(handler.data)>>
<1> DEFINE after == Run(popped, handler)
<1>1. /\ session \in HttpObject /\ session.queue = <<>>
      /\ handler \in Handlers
      /\ popped \in HttpObject /\ popped.ready = Tail(session.ready)
      /\ popped.queue = <<>> /\ popped.held = <<>>
      /\ popped.permits = session.permits
      /\ Untaken(session, popped)
  BY WritesOfTail DEF Good, HttpObject, Untaken
<1>2. after = Run(popped, handler)
  OBVIOUS
<1> HIDE DEF after
<1>3. ASSUME after.ready = popped.ready, Untaken(popped, after)
      PROVE  after.ready = Tail(session.ready) /\ Untaken(session, after)
  BY <1>1, <1>3 DEF Untaken
<1>4. CASE handler.op = "on_read"
  <2>1. handler.data.kind \in {"get", "stale", "upgrade", "throws"}
    BY <1>1, <1>4 DEF Handlers, Request, Kinds
  <2>2. after = OnRead(popped, handler.data)
    BY <1>2, <1>4 DEF Run
  <2>3. CASE handler.data.kind \in {"get", "stale"}
    <3> DEFINE response == Response(handler.data)
               longer == [popped EXCEPT !.queue = Append(@, response)]
    <3>1. ~Throws(handler)
      BY <2>3 DEF Throws
    <3>2. PICK resume : after = QueueWrite(popped, response, resume)
      BY <2>2, <2>3 DEF OnRead
    <3> HIDE DEF response
    <3>3. longer = [popped EXCEPT !.queue = <<response>>]
      <4>1. Append(<<>>, response) = <<response>>
        OBVIOUS
      <4>2. Append(popped.queue, response) = <<response>>
        BY <4>1, <1>1, Zenon
      <4> QED
        BY <4>2, Zenon
    <3>4. longer.queue = <<response>> /\ Len(longer.queue) = 1
      <4>1. longer.queue = <<response>>
        BY <1>1, <3>3 DEF HttpObject
      <4>2. Len(<<response>>) = 1
        OBVIOUS
      <4> QED
        BY <4>1, <4>2, Zenon
    <3>5. after = DoWrite(longer, resume)
      BY <3>2, <3>4 DEF QueueWrite
    <3>6. after.held = <<Head(longer.queue)>> /\ after.ready = longer.ready
          /\ after.permits = longer.permits /\ Untaken(longer, after)
      BY <1>1, <3>3, <3>5 DEF DoWrite, HttpObject, Untaken
    <3>7. longer.ready = popped.ready /\ longer.permits = popped.permits
          /\ Untaken(popped, longer)
      BY <1>1, <3>3 DEF HttpObject, Untaken
    <3>8. Head(longer.queue) = response
      <4>1. Head(<<response>>) = response
        OBVIOUS
      <4> QED
        BY <3>4, <4>1, Zenon
    <3>9. after.held = <<response>>
      BY <3>6, <3>8, Zenon
    <3> HIDE DEF longer
    <3>10. after.ready = popped.ready /\ Untaken(popped, after)
      BY <3>6, <3>7 DEF Untaken
    <3> QED
      BY <1>1, <1>3, <1>4, <2>3, <3>1, <3>6, <3>7, <3>9, <3>10 DEF response, after
  <2>4. CASE handler.data.kind = "upgrade"
    <3>1. after = [popped EXCEPT !.released = TRUE]
      BY <2>2, <2>4 DEF OnRead
    <3>2. /\ after.ready = popped.ready /\ after.held = <<>>
          /\ after.permits = popped.permits /\ Untaken(popped, after)
      BY <1>1, <3>1 DEF HttpObject, Untaken
    <3> QED
      BY <1>1, <1>3, <3>2 DEF after
  <2>5. CASE handler.data.kind = "throws"
    <3>1. after = popped
      BY <2>2, <2>5 DEF OnRead
    <3> QED
      BY <1>1, <3>1 DEF after
  <2> QED
    BY <2>1, <2>3, <2>4, <2>5
<1>5. CASE handler.op \in {"on_write", "write_error", "end_of_stream", "read_error"}
  <2> DEFINE free == [popped EXCEPT !.permits = @ + 1]
  <2>1. /\ free.ready = popped.ready /\ free.held = <<>> /\ free.queue = <<>>
        /\ Untaken(popped, free)
    BY <1>1 DEF HttpObject, Untaken
  <2>2. /\ [popped EXCEPT !.shut = TRUE].ready = popped.ready
        /\ [popped EXCEPT !.shut = TRUE].held = <<>>
        /\ Untaken(popped, [popped EXCEPT !.shut = TRUE])
        /\ [free EXCEPT !.shut = TRUE].ready = popped.ready
        /\ [free EXCEPT !.shut = TRUE].held = <<>>
        /\ Untaken(popped, [free EXCEPT !.shut = TRUE])
    BY <1>1 DEF HttpObject, Untaken
  <2>3. after \in {popped, free, DoClose(popped), DoClose(free)}
    <3>1. CASE handler.op = "on_write"
      <4>1. after = OnWrite(popped, handler.data)
        BY <1>2, <3>1 DEF Run
      <4>2. OnWrite(popped, handler.data) =
              IF ~handler.data.keep THEN DoClose(free)
              ELSE IF free.queue = <<>> THEN free
              ELSE DoWrite(free, Len(free.queue) = QueueLimit)
        BY DEF OnWrite
      <4> QED
        BY <4>1, <4>2, <2>1
    <3>2. CASE handler.op # "on_write"
      BY <1>2, <1>5, <3>2 DEF Run
    <3> QED
      BY <3>1, <3>2
  <2>4. Untaken(popped, popped)
    BY DEF Untaken
  <2> HIDE DEF free
  <2>5. after.ready = popped.ready /\ after.held = <<>> /\ Untaken(popped, after)
    BY <1>1, <2>1, <2>2, <2>3, <2>4 DEF DoClose
  <2> QED
    BY <1>1, <1>3, <1>5, <2>5 DEF after
<1> QED
  BY <1>1, <1>4, <1>5 DEF Handlers, after

-----------------------------------------------------------------------------
LEMMA InitIInv == Init => IInv
<1> SUFFICES ASSUME Init PROVE IInv
  OBVIOUS
<1> USE HttpAssumption
<1>1. TypeOK
  BY DEF Init, TypeOK, HttpObject
<1>2. \A c \in Conns : WritesOf(http[c].ready) = {}
  <2>1. WritesOf(<<>>) = {}
    BY DEF WritesOf
  <2> QED
    BY <2>1 DEF Init
<1>3. PermitAccounting /\ QueueNeverFills
  BY <1>2 DEF Init, PermitAccounting, QueueNeverFills
<1>4. OneHandler
  BY DEF Init, OneHandler, Busy
<1> QED
  BY <1>1, <1>3, <1>4 DEF IInv

\* Queueing a completion that releases no permit disturbs nothing; queueing that
\* of the write in flight passes the permit on.
LEMMA CompleteGood ==
  ASSUME NEW session, Good(session), NEW handler \in Handlers
  PROVE  LET queued == Complete(session, handler)
         IN  /\ queued \in HttpObject
             /\ queued = [session EXCEPT !.ready = Append(session.ready, handler)]
             /\ queued.ready = Append(session.ready, handler)
             /\ handler.op \notin {"on_write", "write_error"} => Good(queued)
             /\ handler.op \in {"on_write", "write_error"} /\ session.writing # <<>> =>
                  Good([queued EXCEPT !.writing = <<>>, !.delivered = FALSE])
<1> DEFINE queued == Complete(session, handler)
           sent == [queued EXCEPT !.writing = <<>>, !.delivered = FALSE]
<1>1. session \in HttpObject /\ session.ready \in Seq(Handlers)
  BY DEF Good, HttpObject
<1>2. queued = [session EXCEPT !.ready = Append(session.ready, handler)]
  BY DEF Complete
<1>3. /\ queued \in HttpObject
      /\ queued.ready = Append(session.ready, handler)
      /\ queued.permits = session.permits /\ queued.writing = session.writing
      /\ queued.queue = session.queue /\ queued.delivered = session.delivered
  BY <1>1, <1>2, WritesOfAppend DEF HttpObject
<1>4. ASSUME handler.op \notin {"on_write", "write_error"} PROVE Good(queued)
  <2>1. WritesOf(queued.ready) = WritesOf(session.ready)
    BY <1>1, <1>3, <1>4, WritesOfAppend
  <2>2. DOMAIN session.ready \subseteq DOMAIN queued.ready
    BY <1>1, <1>3
  <2> HIDE DEF queued
  <2> QED
    BY <1>3, <2>1, <2>2 DEF Good, Accounted
<1>5. ASSUME handler.op \in {"on_write", "write_error"}, session.writing # <<>>
      PROVE  Good(sent)
  <2>1. session.permits = 0 /\ WritesOf(session.ready) = {}
    BY <1>5 DEF Good, Accounted
  <2> HIDE DEF queued
  <2>2. /\ sent \in HttpObject /\ sent.permits = 0 /\ sent.writing = <<>>
        /\ sent.ready = Append(session.ready, handler)
        /\ sent.queue = <<>> /\ sent.delivered = FALSE
    BY <1>3, <2>1 DEF HttpObject, Good
  <2> HIDE DEF sent
  <2>3. WritesOf(sent.ready) = {Len(session.ready) + 1}
    BY <1>1, <1>5, <2>1, <2>2, WritesOfAppend
  <2>4. Len(session.ready) + 1 \in DOMAIN sent.ready
    BY <1>1, <2>2
  <2> QED
    BY <2>2, <2>3, <2>4 DEF Good, Accounted
<1> QED
  BY <1>2, <1>3, <1>4, <1>5

\* A write that was not delivered is over without a trace of the delivery.
LEMMA CompleteUndelivered ==
  ASSUME NEW session, Good(session), NEW handler \in Handlers, ~session.delivered
  PROVE  [Complete(session, handler) EXCEPT !.writing = <<>>] =
           [Complete(session, handler) EXCEPT !.writing = <<>>, !.delivered = FALSE]
<1> DEFINE queued == Complete(session, handler)
<1>1. /\ queued = [session EXCEPT !.ready = Append(session.ready, handler)]
      /\ queued \in HttpObject
  BY CompleteGood
<1>2. session \in HttpObject
  BY DEF Good
<1>3. queued.delivered = FALSE
  BY <1>1, <1>2 DEF HttpObject
<1> HIDE DEF queued
<1>4. [queued EXCEPT !.writing = <<>>] =
        [queued EXCEPT !.writing = <<>>, !.delivered = FALSE]
  BY <1>1, <1>3 DEF HttpObject
<1> QED
  BY <1>4 DEF queued

LEMMA ClientIInv ==
  ASSUME IInv, NEW c \in Conns, Client(c) PROVE IInv'
<1> USE HttpAssumption
<1>1. /\ client \in [Conns -> [open : BOOLEAN, sent : Nat, got : Seq(Nat)]]
      /\ Good(http[c]) /\ http \in [Conns -> HttpObject]
  BY GoodSessions DEF IInv, TypeOK
<1>2. ASSUME NEW kind \in KindsOf[c], NEW keep \in BOOLEAN, Send(c, kind, keep)
      PROVE  IInv'
  <2> DEFINE req == [n |-> client[c].sent + 1, kind |-> kind, keep |-> keep]
             longer == [http[c] EXCEPT !.input = Append(@, req)]
  <2>1. client[c].sent \in Nat /\ kind \in Kinds
    BY <1>1 DEF Kinds
  <2>2. client' \in [Conns -> [open : BOOLEAN, sent : Nat, got : Seq(Nat)]]
    <3>1. client' = [client EXCEPT ![c].sent = client[c].sent + 1]
      BY <1>2 DEF Send
    <3>2. client[c].sent + 1 \in Nat
      BY <2>1
    <3> QED
      BY <1>1, <3>1, <3>2
  <2>3. req \in Request
    BY <2>1 DEF Request
  <2>4. Append(http[c].input, req) \in Seq(Request)
    BY <1>1, <2>3 DEF HttpObject
  <2> HIDE DEF req
  <2>5. Good(longer) /\ longer.held = http[c].held
    BY <1>1, <2>4 DEF Good, Accounted, HttpObject
  <2>6. http' = [http EXCEPT ![c] = longer] /\ UNCHANGED serving
    BY <1>1, <1>2 DEF Send, req
  <2> HIDE DEF longer
  <2> QED
    BY <2>2, <2>5, <2>6, NetworkStep
<1>3. CASE CloseClient(c)
  <2>1. client' \in [Conns -> [open : BOOLEAN, sent : Nat, got : Seq(Nat)]]
    BY <1>1, <1>3 DEF CloseClient
  <2> QED
    BY <2>1, <1>3 DEF CloseClient, IInv, TypeOK, PermitAccounting, QueueNeverFills,
                     OneHandler, Busy
<1> QED
  BY <1>2, <1>3 DEF Client

LEMMA IoIInv ==
  ASSUME IInv, NEW c \in Conns, Io(c) PROVE IInv'
<1> USE HttpAssumption
<1>1. /\ client \in [Conns -> [open : BOOLEAN, sent : Nat, got : Seq(Nat)]]
      /\ Good(http[c]) /\ http \in [Conns -> HttpObject]
      /\ http[c] \in HttpObject
  BY GoodSessions DEF IInv, TypeOK
<1>2. ASSUME NEW handler \in Handlers, NEW input \in Seq(Request),
             handler.op \notin {"on_write", "write_error"},
             http' = [http EXCEPT ![c] =
               [Complete(http[c], handler) EXCEPT !.reading = FALSE, !.input = input]],
             UNCHANGED <<client, serving>>
      PROVE  IInv'
  <2> DEFINE queued == Complete(http[c], handler)
             new == [queued EXCEPT !.reading = FALSE, !.input = input]
  <2>1. /\ Good(queued)
        /\ queued = [http[c] EXCEPT !.ready = Append(http[c].ready, handler)]
    BY <1>1, <1>2, CompleteGood
  <2>2. queued \in HttpObject /\ queued.held = http[c].held
    BY <1>1, <2>1 DEF Good, HttpObject
  <2>3. Good(new) /\ new.held = http[c].held
    <3> HIDE DEF queued
    <3> QED
      BY <2>1, <2>2 DEF Good, Accounted, HttpObject
  <2>4. http' = [http EXCEPT ![c] = new]
    BY <1>2
  <2> HIDE DEF new
  <2> QED
    BY <1>1, <1>2, <2>3, <2>4, NetworkStep
<1>3. ASSUME NEW handler \in Handlers,
             handler.op \in {"on_write", "write_error"},
             http[c].writing # <<>>,
             http' = [http EXCEPT ![c] =
               [Complete(http[c], handler) EXCEPT !.writing = <<>>, !.delivered = FALSE]],
             client' \in [Conns -> [open : BOOLEAN, sent : Nat, got : Seq(Nat)]],
             UNCHANGED serving
      PROVE  IInv'
  <2> DEFINE queued == Complete(http[c], handler)
             sent == [queued EXCEPT !.writing = <<>>, !.delivered = FALSE]
  <2>1. /\ Good(sent)
        /\ queued = [http[c] EXCEPT !.ready = Append(http[c].ready, handler)]
        /\ queued \in HttpObject
    BY <1>1, <1>3, CompleteGood
  <2>2. queued.held = http[c].held
    BY <1>1, <2>1 DEF HttpObject
  <2>3. sent.held = http[c].held
    <3> HIDE DEF queued
    <3> QED
      BY <2>1, <2>2 DEF HttpObject
  <2>4. http' = [http EXCEPT ![c] = sent]
    BY <1>3
  <2> HIDE DEF sent
  <2> QED
    BY <1>3, <2>1, <2>3, <2>4, NetworkStep
<1>4. ASSUME NEW handler \in Handlers, ~http[c].delivered
      PROVE  [Complete(http[c], handler) EXCEPT !.writing = <<>>] =
               [Complete(http[c], handler) EXCEPT !.writing = <<>>, !.delivered = FALSE]
  BY <1>1, <1>4, CompleteUndelivered
<1>5. \A response \in Responses : Handler("on_write", response) \in Handlers
  BY DEF Handler, Handlers
<1>6. /\ Handler("write_error", <<>>) \in Handlers
      /\ Handler("read_error", <<>>) \in Handlers
      /\ Handler("end_of_stream", <<>>) \in Handlers
  BY DEF Handler, Handlers
<1>7. http[c].writing # <<>> => Head(http[c].writing) \in Responses
  BY <1>1 DEF HttpObject
<1>8. CASE ReadDone(c)
  <2>1. Head(http[c].input) \in Request /\ Tail(http[c].input) \in Seq(Request)
    BY <1>1, <1>8 DEF ReadDone, HttpObject
  <2>2. Handler("on_read", Head(http[c].input)) \in Handlers
    BY <2>1 DEF Handler, Handlers
  <2>3. http' = [http EXCEPT ![c] =
          [Complete(http[c], Handler("on_read", Head(http[c].input)))
             EXCEPT !.reading = FALSE, !.input = Tail(http[c].input)]]
    BY <1>8 DEF ReadDone
  <2>4. UNCHANGED <<client, serving>>
    BY <1>8 DEF ReadDone
  <2>5. Handler("on_read", Head(http[c].input)).op = "on_read"
    BY DEF Handler
  <2> QED
    BY <1>2, <2>1, <2>2, <2>3, <2>4, <2>5
<1>9. CASE ReadEnds(c)
  <2>1. PICK op \in {"end_of_stream", "read_error"} :
          http' = [http EXCEPT ![c] =
            [Complete(http[c], Handler(op, <<>>)) EXCEPT !.reading = FALSE]]
    BY <1>9 DEF ReadEnds
  <2> DEFINE queued == Complete(http[c], Handler(op, <<>>))
  <2>2. Handler(op, <<>>) \in Handlers /\ Handler(op, <<>>).op = op
    BY <1>6 DEF Handler
  <2>3. /\ queued = [http[c] EXCEPT !.ready = Append(http[c].ready, Handler(op, <<>>))]
        /\ queued \in HttpObject
    BY <1>1, <2>2, CompleteGood
  <2>4. [queued EXCEPT !.reading = FALSE] =
          [queued EXCEPT !.reading = FALSE, !.input = http[c].input]
    <3>1. queued.input = http[c].input
      BY <1>1, <2>3 DEF HttpObject
    <3> HIDE DEF queued
    <3> QED
      BY <2>3, <3>1 DEF HttpObject
  <2>5. http[c].input \in Seq(Request)
    BY <1>1 DEF HttpObject
  <2>6. UNCHANGED <<client, serving>>
    BY <1>9 DEF ReadEnds
  <2> QED
    BY <1>2, <2>1, <2>2, <2>4, <2>5, <2>6
<1>10. CASE Deliver(c)
  <2> DEFINE handler == Handler("on_write", Head(http[c].writing))
  <2>1. http[c].writing # <<>> /\ ~http[c].delivered /\ UNCHANGED serving
    BY <1>10 DEF Deliver
  <2>2. handler \in Handlers /\ handler.op = "on_write"
    BY <2>1, <1>5, <1>7 DEF Handler
  <2>3. client' \in [Conns -> [open : BOOLEAN, sent : Nat, got : Seq(Nat)]]
    <3>1. client' = [client EXCEPT ![c].got =
                       Append(client[c].got, Head(http[c].writing).n)]
      BY <1>10 DEF Deliver
    <3>2. Append(client[c].got, Head(http[c].writing).n) \in Seq(Nat)
      BY <1>1, <1>7, <2>1 DEF Responses
    <3> QED
      BY <1>1, <3>1, <3>2
  <2>4. CASE Prompt
    <3>1. http' = [http EXCEPT ![c] =
                     [Complete(http[c], handler) EXCEPT !.writing = <<>>]]
      BY <1>10, <2>4 DEF Deliver
    <3> HIDE DEF handler
    <3>2. http' = [http EXCEPT ![c] =
             [Complete(http[c], handler) EXCEPT !.writing = <<>>, !.delivered = FALSE]]
      BY <3>1, <2>1, <2>2, <1>4
    <3> QED
      BY <1>3, <2>1, <2>2, <2>3, <3>2
  <2>5. CASE ~Prompt
    <3> DEFINE new == [http[c] EXCEPT !.delivered = TRUE]
    <3>1. http' = [http EXCEPT ![c] = new]
      BY <1>10, <2>5 DEF Deliver
    <3>2. Len(http[c].writing) = 1
      BY <1>1, <2>1 DEF Good, Accounted
    <3>3. Good(new) /\ new.held = http[c].held
      BY <1>1, <3>2 DEF Good, Accounted, HttpObject
    <3> HIDE DEF new
    <3> QED
      BY <2>1, <2>3, <3>1, <3>3, NetworkStep
  <2> QED
    BY <2>4, <2>5
<1>11. CASE WriteDone(c)
  <2> DEFINE handler == Handler("on_write", Head(http[c].writing))
  <2>1. Len(http[c].writing) = 1 /\ UNCHANGED <<client, serving>>
    BY <1>1, <1>11 DEF WriteDone, Good
  <2>2. http[c].writing # <<>>
    <3>1. Len(<<>>) = 0 /\ 0 # 1
      OBVIOUS
    <3> QED
      BY <2>1, <3>1, Zenon
  <2>3. handler \in Handlers /\ handler.op = "on_write"
    BY <2>2, <1>5, <1>7 DEF Handler
  <2>4. http' = [http EXCEPT ![c] =
          [Complete(http[c], handler) EXCEPT !.writing = <<>>, !.delivered = FALSE]]
    BY <1>11 DEF WriteDone
  <2> HIDE DEF handler
  <2> QED
    BY <1>1, <1>3, <2>1, <2>2, <2>3, <2>4
<1>12. CASE WriteFails(c)
  <2> DEFINE handler == Handler("write_error", <<>>)
  <2>1. /\ http[c].writing # <<>> /\ ~http[c].delivered
        /\ UNCHANGED <<client, serving>>
    BY <1>12 DEF WriteFails
  <2>2. handler \in Handlers /\ handler.op = "write_error"
    BY <1>6 DEF Handler
  <2>3. http' = [http EXCEPT ![c] =
                   [Complete(http[c], handler) EXCEPT !.writing = <<>>]]
    BY <1>12 DEF WriteFails
  <2> HIDE DEF handler
  <2>4. http' = [http EXCEPT ![c] =
          [Complete(http[c], handler) EXCEPT !.writing = <<>>, !.delivered = FALSE]]
    BY <2>1, <2>2, <2>3, <1>4
  <2> QED
    BY <1>1, <1>3, <2>1, <2>2, <2>4
<1> QED
  BY <1>8, <1>9, <1>10, <1>11, <1>12 DEF Io

LEMMA StartIInv ==
  ASSUME IInv, NEW t \in Threads, NEW c \in Conns, Start(t, c) PROVE IInv'
<1> USE HttpAssumption
<1> DEFINE handler == Head(http[c].ready)
           popped == [http[c] EXCEPT !.ready = Tail(@)]
           after == Run(popped, handler)
           new == IF Throws(handler) THEN "dead"
                  ELSE IF after.held # <<>> THEN c ELSE "idle"
<1>1. /\ Good(http[c]) /\ http \in [Conns -> HttpObject]
      /\ serving \in [Threads -> Conns \cup {"idle", "dead"}]
      /\ serving[t] = "idle" /\ ~Busy(c)
      /\ http[c].ready # <<>> /\ http[c].held = <<>>
  BY GoodSessions DEF Start, IInv, TypeOK, OneHandler
<1>2. /\ http' = [http EXCEPT ![c] = after]
      /\ serving' = [serving EXCEPT ![t] = new]
      /\ client' = client
  BY DEF Start
<1>3. /\ Good(after)
      /\ after.held = <<>> \/ (Len(after.held) = 1 /\ ~Throws(handler))
  <2> HIDE DEF handler, popped
  <2>1. handler = Head(http[c].ready) /\ popped = [http[c] EXCEPT !.ready = Tail(@)]
    BY DEF handler, popped
  <2>2. Good(http[c]) /\ http[c].ready # <<>> /\ http[c].held = <<>>
    BY <1>1
  <2> QED
    BY <2>1, <2>2, RunGood, Zenon
<1> HIDE DEF handler, popped, after
<1>4. new \in {c, "dead", "idle"} /\ (new = c <=> after.held # <<>>)
  BY <1>3
<1> HIDE DEF new
<1>5. TypeOK'
  BY <1>1, <1>2, <1>3, <1>4 DEF IInv, TypeOK, Good
<1>6. \A d \in Conns : http'[d] = IF d = c THEN after ELSE http[d]
  BY <1>1, <1>2
<1>7. \A d \in Conns : Good(http'[d])
  BY <1>3, <1>6, GoodSessions
<1>8. PermitAccounting' /\ QueueNeverFills'
  BY <1>7 DEF Good, Accounted, PermitAccounting, QueueNeverFills
<1>9. \A u \in Threads : serving'[u] = IF u = t THEN new ELSE serving[u]
  BY <1>1, <1>2
<1>10. OneHandler'
  <2>1. ASSUME NEW d \in Conns, d # c
        PROVE  \A u \in Threads : serving'[u] = d <=> serving[u] = d
    BY <2>1, <1>1, <1>4, <1>9
  <2>2. \A u \in Threads : serving'[u] = c <=> u = t /\ after.held # <<>>
    BY <1>1, <1>4, <1>9 DEF Busy
  <2>3. \A d \in Conns : http'[d].delivered => Len(http'[d].writing) = 1
    BY <1>7 DEF Good
  <2>4. ASSUME NEW d \in Conns, d # c
        PROVE  /\ \A v, u \in Threads : serving'[v] = d /\ serving'[u] = d => v = u
               /\ Busy(d)' => Len(http'[d].held) = 1
               /\ ~Busy(d)' => http'[d].held = <<>>
    BY <2>1, <2>4, <1>6 DEF OneHandler, IInv, Busy
  <2>5. /\ \A v, u \in Threads : serving'[v] = c /\ serving'[u] = c => v = u
        /\ Busy(c)' => Len(http'[c].held) = 1
        /\ ~Busy(c)' => http'[c].held = <<>>
    BY <2>2, <1>3, <1>6 DEF Busy
  <2> QED
    BY <2>3, <2>4, <2>5 DEF OneHandler
<1> QED
  BY <1>5, <1>8, <1>10 DEF IInv

LEMMA AcquireIInv ==
  ASSUME IInv, NEW t \in Threads, NEW c \in Conns, Acquire(t, c) PROVE IInv'
<1> USE HttpAssumption
<1> DEFINE reading == \/ http[c].reading
                      \/ http[c].resume /\ Len(http[c].queue) < QueueLimit
           after == [http[c] EXCEPT !.permits = 0, !.writing = http[c].held,
                                    !.held = <<>>, !.reading = reading]
<1>1. /\ Good(http[c]) /\ http \in [Conns -> HttpObject]
      /\ serving \in [Threads -> Conns \cup {"idle", "dead"}]
      /\ serving[t] = c /\ Busy(c)
      /\ Len(http[c].held) = 1
      /\ http[c].permits = 1
  <2>1. http[c] \in HttpObject /\ http[c].permits > 0
    BY DEF Acquire, IInv, TypeOK
  <2>2. http[c].permits = 1
    BY <2>1 DEF HttpObject
  <2> QED
    BY <2>2, GoodSessions DEF Acquire, IInv, TypeOK, OneHandler, Busy
<1>2. /\ http' = [http EXCEPT ![c] = after]
      /\ serving' = [serving EXCEPT ![t] = "idle"]
      /\ client' = client
  <2>1. http[c].permits - 1 = 0
    BY <1>1
  <2> QED
    BY <2>1, Zenon DEF Acquire
<1>3. reading \in BOOLEAN
  BY <1>1 DEF Good, HttpObject
<1>4. Good(after) /\ after.held = <<>>
  <2> HIDE DEF reading
  <2>1. /\ after \in HttpObject /\ after.permits = 0 /\ after.writing = http[c].held
        /\ after.held = <<>> /\ after.ready = http[c].ready
        /\ after.queue = <<>>
    BY <1>1, <1>3 DEF Good, HttpObject
  <2>2. WritesOf(http[c].ready) = {}
    BY <1>1 DEF Good, Accounted
  <2> HIDE DEF after
  <2> QED
    BY <1>1, <2>1, <2>2 DEF Good, Accounted
<1> HIDE DEF after
<1>5. TypeOK'
  BY <1>1, <1>2, <1>4 DEF IInv, TypeOK, Good
<1>6. \A d \in Conns : http'[d] = IF d = c THEN after ELSE http[d]
  BY <1>1, <1>2
<1>7. \A d \in Conns : Good(http'[d])
  BY <1>4, <1>6, GoodSessions
<1>8. PermitAccounting' /\ QueueNeverFills'
  BY <1>7 DEF Good, Accounted, PermitAccounting, QueueNeverFills
<1>9. \A u \in Threads : serving'[u] = IF u = t THEN "idle" ELSE serving[u]
  BY <1>1, <1>2
<1>10. OneHandler'
  <2>1. ASSUME NEW d \in Conns, d # c
        PROVE  \A u \in Threads : serving'[u] = d <=> serving[u] = d
    BY <2>1, <1>1, <1>9
  <2>2. \A u \in Threads : serving'[u] # c
    BY <1>1, <1>9 DEF OneHandler, IInv
  <2>3. \A d \in Conns : http'[d].delivered => Len(http'[d].writing) = 1
    BY <1>7 DEF Good
  <2>4. ASSUME NEW d \in Conns, d # c
        PROVE  /\ \A v, u \in Threads : serving'[v] = d /\ serving'[u] = d => v = u
               /\ Busy(d)' => Len(http'[d].held) = 1
               /\ ~Busy(d)' => http'[d].held = <<>>
    BY <2>1, <2>4, <1>6 DEF OneHandler, IInv, Busy
  <2> QED
    BY <1>4, <1>6, <2>2, <2>3, <2>4 DEF OneHandler, Busy
<1> QED
  BY <1>5, <1>8, <1>10 DEF IInv

\* IInv is inductive, so it holds in every reachable state.
LEMMA NextIInv == IInv /\ [Next]_vars => IInv'
<1> SUFFICES ASSUME IInv, [Next]_vars PROVE IInv'
  OBVIOUS
<1>1. CASE UNCHANGED vars
  BY <1>1 DEF vars, IInv, TypeOK, PermitAccounting, QueueNeverFills, OneHandler, Busy
<1> QED
  BY <1>1, ClientIInv, IoIInv, StartIInv, AcquireIInv DEF Next, Pool

LEMMA Invariance == Spec => []IInv
  BY InitIInv, NextIInv, PTL DEF Spec

-----------------------------------------------------------------------------
\* The sessions, the clients and the threads always have their types; above all
\* the binary semaphore is never released beyond one.
THEOREM Typing == Spec => []TypeOK
<1>1. IInv => TypeOK
  BY DEF IInv
<1> QED
  BY <1>1, Invariance, PTL

\* The permit of write_semaphore is never lost or doubled, and so no connection
\* ever has two writes in flight.
THEOREM PermitsAccounted == Spec => []PermitAccounting
<1>1. IInv => PermitAccounting
  BY DEF IInv
<1> QED
  BY <1>1, Invariance, PTL

\* response_queue is empty whenever no handler runs, whatever queue_limit is.
THEOREM QueueLimitUnreached == Spec => []QueueNeverFills
<1>1. IInv => QueueNeverFills
  BY DEF IInv
<1> QED
  BY <1>1, Invariance, PTL

\* No step gives a thread back that waits behind a write in flight.
LEMMA WedgedStep == IInv /\ [Next]_vars => [\A c \in Conns : Wedged(c) => Wedged(c)']_vars
<1> USE HttpAssumption
<1> SUFFICES ASSUME IInv, Next, NEW c \in Conns, Wedged(c) PROVE Wedged(c)'
  OBVIOUS
<1>1. /\ http \in [Conns -> HttpObject] /\ http[c] \in HttpObject
      /\ serving \in [Threads -> Conns \cup {"idle", "dead"}]
      /\ http[c].permits = 0
  BY DEF IInv, TypeOK, Wedged
<1>2. PICK t \in Threads : serving[t] = c
  BY DEF Wedged, Busy
<1>3. ASSUME UNCHANGED serving, http'[c].permits = 0 PROVE Wedged(c)'
  BY <1>3, <1>2 DEF Wedged, Busy
<1>4. ASSUME NEW d \in Conns, Client(d) \/ Io(d)
      PROVE  UNCHANGED serving /\ http'[c].permits = 0
  <2>1. UNCHANGED serving
    BY <1>4 DEF Client, Io, Send, CloseClient, ReadDone, ReadEnds, Deliver,
                WriteDone, WriteFails
  <2>2. PICK new : http' = [http EXCEPT ![d] = new] /\ new.permits = http[d].permits
    <3>1. http[d] \in HttpObject
      BY <1>1
    <3>2. CASE Client(d)
      <4>1. CASE \E kind \in KindsOf[d], keep \in BOOLEAN : Send(d, kind, keep)
        <5>1. PICK input : http' = [http EXCEPT ![d].input = input]
          BY <1>1, <4>1 DEF Send
        <5>2. http' = [http EXCEPT ![d] = [http[d] EXCEPT !.input = input]]
          BY <1>1, <5>1
        <5>3. [http[d] EXCEPT !.input = input].permits = http[d].permits
          BY <3>1 DEF HttpObject
        <5> QED
          BY <5>2, <5>3
      <4>2. CASE CloseClient(d)
        BY <1>1, <4>2 DEF CloseClient
      <4> QED
        BY <3>2, <4>1, <4>2 DEF Client
    <3>3. ASSUME NEW handler, NEW input
          PROVE  LET queued == Complete(http[d], handler)
                 IN  /\ queued.permits = http[d].permits
                     /\ [queued EXCEPT !.reading = FALSE].permits = http[d].permits
                     /\ [queued EXCEPT !.reading = FALSE, !.input = input].permits
                          = http[d].permits
                     /\ [queued EXCEPT !.writing = <<>>].permits = http[d].permits
                     /\ [queued EXCEPT !.writing = <<>>, !.delivered = FALSE].permits
                          = http[d].permits
      BY <3>1 DEF Complete, HttpObject
    <3>4. CASE ReadDone(d)
      BY <3>3, <3>4 DEF ReadDone
    <3>5. CASE ReadEnds(d)
      BY <3>3, <3>5 DEF ReadEnds
    <3>6. CASE Deliver(d)
      <4>1. [http[d] EXCEPT !.delivered = TRUE].permits = http[d].permits
        BY <3>1 DEF HttpObject
      <4> QED
        BY <3>3, <3>6, <4>1 DEF Deliver
    <3>7. CASE WriteDone(d)
      BY <3>3, <3>7 DEF WriteDone
    <3>8. CASE WriteFails(d)
      BY <3>3, <3>8 DEF WriteFails
    <3> QED
      BY <1>4, <3>2, <3>4, <3>5, <3>6, <3>7, <3>8 DEF Io
  <2> QED
    BY <1>1, <2>1, <2>2
<1>5. ASSUME NEW u \in Threads, NEW d \in Conns, Start(u, d) PROVE Wedged(c)'
  <2>1. c # d /\ u # t
    BY <1>2, <1>5 DEF Start, Busy
  <2>2. http'[c] = http[c] /\ serving'[t] = c
    BY <1>1, <1>2, <1>5, <2>1 DEF Start
  <2> QED
    BY <1>1, <2>2 DEF Wedged, Busy
<1>6. ASSUME NEW u \in Threads, NEW d \in Conns, Acquire(u, d) PROVE Wedged(c)'
  <2>1. c # d /\ u # t
    BY <1>1, <1>2, <1>6 DEF Acquire
  <2>2. http'[c] = http[c] /\ serving'[t] = c
    BY <1>1, <1>2, <1>6, <2>1 DEF Acquire
  <2> QED
    BY <1>1, <2>2 DEF Wedged, Busy
<1> QED
  BY <1>3, <1>4, <1>5, <1>6 DEF Next, Pool

\* A do_write that waits behind a write in flight never returns: nothing that can
\* happen on any thread releases its permit or gives its thread back.
THEOREM WedgedNeverRecovers == Spec => WedgedForEver
  BY WedgedStep, Invariance, PTL DEF Spec, WedgedForEver

-----------------------------------------------------------------------------
\* The requests and responses of a connection.  A request is numbered by its
\* client; it is in the input, then its completion on the strand, then its response
\* in hand, then under way, and then the client has it.  One request at a time is
\* in hand, because the read loop goes on only when do_write has begun the write.

ClientObject == [open : BOOLEAN, sent : Nat, got : Seq(Nat)]

\* Requests read so far.
Taken(cl, session) == cl.sent - Len(session.input)

UnderWay(session) == IF session.writing # <<>> /\ ~session.delivered THEN 1 ELSE 0

InHand(session) ==
  IF ReadsOf(session.ready) # {} \/ session.held # <<>> THEN 1 ELSE 0

\* Something can still be delivered.
Alive(cl, session) == cl.open /\ ~session.shut /\ ~session.released

\* Where a request is, its number says.
Numbered(c, cl, session) ==
  /\ \A i \in DOMAIN session.input :
       /\ session.input[i].n = Taken(cl, session) + i
       /\ session.input[i].kind \in KindsOf[c]
  /\ \A k \in ReadsOf(session.ready) :
       /\ session.ready[k].data.n = Taken(cl, session)
       /\ session.ready[k].data.kind \in KindsOf[c]
  /\ session.held # <<>> =>
       /\ Head(session.held).n = Taken(cl, session)
       /\ KindsOf[c] \cap {"get", "stale"} # {}

OneAtATime(session) ==
  /\ \A j, k \in ReadsOf(session.ready) : j = k
  /\ ReadsOf(session.ready) # {} => ~session.reading /\ session.held = <<>>
  /\ session.held # <<>> => ~session.reading

\* No request is answered twice; and as long as anything can be delivered none is
\* skipped, unless the loop that would read the next one is over.
InLine(cl, session) ==
  LET done == Len(cl.got) + UnderWay(session) + InHand(session)
  IN  /\ \A k \in DOMAIN cl.got : cl.got[k] = k
      /\ done <= Taken(cl, session)
      /\ Alive(cl, session) =>
           /\ session.reading \/ InHand(session) = 1 => done = Taken(cl, session)
           /\ UnderWay(session) = 1 => Head(session.writing).n = Len(cl.got) + 1

\* A client that waits for its responses has one request on the way, and whatever
\* writes are completed are so before the read of its next one is.
Patience(cl, session) ==
  /\ cl.sent <= Len(cl.got) + 1
  /\ ~session.delivered
  /\ \A r \in ReadsOf(session.ready), w \in WritesOf(session.ready) : w < r
  /\ session.held # <<>> => session.permits = 1

Patient(c) == Prompt /\ c \notin Pipeliners

Flow(c, cl, session) ==
  /\ Numbered(c, cl, session)
  /\ OneAtATime(session)
  /\ InLine(cl, session)
  /\ Patient(c) => Patience(cl, session)

\* What the lemmas below start from.
Sound(c, cl, session) ==
  /\ cl \in ClientObject
  /\ Good(session)
  /\ session.held = <<>> \/ Len(session.held) = 1
  /\ Flow(c, cl, session)

LEMMA AppendIndex ==
  ASSUME NEW S, NEW seq \in Seq(S), NEW elt \in S
  PROVE  /\ DOMAIN seq = 1 .. Len(seq) /\ Len(seq) \in Nat
         /\ DOMAIN Append(seq, elt) = 1 .. (Len(seq) + 1)
         /\ \A i \in 1 .. Len(seq) : Append(seq, elt)[i] = seq[i]
         /\ Append(seq, elt)[Len(seq) + 1] = elt
OBVIOUS

\* A request is sent.
LEMMA SendFlow ==
  ASSUME NEW c \in Conns, NEW cl, NEW old, Sound(c, cl, old), cl.open,
         c \in Pipeliners \/ Len(cl.got) = cl.sent,
         NEW req \in Request, req.n = cl.sent + 1, req.kind \in KindsOf[c],
         NEW then, then.sent = cl.sent + 1, then.got = cl.got, then.open = cl.open,
         NEW new, new = [old EXCEPT !.input = Append(@, req)]
  PROVE  Flow(c, then, new)
<1>1. /\ old \in HttpObject /\ old.input \in Seq(Request)
      /\ cl.sent \in Nat /\ cl.got \in Seq(Nat)
  BY DEF Sound, Good, HttpObject, ClientObject
<1>2. /\ new.input = Append(old.input, req)
      /\ new.ready = old.ready /\ new.held = old.held /\ new.reading = old.reading
      /\ new.writing = old.writing /\ new.delivered = old.delivered
      /\ new.permits = old.permits /\ new.shut = old.shut /\ new.released = old.released
  BY <1>1 DEF HttpObject
<1>3. Taken(then, new) = Taken(cl, old) /\ Taken(cl, old) + Len(old.input) + 1 = req.n
  BY <1>1, <1>2 DEF Taken
<1>4. UnderWay(new) = UnderWay(old) /\ InHand(new) = InHand(old)
      /\ (Alive(then, new) <=> Alive(cl, old))
  BY <1>2 DEF UnderWay, InHand, Alive
<1>5. Numbered(c, then, new)
  <2>1. \A i \in DOMAIN new.input :
          IF i = Len(old.input) + 1 THEN new.input[i] = req
          ELSE i \in DOMAIN old.input /\ new.input[i] = old.input[i]
    <3>1. \A i \in DOMAIN Append(old.input, req) :
            IF i = Len(old.input) + 1 THEN Append(old.input, req)[i] = req
            ELSE i \in DOMAIN old.input /\ Append(old.input, req)[i] = old.input[i]
      <4>1. old.input \in Seq(Request) /\ req \in Request
        BY <1>1
      <4> QED
        BY <4>1, AppendIndex
    <3> QED
      BY <1>2, <3>1, Zenon
  <2>2. Numbered(c, cl, old)
    BY DEF Sound, Flow
  <2>3. Len(old.input) \in Nat /\ Taken(cl, old) \in Int
    BY <1>1 DEF Taken
  <2>4. \A i \in DOMAIN new.input :
           new.input[i].n = Taken(then, new) + i /\ new.input[i].kind \in KindsOf[c]
    BY <1>3, <2>1, <2>2, <2>3 DEF Numbered
  <2> QED
    BY <1>2, <1>3, <2>2, <2>4 DEF Numbered
<1>6. OneAtATime(new)
  BY <1>2 DEF Sound, Flow, OneAtATime
<1>7. InLine(then, new)
  BY <1>2, <1>3, <1>4 DEF Sound, Flow, InLine
<1>8. Patient(c) => Patience(then, new)
  BY <1>1, <1>2 DEF Sound, Flow, Patience, Patient
<1> QED
  BY <1>5, <1>6, <1>7, <1>8 DEF Flow

\* A client that goes away gets nothing more.
LEMMA CloseFlow ==
  ASSUME NEW c \in Conns, NEW cl, NEW old, Sound(c, cl, old),
         NEW then, then.sent = cl.sent, then.got = cl.got, ~then.open
  PROVE  Flow(c, then, old)
BY DEF Sound, Flow, Numbered, InLine, Taken, Alive, Patience

\* A read completes with a request.
LEMMA ReadFlow ==
  ASSUME NEW c \in Conns, NEW cl, NEW old, Sound(c, cl, old),
         old.reading, old.input # <<>>,
         NEW handler, handler = Handler("on_read", Head(old.input)),
         NEW new, new = [old EXCEPT !.ready = Append(@, handler), !.reading = FALSE,
                                    !.input = Tail(@)]
  PROVE  Flow(c, cl, new)
<1>1. /\ old \in HttpObject /\ old.input \in Seq(Request) /\ old.ready \in Seq(Handlers)
      /\ cl.sent \in Nat /\ cl.got \in Seq(Nat)
      /\ Head(old.input) \in Request
      /\ ReadsOf(old.ready) = {} /\ old.held = <<>>
  BY DEF Sound, Good, HttpObject, ClientObject, Flow, OneAtATime
<1>2. handler \in Handlers /\ handler.op = "on_read" /\ handler.data = Head(old.input)
  BY <1>1 DEF Handler, Handlers
<1>3. /\ new.input = Tail(old.input) /\ new.ready = Append(old.ready, handler)
      /\ new.reading = FALSE /\ new.held = old.held
      /\ new.writing = old.writing /\ new.delivered = old.delivered
      /\ new.permits = old.permits /\ new.shut = old.shut /\ new.released = old.released
  BY <1>1 DEF HttpObject
<1>4. Taken(cl, new) = Taken(cl, old) + 1 /\ Taken(cl, old) \in Int
  BY <1>1, <1>3 DEF Taken
<1>5. ReadsOf(new.ready) = {Len(old.ready) + 1} /\ WritesOf(new.ready) = WritesOf(old.ready)
  BY <1>1, <1>2, <1>3, ReadsOfAppend, WritesOfAppend
<1>6. /\ UnderWay(new) = UnderWay(old) /\ UnderWay(old) \in {0, 1}
      /\ InHand(new) = 1 /\ InHand(old) = 0
      /\ Alive(cl, new) <=> Alive(cl, old)
  BY <1>1, <1>3, <1>5 DEF UnderWay, InHand, Alive
<1>7. Numbered(c, cl, new)
  <2>1. \A i \in DOMAIN new.input :
          i \in Nat /\ i + 1 \in DOMAIN old.input /\ new.input[i] = old.input[i + 1]
    BY <1>1, <1>3
  <2>2. Numbered(c, cl, old)
    BY DEF Sound, Flow
  <2>3. \A i \in DOMAIN new.input :
           new.input[i].n = Taken(cl, new) + i /\ new.input[i].kind \in KindsOf[c]
    BY <1>4, <2>1, <2>2 DEF Numbered
  <2>4. 1 \in DOMAIN old.input /\ Head(old.input) = old.input[1]
    BY <1>1
  <2>5. Head(old.input).n = Taken(cl, new) /\ Head(old.input).kind \in KindsOf[c]
    BY <1>4, <2>2, <2>4 DEF Numbered
  <2>6. new.ready[Len(old.ready) + 1] = handler
    BY <1>1, <1>3
  <2> QED
    BY <1>1, <1>2, <1>3, <1>5, <2>3, <2>5, <2>6 DEF Numbered
<1>8. OneAtATime(new)
  BY <1>1, <1>3, <1>5 DEF OneAtATime
<1>9. InLine(cl, new)
  <2>1. Len(cl.got) \in Nat
    BY <1>1
  <2> QED
    BY <1>3, <1>4, <1>6, <2>1 DEF Sound, Flow, InLine
<1>10. Patient(c) => Patience(cl, new)
  <2>1. \A w \in WritesOf(old.ready) : w < Len(old.ready) + 1
    BY <1>1 DEF WritesOf
  <2> QED
    BY <1>1, <1>3, <1>5, <2>1 DEF Sound, Flow, Patience
<1> QED
  BY <1>7, <1>8, <1>9, <1>10 DEF Flow

\* What is queued behind a read on the strand leaves it where it is.
LEMMA QueuedReads ==
  ASSUME NEW ready \in Seq(Handlers), NEW handler \in Handlers, handler.op # "on_read"
  PROVE  /\ ReadsOf(Append(ready, handler)) = ReadsOf(ready)
         /\ \A k \in ReadsOf(ready) :
              k \in 1 .. Len(ready) /\ Append(ready, handler)[k] = ready[k]
<1>1. \A k \in ReadsOf(ready) : k \in DOMAIN ready
  BY DEF ReadsOf
<1> QED
  BY <1>1, ReadsOfAppend, AppendIndex

\* A read fails, or finds the end of the stream.
LEMMA EndFlow ==
  ASSUME NEW c \in Conns, NEW cl, NEW old, Sound(c, cl, old),
         NEW handler \in Handlers, handler.op \in {"end_of_stream", "read_error"},
         NEW new, new = [old EXCEPT !.ready = Append(@, handler), !.reading = FALSE]
  PROVE  Flow(c, cl, new)
<1>1. old \in HttpObject /\ old.ready \in Seq(Handlers)
  BY DEF Sound, Good, HttpObject
<1>2. /\ new.input = old.input /\ new.ready = Append(old.ready, handler)
      /\ new.reading = FALSE /\ new.held = old.held
      /\ new.writing = old.writing /\ new.delivered = old.delivered
      /\ new.permits = old.permits /\ new.shut = old.shut /\ new.released = old.released
  BY <1>1 DEF HttpObject
<1>3. /\ ReadsOf(new.ready) = ReadsOf(old.ready)
      /\ \A k \in ReadsOf(old.ready) : new.ready[k] = old.ready[k]
      /\ WritesOf(new.ready) = WritesOf(old.ready)
  BY <1>1, <1>2, QueuedReads, WritesOfAppend
<1>4. /\ UnderWay(new) = UnderWay(old) /\ InHand(new) = InHand(old)
      /\ Taken(cl, new) = Taken(cl, old)
      /\ Alive(cl, new) <=> Alive(cl, old)
  BY <1>2, <1>3 DEF UnderWay, InHand, Taken, Alive
<1>5. Numbered(c, cl, new)
  BY <1>2, <1>3, <1>4 DEF Sound, Flow, Numbered
<1>6. OneAtATime(new) /\ InLine(cl, new)
  BY <1>2, <1>3, <1>4 DEF Sound, Flow, OneAtATime, InLine
<1>7. Patient(c) => Patience(cl, new)
  BY <1>2, <1>3 DEF Sound, Flow, Patience
<1> QED
  BY <1>5, <1>6, <1>7 DEF Flow

\* The client gets the response under way, or nobody ever does.
Answers(cl, session, then) ==
  /\ then.sent = cl.sent /\ then.open = cl.open
  /\ IF ~session.delivered /\ Alive(cl, session)
     THEN then.got = Append(cl.got, Head(session.writing).n)
     ELSE then.got = cl.got

LEMMA AnswersInOrder ==
  ASSUME NEW c \in Conns, NEW cl, NEW old, Sound(c, cl, old), old.writing # <<>>,
         NEW then, Answers(cl, old, then)
  PROVE  /\ \A k \in DOMAIN then.got : then.got[k] = k
         /\ Len(then.got) \in Nat /\ Len(cl.got) \in Nat
         /\ Len(cl.got) <= Len(then.got)
         /\ Len(then.got) <= Len(cl.got) + UnderWay(old)
         /\ Alive(then, old) => Len(then.got) = Len(cl.got) + UnderWay(old)
<1>1. /\ cl.got \in Seq(Nat) /\ Len(cl.got) \in Nat
      /\ \A k \in DOMAIN cl.got : cl.got[k] = k
  BY DEF Sound, ClientObject, Flow, InLine
<1>2. UnderWay(old) = IF old.delivered THEN 0 ELSE 1
  BY DEF UnderWay
<1>3. CASE ~old.delivered /\ Alive(cl, old)
  <2> DEFINE n == Head(old.writing).n
  <2>1. n = Len(cl.got) + 1
    BY <1>2, <1>3 DEF Sound, Flow, InLine
  <2>2. then.got = Append(cl.got, n)
    BY <1>3 DEF Answers
  <2> HIDE DEF n
  <2>3. n \in Nat
    BY <1>1, <2>1
  <2>4. /\ DOMAIN then.got = 1 .. (Len(cl.got) + 1) /\ Len(then.got) = Len(cl.got) + 1
        /\ \A k \in 1 .. Len(cl.got) : then.got[k] = cl.got[k]
        /\ then.got[Len(cl.got) + 1] = n
    BY <1>1, <2>2, <2>3, AppendIndex
  <2>5. \A k \in DOMAIN then.got : then.got[k] = k
    BY <1>1, <2>1, <2>4
  <2> QED
    BY <1>1, <1>2, <1>3, <2>4, <2>5
<1>4. CASE ~(~old.delivered /\ Alive(cl, old))
  <2>1. then.got = cl.got /\ (Alive(then, old) <=> Alive(cl, old))
    BY <1>4 DEF Answers, Alive
  <2>2. UnderWay(old) \in {0, 1} /\ (Alive(cl, old) => UnderWay(old) = 0)
    BY <1>2, <1>4
  <2> QED
    BY <1>1, <2>1, <2>2
<1> QED
  BY <1>3, <1>4

\* The write in flight is over, and its completion queued.
LEMMA WrittenFlow ==
  ASSUME NEW c \in Conns, NEW cl, NEW old, Sound(c, cl, old), old.writing # <<>>,
         NEW then, Answers(cl, old, then),
         NEW handler \in Handlers, handler.op \in {"on_write", "write_error"},
         NEW new, new = [old EXCEPT !.ready = Append(@, handler), !.writing = <<>>,
                                    !.delivered = FALSE]
  PROVE  Flow(c, then, new)
<1>1. /\ old \in HttpObject /\ old.ready \in Seq(Handlers) /\ old.input \in Seq(Request)
      /\ cl.sent \in Nat /\ then.sent = cl.sent
  BY DEF Sound, Good, HttpObject, ClientObject, Answers
<1>2. /\ new.input = old.input /\ new.ready = Append(old.ready, handler)
      /\ new.reading = old.reading /\ new.held = old.held
      /\ new.writing = <<>> /\ new.delivered = FALSE
      /\ new.permits = old.permits /\ new.shut = old.shut /\ new.released = old.released
  BY <1>1 DEF HttpObject
<1>3. /\ ReadsOf(new.ready) = ReadsOf(old.ready)
      /\ \A k \in ReadsOf(old.ready) : new.ready[k] = old.ready[k]
      /\ WritesOf(new.ready) = WritesOf(old.ready) \cup {Len(old.ready) + 1}
  BY <1>1, <1>2, QueuedReads, WritesOfAppend
<1>4. /\ UnderWay(new) = 0 /\ InHand(new) = InHand(old)
      /\ Taken(then, new) = Taken(cl, old) /\ Taken(cl, old) \in Int
      /\ Taken(cl, old) <= cl.sent
      /\ Alive(then, new) <=> Alive(then, old)
      /\ Alive(then, old) <=> Alive(cl, old)
      /\ UnderWay(old) \in {0, 1} /\ InHand(old) \in {0, 1}
  BY <1>1, <1>2, <1>3 DEF UnderWay, InHand, Taken, Alive, Answers
<1>5. Numbered(c, then, new)
  <2>1. Numbered(c, cl, old)
    BY DEF Sound, Flow
  <2>2. Taken(then, new) = Taken(cl, old)
    BY <1>4
  <2>3. new.input = old.input /\ new.held = old.held
    BY <1>2
  <2> QED
    BY <1>3, <2>1, <2>2, <2>3 DEF Numbered
<1>6. OneAtATime(new)
  BY <1>2, <1>3 DEF Sound, Flow, OneAtATime
<1>7. InLine(then, new)
  BY <1>2, <1>4, AnswersInOrder DEF Sound, Flow, InLine
<1>8. ASSUME Patient(c) PROVE Patience(then, new)
  <2>1. Patience(cl, old) /\ Len(cl.got) + UnderWay(old) + InHand(old) <= Taken(cl, old)
    BY <1>8 DEF Sound, Flow, InLine
  <2>2. Len(cl.got) \in Nat /\ Len(then.got) \in Nat /\ Len(cl.got) <= Len(then.got)
    BY AnswersInOrder
  <2>3. UnderWay(old) = 1 /\ cl.sent <= Len(cl.got) + 1
    BY <2>1 DEF Patience, UnderWay
  <2>4. InHand(old) = 0
    BY <1>1, <1>4, <2>1, <2>2, <2>3
  <2>5. ReadsOf(old.ready) = {} /\ old.held = <<>>
    BY <2>4 DEF InHand
  <2>6. then.sent <= Len(then.got) + 1
    BY <1>1, <2>2, <2>3
  <2> QED
    BY <1>2, <1>3, <2>5, <2>6 DEF Patience
<1> QED
  BY <1>5, <1>6, <1>7, <1>8 DEF Flow

\* The client has the response before its write is known to be over.
LEMMA DeliveredFlow ==
  ASSUME NEW c \in Conns, NEW cl, NEW old, Sound(c, cl, old), old.writing # <<>>,
         ~old.delivered, Alive(cl, old), ~Prompt,
         NEW then, Answers(cl, old, then),
         NEW new, new = [old EXCEPT !.delivered = TRUE]
  PROVE  Flow(c, then, new)
<1>1. /\ old \in HttpObject /\ old.input \in Seq(Request)
      /\ cl.sent \in Nat /\ then.sent = cl.sent
  BY DEF Sound, Good, HttpObject, ClientObject, Answers
<1>2. /\ new.input = old.input /\ new.ready = old.ready
      /\ new.reading = old.reading /\ new.held = old.held
      /\ new.writing = old.writing /\ new.delivered = TRUE
      /\ new.shut = old.shut /\ new.released = old.released
  BY <1>1 DEF HttpObject
<1>3. /\ UnderWay(new) = 0 /\ UnderWay(old) = 1 /\ InHand(new) = InHand(old)
      /\ Taken(then, new) = Taken(cl, old) /\ Taken(cl, old) \in Int
      /\ Alive(then, old) /\ Alive(then, new)
      /\ InHand(old) \in {0, 1}
  BY <1>1, <1>2 DEF UnderWay, InHand, Taken, Alive, Answers
<1>4. Numbered(c, then, new) /\ OneAtATime(new)
  BY <1>2, <1>3 DEF Sound, Flow, Numbered, OneAtATime
<1>5. InLine(then, new)
  BY <1>2, <1>3, AnswersInOrder DEF Sound, Flow, InLine
<1> QED
  BY <1>4, <1>5 DEF Flow, Patient

LEMMA TailIndex ==
  ASSUME NEW S, NEW seq \in Seq(S), seq # <<>>
  PROVE  /\ 1 \in DOMAIN seq /\ Head(seq) = seq[1]
         /\ \A i \in DOMAIN Tail(seq) :
              /\ i \in Nat \ {0} /\ i + 1 \in DOMAIN seq
              /\ Tail(seq)[i] = seq[i + 1]
OBVIOUS

\* A patient client's next request is looked at when nothing of the last one is
\* left: the permit is free.
LEMMA PatientPermit ==
  ASSUME NEW c \in Conns, NEW cl, NEW session, Sound(c, cl, session), Patient(c),
         1 \in ReadsOf(session.ready)
  PROVE  session.permits = 1
<1>1. /\ Len(cl.got) \in Nat /\ cl.sent \in Nat /\ Len(session.input) \in Nat
      /\ Patience(cl, session)
      /\ Len(cl.got) + UnderWay(session) + InHand(session) <= Taken(cl, session)
  BY DEF Sound, Flow, InLine, ClientObject, Good, HttpObject
<1>2. InHand(session) = 1 /\ UnderWay(session) \in {0, 1}
  BY DEF InHand, UnderWay
<1>3. UnderWay(session) = 0
  BY <1>1, <1>2 DEF Taken, Patience
<1>4. session.writing = <<>>
  BY <1>1, <1>3 DEF UnderWay, Patience
<1>5. WritesOf(session.ready) = {}
  <2>1. \A w \in WritesOf(session.ready) : w \in Nat \ {0}
    BY DEF Sound, Good, HttpObject, WritesOf
  <2> QED
    BY <1>1, <2>1 DEF Patience
<1>6. Len(session.writing) # 1
  <2>1. Len(<<>>) = 0
    OBVIOUS
  <2>2. Len(session.writing) = Len(<<>>)
    BY <1>4, Zenon
  <2> QED
    BY <2>1, <2>2
<1> QED
  BY <1>5, <1>6 DEF Sound, Good, Accounted

\* A handler is run.
LEMMA RunFlow ==
  ASSUME NEW c \in Conns, NEW cl, NEW old, Sound(c, cl, old),
         old.ready # <<>>, old.held = <<>>,
         NEW handler, handler = Head(old.ready),
         NEW popped, popped = [old EXCEPT !.ready = Tail(@)],
         NEW new, new = Run(popped, handler)
  PROVE  Flow(c, cl, new)
<1>1. /\ new.ready = Tail(old.ready)
      /\ Untaken(old, new)
      /\ handler.op # "on_read" => new.held = <<>>
      /\ handler.op = "on_read" =>
           /\ new.permits = old.permits
           /\ new.held # <<>> =>
                /\ handler.data.kind \in {"get", "stale"}
                /\ new.held = <<Response(handler.data)>>
  <2>1. Good(old)
    BY DEF Sound
  <2> QED
    BY <2>1, RunShape
<1>2. /\ Numbered(c, cl, old) /\ OneAtATime(old) /\ InLine(cl, old)
      /\ Patient(c) => Patience(cl, old)
      /\ Len(cl.got) \in Nat
  BY DEF Sound, Flow, ClientObject
<1>3. /\ 1 \in DOMAIN old.ready /\ Head(old.ready) = old.ready[1]
      /\ \A i \in DOMAIN new.ready :
           /\ i \in Nat \ {0} /\ i + 1 \in DOMAIN old.ready
           /\ new.ready[i] = old.ready[i + 1]
  <2>1. old.ready \in Seq(Handlers) /\ old.ready # <<>>
    BY DEF Sound, Good, HttpObject
  <2>2. /\ 1 \in DOMAIN old.ready /\ Head(old.ready) = old.ready[1]
        /\ \A i \in DOMAIN Tail(old.ready) :
             /\ i \in Nat \ {0} /\ i + 1 \in DOMAIN old.ready
             /\ Tail(old.ready)[i] = old.ready[i + 1]
    BY <2>1, TailIndex
  <2> QED
    BY <1>1, <2>2, Zenon
<1>4. /\ \A k \in ReadsOf(new.ready) :
           /\ k \in Nat \ {0} /\ k + 1 \in ReadsOf(old.ready)
           /\ new.ready[k] = old.ready[k + 1]
      /\ \A k \in WritesOf(new.ready) : k \in Nat \ {0} /\ k + 1 \in WritesOf(old.ready)
  BY <1>3 DEF ReadsOf, WritesOf
<1>5. /\ new.input = old.input /\ new.reading = old.reading
      /\ Taken(cl, new) = Taken(cl, old) /\ UnderWay(new) = UnderWay(old)
      /\ new.writing = old.writing /\ new.delivered = old.delivered
      /\ Alive(cl, new) => Alive(cl, old)
  BY <1>1 DEF Untaken, Taken, UnderWay, Alive
<1>6. /\ UnderWay(old) \in {0, 1} /\ InHand(old) \in {0, 1} /\ InHand(new) \in {0, 1}
      /\ Taken(cl, old) \in Int
  BY DEF UnderWay, InHand, Taken, Sound, Good, HttpObject, ClientObject
<1>7. InHand(new) = 1 => InHand(old) = 1
  <2>1. CASE handler.op = "on_read"
    <3>1. 1 \in ReadsOf(old.ready)
      BY <1>3, <2>1 DEF ReadsOf
    <3> QED
      BY <3>1 DEF InHand
  <2>2. CASE handler.op # "on_read"
    BY <1>1, <1>4, <2>2 DEF InHand
  <2> QED
    BY <2>1, <2>2
<1>8. InLine(cl, new)
  <2>1. old.reading => InHand(old) = 0
    BY <1>2 DEF OneAtATime, InHand
  <2> QED
    BY <1>2, <1>5, <1>6, <1>7, <2>1 DEF InLine
<1>9. CASE handler.op = "on_read"
  <2>1. 1 \in ReadsOf(old.ready) /\ old.ready[1] = handler
    BY <1>3, <1>9 DEF ReadsOf
  <2>2. ReadsOf(new.ready) = {}
    <3> SUFFICES ASSUME NEW k \in ReadsOf(new.ready) PROVE FALSE
      OBVIOUS
    <3>1. k \in Nat \ {0} /\ k + 1 \in ReadsOf(old.ready)
      BY <1>4
    <3>2. k + 1 = 1
      BY <1>2, <2>1, <3>1 DEF OneAtATime
    <3> QED
      BY <3>1, <3>2
  <2>3. handler.data.n = Taken(cl, old) /\ handler.data.kind \in KindsOf[c]
    BY <1>2, <2>1 DEF Numbered
  <2>4. new.held # <<>> => Head(new.held).n = handler.data.n
    <3>1. Head(<<Response(handler.data)>>) = Response(handler.data)
      OBVIOUS
    <3>2. Response(handler.data).n = handler.data.n
      BY DEF Response
    <3> QED
      BY <1>1, <1>9, <3>1, <3>2, Zenon
  <2>5. Numbered(c, cl, new)
    <3>1. \A i \in DOMAIN new.input :
            /\ new.input[i].n = Taken(cl, new) + i
            /\ new.input[i].kind \in KindsOf[c]
      BY <1>2, <1>5 DEF Numbered
    <3> QED
      BY <1>1, <1>5, <1>9, <2>2, <2>3, <2>4, <3>1 DEF Numbered
  <2>6. OneAtATime(new)
    BY <1>2, <1>5, <2>1, <2>2 DEF OneAtATime
  <2>7. ASSUME Patient(c) PROVE Patience(cl, new)
    <3>1. new.permits = 1
      BY <1>1, <1>9, <2>1, <2>7, PatientPermit
    <3> QED
      BY <1>2, <1>5, <2>2, <2>7, <3>1 DEF Patience
  <2> QED
    BY <1>8, <2>5, <2>6, <2>7 DEF Flow
<1>10. CASE handler.op # "on_read"
  <2>1. new.held = <<>>
    BY <1>1, <1>10
  <2>2. Numbered(c, cl, new)
    <3>1. \A i \in DOMAIN new.input :
            /\ new.input[i].n = Taken(cl, new) + i
            /\ new.input[i].kind \in KindsOf[c]
      BY <1>2, <1>5 DEF Numbered
    <3>2. ASSUME NEW k \in ReadsOf(new.ready)
          PROVE  /\ new.ready[k].data.n = Taken(cl, new)
                 /\ new.ready[k].data.kind \in KindsOf[c]
      <4>1. k + 1 \in ReadsOf(old.ready) /\ new.ready[k] = old.ready[k + 1]
        BY <1>4
      <4>2. /\ old.ready[k + 1].data.n = Taken(cl, old)
            /\ old.ready[k + 1].data.kind \in KindsOf[c]
        BY <1>2, <4>1 DEF Numbered
      <4> QED
        BY <1>5, <4>1, <4>2
    <3> QED
      BY <2>1, <3>1, <3>2 DEF Numbered
  <2>3. OneAtATime(new)
    <3>1. ASSUME NEW j \in ReadsOf(new.ready), NEW k \in ReadsOf(new.ready) PROVE j = k
      <4>1. j + 1 = k + 1
        BY <1>2, <1>4 DEF OneAtATime
      <4>2. j \in Nat /\ k \in Nat
        BY <1>4
      <4> QED
        BY <4>1, <4>2
    <3>2. ReadsOf(new.ready) # {} => ~new.reading
      BY <1>2, <1>4, <1>5 DEF OneAtATime
    <3> QED
      BY <2>1, <3>1, <3>2 DEF OneAtATime
  <2>4. ASSUME Patient(c) PROVE Patience(cl, new)
    <3>1. ASSUME NEW r \in ReadsOf(new.ready), NEW w \in WritesOf(new.ready) PROVE w < r
      <4>1. w + 1 < r + 1
        BY <1>2, <1>4, <2>4 DEF Patience
      <4>2. w \in Nat /\ r \in Nat
        BY <1>4
      <4> QED
        BY <4>1, <4>2
    <3> QED
      BY <1>2, <1>5, <2>1, <2>4, <3>1 DEF Patience
  <2> QED
    BY <1>8, <2>2, <2>3, <2>4 DEF Flow
<1> QED
  BY <1>9, <1>10

\* The write of the response in hand is begun, and with it maybe the next read.
LEMMA BeginFlow ==
  ASSUME NEW c \in Conns, NEW cl, NEW old, Sound(c, cl, old),
         old.held # <<>>, old.permits = 1,
         NEW reading \in BOOLEAN, NEW permits,
         NEW new, new = [old EXCEPT !.permits = permits, !.writing = old.held,
                                    !.held = <<>>, !.reading = reading]
  PROVE  Flow(c, cl, new)
<1>1. old \in HttpObject
  BY DEF Sound, Good
<1>2. /\ new.input = old.input /\ new.ready = old.ready
      /\ new.reading = reading /\ new.held = <<>>
      /\ new.writing = old.held /\ new.delivered = old.delivered
      /\ new.shut = old.shut /\ new.released = old.released
  BY <1>1 DEF HttpObject
<1>3. /\ Numbered(c, cl, old) /\ OneAtATime(old) /\ InLine(cl, old)
      /\ Patient(c) => Patience(cl, old)
      /\ Len(cl.got) \in Nat
  BY DEF Sound, Flow, ClientObject
<1>4. old.writing = <<>> /\ ~old.delivered
  <2>1. old.writing = <<>>
    BY DEF Sound, Good, Accounted
  <2>2. Len(<<>>) = 0
    OBVIOUS
  <2>3. Len(old.writing) = Len(<<>>)
    BY <2>1, Zenon
  <2> QED
    BY <2>1, <2>2, <2>3 DEF Sound, Good
<1>5. ReadsOf(old.ready) = {}
  BY <1>3 DEF OneAtATime
<1>6. /\ UnderWay(old) = 0 /\ UnderWay(new) = 1 /\ InHand(old) = 1 /\ InHand(new) = 0
      /\ Taken(cl, new) = Taken(cl, old) /\ Taken(cl, old) \in Int
      /\ Alive(cl, new) <=> Alive(cl, old)
  BY <1>1, <1>2, <1>4, <1>5 DEF UnderWay, InHand, Taken, Alive, HttpObject, Sound, ClientObject
<1>7. Numbered(c, cl, new)
  BY <1>2, <1>3, <1>5, <1>6 DEF Numbered
<1>8. OneAtATime(new)
  BY <1>2, <1>5 DEF OneAtATime
<1>9. InLine(cl, new)
  <2>1. Head(new.writing).n = Taken(cl, old)
    BY <1>2, <1>3 DEF Numbered
  <2> QED
    BY <1>2, <1>3, <1>6, <2>1 DEF InLine
<1>10. Patient(c) => Patience(cl, new)
  BY <1>2, <1>3, <1>5 DEF Patience
<1> QED
  BY <1>7, <1>8, <1>9, <1>10 DEF Flow

Flows == \A c \in Conns : Flow(c, client[c], http[c])

LEMMA SoundConnections ==
  ASSUME IInv, Flows, NEW c \in Conns
  PROVE  /\ Sound(c, client[c], http[c])
         /\ client[c] \in ClientObject
         /\ http \in [Conns -> HttpObject] /\ client \in [Conns -> ClientObject]
<1>1. Good(http[c]) /\ (http[c].held = <<>> \/ Len(http[c].held) = 1)
  BY GoodSessions DEF IInv, OneHandler
<1> QED
  BY <1>1 DEF Sound, Flows, IInv, TypeOK, ClientObject

\* Only the connection of a step changes.
LEMMA OneFlow ==
  ASSUME IInv, Flows, NEW c \in Conns, NEW then, NEW new, Flow(c, then, new),
         client' = [client EXCEPT ![c] = then] \/ (client' = client /\ then = client[c]),
         http' = [http EXCEPT ![c] = new] \/ (http' = http /\ new = http[c])
  PROVE  Flows'
<1>1. http \in [Conns -> HttpObject] /\ client \in [Conns -> ClientObject]
  BY SoundConnections
<1>2. \A d \in Conns : /\ http'[d] = IF d = c THEN new ELSE http[d]
                       /\ client'[d] = IF d = c THEN then ELSE client[d]
  BY <1>1
<1> QED
  BY <1>2 DEF Flows

LEMMA ClientFlows ==
  ASSUME IInv, Flows, NEW c \in Conns, Client(c) PROVE Flows'
<1>1. /\ Sound(c, client[c], http[c]) /\ client[c] \in ClientObject
      /\ client \in [Conns -> ClientObject] /\ http \in [Conns -> HttpObject]
  BY SoundConnections
<1>2. ASSUME NEW kind \in KindsOf[c], NEW keep \in BOOLEAN, Send(c, kind, keep)
      PROVE  Flows'
  <2> DEFINE req == [n |-> client[c].sent + 1, kind |-> kind, keep |-> keep]
             then == [client[c] EXCEPT !.sent = @ + 1]
             new == [http[c] EXCEPT !.input = Append(@, req)]
  <2>1. client' = [client EXCEPT ![c] = then] /\ http' = [http EXCEPT ![c] = new]
    BY <1>1, <1>2 DEF Send
  <2>2. then.sent = client[c].sent + 1 /\ then.got = client[c].got /\ then.open = client[c].open
    BY <1>1 DEF ClientObject
  <2>3. req \in Request /\ req.n = client[c].sent + 1 /\ req.kind \in KindsOf[c]
    <3>1. client[c].sent \in Nat /\ kind \in Kinds
      BY <1>1, HttpAssumption DEF ClientObject, Kinds
    <3> QED
      BY <3>1 DEF Request
  <2>4. client[c].open /\ (c \in Pipeliners \/ Len(client[c].got) = client[c].sent)
    BY <1>2 DEF Send
  <2>5. new = [http[c] EXCEPT !.input = Append(@, req)]
    OBVIOUS
  <2> HIDE DEF req, then, new
  <2>6. Flow(c, then, new)
    BY <1>1, <2>2, <2>3, <2>4, <2>5, SendFlow
  <2> QED
    BY <2>1, <2>6, OneFlow
<1>3. CASE CloseClient(c)
  <2> DEFINE then == [client[c] EXCEPT !.open = FALSE]
  <2>1. client' = [client EXCEPT ![c] = then] /\ http' = http
    BY <1>1, <1>3 DEF CloseClient
  <2>2. then.sent = client[c].sent /\ then.got = client[c].got /\ ~then.open
    BY <1>1 DEF ClientObject
  <2> HIDE DEF then
  <2>3. Flow(c, then, http[c])
    BY <1>1, <2>2, CloseFlow
  <2> QED
    BY <2>1, <2>3, OneFlow
<1> QED
  BY <1>2, <1>3 DEF Client

LEMMA IoFlows ==
  ASSUME IInv, Flows, NEW c \in Conns, Io(c) PROVE Flows'
<1> DEFINE old == http[c]
           cl == client[c]
<1>1. /\ Sound(c, cl, old) /\ cl \in ClientObject /\ old \in HttpObject
      /\ client \in [Conns -> ClientObject] /\ http \in [Conns -> HttpObject]
  BY SoundConnections
<1>2. CASE ReadDone(c)
  <2> DEFINE handler == Handler("on_read", Head(old.input))
             new == [old EXCEPT !.ready = Append(@, handler), !.reading = FALSE,
                                !.input = Tail(@)]
  <2>1. http' = [http EXCEPT ![c] = new] /\ client' = client
    <3>1. [Complete(old, handler) EXCEPT !.reading = FALSE, !.input = Tail(old.input)] = new
      BY <1>1 DEF Complete, HttpObject
    <3> QED
      BY <1>2, <3>1 DEF ReadDone
  <2>2. old.reading /\ old.input # <<>>
    BY <1>2 DEF ReadDone
  <2>3. Flow(c, cl, new)
    BY <1>1, <2>2, ReadFlow, Zenon
  <2> HIDE DEF new
  <2> QED
    BY <2>1, <2>3, OneFlow
<1>3. CASE ReadEnds(c)
  <2>1. PICK op \in {"end_of_stream", "read_error"} :
          http' = [http EXCEPT ![c] =
            [Complete(http[c], Handler(op, <<>>)) EXCEPT !.reading = FALSE]]
    BY <1>3 DEF ReadEnds
  <2> DEFINE handler == Handler(op, <<>>)
             new == [old EXCEPT !.ready = Append(@, handler), !.reading = FALSE]
  <2>2. handler \in Handlers /\ handler.op \in {"end_of_stream", "read_error"}
    BY DEF Handler, Handlers
  <2>3. http' = [http EXCEPT ![c] = new] /\ client' = client
    BY <1>3, <2>1 DEF Complete, ReadEnds
  <2> HIDE DEF handler
  <2>4. Flow(c, cl, new)
    BY <1>1, <2>2, EndFlow, Zenon
  <2> HIDE DEF new
  <2> QED
    BY <2>3, <2>4, OneFlow
<1>4. ASSUME NEW handler \in Handlers, handler.op \in {"on_write", "write_error"},
             old.writing # <<>>, NEW then, Answers(cl, old, then),
             client' = [client EXCEPT ![c] = then] \/ (client' = client /\ then = client[c]),
             http' = [http EXCEPT ![c] = [Complete(old, handler)
                                            EXCEPT !.writing = <<>>, !.delivered = FALSE]]
      PROVE  Flows'
  <2> DEFINE new == [old EXCEPT !.ready = Append(@, handler), !.writing = <<>>,
                                !.delivered = FALSE]
  <2>1. http' = [http EXCEPT ![c] = new]
    BY <1>4 DEF Complete
  <2>2. Flow(c, then, new)
    BY <1>1, <1>4, WrittenFlow, Zenon
  <2> HIDE DEF new
  <2> QED
    BY <1>4, <2>1, <2>2, OneFlow
<1>5. ASSUME NEW handler \in Handlers, ~old.delivered
      PROVE  [Complete(old, handler) EXCEPT !.writing = <<>>] =
               [Complete(old, handler) EXCEPT !.writing = <<>>, !.delivered = FALSE]
  BY <1>1, <1>5, CompleteUndelivered DEF Sound
<1>6. /\ Handler("write_error", <<>>) \in Handlers
      /\ Handler("write_error", <<>>).op = "write_error"
      /\ old.writing # <<>> =>
           /\ Handler("on_write", Head(old.writing)) \in Handlers
           /\ Handler("on_write", Head(old.writing)).op = "on_write"
  <2>1. old.writing # <<>> => Head(old.writing) \in Responses
    BY <1>1 DEF HttpObject
  <2> QED
    BY <2>1 DEF Handler, Handlers
<1>7. CASE Deliver(c)
  <2> DEFINE then == [cl EXCEPT !.got = Append(@, Head(old.writing).n)]
             handler == Handler("on_write", Head(old.writing))
  <2>1. /\ old.writing # <<>> /\ ~old.delivered /\ Alive(cl, old)
        /\ client' = [client EXCEPT ![c] = then]
    BY <1>1, <1>7 DEF Deliver, Alive
  <2>2. Answers(cl, old, then)
    BY <1>1, <2>1 DEF Answers, ClientObject
  <2> HIDE DEF then
  <2>3. CASE Prompt
    <3>1. http' = [http EXCEPT ![c] = [Complete(old, handler) EXCEPT !.writing = <<>>]]
      BY <1>7, <2>3 DEF Deliver
    <3>2. handler \in Handlers /\ handler.op = "on_write"
      BY <1>6, <2>1
    <3> HIDE DEF handler
    <3>3. http' = [http EXCEPT ![c] = [Complete(old, handler)
                                         EXCEPT !.writing = <<>>, !.delivered = FALSE]]
      BY <1>5, <2>1, <3>1, <3>2
    <3> QED
      BY <1>4, <2>1, <2>2, <3>2, <3>3
  <2>4. CASE ~Prompt
    <3> DEFINE new == [old EXCEPT !.delivered = TRUE]
    <3>1. http' = [http EXCEPT ![c] = new]
      BY <1>7, <2>4 DEF Deliver
    <3>2. Flow(c, then, new)
      BY <1>1, <2>1, <2>2, <2>4, DeliveredFlow, Zenon
    <3> HIDE DEF new
    <3> QED
      BY <2>1, <3>1, <3>2, OneFlow
  <2> QED
    BY <2>3, <2>4
<1>8. CASE WriteDone(c)
  <2> DEFINE handler == Handler("on_write", Head(old.writing))
  <2>1. old.delivered /\ client' = client
    BY <1>8 DEF WriteDone
  <2>2. old.writing # <<>>
    <3>1. Len(old.writing) = 1
      BY <1>1, <2>1 DEF Sound, Good
    <3>2. Len(<<>>) = 0 /\ 0 # 1
      OBVIOUS
    <3> QED
      BY <3>1, <3>2, Zenon
  <2>3. Answers(cl, old, cl)
    BY <2>1 DEF Answers
  <2>4. http' = [http EXCEPT ![c] = [Complete(old, handler)
                                       EXCEPT !.writing = <<>>, !.delivered = FALSE]]
    BY <1>8 DEF WriteDone
  <2>5. handler \in Handlers /\ handler.op = "on_write"
    BY <1>6, <2>2
  <2> HIDE DEF handler
  <2> QED
    BY <1>4, <2>1, <2>2, <2>3, <2>4, <2>5
<1>9. CASE WriteFails(c)
  <2> DEFINE handler == Handler("write_error", <<>>)
  <2>1. /\ old.writing # <<>> /\ ~old.delivered /\ ~Alive(cl, old) /\ client' = client
    BY <1>9 DEF WriteFails, Alive
  <2>2. Answers(cl, old, cl)
    BY <2>1 DEF Answers
  <2>3. http' = [http EXCEPT ![c] = [Complete(old, handler) EXCEPT !.writing = <<>>]]
    BY <1>9 DEF WriteFails
  <2>4. handler \in Handlers /\ handler.op = "write_error"
    BY <1>6
  <2> HIDE DEF handler
  <2>5. http' = [http EXCEPT ![c] = [Complete(old, handler)
                                       EXCEPT !.writing = <<>>, !.delivered = FALSE]]
    BY <1>5, <2>1, <2>3, <2>4
  <2> QED
    BY <1>4, <2>1, <2>2, <2>4, <2>5
<1> QED
  BY <1>2, <1>3, <1>7, <1>8, <1>9 DEF Io

LEMMA PoolFlows ==
  ASSUME IInv, Flows, NEW t \in Threads, NEW c \in Conns, Start(t, c) \/ Acquire(t, c)
  PROVE  Flows'
<1> DEFINE old == http[c]
           cl == client[c]
<1>1. Sound(c, cl, old)
  BY SoundConnections
<1>2. CASE Start(t, c)
  <2> DEFINE handler == Head(old.ready)
             popped == [old EXCEPT !.ready = Tail(@)]
             new == Run(popped, handler)
  <2>1. /\ old.ready # <<>> /\ old.held = <<>>
        /\ http' = [http EXCEPT ![c] = new] /\ client' = client
    BY <1>2 DEF Start, IInv, OneHandler
  <2>2. Flow(c, cl, new)
    BY <1>1, <2>1, RunFlow, Zenon
  <2> HIDE DEF new
  <2> QED
    BY <2>1, <2>2, OneFlow
<1>3. CASE Acquire(t, c)
  <2> DEFINE reading == \/ old.reading
                        \/ old.resume /\ Len(old.queue) < QueueLimit
             permits == old.permits - 1
             new == [old EXCEPT !.permits = permits, !.writing = old.held,
                                !.held = <<>>, !.reading = reading]
  <2>1. http' = [http EXCEPT ![c] = new] /\ client' = client
    BY <1>3 DEF Acquire
  <2>2. old \in HttpObject /\ old.permits > 0
    BY <1>1, <1>3 DEF Acquire, Sound, Good
  <2>3. old.permits = 1 /\ reading \in BOOLEAN
    BY <2>2 DEF HttpObject
  <2>4. old.held # <<>>
    <3>1. Len(old.held) = 1
      BY <1>3 DEF Acquire, IInv, OneHandler, Busy
    <3>2. Len(<<>>) = 0 /\ 0 # 1
      OBVIOUS
    <3> QED
      BY <3>1, <3>2, Zenon
  <2>5. new = [old EXCEPT !.permits = permits, !.writing = old.held,
                          !.held = <<>>, !.reading = reading]
    OBVIOUS
  <2> HIDE DEF reading, permits, new
  <2>6. Flow(c, cl, new)
    BY <1>1, <2>3, <2>4, <2>5, BeginFlow, Zenon
  <2> QED
    BY <2>1, <2>6, OneFlow
<1> QED
  BY <1>2, <1>3

LEMMA NextFlows == IInv /\ Flows /\ [Next]_vars => Flows'
<1> SUFFICES ASSUME IInv, Flows, [Next]_vars PROVE Flows'
  OBVIOUS
<1>1. CASE UNCHANGED vars
  BY <1>1 DEF vars, Flows
<1> QED
  BY <1>1, ClientFlows, IoFlows, PoolFlows DEF Next, Pool

LEMMA InitFlows == Init => Flows
<1> SUFFICES ASSUME Init, NEW c \in Conns PROVE Flow(c, client[c], http[c])
  BY DEF Flows
<1>1. /\ client[c].sent = 0 /\ client[c].got = <<>>
      /\ http[c].input = <<>> /\ http[c].ready = <<>> /\ http[c].held = <<>>
      /\ http[c].writing = <<>> /\ http[c].delivered = FALSE
  BY DEF Init
<1>2. ReadsOf(<<>>) = {} /\ DOMAIN <<>> = {} /\ Len(<<>>) = 0
  BY DEF ReadsOf
<1>3. /\ ReadsOf(http[c].ready) = {} /\ DOMAIN http[c].input = {} /\ DOMAIN client[c].got = {}
      /\ Len(http[c].input) = 0 /\ Len(client[c].got) = 0
  BY <1>1, <1>2, Zenon
<1>4. /\ UnderWay(http[c]) = 0 /\ InHand(http[c]) = 0 /\ Taken(client[c], http[c]) = 0
  <2>1. Taken(client[c], http[c]) = 0 - 0
    BY <1>1, <1>3, Zenon DEF Taken
  <2>2. UnderWay(http[c]) = 0 /\ InHand(http[c]) = 0
    BY <1>1, <1>3, Zenon DEF UnderWay, InHand
  <2> QED
    BY <2>1, <2>2
<1> QED
  BY <1>1, <1>3, <1>4 DEF Flow, Numbered, OneAtATime, InLine, Patience

LEMMA FlowInvariance == Spec => [](IInv /\ Flows)
  BY InitIInv, InitFlows, NextIInv, NextFlows, PTL DEF Spec

\* Responses reach a client one by one and in the order of its requests, however
\* far it pipelines and on however many threads the handlers run.
THEOREM InOrder == Spec => []ResponsesInOrder
<1>1. Flows => ResponsesInOrder
  BY DEF Flows, Flow, InLine, ResponsesInOrder
<1> QED
  BY <1>1, FlowInvariance, PTL

-----------------------------------------------------------------------------
\* Clients that wait for their responses, or whose pipelined requests have no
\* response that do_write could wait to send.
Harmless ==
  /\ Prompt
  /\ \A c \in Pipeliners : KindsOf[c] \cap {"get", "stale"} = {}

LEMMA HarmlessNeverWedge == Harmless /\ IInv /\ Flows => NeverWedged
<1> SUFFICES ASSUME Harmless, IInv, Flows, NEW c \in Conns, Busy(c)
             PROVE  http[c].permits # 0
  BY DEF NeverWedged, Wedged
<1>1. http[c].held # <<>>
  <2>1. Len(http[c].held) = 1
    BY DEF IInv, OneHandler
  <2>2. Len(<<>>) = 0 /\ 0 # 1
    OBVIOUS
  <2> QED
    BY <2>1, <2>2, Zenon
<1>2. KindsOf[c] \cap {"get", "stale"} # {}
  BY <1>1 DEF Flows, Flow, Numbered
<1>3. Patient(c)
  BY <1>2 DEF Harmless, Patient
<1> QED
  BY <1>1, <1>3 DEF Flows, Flow, Patience

\* No connection of clients that wait for their responses ever wedges, nor does one
\* whose client pipelines nothing but requests without a response.
THEOREM PatientNeverWedge ==
  ASSUME Harmless PROVE Spec => []NeverWedged
<1>1. IInv /\ Flows => NeverWedged
  BY HarmlessNeverWedge
<1> QED
  BY <1>1, FlowInvariance, PTL

=============================================================================
