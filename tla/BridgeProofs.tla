---------------------------- MODULE BridgeProofs -----------------------------
(***************************************************************************)
(* Proofs about Bridge, for any numbers of sessions and gates, any         *)
(* messages of the clients and the board, and any cut of the serial line   *)
(* into reads.                                                             *)
(*                                                                         *)
(* The inductive invariant says of each websocket session by itself how    *)
(* its loops, its page, its place in the registry and the numbers of its   *)
(* pending reports go together.  What the line carries is a parameter,     *)
(* bodies, so that the lemmas serve the composition with the board too.    *)
(***************************************************************************)
EXTENDS Bridge, SequenceTheorems, TLAPS

-----------------------------------------------------------------------------
\* Types.

BoardRequests == {QueryAllGates} \cup {msg.request : msg \in ClientMessages}

Entries(bodies) == [n : Nat \ {0}, type : MessageType, body : bodies]

Loops ==
  [reader : {"reading", "ended"}, writer : {"posted", "writing", "ended"},
   buffer : Seq(BoardRequests), plugged : BOOLEAN]

WsObjects(bodies) ==
  [permissions : Permissions, reader : {"none", "accepting", "reading", "ended"},
   writer : {"none", "posted", "writing", "ended"}, failing : BOOLEAN,
   buffer : Seq(Entries(bodies)), queue : Seq(Entries(bodies))]

\* What a page may show of a gate.
Shown(bodies) ==
  {"connecting"} \cup {StatesOf(body)[g] : body \in bodies, g \in GateIds}

PageObjects(bodies) ==
  [up : BOOLEAN, configured : BOOLEAN, shown : [GateIds -> Shown(bodies)]]

Typed(bodies) ==
  /\ com \in Loops
  /\ omq \in Seq(BoardRequests) /\ imq \in Seq(Entries(bodies))
  /\ sessions \subseteq Sessions
  /\ ws \in [Sessions -> WsObjects(bodies)]
  /\ page \in [Sessions -> PageObjects(bodies)]
  /\ rx \in Seq(BoardRequests) /\ tx \in Seq(bodies) /\ cut \in BOOLEAN
  /\ popped \in Nat /\ last \in [Sessions -> Nat]
  /\ spent \in [clients : Nat, board : Nat]

-----------------------------------------------------------------------------
\* The inductive invariant.

\* The entries of seq are numbered from, not including, first up to final.
Numbered(seq, first, final) ==
  /\ first + Len(seq) = final
  /\ \A k \in DOMAIN seq : seq[k].n = first + k

Over(w) == w.reader = "ended" /\ w.writer \in {"none", "ended"}

\* A session w whose page is up or not and has received n of total reports, and
\* that is in the registry or not.
Sound(w, up, n, known, total) ==
  /\ Len(w.buffer) = IF w.writer = "writing" THEN 1 ELSE 0
  /\ w.reader \in {"none", "accepting"} => w.writer = "none"
  /\ w.reader = "none" => w.queue = <<>> /\ w.permissions = "Blocked" /\ ~known
  /\ w.reader = "ended" => ~up \/ w.permissions = "Blocked"
  /\ w.reader # "none" /\ ~Over(w) => known
  /\ w.reader # "none" /\ up /\ w.permissions # "Blocked" =>
       Numbered(w.buffer \o w.queue, n, total)

SessionsSound ==
  \A s \in Sessions : Sound(ws[s], page[s].up, last[s], s \in sessions, popped)

\* The serial port's side.
PortSound ==
  /\ Len(com.buffer) = IF com.writer = "writing" THEN 1 ELSE 0
  /\ \A k \in DOMAIN imq : imq[k].n = popped + k
  /\ cut => tx # <<>>

IInv(bodies) == Typed(bodies) /\ SessionsSound /\ PortSound

-----------------------------------------------------------------------------
\* Numbered sequences.

LEMMA NumberedAppend ==
  ASSUME NEW S, NEW seq \in Seq(S), NEW e \in S,
         NEW first \in Nat, NEW final \in Nat,
         Numbered(seq, first, final), e.n = final + 1
  PROVE  Numbered(Append(seq, e), first, final + 1)
BY AppendProperties DEF Numbered

LEMMA NumberedTail ==
  ASSUME NEW S, NEW seq \in Seq(S), seq # <<>>,
         NEW first \in Nat, NEW final \in Nat,
         Numbered(seq, first, final)
  PROVE  Head(seq).n = first + 1 /\ Numbered(Tail(seq), first + 1, final)
<1>1. /\ Len(seq) \in Nat \ {0} /\ DOMAIN seq = 1 .. Len(seq)
      /\ DOMAIN Tail(seq) = 1 .. Len(seq) - 1 /\ Len(Tail(seq)) = Len(seq) - 1
      /\ Head(seq) = seq[1]
  OBVIOUS
<1>2. ASSUME NEW k \in 1 .. Len(seq) - 1 PROVE Tail(seq)[k].n = first + 1 + k
  <2>1. Tail(seq)[k] = seq[k + 1]
    BY <1>1, HeadTailProperties
  <2>2. k + 1 \in 1 .. Len(seq)
    BY <1>1
  <2>3. seq[k + 1].n = first + (k + 1)
    BY <1>1, <2>2 DEF Numbered
  <2> QED
    BY <2>1, <2>3
<1> QED
  BY <1>1, <1>2 DEF Numbered

\* What waits behind a message in flight.
LEMMA BufferFirst ==
  ASSUME NEW S, NEW buffer \in Seq(S), Len(buffer) = 1, NEW queue \in Seq(S)
  PROVE  /\ buffer \o queue \in Seq(S)
         /\ buffer \o queue # <<>>
         /\ Head(buffer \o queue) = Head(buffer)
         /\ Tail(buffer \o queue) = queue
<1>1. /\ buffer \o queue \in Seq(S) /\ Len(buffer \o queue) = 1 + Len(queue)
      /\ \A k \in 1 .. 1 + Len(queue) :
           (buffer \o queue)[k] = IF k <= 1 THEN buffer[k] ELSE queue[k - 1]
  BY ConcatProperties
<1>2. Len(queue) \in Nat /\ buffer \o queue # <<>>
  BY <1>1, EmptySeq
<1>3. Head(buffer \o queue) = Head(buffer)
  BY <1>1, <1>2
<1>4. Tail(buffer \o queue) \in Seq(S) /\ Len(Tail(buffer \o queue)) = Len(queue)
  BY <1>1, <1>2, HeadTailProperties
<1>5. ASSUME NEW k \in 1 .. Len(queue) PROVE Tail(buffer \o queue)[k] = queue[k]
  BY <1>1, <1>2, <1>4, HeadTailProperties, k + 1 \in 1 .. 1 + Len(queue)
<1>6. Tail(buffer \o queue) = queue
  BY <1>4, <1>5, SeqEqual
<1> QED
  BY <1>1, <1>2, <1>3, <1>6

LEMMA AppendConcat ==
  ASSUME NEW S, NEW front \in Seq(S), NEW back \in Seq(S), NEW e \in S
  PROVE  front \o Append(back, e) = Append(front \o back, e)
BY AppendIsConcat, ConcatProperties, ConcatAssociative, <<e>> \in Seq(S)

\* What do_write takes off a queue goes into the buffer.
LEMMA HeadTail ==
  ASSUME NEW S, NEW seq \in Seq(S), seq # <<>>
  PROVE  /\ Head(seq) \in S /\ Tail(seq) \in Seq(S)
         /\ <<Head(seq)>> \in Seq(S) /\ Len(<<Head(seq)>>) = 1
         /\ <<Head(seq)>> \o Tail(seq) = seq
<1>1. Head(seq) \in S /\ Tail(seq) \in Seq(S) /\ Len(seq) \in Nat \ {0}
  BY HeadTailProperties, EmptySeq
<1>2. seq = SubSeq(seq, 1, Len(seq)) /\ Tail(seq) = SubSeq(seq, 2, Len(seq))
  BY SubSeqFull, TailIsSubSeq
<1>3. SubSeq(seq, 1, Len(seq)) = <<seq[1]>> \o SubSeq(seq, 1 + 1, Len(seq))
  BY <1>1, SubSeqRecursiveFirst, 1 \in 1 .. Len(seq), Len(seq) \in 1 .. Len(seq)
<1>4. Head(seq) = seq[1]
  OBVIOUS
<1>5. <<Head(seq)>> \in Seq(S) /\ Len(<<Head(seq)>>) = 1
  BY <1>1
<1> QED
  BY <1>1, <1>2, <1>3, <1>4, <1>5

-----------------------------------------------------------------------------
\* One session.

\* do_write hides nothing: what was queued is in flight or still queued.
LEMMA DoWriteKeeps ==
  ASSUME NEW bodies, NEW w \in WsObjects(bodies)
  PROVE  LET after == SessionDoWrite(w)
         IN  /\ after \in WsObjects(bodies)
             /\ after.permissions = w.permissions /\ after.reader = w.reader
             /\ after.writer \in {"posted", "writing"}
             /\ Len(after.buffer) = IF after.writer = "writing" THEN 1 ELSE 0
             /\ after.buffer \o after.queue = w.queue
<1>1. w.queue \in Seq(Entries(bodies))
  BY DEF WsObjects
<1>2. CASE w.queue = <<>>
  <2>1. SessionDoWrite(w) = [w EXCEPT !.writer = "posted", !.buffer = <<>>]
    BY <1>2 DEF SessionDoWrite
  <2>2. <<>> \in Seq(Entries(bodies)) /\ <<>> \o <<>> = <<>> /\ Len(<<>>) = 0
    OBVIOUS
  <2> QED
    BY <1>2, <2>1, <2>2 DEF WsObjects
<1>3. CASE w.queue # <<>>
  <2> DEFINE front == <<Head(w.queue)>>
             rest == Tail(w.queue)
  <2>1. SessionDoWrite(w) =
          [w EXCEPT !.writer = "writing", !.failing = w.reader = "ended",
                    !.buffer = front, !.queue = rest]
    BY <1>3 DEF SessionDoWrite
  <2>2. /\ front \in Seq(Entries(bodies)) /\ rest \in Seq(Entries(bodies))
        /\ Len(front) = 1 /\ front \o rest = w.queue
    BY <1>1, <1>3, HeadTail
  <2> HIDE DEF front, rest
  <2> QED
    BY <2>1, <2>2 DEF WsObjects
<1> QED
  BY <1>2, <1>3

\* The write of a posted do_write, and of a session just accepted.
LEMMA DoWriteSound ==
  ASSUME NEW bodies, NEW w \in WsObjects(bodies), NEW v \in WsObjects(bodies),
         NEW up, NEW n, NEW known, NEW total,
         Sound(v, up, n, known, total),
         w.queue = v.queue, w.permissions = v.permissions,
         v.buffer = <<>>, v.reader # "none", ~Over(v),
         w.reader = "reading" \/ (w.reader = "ended" /\ v.reader = "ended")
  PROVE  Sound(SessionDoWrite(w), up, n, known, total)
<1> DEFINE after == SessionDoWrite(w)
<1>1. /\ after \in WsObjects(bodies)
      /\ after.permissions = w.permissions /\ after.reader = w.reader
      /\ after.writer \in {"posted", "writing"}
      /\ Len(after.buffer) = IF after.writer = "writing" THEN 1 ELSE 0
      /\ after.buffer \o after.queue = w.queue
  BY DoWriteKeeps
<1>2. v.buffer \o v.queue = w.queue
  <2>1. v.queue \in Seq(Entries(bodies))
    BY DEF WsObjects
  <2> QED
    BY <2>1, ConcatEmptySeq
<1> HIDE DEF after
<1>3. w.reader # "none" /\ ~Over(after)
  BY <1>1 DEF Over
<1> QED
  BY <1>1, <1>2, <1>3 DEF Sound, after

-----------------------------------------------------------------------------
\* Steps of the sessions.

\* A step that changes one session object and leaves it sound.
LEMMA SessionStep ==
  ASSUME NEW CONSTANT bodies, IInv(bodies),
         NEW s \in Sessions, NEW w \in WsObjects(bodies),
         Sound(w, page[s].up, last[s], s \in sessions, popped),
         ws' = [ws EXCEPT ![s] = w],
         UNCHANGED <<com, omq, imq, sessions, popped, pageVars, lineVars, spent>>
  PROVE  IInv(bodies)'
<1>1. /\ ws' \in [Sessions -> WsObjects(bodies)]
      /\ \A r \in Sessions : ws'[r] = IF r = s THEN w ELSE ws[r]
  BY DEF IInv, Typed
<1>2. Typed(bodies)'
  BY <1>1 DEF IInv, Typed, pageVars, lineVars
<1>3. SessionsSound'
  BY <1>1 DEF IInv, SessionsSound, pageVars
<1>4. PortSound'
  BY DEF IInv, PortSound, lineVars
<1> QED
  BY <1>2, <1>3, <1>4 DEF IInv

LEMMA OnAcceptStep ==
  ASSUME NEW CONSTANT bodies, IInv(bodies), NEW s \in Sessions, OnAccept(s)
  PROVE  IInv(bodies)'
<1> DEFINE v == ws[s]
           sound(w) == Sound(w, page[s].up, last[s], s \in sessions, popped)
<1>1. v \in WsObjects(bodies) /\ sound(v) /\ v.reader = "accepting"
  BY DEF IInv, Typed, SessionsSound, OnAccept
<1>2. v.writer = "none" /\ v.buffer = <<>> /\ ~Over(v)
  <2>1. v.buffer \in Seq(Entries(bodies)) /\ v.writer = "none" /\ Len(v.buffer) = 0
    BY <1>1 DEF Sound, WsObjects
  <2> QED
    BY <1>1, <2>1, EmptySeq DEF Over
<1>3. CASE page[s].up
  <2> DEFINE w == [v EXCEPT !.reader = "reading"]
  <2>1. /\ w \in WsObjects(bodies) /\ w.reader = "reading"
        /\ w.queue = v.queue /\ w.permissions = v.permissions
    BY <1>1 DEF WsObjects
  <2>2. ws' = [ws EXCEPT ![s] = SessionDoWrite(w)]
    BY <1>3 DEF OnAccept
  <2> HIDE DEF w, v
  <2>3. sound(SessionDoWrite(w)) /\ SessionDoWrite(w) \in WsObjects(bodies)
    BY <1>1, <1>2, <2>1, DoWriteSound, DoWriteKeeps
  <2> QED
    BY <2>2, <2>3, SessionStep DEF OnAccept
<1>4. CASE ~page[s].up
  <2> DEFINE w == [v EXCEPT !.reader = "ended"]
  <2>1. w \in WsObjects(bodies) /\ ws' = [ws EXCEPT ![s] = w]
    BY <1>1, <1>4 DEF WsObjects, OnAccept
  <2>2. sound(w)
    BY <1>1, <1>2, <1>4 DEF Sound, WsObjects, Over
  <2> QED
    BY <2>1, <2>2, SessionStep DEF OnAccept
<1> QED
  BY <1>3, <1>4

LEMMA OnReadErrorStep ==
  ASSUME NEW CONSTANT bodies, IInv(bodies), NEW s \in Sessions, OnReadError(s)
  PROVE  IInv(bodies)'
<1> DEFINE w == [ws[s] EXCEPT !.reader = "ended"]
<1>1. /\ ws[s] \in WsObjects(bodies) /\ ws[s].reader = "reading"
      /\ Sound(ws[s], page[s].up, last[s], s \in sessions, popped)
  BY DEF IInv, Typed, SessionsSound, OnReadError
<1>2. w \in WsObjects(bodies) /\ ws' = [ws EXCEPT ![s] = w]
  BY <1>1 DEF WsObjects, OnReadError
<1>3. Sound(w, page[s].up, last[s], s \in sessions, popped)
  BY <1>1 DEF Sound, WsObjects, Over, OnReadError
<1> QED
  BY <1>2, <1>3, SessionStep DEF OnReadError

LEMMA DoWriteStep ==
  ASSUME NEW CONSTANT bodies, IInv(bodies), NEW s \in Sessions, DoWrite(s)
  PROVE  IInv(bodies)'
<1> DEFINE w == ws[s]
<1>1. /\ w \in WsObjects(bodies) /\ w.writer = "posted"
      /\ Sound(w, page[s].up, last[s], s \in sessions, popped)
  BY DEF IInv, Typed, SessionsSound, DoWrite
<1>2. /\ w.buffer = <<>> /\ ~Over(w)
      /\ w.reader = "reading" \/ w.reader = "ended"
  <2>1. w.buffer \in Seq(Entries(bodies)) /\ Len(w.buffer) = 0
    BY <1>1 DEF WsObjects, Sound
  <2> QED
    BY <1>1, <2>1, EmptySeq DEF WsObjects, Sound, Over
<1>3. ws' = [ws EXCEPT ![s] = SessionDoWrite(w)]
  BY DEF DoWrite
<1> HIDE DEF w
<1>4. /\ Sound(SessionDoWrite(w), page[s].up, last[s], s \in sessions, popped)
      /\ SessionDoWrite(w) \in WsObjects(bodies)
  BY <1>1, <1>2, DoWriteSound, DoWriteKeeps
<1> QED
  BY <1>3, <1>4, SessionStep DEF DoWrite

LEMMA OnWriteErrorStep ==
  ASSUME NEW CONSTANT bodies, IInv(bodies), NEW s \in Sessions, OnWriteError(s)
  PROVE  IInv(bodies)'
<1> DEFINE w == [ws[s] EXCEPT !.writer = "ended", !.buffer = <<>>]
<1>1. /\ ws[s] \in WsObjects(bodies) /\ ws[s].writer = "writing" /\ ~page[s].up
      /\ Sound(ws[s], page[s].up, last[s], s \in sessions, popped)
  BY DEF IInv, Typed, SessionsSound, OnWriteError
<1>2. <<>> \in Seq(Entries(bodies)) /\ Len(<<>>) = 0
  OBVIOUS
<1>3. w \in WsObjects(bodies) /\ ws' = [ws EXCEPT ![s] = w]
  BY <1>1, <1>2 DEF WsObjects, OnWriteError
<1>4. Sound(w, page[s].up, last[s], s \in sessions, popped)
  BY <1>1, <1>2 DEF Sound, WsObjects, Over
<1> QED
  BY <1>3, <1>4, SessionStep DEF OnWriteError

\* A page that takes a report shows it where it speaks of a gate, and nothing
\* else changes.
LEMMA ReceiveTyped ==
  ASSUME NEW CONSTANT bodies, Typed(bodies), NEW s \in Sessions,
         NEW report \in Entries(bodies), Receive(s, report)
  PROVE  /\ last' \in [Sessions -> Nat]
         /\ \A r \in Sessions : last'[r] = IF r = s THEN report.n ELSE last[r]
         /\ page' \in [Sessions -> PageObjects(bodies)]
         /\ \A r \in Sessions : /\ page'[r].up = page[r].up
                                /\ page'[r].configured = page[r].configured
                                /\ r # s => page'[r] = page[r]
         /\ page'[s].shown =
              IF page[s].configured
              THEN [g \in GateIds |-> IF g \in DOMAIN StatesOf(report.body)
                                      THEN StatesOf(report.body)[g]
                                      ELSE page[s].shown[g]]
              ELSE page[s].shown
<1> DEFINE states == StatesOf(report.body)
           shown == [g \in GateIds |-> IF g \in DOMAIN states
                                       THEN states[g] ELSE page[s].shown[g]]
<1>1. /\ last' = [last EXCEPT ![s] = report.n]
      /\ page' = IF page[s].configured THEN [page EXCEPT ![s].shown = shown] ELSE page
  BY DEF Receive, Typed
<1>2. /\ page \in [Sessions -> PageObjects(bodies)] /\ last \in [Sessions -> Nat]
      /\ report.n \in Nat /\ report.body \in bodies
  BY DEF Typed, Entries
<1>3. shown \in [GateIds -> Shown(bodies)]
  <2>1. \A g \in GateIds : states[g] \in Shown(bodies)
    BY <1>2 DEF Shown
  <2>2. \A g \in GateIds : page[s].shown[g] \in Shown(bodies)
    BY <1>2 DEF PageObjects
  <2> HIDE DEF states
  <2> QED
    BY <2>1, <2>2
<1> HIDE DEF shown
<1>4. /\ page' \in [Sessions -> PageObjects(bodies)]
      /\ \A r \in Sessions : /\ page'[r].up = page[r].up
                             /\ page'[r].configured = page[r].configured
                             /\ r # s => page'[r] = page[r]
      /\ page'[s].shown = IF page[s].configured THEN shown ELSE page[s].shown
  BY <1>1, <1>2, <1>3 DEF PageObjects
<1> QED
  BY <1>1, <1>2, <1>4 DEF shown

LEMMA OnWriteStep ==
  ASSUME NEW CONSTANT bodies, IInv(bodies), NEW s \in Sessions, OnWrite(s)
  PROVE  IInv(bodies)'
<1> DEFINE v == ws[s]
           w == SessionDoWrite(v)
<1>1. /\ v \in WsObjects(bodies) /\ v.writer = "writing" /\ Typed(bodies)
      /\ Sound(v, page[s].up, last[s], s \in sessions, popped)
      /\ last[s] \in Nat /\ popped \in Nat
  BY DEF IInv, Typed, SessionsSound, OnWrite
<1>2. /\ v.buffer \in Seq(Entries(bodies)) /\ v.queue \in Seq(Entries(bodies))
      /\ Len(v.buffer) = 1 /\ v.reader \notin {"none", "accepting"} /\ ~Over(v)
  BY <1>1 DEF WsObjects, Sound, Over
<1>3. /\ ws' = [ws EXCEPT ![s] = w]
      /\ IF page[s].up THEN Receive(s, Head(v.buffer)) ELSE UNCHANGED pageVars
      /\ UNCHANGED <<com, omq, imq, sessions, popped, lineVars, spent>>
  BY DEF OnWrite
<1> HIDE DEF v
<1>4. /\ w \in WsObjects(bodies)
      /\ w.permissions = v.permissions /\ w.reader = v.reader
      /\ w.writer \in {"posted", "writing"}
      /\ Len(w.buffer) = IF w.writer = "writing" THEN 1 ELSE 0
      /\ w.buffer \o w.queue = v.queue
  BY <1>1, DoWriteKeeps
<1> HIDE DEF w
<1>5. CASE ~page[s].up
  <2>1. Sound(w, page[s].up, last[s], s \in sessions, popped)
    BY <1>1, <1>2, <1>4, <1>5 DEF Sound, Over
  <2> QED
    BY <1>3, <1>4, <1>5, <2>1, SessionStep
<1>6. CASE page[s].up
  <2> DEFINE report == Head(v.buffer)
  <2>1. report \in Entries(bodies) /\ Receive(s, report)
    BY <1>2, <1>3, <1>6, HeadTailProperties, EmptySeq
  <2>2. /\ last' \in [Sessions -> Nat]
        /\ \A r \in Sessions : last'[r] = IF r = s THEN report.n ELSE last[r]
        /\ page' \in [Sessions -> PageObjects(bodies)]
        /\ \A r \in Sessions : page'[r].up = page[r].up
    BY <1>1, <2>1, ReceiveTyped
  <2>3. /\ ws' \in [Sessions -> WsObjects(bodies)]
        /\ \A r \in Sessions : ws'[r] = IF r = s THEN w ELSE ws[r]
    BY <1>3, <1>4 DEF IInv, Typed
  <2>4. v.permissions # "Blocked" =>
          report.n = last[s] + 1 /\ Numbered(v.queue, last[s] + 1, popped)
    <3>1. SUFFICES ASSUME v.permissions # "Blocked"
                   PROVE  report.n = last[s] + 1 /\ Numbered(v.queue, last[s] + 1, popped)
      OBVIOUS
    <3>2. Numbered(v.buffer \o v.queue, last[s], popped)
      BY <1>1, <1>2, <1>6, <3>1 DEF Sound
    <3> DEFINE seq == v.buffer \o v.queue
    <3>3. /\ seq \in Seq(Entries(bodies)) /\ seq # <<>>
          /\ Head(seq) = Head(v.buffer) /\ Tail(seq) = v.queue
      BY <1>2, BufferFirst
    <3> HIDE DEF seq
    <3>4. Head(seq).n = last[s] + 1 /\ Numbered(Tail(seq), last[s] + 1, popped)
      BY <1>1, <3>2, <3>3, NumberedTail DEF seq
    <3> QED
      BY <3>3, <3>4
  <2>5. Sound(w, page[s].up, report.n, s \in sessions, popped)
    BY <1>1, <1>2, <1>4, <1>6, <2>4 DEF Sound, Over
  <2> HIDE DEF report
  <2>6. SessionsSound'
    BY <1>3, <2>2, <2>3, <2>5 DEF IInv, SessionsSound
  <2>7. Typed(bodies)'
    BY <1>3, <2>2, <2>3 DEF IInv, Typed, lineVars
  <2>8. PortSound'
    BY <1>3 DEF IInv, PortSound, lineVars
  <2> QED
    BY <2>6, <2>7, <2>8 DEF IInv
<1> QED
  BY <1>5, <1>6

-----------------------------------------------------------------------------
\* Steps of the registry.

LEMMA UpgradeStep ==
  ASSUME NEW CONSTANT bodies, IInv(bodies), NEW s \in Sessions,
         NEW permissions \in Permissions, Upgrade(s, permissions)
  PROVE  IInv(bodies)'
<1> DEFINE w == [ws[s] EXCEPT !.permissions = permissions,
                              !.reader = IF permissions = "Blocked"
                                         THEN "ended" ELSE "accepting"]
<1>1. /\ ws[s] \in WsObjects(bodies) /\ ws[s].reader = "none"
      /\ Sound(ws[s], page[s].up, last[s], s \in sessions, popped)
      /\ popped \in Nat
  BY DEF IInv, Typed, SessionsSound, Upgrade, Born
<1>2. ws[s].writer = "none" /\ ws[s].queue = <<>> /\ ws[s].buffer = <<>>
  <2>1. ws[s].writer = "none" /\ ws[s].queue = <<>> /\ Len(ws[s].buffer) = 0
    BY <1>1 DEF Sound
  <2> QED
    BY <1>1, <2>1, EmptySeq DEF WsObjects
<1>3. /\ w \in WsObjects(bodies) /\ ws' = [ws EXCEPT ![s] = w]
      /\ w.writer = "none" /\ w.queue = <<>> /\ w.buffer = <<>>
      /\ w.permissions = permissions
      /\ w.reader = IF permissions = "Blocked" THEN "ended" ELSE "accepting"
  BY <1>1, <1>2 DEF WsObjects, Upgrade
<1> HIDE DEF w
<1>4. /\ ws' \in [Sessions -> WsObjects(bodies)]
      /\ \A r \in Sessions : ws'[r] = IF r = s THEN w ELSE ws[r]
      /\ last' \in [Sessions -> Nat]
      /\ \A r \in Sessions : last'[r] = IF r = s THEN popped ELSE last[r]
  BY <1>1, <1>3 DEF IInv, Typed, Upgrade
<1>5. omq' \in Seq(BoardRequests)
  BY DEF IInv, Typed, Upgrade, BoardRequests
<1>6. <<>> \o <<>> = <<>> /\ Len(<<>>) = 0 /\ DOMAIN <<>> = {}
  OBVIOUS
<1>7. Sound(w, page[s].up, popped, TRUE, popped)
  BY <1>1, <1>3, <1>6 DEF Sound, Over, Numbered
<1>8. SessionsSound'
  <2>1. page' = page /\ popped' = popped /\ sessions' = sessions \cup {s}
    BY DEF Upgrade
  <2>2. ASSUME NEW r \in Sessions, r # s
        PROVE  Sound(ws'[r], page'[r].up, last'[r], r \in sessions', popped')
    BY <1>4, <2>1, <2>2 DEF IInv, SessionsSound, Sound
  <2>3. Sound(ws'[s], page'[s].up, last'[s], s \in sessions', popped')
    BY <1>4, <1>7, <2>1 DEF Sound
  <2> QED
    BY <2>2, <2>3 DEF SessionsSound
<1>9. Typed(bodies)'
  BY <1>4, <1>5 DEF IInv, Typed, Upgrade, lineVars
<1>10. PortSound'
  BY DEF IInv, PortSound, Upgrade, lineVars
<1> QED
  BY <1>8, <1>9, <1>10 DEF IInv

\* update appends the oldest report to every session that is not expired, and
\* forgets the others.
LEMMA UpdateStep ==
  ASSUME NEW CONSTANT bodies, IInv(bodies), Update
  PROVE  IInv(bodies)'
<1> DEFINE live == {s \in sessions : ~Expired(s)}
           hands == imq # <<>> /\ Head(imq).type = "query_state_result"
<1>1. /\ sessions' = live
      /\ IF hands
         THEN /\ ws' = [s \in Sessions |->
                         IF s \in live
                         THEN [ws[s] EXCEPT !.queue = Append(ws[s].queue, Head(imq))]
                         ELSE ws[s]]
              /\ imq' = Tail(imq)
              /\ popped' = popped + 1
         ELSE UNCHANGED <<ws, imq, popped>>
      /\ UNCHANGED <<com, omq, pageVars, lineVars, spent>>
  BY DEF Update
<1>2. /\ live \subseteq sessions /\ sessions \subseteq Sessions
      /\ \A s \in Sessions : s \in live <=> s \in sessions /\ ~Over(ws[s])
  BY DEF IInv, Typed, Expired, Over
<1>3. CASE ~hands
  <2>1. Typed(bodies)'
    BY <1>1, <1>2, <1>3 DEF IInv, Typed, pageVars, lineVars
  <2>2. SessionsSound'
    BY <1>1, <1>2, <1>3 DEF IInv, SessionsSound, Sound, pageVars
  <2>3. PortSound'
    BY <1>1, <1>3 DEF IInv, PortSound, lineVars
  <2> QED
    BY <2>1, <2>2, <2>3 DEF IInv
<1>4. CASE hands
  <2> DEFINE report == Head(imq)
             longer(s) == [ws[s] EXCEPT !.queue = Append(ws[s].queue, report)]
  <2>1. /\ report \in Entries(bodies) /\ Tail(imq) \in Seq(Entries(bodies))
        /\ popped \in Nat
    BY <1>4, HeadTailProperties DEF IInv, Typed
  <2>2. report.n = popped + 1 /\ \A k \in DOMAIN Tail(imq) : Tail(imq)[k].n = popped + 1 + k
    <3>1. imq \in Seq(Entries(bodies)) /\ imq # <<>> /\ Len(imq) \in Nat
      BY <1>4 DEF IInv, Typed
    <3>2. Numbered(imq, popped, popped + Len(imq))
      BY DEF IInv, PortSound, Numbered
    <3>3. Head(imq).n = popped + 1 /\ Numbered(Tail(imq), popped + 1, popped + Len(imq))
      BY <2>1, <3>1, <3>2, NumberedTail
    <3> QED
      BY <3>3 DEF Numbered
  <2>3. \A s \in Sessions : ws[s] \in WsObjects(bodies) /\ last[s] \in Nat
    BY DEF IInv, Typed
  <2>4. /\ ws' = [s \in Sessions |-> IF s \in live THEN longer(s) ELSE ws[s]]
        /\ imq' = Tail(imq) /\ popped' = popped + 1
    BY <1>1, <1>4
  <2> HIDE DEF report, live
  <2>5. ASSUME NEW s \in Sessions
        PROVE  /\ longer(s) \in WsObjects(bodies)
               /\ longer(s).queue = Append(ws[s].queue, report)
               /\ longer(s).buffer = ws[s].buffer
               /\ longer(s).reader = ws[s].reader /\ longer(s).writer = ws[s].writer
               /\ longer(s).permissions = ws[s].permissions
    <3> DEFINE queue == Append(ws[s].queue, report)
    <3>1. queue \in Seq(Entries(bodies)) /\ ws[s] \in WsObjects(bodies)
      BY <2>1, <2>3, AppendProperties DEF WsObjects
    <3> HIDE DEF queue
    <3>2. LET w == [ws[s] EXCEPT !.queue = queue]
          IN  /\ w \in WsObjects(bodies) /\ w.queue = queue
              /\ w.buffer = ws[s].buffer /\ w.reader = ws[s].reader
              /\ w.writer = ws[s].writer /\ w.permissions = ws[s].permissions
      BY <3>1 DEF WsObjects
    <3> QED
      BY <3>2 DEF queue
  <2>6. ASSUME NEW s \in Sessions, s \in live
        PROVE  Sound(longer(s), page[s].up, last[s], TRUE, popped + 1)
    <3>1. /\ Sound(ws[s], page[s].up, last[s], TRUE, popped)
          /\ ws[s].queue \in Seq(Entries(bodies)) /\ ws[s].buffer \in Seq(Entries(bodies))
      BY <1>2, <2>3, <2>6 DEF IInv, SessionsSound, WsObjects
    <3>2. ws[s].reader # "none"
      BY <3>1 DEF Sound
    <3>3. ASSUME Numbered(ws[s].buffer \o ws[s].queue, last[s], popped)
          PROVE  Numbered(longer(s).buffer \o longer(s).queue, last[s], popped + 1)
      <4>1. longer(s).buffer \o longer(s).queue =
              Append(ws[s].buffer \o ws[s].queue, report)
        <5> DEFINE front == ws[s].buffer
                   back == ws[s].queue
        <5>1. /\ longer(s).buffer = front /\ longer(s).queue = Append(back, report)
              /\ front \in Seq(Entries(bodies)) /\ back \in Seq(Entries(bodies))
          BY <2>5, <3>1
        <5> HIDE DEF longer, front, back
        <5>2. front \o Append(back, report) = Append(front \o back, report)
          BY <2>1, <5>1, AppendConcat
        <5>3. longer(s).buffer \o longer(s).queue = Append(front \o back, report)
          BY <5>1, <5>2, Zenon
        <5> QED
          BY <5>3, Zenon DEF front, back
      <4>2. ws[s].buffer \o ws[s].queue \in Seq(Entries(bodies))
        BY <3>1, ConcatProperties
      <4> HIDE DEF longer
      <4> QED
        BY <2>1, <2>2, <2>3, <3>3, <4>1, <4>2, NumberedAppend
    <3> HIDE DEF longer
    <3> QED
      BY <2>5, <3>1, <3>2, <3>3 DEF Sound, Over
  <2>7. ASSUME NEW s \in Sessions, s \notin live
        PROVE  Sound(ws[s], page[s].up, last[s], FALSE, popped + 1)
    <3>1. Sound(ws[s], page[s].up, last[s], s \in sessions, popped)
      BY DEF IInv, SessionsSound
    <3>2. ws[s].reader # "none" => Over(ws[s])
      BY <1>2, <2>7, <3>1 DEF Sound
    <3> QED
      BY <3>1, <3>2 DEF Sound, Over
  <2>8. /\ ws' \in [Sessions -> WsObjects(bodies)]
        /\ \A s \in Sessions : ws'[s] = IF s \in live THEN longer(s) ELSE ws[s]
    <3> HIDE DEF longer
    <3> QED
      BY <2>3, <2>4, <2>5
  <2>9. SessionsSound'
    <3> HIDE DEF longer
    <3> QED
      <4>1. /\ page' = page /\ last' = last /\ popped' = popped + 1
            /\ \A s \in Sessions : s \in sessions' <=> s \in live
        BY <1>1, <2>4 DEF live, pageVars
      <4>2. ASSUME NEW s \in Sessions
            PROVE  Sound(ws'[s], page'[s].up, last'[s], s \in sessions', popped')
        BY <2>6, <2>7, <2>8, <4>1 DEF Sound
      <4> QED
        BY <4>2 DEF SessionsSound
  <2>10. Typed(bodies)'
    <3> HIDE DEF longer, hands
    <3>1. /\ sessions' = live /\ live \subseteq Sessions
          /\ UNCHANGED <<com, omq, page, last, rx, tx, cut, spent>>
      BY <1>1, <1>2 DEF pageVars, lineVars
    <3> QED
      BY <2>1, <2>4, <2>8, <3>1 DEF IInv, Typed
  <2>11. PortSound'
    BY <1>1, <2>2, <2>4 DEF IInv, PortSound, lineVars
  <2> QED
    BY <2>9, <2>10, <2>11 DEF IInv
<1> QED
  BY <1>3, <1>4

-----------------------------------------------------------------------------
\* Steps of the clients, the serial port and the board.

\* A step that touches neither the sessions nor the pages' places.
LEMMA SessionsUntouched ==
  ASSUME SessionsSound, UNCHANGED <<ws, last, sessions, popped>>,
         \A s \in Sessions : page'[s].up = page[s].up
  PROVE  SessionsSound'
BY DEF SessionsSound

LEMMA OnReadStep ==
  ASSUME NEW CONSTANT bodies, IInv(bodies), NEW s \in Sessions,
         NEW msg \in ClientMessages, OnRead(s, msg)
  PROVE  IInv(bodies)'
<1>1. UNCHANGED <<com, imq, sessions, ws, popped, page, last, rx, tx, cut>>
  BY DEF OnRead, pageVars, lineVars
<1>2. omq' \in Seq(BoardRequests) /\ spent' \in [clients : Nat, board : Nat]
  <2>1. omq' = omq \/ omq' = Append(omq, msg.request)
    BY DEF OnRead
  <2>2. msg.request \in BoardRequests /\ omq \in Seq(BoardRequests)
    BY DEF BoardRequests, IInv, Typed
  <2>3. spent' \in [clients : Nat, board : Nat]
    <3>1. /\ spent \in [clients : Nat, board : Nat]
          /\ spent' = [spent EXCEPT !.clients = spent.clients + 1]
      BY DEF OnRead, IInv, Typed
    <3> QED
      BY <3>1
  <2> QED
    BY <2>1, <2>2, <2>3
<1>3. Typed(bodies)'
  BY <1>1, <1>2 DEF IInv, Typed
<1>4. SessionsSound' /\ PortSound'
  BY <1>1, SessionsUntouched DEF IInv, PortSound
<1> QED
  BY <1>3, <1>4 DEF IInv

LEMMA ConfigLoadedStep ==
  ASSUME NEW CONSTANT bodies, IInv(bodies), NEW s \in Sessions, ConfigLoaded(s)
  PROVE  IInv(bodies)'
<1>1. UNCHANGED <<com, omq, imq, sessions, ws, popped, last, rx, tx, cut, spent>>
  BY DEF ConfigLoaded, serverVars, lineVars
<1>2. /\ page' \in [Sessions -> PageObjects(bodies)]
      /\ \A r \in Sessions : page'[r].up = page[r].up
  BY DEF ConfigLoaded, IInv, Typed, PageObjects
<1>3. Typed(bodies)'
  BY <1>1, <1>2 DEF IInv, Typed
<1>4. SessionsSound' /\ PortSound'
  BY <1>1, <1>2, SessionsUntouched DEF IInv, PortSound
<1> QED
  BY <1>3, <1>4 DEF IInv

LEMMA DisconnectStep ==
  ASSUME NEW CONSTANT bodies, IInv(bodies), NEW s \in Sessions, Disconnect(s)
  PROVE  IInv(bodies)'
<1>1. UNCHANGED <<com, omq, imq, sessions, ws, popped, last, rx, tx, cut, spent>>
  BY DEF Disconnect, serverVars, lineVars
<1>2. /\ page' \in [Sessions -> PageObjects(bodies)]
      /\ page'[s].up = FALSE
      /\ \A r \in Sessions \ {s} : page'[r].up = page[r].up
  BY DEF Disconnect, IInv, Typed, PageObjects
<1>3. Typed(bodies)'
  BY <1>1, <1>2 DEF IInv, Typed
<1>4. ASSUME NEW r \in Sessions
      PROVE  Sound(ws'[r], page'[r].up, last'[r], r \in sessions', popped')
  BY <1>1, <1>2 DEF IInv, SessionsSound, Sound
<1>5. SessionsSound' /\ PortSound'
  BY <1>1, <1>4 DEF IInv, SessionsSound, PortSound
<1> QED
  BY <1>3, <1>5 DEF IInv

\* do_write of the COM port.
LEMMA ComStartWriteTyped ==
  ASSUME NEW CONSTANT bodies, IInv(bodies), ComStartWrite(com)
  PROVE  /\ com' \in Loops /\ omq' \in Seq(BoardRequests)
         /\ Len(com'.buffer) = IF com'.writer = "writing" THEN 1 ELSE 0
<1>1. com \in Loops /\ omq \in Seq(BoardRequests)
  BY DEF IInv, Typed
<1>2. CASE omq = <<>>
  <2>1. <<>> \in Seq(BoardRequests) /\ Len(<<>>) = 0
    OBVIOUS
  <2> QED
    BY <1>1, <1>2, <2>1 DEF ComStartWrite, Loops
<1>3. CASE omq # <<>>
  <2> DEFINE front == <<Head(omq)>>
  <2>1. /\ front \in Seq(BoardRequests) /\ Len(front) = 1
        /\ Tail(omq) \in Seq(BoardRequests)
    BY <1>1, <1>3, HeadTail
  <2>2. /\ com' = [com EXCEPT !.writer = "writing", !.buffer = front]
        /\ omq' = Tail(omq)
    BY <1>3 DEF ComStartWrite
  <2> HIDE DEF front
  <2> QED
    BY <1>1, <2>1, <2>2 DEF Loops
<1> QED
  BY <1>2, <1>3

LEMMA ComDoWriteStep ==
  ASSUME NEW CONSTANT bodies, IInv(bodies), ComDoWrite
  PROVE  IInv(bodies)'
<1>1. UNCHANGED <<imq, sessions, ws, popped, page, last, rx, tx, cut, spent>>
  BY DEF ComDoWrite, pageVars, lineVars
<1>2. /\ com' \in Loops /\ omq' \in Seq(BoardRequests)
      /\ Len(com'.buffer) = IF com'.writer = "writing" THEN 1 ELSE 0
  BY ComStartWriteTyped DEF ComDoWrite
<1>3. Typed(bodies)' /\ PortSound'
  BY <1>1, <1>2 DEF IInv, Typed, PortSound
<1>4. SessionsSound'
  BY <1>1, SessionsUntouched DEF IInv
<1> QED
  BY <1>3, <1>4 DEF IInv

LEMMA ComOnWriteStep ==
  ASSUME NEW CONSTANT bodies, IInv(bodies), ComOnWrite
  PROVE  IInv(bodies)'
<1>1. UNCHANGED <<imq, sessions, ws, popped, page, last, tx, cut, spent>>
  BY DEF ComOnWrite, pageVars
<1>2. /\ com' \in Loops /\ omq' \in Seq(BoardRequests)
      /\ Len(com'.buffer) = IF com'.writer = "writing" THEN 1 ELSE 0
  BY ComStartWriteTyped DEF ComOnWrite
<1>3. rx' \in Seq(BoardRequests)
  <2>1. com.buffer \in Seq(BoardRequests) /\ rx \in Seq(BoardRequests)
    BY DEF IInv, Typed, Loops
  <2> QED
    BY <2>1, ConcatProperties DEF ComOnWrite
<1>4. Typed(bodies)' /\ PortSound'
  BY <1>1, <1>2, <1>3 DEF IInv, Typed, PortSound
<1>5. SessionsSound'
  BY <1>1, SessionsUntouched DEF IInv
<1> QED
  BY <1>4, <1>5 DEF IInv

\* Loops of the COM port that end, and a cable that is pulled.
LEMMA ComEndsStep ==
  ASSUME NEW CONSTANT bodies, IInv(bodies),
         ComOnWriteError \/ ComOnReadError \/ Unplug
  PROVE  IInv(bodies)'
<1>1. UNCHANGED <<omq, imq, sessions, ws, popped, page, last, rx, tx, cut, spent>>
  BY DEF ComOnWriteError, ComOnReadError, Unplug, pageVars, lineVars
<1>2. /\ com' \in Loops
      /\ Len(com'.buffer) = IF com'.writer = "writing" THEN 1 ELSE 0
  <2>1. com \in Loops /\ Len(com.buffer) = IF com.writer = "writing" THEN 1 ELSE 0
    BY DEF IInv, Typed, PortSound
  <2>2. <<>> \in Seq(BoardRequests) /\ Len(<<>>) = 0
    OBVIOUS
  <2>3. CASE ComOnWriteError
    <3>1. com' = [com EXCEPT !.writer = "ended", !.buffer = <<>>]
      BY <2>3 DEF ComOnWriteError
    <3>2. com'.buffer = <<>> /\ com'.writer = "ended"
      BY <2>1, <3>1 DEF Loops
    <3>3. com' \in Loops
      BY <2>1, <2>2, <3>1 DEF Loops
    <3> QED
      BY <2>2, <3>2, <3>3
  <2>4. CASE ComOnReadError \/ Unplug
    BY <2>1, <2>4 DEF ComOnReadError, Unplug, Loops
  <2> QED
    BY <2>3, <2>4
<1>3. Typed(bodies)' /\ PortSound'
  BY <1>1, <1>2 DEF IInv, Typed, PortSound
<1>4. SessionsSound'
  BY <1>1, SessionsUntouched DEF IInv
<1> QED
  BY <1>3, <1>4 DEF IInv

\* A read numbers its message after all that are queued.
LEMMA ComOnReadStep ==
  ASSUME NEW CONSTANT bodies, IInv(bodies),
         NEW k \in 0 .. Len(tx), NEW more \in BOOLEAN, ComOnRead(k, more)
  PROVE  IInv(bodies)'
<1>1. UNCHANGED <<com, omq, sessions, ws, popped, page, last, rx, spent>>
  BY DEF ComOnRead, pageVars
<1>2. /\ tx \in Seq(bodies) /\ Len(tx) \in Nat
      /\ imq \in Seq(Entries(bodies)) /\ Len(imq) \in Nat /\ popped \in Nat
  BY DEF IInv, Typed
<1>3. tx' \in Seq(bodies) /\ cut' \in BOOLEAN /\ (cut' => tx' # <<>>)
  <2>1. tx' = SubSeq(tx, k + 1, Len(tx)) /\ cut' = more /\ (more => k < Len(tx))
    BY DEF ComOnRead
  <2>2. /\ tx' \in Seq(bodies)
        /\ Len(tx') = IF k + 1 <= Len(tx) THEN Len(tx) - (k + 1) + 1 ELSE 0
    BY <1>2, <2>1, SubSeqProperties, \A j \in k + 1 .. Len(tx) : tx[j] \in bodies
  <2>3. ASSUME more PROVE tx' # <<>>
    <3>1. Len(tx') \in Nat \ {0}
      BY <1>2, <2>1, <2>2, <2>3
    <3> QED
      BY <3>1, EmptySeq
  <2> QED
    BY <2>1, <2>2, <2>3
<1>4. imq' \in Seq(Entries(bodies)) /\ \A j \in DOMAIN imq' : imq'[j].n = popped + j
  <2>1. CASE imq' = imq
    BY <1>2, <2>1 DEF IInv, PortSound
  <2>2. CASE imq' # imq
    <3>1. PICK type \in StrToType(Head(tx).type) :
            imq' = Append(imq, [n |-> popped + Len(imq) + 1, type |-> type, body |-> Head(tx)])
      BY <2>2 DEF ComOnRead
    <3> DEFINE e == [n |-> popped + Len(imq) + 1, type |-> type, body |-> Head(tx)]
    <3>2. e \in Entries(bodies) /\ e.n = popped + Len(imq) + 1
      <4>1. k = 1
        BY <2>2 DEF ComOnRead
      <4>2. Head(tx) \in bodies
        BY <1>2, <4>1
      <4>3. type \in MessageType
        BY <3>1 DEF StrToType
      <4> QED
        BY <1>2, <4>2, <4>3 DEF Entries
    <3> HIDE DEF e
    <3>3. Numbered(imq, popped, popped + Len(imq))
      BY DEF IInv, PortSound, Numbered
    <3>4. imq' = Append(imq, e)
      BY <3>1 DEF e
    <3>5. Numbered(Append(imq, e), popped, popped + Len(imq) + 1)
      <4>1. popped + Len(imq) \in Nat
        BY <1>2
      <4> QED
        BY <1>2, <3>2, <3>3, <4>1, NumberedAppend
    <3>6. Numbered(imq', popped, popped + Len(imq) + 1) /\ imq' \in Seq(Entries(bodies))
      BY <1>2, <3>2, <3>4, <3>5, AppendProperties
    <3> QED
      BY <3>6 DEF Numbered
  <2> QED
    BY <2>1, <2>2
<1>5. Typed(bodies)' /\ PortSound'
  BY <1>1, <1>3, <1>4 DEF IInv, Typed, PortSound
<1>6. SessionsSound'
  BY <1>1, SessionsUntouched DEF IInv
<1> QED
  BY <1>5, <1>6 DEF IInv

\* The far end of the line, whatever it is: it takes requests and writes bodies.
LEMMA FarEndStep ==
  ASSUME NEW CONSTANT bodies, IInv(bodies),
         UNCHANGED <<com, omq, imq, sessions, ws, popped, page, last, cut>>,
         rx' \in Seq(BoardRequests), tx' \in Seq(bodies), Len(tx') >= Len(tx),
         spent' \in [clients : Nat, board : Nat]
  PROVE  IInv(bodies)'
<1>1. Typed(bodies)'
  BY DEF IInv, Typed
<1>2. cut' => tx' # <<>>
  <2>1. tx \in Seq(bodies) /\ (cut => tx # <<>>)
    BY DEF IInv, Typed, PortSound
  <2> QED
    BY <2>1, EmptySeq
<1>3. PortSound' /\ SessionsSound'
  BY <1>2, SessionsUntouched DEF IInv, PortSound
<1> QED
  BY <1>1, <1>3 DEF IInv

LEMMA FarBoardStep ==
  ASSUME NEW CONSTANT bodies, ArduinoMessages \subseteq bodies, IInv(bodies), Board
  PROVE  IInv(bodies)'
<1>1. /\ UNCHANGED <<com, omq, imq, sessions, ws, popped, page, last, cut>>
      /\ rx \in Seq(BoardRequests) /\ tx \in Seq(bodies)
      /\ spent \in [clients : Nat, board : Nat]
  BY DEF Board, BoardReads, BoardWrites, serverVars, pageVars, IInv, Typed
<1>2. CASE BoardReads
  <2>1. rx' \in Seq(BoardRequests) /\ tx' = tx /\ spent' = spent
    BY <1>1, <1>2 DEF BoardReads
  <2> QED
    BY <1>1, <2>1, FarEndStep
<1>3. ASSUME NEW msg \in ArduinoMessages, BoardWrites(msg)
      PROVE  IInv(bodies)'
  <2>1. rx' = rx /\ tx' = Append(tx, msg) /\ msg \in bodies
    BY <1>3 DEF BoardWrites
  <2>2. spent' \in [clients : Nat, board : Nat]
    BY <1>1, <1>3 DEF BoardWrites
  <2>3. tx' \in Seq(bodies) /\ Len(tx') >= Len(tx)
    BY <1>1, <2>1, AppendProperties
  <2> QED
    BY <1>1, <2>1, <2>2, <2>3, FarEndStep
<1> QED
  BY <1>2, <1>3 DEF Board

-----------------------------------------------------------------------------
\* The invariant.

LEMMA InitIInv ==
  ASSUME NEW CONSTANT bodies, Init
  PROVE  IInv(bodies)
<1>1. \A S : <<>> \in Seq(S)
  OBVIOUS
<1>2. Len(<<>>) = 0 /\ DOMAIN <<>> = {}
  OBVIOUS
<1>3. ws \in [Sessions -> WsObjects(bodies)]
  <2>1. [permissions |-> "Blocked", reader |-> "none", writer |-> "none",
         failing |-> FALSE, buffer |-> <<>>, queue |-> <<>>] \in WsObjects(bodies)
    BY <1>1 DEF WsObjects, Permissions
  <2> QED
    BY <2>1 DEF Init
<1>4. page \in [Sessions -> PageObjects(bodies)]
  BY BridgeAssumption DEF Init, PageObjects, Shown
<1>5. com \in Loops
  BY <1>1 DEF Init, Loops
<1>6. Typed(bodies)
  <2>1. /\ omq = <<>> /\ imq = <<>> /\ rx = <<>> /\ tx = <<>>
        /\ sessions = {} /\ popped = 0 /\ cut = FALSE
        /\ last \in [Sessions -> Nat] /\ spent \in [clients : Nat, board : Nat]
    BY DEF Init
  <2>2. /\ omq \in Seq(BoardRequests) /\ imq \in Seq(Entries(bodies))
        /\ rx \in Seq(BoardRequests) /\ tx \in Seq(bodies)
    BY <1>1, <2>1
  <2> QED
    BY <1>3, <1>4, <1>5, <2>1, <2>2 DEF Typed
<1>7. SessionsSound
  <2>1. ASSUME NEW s \in Sessions
        PROVE  /\ ws[s].permissions = "Blocked" /\ ws[s].reader = "none"
               /\ ws[s].writer = "none" /\ ws[s].buffer = <<>> /\ ws[s].queue = <<>>
               /\ s \notin sessions
    BY DEF Init
  <2>2. ASSUME NEW s \in Sessions
        PROVE  Sound(ws[s], page[s].up, last[s], s \in sessions, popped)
    BY <1>2, <2>1 DEF Sound
  <2> QED
    BY <2>2 DEF SessionsSound
<1>8. PortSound
  BY <1>2 DEF Init, PortSound
<1> QED
  BY <1>6, <1>7, <1>8 DEF IInv

LEMMA ServerIInv ==
  ASSUME NEW CONSTANT bodies, IInv(bodies), Server
  PROVE  IInv(bodies)'
<1>1. CASE Com
  BY <1>1, ComDoWriteStep, ComOnWriteStep, ComEndsStep, ComOnReadStep DEF Com
<1>2. CASE Update
  BY <1>2, UpdateStep
<1>3. ASSUME NEW s \in Sessions, Session(s)
      PROVE  IInv(bodies)'
  BY <1>3, OnAcceptStep, OnReadErrorStep, DoWriteStep, OnWriteStep, OnWriteErrorStep
     DEF Session
<1>4. ASSUME NEW s \in Sessions, Clients(s)
      PROVE  IInv(bodies)'
  <2>1. PermissionsOf[s] \subseteq Permissions
    BY BridgeAssumption DEF Permissions
  <2>2. CASE \E permissions \in PermissionsOf[s] : Upgrade(s, permissions)
    BY <2>1, <2>2, UpgradeStep
  <2>3. CASE \E msg \in ClientMessages : OnRead(s, msg)
    BY <2>3, OnReadStep
  <2>4. CASE ConfigLoaded(s) \/ Disconnect(s)
    BY <2>4, ConfigLoadedStep, DisconnectStep
  <2> QED
    BY <1>4, <2>2, <2>3, <2>4 DEF Clients
<1> QED
  BY <1>1, <1>2, <1>3, <1>4 DEF Server

LEMMA NextIInv == IInv(ArduinoMessages) /\ [Next]_vars => IInv(ArduinoMessages)'
<1> SUFFICES ASSUME IInv(ArduinoMessages), [Next]_vars
             PROVE  IInv(ArduinoMessages)'
  OBVIOUS
<1>1. CASE Server
  BY <1>1, ServerIInv
<1>2. CASE Unplug
  BY <1>2, ComEndsStep
<1>3. CASE Board
  BY <1>3, FarBoardStep
<1>4. CASE UNCHANGED vars
  <2>1. UNCHANGED <<com, omq, imq, sessions, ws, popped, page, last, rx, tx, cut, spent>>
    BY <1>4 DEF vars, serverVars, lineVars, pageVars
  <2> QED
    BY <2>1 DEF IInv, Typed, SessionsSound, PortSound
<1> QED
  BY <1>1, <1>2, <1>3, <1>4 DEF Next

LEMMA Invariance == Spec => []IInv(ArduinoMessages)
<1>1. Init => IInv(ArduinoMessages)
  BY InitIInv
<1> QED
  BY <1>1, NextIInv, PTL DEF Spec

-----------------------------------------------------------------------------
\* What the invariant says.

\* The server's objects stay well typed: a buffer holds a message exactly while
\* it is being written, and a part of a message has been read only if the rest
\* is still on the line.
THEOREM Typing == Spec => []TypeOK
<1>1. IInv(ArduinoMessages) => TypeOK
  <2> SUFFICES ASSUME IInv(ArduinoMessages)
               PROVE  TypeOK
    OBVIOUS
  <2>1. /\ com.reader \in {"reading", "ended"}
        /\ com.writer \in {"posted", "writing", "ended"}
        /\ com.plugged \in BOOLEAN
        /\ Len(com.buffer) = IF com.writer = "writing" THEN 1 ELSE 0
        /\ sessions \subseteq Sessions
        /\ popped \in Nat /\ last \in [Sessions -> Nat]
        /\ cut \in BOOLEAN /\ (cut => tx # <<>>)
    <3>1. com \in Loops /\ Len(com.buffer) = IF com.writer = "writing" THEN 1 ELSE 0
      BY DEF IInv, Typed, PortSound
    <3>2. /\ sessions \subseteq Sessions
          /\ popped \in Nat /\ last \in [Sessions -> Nat]
          /\ cut \in BOOLEAN /\ (cut => tx # <<>>)
      BY DEF IInv, Typed, PortSound
    <3>3. /\ com.reader \in {"reading", "ended"}
          /\ com.writer \in {"posted", "writing", "ended"}
          /\ com.plugged \in BOOLEAN
      BY <3>1 DEF Loops
    <3> QED
      BY <3>1, <3>2, <3>3
  <2>2. ASSUME NEW queue \in Seq(Entries(ArduinoMessages)), NEW k \in DOMAIN queue
        PROVE  Entry(queue[k])
    <3>1. queue[k] \in Entries(ArduinoMessages)
      BY ElementOfSeq, LenProperties
    <3> QED
      BY <3>1 DEF Entry, Entries
  <2>3. \A k \in DOMAIN imq : Entry(imq[k])
    BY <2>2 DEF IInv, Typed
  <2>4. ASSUME NEW s \in Sessions
        PROVE  /\ ws[s].permissions \in Permissions
               /\ ws[s].reader \in {"none", "accepting", "reading", "ended"}
               /\ ws[s].writer \in {"none", "posted", "writing", "ended"}
               /\ ws[s].failing \in BOOLEAN
               /\ Len(ws[s].buffer) = IF ws[s].writer = "writing" THEN 1 ELSE 0
               /\ \A k \in DOMAIN ws[s].queue : Entry(ws[s].queue[k])
    <3>1. ws[s] \in WsObjects(ArduinoMessages)
      BY DEF IInv, Typed
    <3>2. Len(ws[s].buffer) = IF ws[s].writer = "writing" THEN 1 ELSE 0
      BY DEF IInv, SessionsSound, Sound
    <3>3. /\ ws[s].permissions \in Permissions
          /\ ws[s].reader \in {"none", "accepting", "reading", "ended"}
          /\ ws[s].writer \in {"none", "posted", "writing", "ended"}
          /\ ws[s].failing \in BOOLEAN
      BY <3>1 DEF WsObjects
    <3>4. ws[s].queue \in Seq(Entries(ArduinoMessages))
      BY <3>1 DEF WsObjects
    <3> QED
      BY <3>2, <3>3, <3>4, <2>2
  <2>5. ASSUME NEW s \in Sessions
        PROVE  /\ page[s].up \in BOOLEAN /\ page[s].configured \in BOOLEAN
               /\ DOMAIN page[s].shown = GateIds
    BY DEF IInv, Typed, PageObjects
  <2> QED
    BY <2>1, <2>3, <2>4, <2>5 DEF TypeOK
<1> QED
  BY <1>1, Invariance, PTL

\* common_state::update and websocket_session lose, repeat or reorder no report
\* on its way from the serial port to an open page.
THEOREM ReportsInOrder == Spec => []GapFreeDelivery
<1>1. IInv(ArduinoMessages) => GapFreeDelivery
  BY DEF IInv, SessionsSound, Sound, PortSound, Numbered, GapFreeDelivery, Pending, Born
<1> QED
  BY <1>1, Invariance, PTL

\* The registry of common_state has every session that some handler serves.
THEOREM RegistryComplete == Spec => []LiveSessionsRegistered
<1>1. IInv(ArduinoMessages) => LiveSessionsRegistered
  BY DEF IInv, SessionsSound, Sound, Over, LiveSessionsRegistered, Expired, Born
<1> QED
  BY <1>1, Invariance, PTL

-----------------------------------------------------------------------------
\* Commands.

QuerySeqs == Seq({QueryAllGates})

OnlyQueries == omq \in QuerySeqs /\ com.buffer \in QuerySeqs /\ rx \in QuerySeqs

\* Nobody has ever been granted Control: a session that is not made yet has no
\* permissions, and no step takes any away.
NobodyControls == \A s \in Sessions : ws[s].permissions # "Control"

LEMMA ControlIsKept ==
  ASSUME NEW CONSTANT bodies, IInv(bodies), Server \/ UNCHANGED ws, NobodyControls'
  PROVE  NobodyControls
<1> SUFFICES ASSUME NEW s \in Sessions, ws[s].permissions = "Control"
             PROVE  ws'[s].permissions = "Control"
  BY DEF NobodyControls
<1>1. /\ ws \in [Sessions -> WsObjects(bodies)]
      /\ ws[s].reader # "none"
  BY DEF IInv, Typed, SessionsSound, Sound
<1>2. CASE UNCHANGED ws
  BY <1>2
<1>3. CASE Update
  <2>1. \/ ws' = ws
        \/ \E live : ws' = [r \in Sessions |->
                             IF r \in live
                             THEN [ws[r] EXCEPT !.queue = Append(@, Head(imq))]
                             ELSE ws[r]]
    BY <1>3 DEF Update
  <2>2. \/ ws'[s] = ws[s]
        \/ ws'[s] = [ws[s] EXCEPT !.queue = Append(ws[s].queue, Head(imq))]
    BY <2>1
  <2> QED
    BY <1>1, <2>2 DEF WsObjects
<1>4. ASSUME NEW r \in Sessions, NEW permissions, Upgrade(r, permissions)
      PROVE  ws'[s] = ws[s]
  BY <1>1, <1>4 DEF Upgrade, Born
<1>5. ASSUME NEW r \in Sessions, Session(r)
      PROVE  ws'[s].permissions = ws[s].permissions
  <2>1. ws[r] \in WsObjects(bodies)
    BY <1>1
  <2>2. SessionDoWrite(ws[r]).permissions = ws[r].permissions
    BY <2>1, DoWriteKeeps
  <2>3. SessionDoWrite([ws[r] EXCEPT !.reader = "reading"]).permissions = ws[r].permissions
    <3> DEFINE w == [ws[r] EXCEPT !.reader = "reading"]
    <3>1. w \in WsObjects(bodies) /\ w.permissions = ws[r].permissions
      BY <2>1 DEF WsObjects
    <3> HIDE DEF w
    <3>2. SessionDoWrite(w).permissions = ws[r].permissions
      BY <3>1, DoWriteKeeps
    <3> QED
      BY <3>2 DEF w
  <2>4. CASE OnAccept(r)
    BY <1>1, <2>1, <2>3, <2>4 DEF OnAccept, WsObjects
  <2>5. CASE OnReadError(r) \/ OnWriteError(r)
    <3> DEFINE w == IF OnReadError(r)
                    THEN [ws[r] EXCEPT !.reader = "ended"]
                    ELSE [ws[r] EXCEPT !.writer = "ended", !.buffer = <<>>]
    <3>1. ws' = [ws EXCEPT ![r] = w]
      BY <2>5 DEF OnReadError, OnWriteError
    <3>2. w.permissions = ws[r].permissions
      BY <2>1 DEF WsObjects
    <3> HIDE DEF w
    <3> QED
      BY <1>1, <3>1, <3>2
  <2>6. CASE DoWrite(r) \/ OnWrite(r)
    BY <1>1, <2>2, <2>6 DEF DoWrite, OnWrite
  <2> QED
    BY <1>5, <2>4, <2>5, <2>6 DEF Session
<1>6. ASSUME NEW r \in Sessions, Clients(r),
             ~\E permissions \in PermissionsOf[r] : Upgrade(r, permissions)
      PROVE  UNCHANGED ws
  BY <1>6 DEF Clients, OnRead, ConfigLoaded, Disconnect, serverVars
<1>7. CASE Com
  BY <1>7 DEF Com, ComDoWrite, ComOnWrite, ComOnWriteError, ComOnReadError, ComOnRead
<1> QED
  BY <1>2, <1>3, <1>4, <1>5, <1>6, <1>7 DEF Server

\* do_write of the COM port writes what is queued.
LEMMA ComStartWriteQueries ==
  ASSUME com \in Loops, omq \in QuerySeqs, ComStartWrite(com)
  PROVE  omq' \in QuerySeqs /\ com'.buffer \in QuerySeqs
<1>1. CASE omq = <<>>
  BY <1>1 DEF ComStartWrite, QuerySeqs, Loops
<1>2. CASE omq # <<>>
  <2> DEFINE front == <<Head(omq)>>
  <2>1. front \in QuerySeqs /\ Tail(omq) \in QuerySeqs
    BY <1>2, HeadTail DEF QuerySeqs
  <2>2. /\ com' = [com EXCEPT !.writer = "writing", !.buffer = front]
        /\ omq' = Tail(omq)
    BY <1>2 DEF ComStartWrite
  <2> HIDE DEF front
  <2> QED
    BY <2>1, <2>2 DEF Loops
<1> QED
  BY <1>1, <1>2

\* A loop of the COM port that ends, or the cable that goes, drops at most a message.
LEMMA ComEndsQueries ==
  ASSUME com \in Loops, OnlyQueries, ComOnWriteError \/ ComOnReadError \/ Unplug
  PROVE  OnlyQueries'
<1>1. UNCHANGED <<omq, rx>>
  BY DEF ComOnWriteError, ComOnReadError, Unplug, lineVars
<1>2. com'.buffer = com.buffer \/ com'.buffer = <<>>
  BY DEF ComOnWriteError, ComOnReadError, Unplug, Loops
<1> QED
  BY <1>1, <1>2, EmptySeq DEF OnlyQueries, QuerySeqs

\* Without a controller the server puts nothing but queries on the line.
LEMMA ServerOnlyQueries ==
  ASSUME NEW CONSTANT bodies, IInv(bodies), NobodyControls, OnlyQueries, Server
  PROVE  OnlyQueries'
<1>1. /\ com \in Loops /\ omq \in QuerySeqs /\ com.buffer \in QuerySeqs
      /\ rx \in QuerySeqs
  BY DEF OnlyQueries, IInv, Typed
<1>2. CASE UNCHANGED <<com, omq, rx>>
  BY <1>2 DEF OnlyQueries
<1>3. CASE ComDoWrite
  BY <1>1, <1>3, ComStartWriteQueries DEF ComDoWrite, lineVars, OnlyQueries
<1>4. CASE ComOnWrite
  <2>1. omq' \in QuerySeqs /\ com'.buffer \in QuerySeqs /\ rx' = rx \o com.buffer
    BY <1>1, <1>4, ComStartWriteQueries DEF ComOnWrite
  <2>2. rx' \in QuerySeqs
    BY <1>1, <2>1, ConcatProperties DEF QuerySeqs
  <2> QED
    BY <2>1, <2>2 DEF OnlyQueries
<1>5. CASE ComOnWriteError \/ ComOnReadError
  BY <1>1, <1>5, ComEndsQueries
<1>6. ASSUME NEW s \in Sessions, NEW permissions, Upgrade(s, permissions)
      PROVE  OnlyQueries'
  <2>1. omq' = Append(omq, QueryAllGates) /\ UNCHANGED <<com, rx>>
    BY <1>6 DEF Upgrade, lineVars
  <2> QED
    BY <1>1, <2>1, AppendProperties DEF OnlyQueries, QuerySeqs
<1>7. ASSUME NEW s \in Sessions, NEW msg \in ClientMessages, OnRead(s, msg)
      PROVE  UNCHANGED <<com, omq, rx>>
  BY <1>7 DEF OnRead, NobodyControls, lineVars
<1>8. ASSUME \/ Update
             \/ \E s \in Sessions : Session(s) \/ ConfigLoaded(s) \/ Disconnect(s)
             \/ \E k \in 0 .. Len(tx), more \in BOOLEAN : ComOnRead(k, more)
      PROVE  UNCHANGED <<com, omq, rx>>
  BY <1>8 DEF Update, Session, OnAccept, OnReadError, DoWrite, OnWrite, OnWriteError,
              ConfigLoaded, Disconnect, ComOnRead, serverVars, lineVars
<1> QED
  BY <1>2, <1>3, <1>4, <1>5, <1>6, <1>7, <1>8 DEF Server, Com, Clients

LEMMA NextOnlyQueries ==
  ASSUME IInv(ArduinoMessages), NobodyControls, OnlyQueries, [Next]_vars
  PROVE  OnlyQueries'
<1>1. com \in Loops /\ rx \in QuerySeqs
  BY DEF OnlyQueries, IInv, Typed
<1>2. CASE Server
  BY <1>2, ServerOnlyQueries
<1>3. CASE Unplug
  BY <1>1, <1>3, ComEndsQueries
<1>4. CASE BoardReads
  <2>1. rx # <<>> /\ rx' = Tail(rx) /\ UNCHANGED <<com, omq>>
    BY <1>4 DEF BoardReads, serverVars
  <2> QED
    BY <1>1, <2>1, HeadTail DEF OnlyQueries, QuerySeqs
<1>5. ASSUME UNCHANGED vars \/ \E msg \in ArduinoMessages : BoardWrites(msg)
      PROVE  UNCHANGED <<com, omq, rx>>
  BY <1>5 DEF BoardWrites, vars, serverVars, lineVars
<1> QED
  BY <1>2, <1>3, <1>4, <1>5 DEF OnlyQueries, Next, Board

\* Only a controller's messages reach the board: without one, everything queued
\* for it, being written to it or on the line is a query of the server's own.
THEOREM CommandsNeedControl == Spec => []NoControllerNoCommand
<1> DEFINE inv == NobodyControls => OnlyQueries
<1>1. Init => inv
  BY EmptySeq DEF Init, OnlyQueries, QuerySeqs
<1>2. IInv(ArduinoMessages) /\ inv /\ [Next]_vars => inv'
  <2> SUFFICES ASSUME IInv(ArduinoMessages), inv, [Next]_vars, NobodyControls'
               PROVE  OnlyQueries'
    OBVIOUS
  <2>1. Server \/ UNCHANGED ws
    BY DEF Next, Board, BoardReads, BoardWrites, Unplug, vars, serverVars
  <2>2. NobodyControls
    BY <2>1, ControlIsKept
  <2> QED
    BY <2>2, NextOnlyQueries
<1>3. inv => NoControllerNoCommand
  <2>1. \A queue \in QuerySeqs : \A k \in DOMAIN queue : queue[k] = QueryAllGates
    BY ElementOfSeq, LenProperties DEF QuerySeqs
  <2> QED
    BY <2>1 DEF OnlyQueries, NobodyControls, NoControllerNoCommand
<1> HIDE DEF inv
<1> QED
  BY <1>1, <1>2, <1>3, Invariance, PTL DEF Spec
=============================================================================
