------------------------- MODULE ReplicationProofs --------------------------
(***************************************************************************)
(* Proofs about Replication for any keys and values, any backlog and any   *)
(* number of writes, faults and connections.                               *)
(***************************************************************************)
EXTENDS Replication, TLAPS

\* Connections are used in turn; the current one carries the handshake until the
\* follower has taken it, and replicated lines only after that.
ConnFacts ==
  /\ \A c \in Conn : c > conn => wireState[c] = "unused" /\ wire[c] = <<>> /\ c \notin acked
  /\ pc \in {"handshake", "snapshot", "stream", "cleanup"} => conn \in Conn
  /\ pc \in {"snapshot", "stream"} => conn \in acked
  /\ conn \in Conn => IF conn \in acked THEN wire[conn] \in Seq(Lines)
                                        ELSE wire[conn] \in {<<>>, <<Handshake>>}

\* The streaming loop starts when the snapshot has been sent; a follower that
\* took the handshake is empty until the cut, unless an older connection's lines
\* get in between.
CutFacts ==
  /\ pc = "stream" => snap = Empty
  /\ pc = "handshake" /\ conn \in acked /\ Open(conn)
       => wire[conn] = <<>> /\ (overlapped \/ broken \/ copy = Empty)

IInv == TypeOK /\ NoBacklogWithoutSender /\ ConnFacts /\ CutFacts /\ NothingMissed
-----------------------------------------------------------------------------
(* Lines. *)

\* A line has a key, which the handshake has not.
LEMMA LineFacts ==
  /\ \A k, v : Line(k, v).key = k /\ Line(k, v).val = v
  /\ \A k \in Key, v \in Value \cup {Absent} : Line(k, v) \in Lines
  /\ \A l \in Lines : /\ l.key \in Key /\ l.val \in Value \cup {Absent}
                      /\ l = Line(l.key, l.val) /\ l # Handshake
  /\ Handshake \notin Lines
<1>1. \A k, v : Line(k, v).key = k /\ Line(k, v).val = v
  BY DEF Line
<1>2. \A k \in Key, v \in Value \cup {Absent} : Line(k, v) \in Lines
  BY DEF Lines
<1>3. ASSUME NEW l \in Lines
      PROVE  l.key \in Key /\ l.val \in Value \cup {Absent} /\ l = Line(l.key, l.val)
  <2>1. PICK k \in Key, v \in Value \cup {Absent} : l = Line(k, v)
    BY DEF Lines
  <2> QED
    BY <1>1, <2>1
<1>4. Handshake.key \notin Key
  BY ReplicationAssumption DEF Handshake
<1> QED
  BY <1>1, <1>2, <1>3, <1>4

\* A line at the end decides about its key and about no other.
LEMMA AppendedLine ==
  ASSUME NEW s \in Seq(Lines), NEW k \in Key, NEW v \in Value \cup {Absent}
  PROVE  LET t == Append(s, Line(k, v))
         IN  /\ t \in Seq(Lines)
             /\ Says(t, k, v)
             /\ \A m \in Key : m # k => /\ Silent(s, m) => Silent(t, m)
                                        /\ \A w : Says(s, m, w) => Says(t, m, w)
<1> DEFINE t == Append(s, Line(k, v))
<1>1. /\ Len(s) \in Nat /\ Len(t) = Len(s) + 1 /\ t \in Seq(Lines)
      /\ t[Len(s) + 1] = Line(k, v) /\ \A i \in 1..Len(s) : t[i] = s[i]
  BY LineFacts
<1> HIDE DEF t
<1>2. Says(t, k, v)
  BY <1>1 DEF Says
<1>3. ASSUME NEW m \in Key, m # k
      PROVE  /\ Silent(s, m) => Silent(t, m)
             /\ \A w : Says(s, m, w) => Says(t, m, w)
  <2>1. t[Len(s) + 1].key # m
    BY <1>1, <1>3, LineFacts
  <2>2. Silent(s, m) => Silent(t, m)
    BY <1>1, <2>1 DEF Silent
  <2>3. ASSUME NEW w, Says(s, m, w) PROVE Says(t, m, w)
    <3>1. PICK i \in 1..Len(s) : s[i] = Line(m, w) /\ \A j \in (i + 1)..Len(s) : s[j].key # m
      BY <2>3 DEF Says
    <3>2. \A j \in (i + 1)..Len(t) : t[j].key # m
      BY <1>1, <2>1, <3>1
    <3> QED
      BY <1>1, <3>1, <3>2 DEF Says
  <2> QED
    BY <2>2, <2>3
<1> QED
  BY <1>1, <1>2, <1>3 DEF t

\* What a sequence of lines says is said by its tail or, if that is silent, by
\* its first line.
LEMMA FirstLine ==
  ASSUME NEW s \in Seq(Lines), s # <<>>, NEW k \in Key, NEW v
  PROVE  /\ Head(s) \in Lines /\ Tail(s) \in Seq(Lines)
         /\ Silent(s, k) => Silent(Tail(s), k) /\ Head(s).key # k
         /\ Says(s, k, v) => \/ Says(Tail(s), k, v)
                             \/ Silent(Tail(s), k) /\ Head(s) = Line(k, v)
<1> DEFINE t == Tail(s)
<1>1. /\ Len(s) \in Nat \ {0} /\ Len(t) = Len(s) - 1 /\ t \in Seq(Lines)
      /\ Head(s) = s[1] /\ s[1] \in Lines
      /\ \A i \in 1..Len(t) : t[i] = s[i + 1]
  OBVIOUS
<1> HIDE DEF t
<1>2. Silent(s, k) => Silent(t, k) /\ Head(s).key # k
  BY <1>1 DEF Silent
<1>3. ASSUME Says(s, k, v)
      PROVE  Says(t, k, v) \/ (Silent(t, k) /\ Head(s) = Line(k, v))
  <2>1. PICK i \in 1..Len(s) : s[i] = Line(k, v) /\ \A j \in (i + 1)..Len(s) : s[j].key # k
    BY <1>3 DEF Says
  <2>2. CASE i = 1
    BY <1>1, <2>1, <2>2 DEF Silent
  <2>3. CASE i > 1
    <3>1. i - 1 \in 1..Len(t) /\ t[i - 1] = Line(k, v)
      BY <1>1, <2>1, <2>3
    <3>2. \A j \in ((i - 1) + 1)..Len(t) : t[j].key # k
      BY <1>1, <2>1, <2>3
    <3> QED
      BY <3>1, <3>2 DEF Says
  <2> QED
    BY <2>2, <2>3
<1> QED
  BY <1>1, <1>2, <1>3 DEF t

\* An empty sequence says nothing, and is a backlog.
LEMMA NothingSaid ==
  /\ \A k : Silent(<<>>, k)
  /\ <<>> \in Seq(Lines) /\ <<>> \in Seq(Lines \cup {Handshake})
  /\ Len(<<>>) <= MaxQueue
<1>1. Len(<<>>) = 0 /\ 0 <= MaxQueue
  BY ReplicationAssumption
<1> QED
  BY <1>1 DEF Silent
-----------------------------------------------------------------------------
(* One lemma per group of actions that disturb the same facts. *)

LEMMA InitIInv ==
  ASSUME Init
  PROVE  IInv
<1>1. TypeOK
  <2>1. Empty \in Map /\ 0 \in 0..MaxConn /\ 0 \in 0..MaxWrites /\ 0 \in 0..MaxFaults
    BY ReplicationAssumption DEF Map, Empty
  <2>2. data \in Map
    BY DEF Init, Map
  <2> QED
    BY <2>1, <2>2, NothingSaid DEF Init, TypeOK
<1> QED
  BY <1>1 DEF Init, IInv, NoBacklogWithoutSender, ConnFacts, CutFacts, NothingMissed, Live, Conn

\* A write adds a line to the backlog of a link that streams.
LEMMA WriteKeepsIInv ==
  ASSUME IInv, NEW k \in Key, NEW v \in Value \cup {Absent}, Write(k, v)
  PROVE  IInv'
<1>1. /\ UNCHANGED <<stop, pc, conn, snap, wire, wireState, acked, refused, copy, broken,
                     overlapped, faults, unread>>
      /\ writes < MaxWrites /\ writes' = writes + 1
      /\ data' = [data EXCEPT ![k] = v] /\ enqueue(Line(k, v))
  BY DEF Write, sender, net, follower
<1>2. /\ queue \in Seq(Lines) /\ Len(queue) \in Nat /\ Len(queue) <= MaxQueue
      /\ data \in [Key -> Value \cup {Absent}] /\ writes \in Nat
  BY ReplicationAssumption DEF IInv, TypeOK, Map
<1>3. \/ UNCHANGED link /\ ~streaming
      \/ queue' = <<>> /\ streaming' = FALSE /\ resync' = TRUE
      \/ /\ streaming /\ UNCHANGED <<streaming, resync>>
         /\ Len(queue) < MaxQueue /\ queue' = Append(queue, Line(k, v))
  BY <1>1 DEF enqueue
<1>4. TypeOK'
  <2>1. queue' \in Seq(Lines) /\ Len(queue') <= MaxQueue
    <3>1. CASE queue' = queue
      BY <1>2, <3>1
    <3>2. CASE queue' = <<>>
      BY <3>2, NothingSaid
    <3>3. CASE Len(queue) < MaxQueue /\ queue' = Append(queue, Line(k, v))
      BY <1>2, <3>3, LineFacts, ReplicationAssumption
    <3> QED
      BY <1>3, <3>1, <3>2, <3>3 DEF link
  <2>2. data' \in Map /\ writes' \in 0..MaxWrites
    BY <1>1, <1>2, ReplicationAssumption DEF Map
  <2>3. streaming' \in BOOLEAN /\ resync' \in BOOLEAN
    BY <1>3 DEF link, IInv, TypeOK
  <2> QED
    BY <1>1, <2>1, <2>2, <2>3 DEF IInv, TypeOK
<1>5. NoBacklogWithoutSender'
  BY <1>1, <1>3 DEF IInv, NoBacklogWithoutSender, link
<1>6. NothingMissed'
  <2> SUFFICES ASSUME Live', ~overlapped, ~unread, ~broken, NEW m \in Key
               PROVE  Yields(m, data[m])'
    BY <1>1 DEF NothingMissed
  <2>1. streaming' /\ queue' = Append(queue, Line(k, v)) /\ Live
    BY <1>1, <1>3 DEF Live, Open, link
  <2>2. Yields(m, data[m])
    BY <2>1 DEF IInv, NothingMissed
  <2>3. CASE m = k
    BY <1>1, <1>2, <2>1, <2>3, AppendedLine DEF Yields
  <2>4. CASE m # k
    <3>1. data'[m] = data[m]
      BY <1>1, <1>2, <2>4
    <3>2. /\ Silent(queue, m) => Silent(queue', m)
          /\ \A w : Says(queue, m, w) => Says(queue', m, w)
      BY <1>2, <2>1, <2>4, AppendedLine
    <3> QED
      BY <1>1, <2>2, <3>1, <3>2 DEF Yields
  <2> QED
    BY <2>3, <2>4
<1>7. ConnFacts' /\ CutFacts'
  BY <1>1 DEF IInv, ConnFacts, CutFacts, Open
<1> QED
  BY <1>4, <1>5, <1>6, <1>7 DEF IInv

LEMMA ConnectKeepsIInv ==
  ASSUME IInv, Connect
  PROVE  IInv'
<1>1. /\ UNCHANGED <<data, queue, streaming, resync, stop, snap, acked, refused, copy, broken,
                     overlapped, writes, faults, unread>>
      /\ pc = "connect" /\ pc' = "handshake" /\ conn' = conn + 1
      /\ conn \in Nat /\ conn' \in Conn
      /\ wireState' = [wireState EXCEPT ![conn'] = "open"]
      /\ wire' = [wire EXCEPT ![conn'] = <<Handshake>>]
  BY ReplicationAssumption DEF Connect, link, follower, bounds, IInv, TypeOK, Conn
<1>2. conn' \notin acked
  BY <1>1 DEF IInv, ConnFacts
<1>3. TypeOK'
  <2>1. conn' \in 0..MaxConn
    BY <1>1 DEF Conn
  <2>2. <<Handshake>> \in Seq(Lines \cup {Handshake})
    OBVIOUS
  <2> QED
    BY <1>1, <2>1, <2>2 DEF IInv, TypeOK
<1>4. wire'[conn'] = <<Handshake>>
  BY <1>1 DEF IInv, TypeOK
<1>5. ConnFacts'
  <2>1. \A c \in Conn : c > conn' =>
          wireState'[c] = "unused" /\ wire'[c] = <<>> /\ c \notin acked
    BY <1>1 DEF IInv, ConnFacts, TypeOK, Conn
  <2> QED
    BY <1>1, <1>2, <1>4, <2>1 DEF ConnFacts
<1> QED
  BY <1>1, <1>2, <1>3, <1>5
     DEF IInv, NoBacklogWithoutSender, CutFacts, NothingMissed, Live

\* The follower is empty and nothing is in transit: the snapshot is all there is.
LEMMA CutKeepsIInv ==
  ASSUME IInv, Cut
  PROVE  IInv'
<1>1. /\ UNCHANGED <<data, stop, conn, wire, wireState, acked, refused, copy, broken,
                     overlapped, writes>>
      /\ pc = "handshake" /\ pc' = "snapshot" /\ conn \in acked /\ conn \in Conn
      /\ queue' = <<>> /\ resync' = FALSE /\ streaming' = TRUE
      /\ \/ snap' = data /\ unread' = FALSE /\ UNCHANGED faults
         \/ snap' = Empty /\ unread' = TRUE /\ Fault
  BY DEF Cut, net, follower, IInv, ConnFacts
<1>2. TypeOK'
  <2>1. Empty \in Map /\ faults' \in 0..MaxFaults
    BY <1>1, ReplicationAssumption DEF Empty, Map, Fault, IInv, TypeOK
  <2> QED
    BY <1>1, <2>1, NothingSaid DEF IInv, TypeOK
<1>3. NothingMissed'
  <2> SUFFICES ASSUME Live', ~overlapped, ~unread', ~broken, NEW k \in Key
               PROVE  Yields(k, data[k])'
    BY <1>1 DEF NothingMissed
  <2>1. snap' = data /\ wire[conn] = <<>> /\ copy = Empty
    BY <1>1 DEF IInv, CutFacts, Live, Open
  <2> QED
    BY <1>1, <2>1, NothingSaid DEF Yields, Empty
<1> QED
  BY <1>1, <1>2, <1>3 DEF IInv, NoBacklogWithoutSender, ConnFacts, CutFacts

\* A line sent on the current connection.
LEMMA SendKeepsConnFacts ==
  ASSUME IInv, pc \in {"snapshot", "stream"}, NEW k \in Key, NEW v \in Value \cup {Absent},
         Send(conn, Line(k, v)), pc' = pc, conn' = conn, wireState' = wireState,
         acked' = acked
  PROVE  /\ ConnFacts' /\ wire' \in [Conn -> Seq(Lines \cup {Handshake})]
         /\ conn \in Conn /\ wire[conn] \in Seq(Lines)
         /\ Open(conn) => wire'[conn] = Append(wire[conn], Line(k, v))
<1>1. conn \in Conn /\ conn \in acked /\ wire[conn] \in Seq(Lines)
  BY DEF IInv, ConnFacts
<1>2. wire \in [Conn -> Seq(Lines \cup {Handshake})]
  BY DEF IInv, TypeOK
<1>3. Append(wire[conn], Line(k, v)) \in Seq(Lines)
  BY <1>1, LineFacts
<1>4. Append(wire[conn], Line(k, v)) \in Seq(Lines \cup {Handshake})
  BY <1>1, <1>2, LineFacts
<1>5. \/ wire' = [wire EXCEPT ![conn] = Append(wire[conn], Line(k, v))]
      \/ wire' = wire /\ ~Open(conn)
  BY DEF Send
<1>6. wire' \in [Conn -> Seq(Lines \cup {Handshake})] /\ wire'[conn] \in Seq(Lines)
  BY <1>1, <1>2, <1>3, <1>4, <1>5
<1>7. \A c \in Conn : c # conn => wire'[c] = wire[c]
  BY <1>2, <1>5
<1>8. ConnFacts'
  <2>1. conn \in Nat
    BY <1>1 DEF Conn
  <2> QED
    BY <1>1, <1>6, <1>7, <2>1 DEF IInv, ConnFacts, Conn
<1> QED
  BY <1>1, <1>2, <1>5, <1>6, <1>8

LEMMA SendSnapshotKeepsIInv ==
  ASSUME IInv, NEW k \in Key, SendSnapshot(k)
  PROVE  IInv'
<1>1. /\ UNCHANGED <<data, queue, streaming, resync, stop, pc, conn, wireState, acked, refused,
                     copy, broken, overlapped, writes, faults, unread>>
      /\ pc = "snapshot" /\ snap[k] # Absent /\ Send(conn, Line(k, snap[k]))
      /\ snap' = [snap EXCEPT ![k] = Absent]
      /\ snap \in [Key -> Value \cup {Absent}]
  BY DEF SendSnapshot, link, follower, bounds, IInv, TypeOK, Map
<1>2. /\ ConnFacts' /\ wire' \in [Conn -> Seq(Lines \cup {Handshake})]
      /\ conn \in Conn /\ wire[conn] \in Seq(Lines)
      /\ Open(conn) => wire'[conn] = Append(wire[conn], Line(k, snap[k]))
  BY <1>1, SendKeepsConnFacts
<1>3. TypeOK'
  <2>1. snap' \in Map
    BY <1>1 DEF Map
  <2> QED
    BY <1>1, <1>2, <2>1 DEF IInv, TypeOK
<1>4. NothingMissed'
  <2> SUFFICES ASSUME Live, ~overlapped, ~unread, ~broken, NEW m \in Key
               PROVE  Yields(m, data[m])'
    BY <1>1 DEF NothingMissed, Live, Open
  <2>1. wire'[conn] = Append(wire[conn], Line(k, snap[k]))
    BY <1>2 DEF Live
  <2>2. Yields(m, data[m])
    BY DEF IInv, NothingMissed
  <2>3. CASE m = k
    <3>1. Says(wire'[conn], k, snap[k]) /\ snap'[k] = Absent
      BY <1>1, <1>2, <2>1, AppendedLine
    <3> QED
      BY <1>1, <2>2, <2>3, <3>1 DEF Yields
  <2>4. CASE m # k
    <3>1. /\ snap'[m] = snap[m]
          /\ Silent(wire[conn], m) => Silent(wire'[conn], m)
          /\ \A w : Says(wire[conn], m, w) => Says(wire'[conn], m, w)
      BY <1>1, <1>2, <2>1, <2>4, AppendedLine
    <3> QED
      BY <1>1, <2>2, <3>1 DEF Yields
  <2> QED
    BY <2>3, <2>4
<1> QED
  BY <1>1, <1>2, <1>3, <1>4 DEF IInv, NoBacklogWithoutSender, CutFacts

\* A line leaves the backlog for the connection: last of those in transit, and
\* before those still queued.
LEMMA SendLineKeepsIInv ==
  ASSUME IInv, SendLine
  PROVE  IInv'
<1> DEFINE h == Head(queue)
<1>1. /\ UNCHANGED <<data, streaming, resync, stop, pc, conn, snap, wireState, acked, refused,
                     copy, broken, overlapped, writes, faults, unread>>
      /\ pc = "stream" /\ snap = Empty /\ queue # <<>> /\ Send(conn, h)
      /\ queue' = Tail(queue) /\ queue \in Seq(Lines) /\ Len(queue) <= MaxQueue
  BY DEF SendLine, sender, follower, bounds, IInv, TypeOK, CutFacts
<1>2. h \in Lines /\ queue' \in Seq(Lines)
  BY <1>1
<1>3. h.key \in Key /\ h.val \in Value \cup {Absent} /\ h = Line(h.key, h.val)
  BY <1>2, LineFacts
<1> HIDE DEF h
<1>4. /\ ConnFacts' /\ wire' \in [Conn -> Seq(Lines \cup {Handshake})]
      /\ conn \in Conn /\ wire[conn] \in Seq(Lines)
      /\ Open(conn) => wire'[conn] = Append(wire[conn], Line(h.key, h.val))
  BY <1>1, <1>3, SendKeepsConnFacts
<1>5. TypeOK'
  <2>1. Len(queue') <= MaxQueue
    BY <1>1, ReplicationAssumption
  <2> QED
    BY <1>1, <1>2, <1>4, <2>1 DEF IInv, TypeOK
<1>6. NothingMissed'
  <2> SUFFICES ASSUME Live, ~overlapped, ~unread, ~broken, NEW m \in Key
               PROVE  Yields(m, data[m])'
    BY <1>1 DEF NothingMissed, Live, Open
  <2>1. wire'[conn] = Append(wire[conn], Line(h.key, h.val))
    BY <1>4 DEF Live
  <2>2. Yields(m, data[m])
    BY DEF IInv, NothingMissed
  <2>3. snap[m] = Absent /\ snap'[m] = Absent
    BY <1>1 DEF Empty
  <2>4. /\ Silent(queue, m) => Silent(queue', m) /\ h.key # m
        /\ Says(queue, m, data[m]) => \/ Says(queue', m, data[m])
                                      \/ Silent(queue', m) /\ h = Line(m, data[m])
    BY <1>1, FirstLine DEF h
  <2>5. /\ Says(wire'[conn], h.key, h.val)
        /\ m # h.key => /\ Silent(wire[conn], m) => Silent(wire'[conn], m)
                        /\ \A w : Says(wire[conn], m, w) => Says(wire'[conn], m, w)
    BY <1>3, <1>4, <2>1, AppendedLine
  <2>6. h = Line(m, data[m]) => h.key = m /\ h.val = data[m]
    BY LineFacts
  <2> QED
    BY <1>1, <2>2, <2>3, <2>4, <2>5, <2>6 DEF Yields
<1> QED
  BY <1>1, <1>4, <1>5, <1>6 DEF IInv, NoBacklogWithoutSender, CutFacts

\* The steps that only move the sender thread.
LEMMA SenderMovesKeepIInv ==
  ASSUME IInv,
         HandshakeRefused \/ SnapshotSent \/ LeaveStream \/ SendFails \/ ExitSender \/ Stop
  PROVE  IInv'
<1>1. /\ UNCHANGED <<data, queue, streaming, conn, snap, wire, wireState, acked, refused, copy,
                     broken, overlapped, writes, unread>>
      /\ faults' = faults \/ Fault
      /\ resync' \in {resync, FALSE} /\ stop' \in {stop, TRUE}
      /\ \/ pc' = pc
         \/ pc = "snapshot" /\ pc' = "stream" /\ snap = Empty
         \/ pc \in {"handshake", "snapshot", "stream"} /\ pc' = "cleanup"
         \/ pc = "connect" /\ pc' = "exited"
  BY DEF HandshakeRefused, SnapshotSent, LeaveStream, SendFails, ExitSender, Stop,
         link, sender, net, follower, bounds
<1>2. TypeOK'
  <2>1. faults' \in 0..MaxFaults
    BY <1>1, ReplicationAssumption DEF Fault, IInv, TypeOK
  <2> QED
    BY <1>1, <2>1 DEF IInv, TypeOK
<1>3. NothingMissed'
  BY <1>1 DEF IInv, NothingMissed, Live, Open, Yields
<1> QED
  BY <1>1, <1>2, <1>3 DEF IInv, NoBacklogWithoutSender, ConnFacts, CutFacts, Open

LEMMA CleanupKeepsIInv ==
  ASSUME IInv, Cleanup
  PROVE  IInv'
<1>1. /\ UNCHANGED <<data, resync, stop, conn, wire, acked, refused, copy, broken, overlapped,
                     writes, faults, unread>>
      /\ pc = "cleanup" /\ pc' \in {"exited", "connect"} /\ conn \in Conn
      /\ streaming' = FALSE /\ queue' = <<>> /\ snap' = Empty
      /\ wireState' = [wireState EXCEPT ![conn] = IF Open(conn) THEN "closed" ELSE @]
  BY DEF Cleanup, follower, bounds, IInv, ConnFacts
<1>2. TypeOK'
  <2>1. Empty \in Map
    BY DEF Empty, Map
  <2>2. wireState' \in [Conn -> {"unused", "open", "closed", "dead"}]
    BY <1>1 DEF IInv, TypeOK
  <2> QED
    BY <1>1, <2>1, <2>2, NothingSaid DEF IInv, TypeOK
<1>3. \A c \in Conn : c > conn => wireState'[c] = wireState[c]
  BY <1>1 DEF IInv, TypeOK, Conn
<1> QED
  BY <1>1, <1>2, <1>3
     DEF IInv, NoBacklogWithoutSender, ConnFacts, CutFacts, NothingMissed, Live

\* The follower takes the next line of the current connection, or one of an
\* older connection, which from the handshake on is an overlap.
LEMMA ExecuteKeepsIInv ==
  ASSUME IInv, NEW c \in Conn, Execute(c)
  PROVE  IInv'
<1> DEFINE l == Head(wire[c])
<1>1. /\ UNCHANGED <<data, queue, streaming, resync, stop, pc, conn, snap, wireState, writes,
                     unread>>
      /\ wire[c] # <<>> /\ wire' = [wire EXCEPT ![c] = Tail(wire[c])]
      /\ overlapped' = (overlapped \/ NewerSynced(c))
      /\ \/ l = Handshake /\ ResetForSync(c)
         \/ l # Handshake /\ Apply(c, l)
  BY DEF Execute, link, sender
<1>2. /\ wire \in [Conn -> Seq(Lines \cup {Handshake})] /\ copy \in Map
      /\ acked \subseteq Conn /\ refused \subseteq Conn /\ broken \in BOOLEAN
      /\ overlapped \in BOOLEAN /\ faults \in 0..MaxFaults
      /\ MaxFaults \in Nat /\ conn \in Nat /\ c \in Nat
  BY ReplicationAssumption DEF IInv, TypeOK, Conn
<1>3. ~(c > conn)
  BY <1>1 DEF IInv, ConnFacts
<1>4. l \in Lines \cup {Handshake} /\ Tail(wire[c]) \in Seq(Lines \cup {Handshake})
  BY <1>1, <1>2
<1>5. /\ wire'[c] = Tail(wire[c])
      /\ \A d \in Conn : d # c => wire'[d] = wire[d]
      /\ wire' \in [Conn -> Seq(Lines \cup {Handshake})]
  BY <1>1, <1>2, <1>4
<1> HIDE DEF l
<1>6. TypeOK'
  <2>1. copy' \in Map /\ faults' \in 0..MaxFaults /\ broken' \in BOOLEAN
        /\ acked' \subseteq Conn /\ refused' \subseteq Conn
    <3>1. CASE ResetForSync(c)
      <4>1. copy' = Empty /\ Empty \in Map
        BY <3>1 DEF ResetForSync, Map, Empty
      <4>2. faults' = faults \/ Fault
        BY <3>1 DEF ResetForSync
      <4>3. broken' \in BOOLEAN /\ acked' \subseteq Conn /\ refused' \subseteq Conn
        BY <1>2, <3>1 DEF ResetForSync
      <4> QED
        BY <1>2, <4>1, <4>2, <4>3 DEF Fault
    <3>2. CASE l # Handshake /\ Apply(c, l)
      <4>1. l.key \in Key /\ l.val \in Value \cup {Absent}
        BY <1>4, <3>2, LineFacts
      <4>2. copy' \in Map
        BY <1>2, <3>2, <4>1 DEF Apply, Map
      <4>3. faults' = faults \/ Fault
        BY <3>2 DEF Apply
      <4>4. broken' \in BOOLEAN /\ acked' \subseteq Conn /\ refused' \subseteq Conn
        BY <1>2, <3>2 DEF Apply
      <4> QED
        BY <1>2, <4>2, <4>3, <4>4 DEF Fault
    <3> QED
      BY <1>1, <3>1, <3>2
  <2>2. overlapped' \in BOOLEAN
    BY <1>1, <1>2 DEF NewerSynced
  <2> QED
    BY <1>1, <1>5, <2>1, <2>2 DEF IInv, TypeOK
<1>7. CASE c = conn /\ conn \notin acked
  <2>1. wire[conn] = <<Handshake>>
    BY <1>1, <1>7 DEF IInv, ConnFacts
  <2>2. l = Handshake /\ wire'[conn] = <<>> /\ pc \notin {"snapshot", "stream"}
    BY <1>5, <1>7, <2>1 DEF l, IInv, ConnFacts
  <2>3. ResetForSync(c)
    BY <1>1, <2>2
  <2>4. copy' = Empty /\ acked' \in {acked, acked \cup {conn}}
    BY <1>7, <2>3 DEF ResetForSync
  <2>5. ConnFacts'
    BY <1>1, <1>2, <1>5, <1>7, <2>2, <2>4, NothingSaid DEF IInv, ConnFacts
  <2> QED
    BY <1>1, <1>6, <1>7, <2>2, <2>4, <2>5
       DEF IInv, NoBacklogWithoutSender, CutFacts, NothingMissed, Live, Open
<1>8. CASE c = conn /\ conn \in acked
  <2>1. wire[conn] \in Seq(Lines)
    BY <1>8 DEF IInv, ConnFacts
  <2>2. l \in Lines /\ l # Handshake /\ wire'[conn] \in Seq(Lines)
    <3>1. l \in Lines /\ wire'[conn] \in Seq(Lines)
      BY <1>1, <1>5, <1>8, <2>1 DEF l
    <3> QED
      BY <3>1, LineFacts
  <2>3. Apply(c, l) /\ acked' = acked
    BY <1>1, <2>2 DEF Apply
  <2>4. ConnFacts'
    BY <1>1, <1>2, <1>5, <1>8, <2>2, <2>3 DEF IInv, ConnFacts
  <2>5. CutFacts'
    BY <1>1, <1>8, <2>3 DEF IInv, CutFacts, Open
  <2>6. NothingMissed'
    <3> SUFFICES ASSUME Live', ~overlapped', ~unread', ~broken', NEW m \in Key
                 PROVE  Yields(m, data[m])'
      BY DEF NothingMissed
    <3>1. ~broken /\ copy' = [copy EXCEPT ![l.key] = l.val]
      BY <2>3 DEF Apply
    <3>2. Yields(m, data[m])
      BY <1>1, <3>1 DEF IInv, NothingMissed, Live, Open
    <3>3. /\ Silent(wire[conn], m) => Silent(wire'[conn], m) /\ l.key # m
          /\ Says(wire[conn], m, data[m]) => \/ Says(wire'[conn], m, data[m])
                                             \/ Silent(wire'[conn], m) /\ l = Line(m, data[m])
      BY <1>1, <1>5, <1>8, <2>1, FirstLine DEF l
    <3>4. l = Line(m, data[m]) => l.key = m /\ l.val = data[m]
      BY LineFacts
    <3>5. /\ l.key # m => copy'[m] = copy[m]
          /\ l.key = m => copy'[m] = l.val
      BY <1>2, <3>1 DEF Map
    <3> QED
      BY <1>1, <3>2, <3>3, <3>4, <3>5 DEF Yields
  <2> QED
    BY <1>1, <1>6, <2>4, <2>5, <2>6 DEF IInv, NoBacklogWithoutSender
<1>9. CASE c < conn
  <2>1. /\ conn \in acked' <=> conn \in acked
        /\ \A d \in Conn : d > conn => (d \in acked' <=> d \in acked)
    BY <1>1, <1>2, <1>9 DEF Apply, ResetForSync
  <2>2. conn \in acked => overlapped'
    BY <1>1, <1>9 DEF NewerSynced
  <2>3. ConnFacts'
    BY <1>1, <1>2, <1>5, <1>9, <2>1 DEF IInv, ConnFacts
  <2>4. CutFacts'
    BY <1>1, <1>2, <1>5, <1>9, <2>1, <2>2 DEF IInv, ConnFacts, CutFacts, Open
  <2>5. NothingMissed'
    BY <1>1, <2>2 DEF IInv, ConnFacts, NothingMissed, Live
  <2> QED
    BY <1>1, <1>6, <2>3, <2>4, <2>5 DEF IInv, NoBacklogWithoutSender
<1> QED
  BY <1>2, <1>3, <1>7, <1>8, <1>9

\* Connections that die are not Live; the others are untouched.
LEMMA ResetKeepsIInv ==
  ASSUME IInv, NEW c \in Conn, Reset(c)
  PROVE  IInv'
<1>1. /\ UNCHANGED <<data, queue, streaming, resync, stop, pc, conn, snap, acked, refused, copy,
                     broken, overlapped, writes, unread>>
      /\ wireState[c] # "unused" /\ Fault
      /\ wireState' = [wireState EXCEPT ![c] = "dead"] /\ wire' = [wire EXCEPT ![c] = <<>>]
  BY DEF Reset, link, sender, follower
<1>2. TypeOK'
  <2>1. faults' \in 0..MaxFaults
    BY <1>1, ReplicationAssumption DEF Fault, IInv, TypeOK
  <2> QED
    BY <1>1, <2>1, NothingSaid DEF IInv, TypeOK
<1>3. \A d \in Conn : /\ d # c => wire'[d] = wire[d] /\ wireState'[d] = wireState[d]
                      /\ d = c => wire'[d] = <<>> /\ wireState'[d] = "dead"
  BY <1>1 DEF IInv, TypeOK
<1>4. ConnFacts' /\ CutFacts'
  BY <1>1, <1>3, NothingSaid DEF IInv, ConnFacts, CutFacts, Open
<1>5. NothingMissed'
  <2> SUFFICES ASSUME Live', ~overlapped, ~unread, ~broken, NEW m \in Key
               PROVE  Yields(m, data[m])'
    BY <1>1 DEF NothingMissed
  <2>1. conn \in Conn /\ conn # c
    BY <1>1, <1>3 DEF Live, Open, IInv, ConnFacts
  <2> QED
    BY <1>1, <1>3, <2>1 DEF IInv, NothingMissed, Live, Open, Yields
<1> QED
  BY <1>1, <1>2, <1>4, <1>5 DEF IInv, NoBacklogWithoutSender

LEMMA RestartsKeepIInv ==
  ASSUME IInv, FollowerRestart \/ LeaderRestart
  PROVE  IInv'
<1>1. faults' \in 0..MaxFaults /\ Empty \in Map
  BY ReplicationAssumption DEF FollowerRestart, LeaderRestart, Fault, IInv, TypeOK, Empty, Map
<1>2. CASE FollowerRestart
  <2>1. /\ UNCHANGED <<data, queue, streaming, resync, stop, pc, conn, snap, acked, refused,
                       overlapped, writes, unread>>
        /\ copy' \in {copy, Empty} /\ broken' = FALSE
        /\ wireState' = [c \in Conn |-> IF wireState[c] = "unused" THEN "unused" ELSE "dead"]
        /\ wire' = [c \in Conn |-> <<>>]
    BY <1>2 DEF FollowerRestart, link, sender
  <2>2. TypeOK'
    BY <1>1, <2>1, NothingSaid DEF IInv, TypeOK
  <2>3. ConnFacts'
    BY <2>1, NothingSaid DEF IInv, ConnFacts
  <2>4. CutFacts' /\ NothingMissed'
    BY <2>1 DEF IInv, ConnFacts, CutFacts, NothingMissed, Live, Open
  <2> QED
    BY <2>1, <2>2, <2>3, <2>4 DEF IInv, NoBacklogWithoutSender
<1>3. CASE LeaderRestart
  <2>1. /\ UNCHANGED <<conn, wire, acked, refused, copy, broken, overlapped, writes, unread>>
        /\ data' \in {data, Empty} /\ pc' = "connect" /\ snap' = Empty
        /\ queue' = <<>> /\ streaming' = FALSE /\ resync' = FALSE /\ stop' = FALSE
        /\ wireState' = [c \in Conn |-> IF Open(c) THEN "closed" ELSE wireState[c]]
    BY <1>3 DEF LeaderRestart, follower
  <2>2. wireState' \in [Conn -> {"unused", "open", "closed", "dead"}]
    BY <2>1 DEF IInv, TypeOK
  <2>3. TypeOK'
    BY <1>1, <2>1, <2>2, NothingSaid DEF IInv, TypeOK
  <2>4. ConnFacts'
    BY <2>1 DEF IInv, ConnFacts, Open
  <2> QED
    BY <2>1, <2>3, <2>4 DEF IInv, NoBacklogWithoutSender, CutFacts, NothingMissed, Live
<1> QED
  BY <1>2, <1>3

LEMMA StutterKeepsIInv ==
  ASSUME IInv, UNCHANGED vars
  PROVE  IInv'
BY DEF vars, link, sender, net, follower, bounds, IInv, TypeOK, NoBacklogWithoutSender,
       ConnFacts, CutFacts, NothingMissed, Live, Open, Yields
-----------------------------------------------------------------------------
(* The theorems. *)

\* IInv is inductive: writes, sender, follower and faults keep it.
THEOREM InductiveInvariant == Spec => []IInv
<1>1. Init => IInv
  BY InitIInv
<1>2. IInv /\ [Next]_vars => IInv'
  <2> SUFFICES ASSUME IInv, [Next]_vars
               PROVE  IInv'
    OBVIOUS
  <2>1. CASE \E k \in Key, v \in Value \cup {Absent} : Write(k, v)
    BY <2>1, WriteKeepsIInv
  <2>2. CASE SenderStep
    BY <2>2, ConnectKeepsIInv, CutKeepsIInv, SendSnapshotKeepsIInv, SendLineKeepsIInv,
       SenderMovesKeepIInv, CleanupKeepsIInv DEF SenderStep
  <2>3. CASE Stop
    BY <2>3, SenderMovesKeepIInv
  <2>4. CASE \E c \in Conn : Execute(c) \/ Reset(c)
    BY <2>4, ExecuteKeepsIInv, ResetKeepsIInv
  <2>5. CASE FollowerRestart \/ LeaderRestart
    BY <2>5, RestartsKeepIInv
  <2>6. CASE UNCHANGED vars
    BY <2>6, StutterKeepsIInv
  <2> QED
    BY <2>1, <2>2, <2>3, <2>4, <2>5, <2>6 DEF Next
<1> QED
  BY <1>1, <1>2, PTL DEF Spec

\* The types, and the backlog within kMaxQueue.
THEOREM TypeCorrect == Spec => []TypeOK
<1>1. IInv => TypeOK
  BY DEF IInv
<1> QED
  BY <1>1, InductiveInvariant, PTL

\* The snapshot and the live stream are one cut: at every moment the follower's
\* data, the lines in transit, the rest of the snapshot and the backlog add up to
\* the leader's data, for any number of writes, faults and reconnections.
THEOREM NoWriteIsMissed == Spec => []NothingMissed
<1>1. IInv => NothingMissed
  BY DEF IInv
<1> QED
  BY <1>1, InductiveInvariant, PTL

\* enqueue() never fills a queue that no sender will empty.
THEOREM BacklogHasASender == Spec => []NoBacklogWithoutSender
<1>1. IInv => NoBacklogWithoutSender
  BY DEF IInv
<1> QED
  BY <1>1, InductiveInvariant, PTL

\* A follower that has caught up is an exact copy of the leader, unless lines of
\* an older connection were mixed in, the snapshot was unreadable or its engine
\* failed.
CaughtUp ==
  Live /\ pc = "stream" /\ queue = <<>> /\ wire[conn] = <<>>
       /\ ~overlapped /\ ~unread /\ ~broken => copy = data

\* ... which follows from NothingMissed when nothing is on the way.
THEOREM CaughtUpFollowersAreCopies == Spec => []CaughtUp
<1>1. IInv => CaughtUp
  <2> SUFFICES ASSUME IInv, Live, pc = "stream", queue = <<>>, wire[conn] = <<>>,
                      ~overlapped, ~unread, ~broken
               PROVE  copy = data
    BY DEF CaughtUp
  <2>1. snap = Empty /\ \A k \in Key : Yields(k, data[k])
    BY DEF IInv, NothingMissed, CutFacts
  <2>2. ASSUME NEW k \in Key PROVE copy[k] = data[k]
    <3>1. ~Says(<<>>, k, data[k])
      BY DEF Says
    <3>2. snap[k] = Absent /\ Yields(k, data[k])
      BY <2>1 DEF Empty
    <3> QED
      BY <3>1, <3>2 DEF Yields
  <2> QED
    BY <2>2 DEF IInv, TypeOK, Map
<1> QED
  BY <1>1, InductiveInvariant, PTL
=============================================================================
