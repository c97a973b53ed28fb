---------------------------- MODULE Replication -----------------------------
(***************************************************************************)
(* Asynchronous replication to one follower (src/src/replication.cpp, with *)
(* the hooks in storage.cpp and the follower's side in command.cpp and     *)
(* Server::handle_client).  Links are independent of each other: each has  *)
(* its own queue, mutex, thread and follower.                              *)
(*                                                                         *)
(* A connection is a FIFO of lines.  The follower serves every connection  *)
(* on a worker of its own, so lines of a connection the leader has given   *)
(* up may still be executed, interleaved with those of the next one.  The  *)
(* follower is unbounded, as PHASE5.md asks, and in memory or on the disk  *)
(* engine, where a line or the reset of a handshake can fail to be written *)
(* (DiskStore).  The PING of an idle link changes nothing at the follower; *)
(* that it can fail is part of SendFails.                                  *)
(***************************************************************************)
EXTENDS Naturals, Sequences

CONSTANTS Key, Value, Absent,
          MaxQueue,    \* kMaxQueue: backlog before a resync
          MayStop,     \* whether Replicator::stop may be called
          MaxWrites,   \* bound: client writes
          MaxFaults,   \* bound: resets, timeouts, crashes, failing disks
          MaxConn      \* bound: connections

ASSUME ReplicationAssumption ==
  /\ Absent \notin Key \cup Value
  /\ MaxQueue \in Nat \ {0}
  /\ MayStop \in BOOLEAN
  /\ MaxWrites \in Nat /\ MaxFaults \in Nat /\ MaxConn \in Nat

VARIABLES
  data,                      \* the leader's store
  queue, streaming, resync, stop,   \* struct Link, under its mutex
  pc, conn, snap,            \* sender_loop: place, socket, snapshot still to send
  wire, wireState,           \* each connection: lines in transit, and its state
  acked, refused,            \* handshakes the follower answered OK, and ERR
  copy, broken,              \* the follower's store, and whether its engine
                             \* has failed (the sticky ok_ is down)
  writes, faults,            \* counters for the bounds
  \* History: a line of an older connection was executed after a newer one's
  \* handshake; the last snapshot could not be read back from the disk.
  overlapped, unread

link == <<queue, streaming, resync>>
sender == <<pc, conn, snap>>
net == <<wire, wireState>>
follower == <<acked, refused, copy, broken, overlapped>>
bounds == <<writes, faults>>
vars == <<data, link, stop, sender, net, follower, bounds, unread>>

Conn == 1..MaxConn
Empty == [k \in Key |-> Absent]
Line(k, v) == [key |-> k, val |-> v]       \* SET k v, or DEL k for Absent
Handshake == [key |-> Absent, val |-> Absent]   \* __REPLSYNC__

Init ==
  /\ data \in [Key -> Value \cup {Absent}]
  /\ queue = <<>> /\ streaming = FALSE /\ resync = FALSE /\ stop = FALSE
  /\ pc = "connect" /\ conn = 0 /\ snap = Empty
  /\ wire = [c \in Conn |-> <<>>] /\ wireState = [c \in Conn |-> "unused"]
  /\ acked = {} /\ refused = {} /\ copy = Empty /\ broken = FALSE
  /\ writes = 0 /\ faults = 0 /\ overlapped = FALSE /\ unread = FALSE

Fault == faults < MaxFaults /\ faults' = faults + 1

-----------------------------------------------------------------------------
(* The leader's store: a write and its replication are one critical section. *)

QueuesOneMore(line) ==
  \/ /\ ~streaming
     /\ UNCHANGED link
  \/ /\ streaming /\ Len(queue) > MaxQueue
     /\ queue' = <<>> /\ streaming' = FALSE /\ resync' = TRUE
  \/ /\ streaming /\ Len(queue) <= MaxQueue
     /\ queue' = Append(queue, line)
     /\ UNCHANGED <<streaming, resync>>

DropsLine(line) ==
  \/ /\ ~streaming \/ Len(queue) >= MaxQueue
     /\ UNCHANGED link
  \/ /\ streaming /\ Len(queue) < MaxQueue
     /\ queue' = Append(queue, line)
     /\ UNCHANGED <<streaming, resync>>

enqueue(line) ==
  \/ /\ ~streaming
     /\ UNCHANGED link
  \/ /\ streaming /\ Len(queue) >= MaxQueue
     /\ queue' = <<>> /\ streaming' = FALSE /\ resync' = TRUE
  \/ /\ streaming /\ Len(queue) < MaxQueue
     /\ queue' = Append(queue, line)
     /\ UNCHANGED <<streaming, resync>>

\* SET k v; for v = Absent, DEL k or the eviction of k.
Write(k, v) ==
  /\ writes < MaxWrites
  /\ v # Absent \/ data[k] # Absent
  /\ data' = [data EXCEPT ![k] = v]
  /\ enqueue(Line(k, v))
  /\ writes' = writes + 1
  /\ UNCHANGED <<stop, sender, net, follower, faults, unread>>

-----------------------------------------------------------------------------
(* The sender thread. *)

Open(c) == wireState[c] = "open"

\* What send_all does to a connection: a dead one may swallow the line.
Send(c, line) ==
  /\ Open(c) \/ wireState[c] = "dead"
  /\ wire' = IF Open(c) THEN [wire EXCEPT ![c] = Append(@, line)] ELSE wire

\* Connect and send the handshake.
Connect ==
  /\ pc = "connect" /\ ~stop
  /\ conn < MaxConn
  /\ conn' = conn + 1
  /\ wireState' = [wireState EXCEPT ![conn'] = "open"]
  /\ wire' = [wire EXCEPT ![conn'] = <<Handshake>>]
  /\ pc' = "handshake"
  /\ UNCHANGED <<data, link, stop, snap, follower, bounds, unread>>

\* The reply is not OK.
HandshakeRefused ==
  /\ pc = "handshake" /\ conn \in refused
  /\ pc' = "cleanup"
  /\ UNCHANGED <<data, link, stop, conn, snap, net, follower, bounds, unread>>

\* The OK arrives; snapshot_locked copies the data and, under the same lock,
\* marks the link as streaming.  The disk engine copies its index only; if its
\* file does not open when the values are read after that, there are none.
Cut ==
  /\ pc = "handshake" /\ conn \in acked
  /\ \/ snap' = data /\ unread' = FALSE /\ UNCHANGED faults
     \/ snap' = Empty /\ unread' = TRUE /\ Fault
  /\ queue' = <<>> /\ resync' = FALSE /\ streaming' = TRUE
  /\ pc' = "snapshot"
  /\ UNCHANGED <<data, stop, conn, net, follower, writes>>

SendSnapshot(k) ==
  /\ pc = "snapshot" /\ snap[k] # Absent
  /\ Send(conn, Line(k, snap[k]))
  /\ snap' = [snap EXCEPT ![k] = Absent]
  /\ UNCHANGED <<data, link, stop, pc, conn, wireState, follower, bounds, unread>>

SnapshotSent ==
  /\ pc = "snapshot" /\ snap = Empty
  /\ pc' = "stream"
  /\ UNCHANGED <<data, link, stop, conn, snap, net, follower, bounds, unread>>

\* One turn of the streaming loop that finds a line to send.
SendLine ==
  /\ pc = "stream" /\ ~stop /\ ~resync
  /\ queue # <<>>
  /\ Send(conn, Head(queue))
  /\ queue' = Tail(queue)
  /\ UNCHANGED <<data, streaming, resync, stop, sender, wireState, follower, bounds, unread>>

MissesResync ==
  /\ pc = "stream" /\ stop
  /\ resync' = FALSE
  /\ pc' = "cleanup"
  /\ UNCHANGED <<data, queue, streaming, stop, conn, snap, net, follower, bounds, unread>>

MissesStop ==
  /\ pc = "stream" /\ resync
  /\ resync' = FALSE
  /\ pc' = "cleanup"
  /\ UNCHANGED <<data, queue, streaming, stop, conn, snap, net, follower, bounds, unread>>

\* ... and one that finds the link stopped, or its backlog dropped.
LeaveStream ==
  /\ pc = "stream" /\ (stop \/ resync)
  /\ resync' = FALSE
  /\ pc' = "cleanup"
  /\ UNCHANGED <<data, queue, streaming, stop, conn, snap, net, follower, bounds, unread>>

\* The handshake or a send (a PING too) fails on a dead connection, or times
\* out on one that the follower is too slow to read from.
SendFails ==
  /\ pc \in {"handshake", "snapshot", "stream"}
  /\ \/ wireState[conn] = "dead" /\ UNCHANGED faults
     \/ Open(conn) /\ Fault
  /\ pc' = "cleanup"
  /\ UNCHANGED <<data, link, stop, conn, snap, net, follower, writes, unread>>

KeepsStreaming ==
  /\ pc = "cleanup"
  /\ streaming' = streaming /\ queue' = <<>>
  /\ pc' = IF stop THEN "exited" ELSE "connect"
  /\ snap' = Empty
  /\ wireState' = [wireState EXCEPT ![conn] = IF Open(conn) THEN "closed" ELSE @]
  /\ UNCHANGED <<data, resync, stop, conn, wire, follower, bounds, unread>>

\* The common cleanup; the socket is closed before the next connection.
Cleanup ==
  /\ pc = "cleanup"
  /\ streaming' = FALSE /\ queue' = <<>>
  /\ pc' = IF stop THEN "exited" ELSE "connect"
  /\ snap' = Empty
  /\ wireState' = [wireState EXCEPT ![conn] = IF Open(conn) THEN "closed" ELSE @]
  /\ UNCHANGED <<data, resync, stop, conn, wire, follower, bounds, unread>>

\* Between connections the thread looks at the stop flag.
ExitSender ==
  /\ pc = "connect" /\ stop
  /\ pc' = "exited"
  /\ UNCHANGED <<data, link, stop, conn, snap, net, follower, bounds, unread>>

Stop ==
  /\ MayStop /\ ~stop
  /\ stop' = TRUE
  /\ UNCHANGED <<data, link, sender, net, follower, bounds, unread>>

-----------------------------------------------------------------------------
(* The follower: one worker per connection. *)

NewerSynced(c) == \E d \in acked : d > c

\* A line is applied, or fails to be written, as all do from then on until the
\* next reset.  Its reply is not sent: the leader never hears of it.
Apply(c, line) ==
  /\ \/ ~broken /\ copy' = [copy EXCEPT ![line.key] = line.val] /\ UNCHANGED <<broken, faults>>
     \/ ~broken /\ broken' = TRUE /\ Fault /\ UNCHANGED copy
     \/ broken /\ UNCHANGED <<copy, broken, faults>>
  /\ UNCHANGED <<acked, refused>>

\* __REPLSYNC__: clear() empties the store, and reopens a disk engine's file.
ResetForSync(c) ==
  /\ copy' = Empty
  /\ \/ /\ acked' = acked \cup {c} /\ broken' = FALSE
        /\ UNCHANGED <<refused, faults>>
     \/ /\ refused' = refused \cup {c} /\ broken' = TRUE /\ Fault
        /\ UNCHANGED acked

\* The worker of connection c executes its next line.
Execute(c) ==
  /\ wireState[c] \in {"open", "closed"}
  /\ wire[c] # <<>>
  /\ wire' = [wire EXCEPT ![c] = Tail(@)]
  /\ LET line == Head(wire[c])
     IN  \/ line = Handshake /\ ResetForSync(c)
         \/ line # Handshake /\ Apply(c, line)
  /\ overlapped' = (overlapped \/ NewerSynced(c))
  /\ UNCHANGED <<data, link, stop, sender, wireState, writes, unread>>

-----------------------------------------------------------------------------
(* Faults. *)

\* The network or the follower's timeout ends a connection; lines are lost.
Reset(c) ==
  /\ wireState[c] \in {"open", "closed"}
  /\ Fault
  /\ wireState' = [wireState EXCEPT ![c] = "dead"]
  /\ wire' = [wire EXCEPT ![c] = <<>>]
  /\ UNCHANGED <<data, link, stop, sender, follower, writes, unread>>

\* The follower restarts, empty or with the data of its file; all its
\* connections die.
FollowerRestart ==
  /\ Fault
  /\ copy' \in {copy, Empty} /\ broken' = FALSE
  /\ wireState' = [c \in Conn |-> IF wireState[c] = "unused" THEN "unused" ELSE "dead"]
  /\ wire' = [c \in Conn |-> <<>>]
  /\ UNCHANGED <<data, link, stop, sender, acked, refused, overlapped, writes, unread>>

\* The leader restarts, with its data (a log) or without.
LeaderRestart ==
  /\ Fault
  /\ data' \in {data, Empty}
  /\ queue' = <<>> /\ streaming' = FALSE /\ resync' = FALSE /\ stop' = FALSE
  /\ pc' = "connect" /\ snap' = Empty
  /\ wireState' = [c \in Conn |-> IF Open(c) THEN "closed" ELSE wireState[c]]
  /\ UNCHANGED <<conn, wire, follower, writes, unread>>

SenderStep ==
  \/ Connect \/ HandshakeRefused \/ Cut \/ SnapshotSent \/ SendLine \/ LeaveStream
  \/ Cleanup \/ ExitSender
  \/ \E k \in Key : SendSnapshot(k)
  \/ SendFails

Next ==
  \/ \E k \in Key, v \in Value \cup {Absent} : Write(k, v)
  \/ SenderStep
  \/ Stop
  \/ \E c \in Conn : Execute(c) \/ Reset(c)
  \/ FollowerRestart
  \/ LeaderRestart

Spec == Init /\ [][Next]_vars

\* The sender thread runs, and every connection has a worker at the follower.
\* Faults and client writes are never owed.
FairSpec ==
  /\ Spec
  /\ WF_vars(SenderStep /\ faults' = faults)
  /\ \A c \in Conn : WF_vars(Execute(c))

-----------------------------------------------------------------------------
(* Properties. *)

Map == [Key -> Value \cup {Absent}]
Lines == {Line(k, v) : k \in Key, v \in Value \cup {Absent}}

TypeOK ==
  /\ data \in Map /\ copy \in Map /\ snap \in Map
  /\ queue \in Seq(Lines) /\ Len(queue) <= MaxQueue
  /\ streaming \in BOOLEAN /\ resync \in BOOLEAN /\ stop \in BOOLEAN
  /\ pc \in {"connect", "handshake", "snapshot", "stream", "cleanup", "exited"}
  /\ conn \in 0..MaxConn
  /\ wire \in [Conn -> Seq(Lines \cup {Handshake})]
  /\ wireState \in [Conn -> {"unused", "open", "closed", "dead"}]
  /\ acked \subseteq Conn /\ refused \subseteq Conn
  /\ writes \in 0..MaxWrites /\ faults \in 0..MaxFaults
  /\ overlapped \in BOOLEAN /\ unread \in BOOLEAN /\ broken \in BOOLEAN

\* The last of these lines about k, if there is one, gives it the value v.
Says(lines, k, v) ==
  \E i \in 1..Len(lines) :
    lines[i] = Line(k, v) /\ \A j \in (i + 1)..Len(lines) : lines[j].key # k

Silent(lines, k) == \A i \in 1..Len(lines) : lines[i].key # k

\* k will be v at the follower: what it has, then the lines in transit, then the
\* rest of the snapshot, then the backlog.
Yields(k, v) ==
  \/ Says(queue, k, v)
  \/ /\ Silent(queue, k)
     /\ \/ snap[k] # Absent /\ v = snap[k]
        \/ /\ snap[k] = Absent
           /\ \/ Says(wire[conn], k, v)
              \/ Silent(wire[conn], k) /\ v = copy[k]

Live == pc \in {"snapshot", "stream"} /\ streaming /\ Open(conn)

\* The atomic cut: from the moment of the snapshot on, what the follower has,
\* then the lines in transit, then the rest of the snapshot, then the backlog,
\* add up to exactly the leader's data, whatever was written meanwhile; no
\* write is missed or applied in the wrong order, and whatever went wrong before
\* the handshake is healed by it.  It holds until lines of an older connection
\* are mixed in, a snapshot cannot be read, or the follower's engine fails.
NothingMissed ==
  Live /\ ~overlapped /\ ~unread /\ ~broken => \A k \in Key : Yields(k, data[k])

\* No write is queued for a link that has no live sender.
NoBacklogWithoutSender ==
  streaming \/ queue # <<>> => pc \in {"snapshot", "stream", "cleanup"}

\* A follower that is connected and caught up holds a copy of the leader's data.
CaughtUpIsCopy ==
  Live /\ pc = "stream" /\ queue = <<>> /\ wire[conn] = <<>> => copy = data

\* Once faults and writes end the follower becomes and stays a copy of the
\* leader, after any overflow of the backlog, lost connection, refused handshake
\* or restart, unless lines of an older connection were mixed in, a snapshot or
\* the follower's engine failed unnoticed, or the sender was stopped.
Converges == <>[](copy = data \/ overlapped \/ unread \/ broken \/ stop)

\* Replicator::stop ends the sender thread, wherever it is.
StopEndsSender == stop ~> (pc = "exited" \/ ~stop)
=============================================================================
