------------------------------ MODULE WalStore ------------------------------
(***************************************************************************)
(* The in-memory store with its write-ahead log (src/src/storage.cpp,      *)
(* wal.cpp, Server::setup_persistence): set, get, del, LRU eviction, a     *)
(* crash at any point of them, and the replay of the log on restart.       *)
(*                                                                         *)
(* The storage mutex is held for the whole of an operation, so operations  *)
(* never interleave with each other; only a crash can fall between the     *)
(* appends of one of them.  An operation is therefore cut into one step    *)
(* per append, and a last step for the reply.                              *)
(*                                                                         *)
(* A log record is kept whole or torn.  Torn bytes with records behind     *)
(* them stop the replay; that the declared lengths could, by coincidence,  *)
(* let the reader take bytes of a later record for the missing ones is     *)
(* left out (it can only add to the damage).                               *)
(***************************************************************************)
EXTENDS Naturals, Sequences, FiniteSets, Functions

CONSTANTS Key, Value,
          Absent,      \* what a lookup of a missing key yields
          Capacity,    \* the LRU bound; 0 means unbounded
          MaxLog,      \* bound: records in the log
          MaxTorn,     \* bound: interrupted appends
          MaxCrash     \* bound: crashes

ASSUME StoreAssumption ==
  /\ Absent \notin Key \cup Value
  /\ Capacity \in Nat
  /\ MaxLog \in Nat
  /\ MaxTorn \in Nat
  /\ MaxCrash \in Nat

VARIABLES
  log,        \* the WAL file: the one thing that survives a crash
  mem, lru,   \* index_/items_: key -> value, and the keys, most recent first
  walOk,      \* Wal::ok_
  phase,      \* where the process is
  cur,        \* the acknowledged-to-be effect of the operation in progress
  pos,        \* replay_into: records replayed so far
  \* History: what a lookup may return given the replies so far; the keys that
  \* were dropped without a DEL record since their last record; crashes.
  allowed, forgotten, crashes

file == <<log, walOk>>
cache == <<mem, lru>>
history == <<allowed, forgotten>>
vars == <<file, cache, phase, cur, pos, history, crashes>>

Phase == {"idle", "evict", "reply", "down", "replay"}
SetRec(k, v) == [op |-> "SET", key |-> k, val |-> v]
DelRec(k) == [op |-> "DEL", key |-> k, val |-> Absent]
Torn == [op |-> "torn", key |-> Absent, val |-> Absent]
Record == {SetRec(k, v) : k \in Key, v \in Value} \cup {DelRec(k) : k \in Key}

Init ==
  /\ log = <<>> /\ walOk = TRUE
  /\ mem = [k \in Key |-> Absent] /\ lru = <<>>
  /\ phase = "idle" /\ cur = [key |-> Absent, val |-> Absent] /\ pos = 0
  /\ allowed = [k \in Key |-> {Absent}] /\ forgotten = {} /\ crashes = 0

-----------------------------------------------------------------------------
(* Appending to the log. *)

TornRecords == Cardinality({i \in DOMAIN log : log[i] = Torn})
CanTear == TornRecords < MaxTorn

Appended(r) ==
  /\ walOk
  /\ Len(log) < MaxLog
  /\ log' = Append(log, r)
  /\ walOk' = walOk

FailsOnce ==
  /\ walOk
  /\ \/ log' = log
     \/ CanTear /\ log' = Append(log, Torn)
  /\ walOk' = walOk

\* The stream went bad (a full disk, say): nothing or a part of the record
\* reached the file, and ok_ stays false.  A log already bad takes nothing.
AppendFailed ==
  /\ \/ log' = log
     \/ walOk /\ CanTear /\ log' = Append(log, Torn)
  /\ walOk' = FALSE

-----------------------------------------------------------------------------
(* The cache: index_ and items_ move together. *)

Present(k) == mem[k] # Absent
OverCapacity(s) == Capacity > 0 /\ Len(s) > Capacity

\* The list without key k, whose place index_ holds.
Unlink(s, k) ==
  IF k \notin Range(s) THEN s
  ELSE LET i == CHOOSE i \in DOMAIN s : s[i] = k
       IN  SubSeq(s, 1, i - 1) \o SubSeq(s, i + 1, Len(s))

InsertTwice(k, v) ==
  /\ mem' = [mem EXCEPT ![k] = v]
  /\ lru' = <<k>> \o lru

Insert(k, v) ==
  /\ mem' = [mem EXCEPT ![k] = v]
  /\ lru' = <<k>> \o Unlink(lru, k)

Erase(k) ==
  /\ mem' = [mem EXCEPT ![k] = Absent]
  /\ lru' = Unlink(lru, k)

-----------------------------------------------------------------------------
(* Client operations. *)

AcksUnlogged(k, v) ==
  /\ phase = "idle"
  /\ \/ /\ Appended(SetRec(k, v))
        /\ Insert(k, v)
        /\ phase' = IF Present(k) THEN "reply" ELSE "evict"
        /\ forgotten' = forgotten \ {k}
     \/ /\ AppendFailed
        /\ phase' = "reply"
        /\ UNCHANGED <<cache, forgotten>>
  /\ cur' = [key |-> k, val |-> v]
  /\ allowed' = [allowed EXCEPT ![k] = @ \cup {v}]
  /\ UNCHANGED <<pos, crashes>>

set(k, v) ==
  /\ phase = "idle"
  /\ \/ /\ Appended(SetRec(k, v))
        /\ Insert(k, v)
        /\ phase' = IF Present(k) THEN "reply" ELSE "evict"
        /\ cur' = [key |-> k, val |-> v]
        /\ allowed' = [allowed EXCEPT ![k] = @ \cup {v}]
        /\ forgotten' = forgotten \ {k}
     \/ /\ AppendFailed
        /\ UNCHANGED <<cache, phase, cur, history>>
  /\ UNCHANGED <<pos, crashes>>

\* One turn of set's eviction loop: the DEL is logged before the key goes; if
\* that fails the key stays and the loop ends.
evict_lru_locked ==
  LET victim == lru[Len(lru)]
  IN  /\ phase = "evict"
      /\ \/ /\ OverCapacity(lru)
            /\ Appended(DelRec(victim))
            /\ Erase(victim)
            /\ allowed' = [allowed EXCEPT ![victim] = {Absent}]
            /\ forgotten' = forgotten \ {victim}
            /\ phase' = phase
         \/ /\ OverCapacity(lru)
            /\ AppendFailed
            /\ phase' = "reply"
            /\ UNCHANGED <<cache, history>>
         \/ /\ ~OverCapacity(lru)
            /\ phase' = "reply"
            /\ UNCHANGED <<file, cache, history>>
      /\ UNCHANGED <<cur, pos, crashes>>

del(k) ==
  /\ phase = "idle"
  /\ Present(k)
  /\ \/ /\ Appended(DelRec(k))
        /\ Erase(k)
        /\ phase' = "reply"
        /\ cur' = [key |-> k, val |-> Absent]
        /\ allowed' = [allowed EXCEPT ![k] = @ \cup {Absent}]
        /\ forgotten' = forgotten \ {k}
     \/ /\ AppendFailed
        /\ UNCHANGED <<cache, phase, cur, history>>
  /\ UNCHANGED <<pos, crashes>>

Reply ==
  /\ phase = "reply"
  /\ allowed' = [allowed EXCEPT ![cur.key] = {cur.val}]
  /\ phase' = "idle"
  /\ UNCHANGED <<file, cache, cur, pos, forgotten, crashes>>

get(k) ==
  /\ phase = "idle"
  /\ Present(k)
  /\ lru' = <<k>> \o Unlink(lru, k)
  /\ UNCHANGED <<file, mem, phase, cur, pos, history, crashes>>

-----------------------------------------------------------------------------
(* Crash and restart. *)

LosesUnflushed ==
  /\ phase # "down"
  /\ crashes < MaxCrash
  /\ log' = IF phase = "reply" /\ walOk THEN SubSeq(log, 1, Len(log) - 1) ELSE log
  /\ phase' = "down"
  /\ crashes' = crashes + 1
  /\ mem' = [k \in Key |-> Absent] /\ lru' = <<>>
  /\ pos' = 0
  /\ UNCHANGED <<walOk, cur, history>>

\* The process dies.  It may die inside an append: a client's next record, or
\* the DEL of an eviction.
Crash ==
  /\ phase # "down"
  /\ crashes < MaxCrash
  /\ \/ log' = log
     \/ /\ walOk /\ CanTear
        /\ phase = "idle" \/ (phase = "evict" /\ OverCapacity(lru))
        /\ log' = Append(log, Torn)
  /\ phase' = "down"
  /\ crashes' = crashes + 1
  /\ mem' = [k \in Key |-> Absent] /\ lru' = <<>>
  /\ UNCHANGED <<walOk, cur, pos, history>>

\* A new process opens the log for reading.
Start ==
  /\ phase = "down"
  /\ phase' = "replay"
  /\ pos' = 0
  /\ UNCHANGED <<file, cache, cur, history, crashes>>

MoreToReplay == pos < Len(log) /\ log[pos + 1] # Torn

SkipsDeletes ==
  /\ phase = "replay"
  /\ MoreToReplay
  /\ pos' = pos + 1
  /\ LET r == log[pos + 1]
     IN  \/ r.op = "SET" /\ Insert(r.key, r.val)
         \/ r.op = "DEL" /\ UNCHANGED cache
  /\ UNCHANGED <<file, phase, cur, history, crashes>>

\* One turn of replay_into's loop: eviction is suppressed, only the logged DEL
\* records remove keys.
ReplayRecord ==
  /\ phase = "replay"
  /\ MoreToReplay
  /\ pos' = pos + 1
  /\ LET r == log[pos + 1]
     IN  \/ r.op = "SET" /\ Insert(r.key, r.val)
         \/ r.op = "DEL" /\ (IF Present(r.key) THEN Erase(r.key) ELSE UNCHANGED cache)
  /\ UNCHANGED <<file, phase, cur, history, crashes>>

\* The keys set_replaying(false) keeps: the most recent ones, up to Capacity.
Kept == IF OverCapacity(lru) THEN SubSeq(lru, 1, Capacity) ELSE lru

\* The reader stops at the end of the log or at the first bad record; leaving
\* replay mode trims the cache without logging it; the log is opened for append.
FinishReplay ==
  /\ phase = "replay"
  /\ ~MoreToReplay
  /\ LET trimmed == {k \in Key : Present(k) /\ k \notin Range(Kept)}
     IN  /\ lru' = Kept
         /\ mem' = [k \in Key |-> IF k \in trimmed THEN Absent ELSE mem[k]]
         /\ forgotten' = forgotten \cup trimmed
         \* What the restart shows settles an operation the crash interrupted.
         /\ allowed' = [k \in Key |-> IF k \in trimmed THEN {Absent}
                                      ELSE IF mem[k] \in allowed[k] THEN {mem[k]}
                                      ELSE allowed[k]]
  /\ walOk' = TRUE
  /\ phase' = "idle"
  /\ UNCHANGED <<log, cur, pos, crashes>>

Next ==
  \/ \E k \in Key, v \in Value : set(k, v)
  \/ \E k \in Key : del(k) \/ get(k)
  \/ evict_lru_locked
  \/ Reply
  \/ Crash
  \/ Start
  \/ ReplayRecord
  \/ FinishReplay

Spec == Init /\ [][Next]_vars

-----------------------------------------------------------------------------
(* Properties. *)

Up == phase \notin {"down", "replay"}

\* The list and the hash map describe the same keys, each once, at every step
\* (items_ and index_ of storage.h), next to the variables' types.
TypeOK ==
  /\ log \in Seq(Record \cup {Torn})
  /\ mem \in [Key -> Value \cup {Absent}]
  /\ lru \in Seq(Key)
  /\ Range(lru) = {k \in Key : mem[k] # Absent}
  /\ IsInjective(lru)
  /\ walOk \in BOOLEAN
  /\ phase \in Phase
  /\ cur \in [key : Key \cup {Absent}, val : Value \cup {Absent}]
  /\ phase \in {"evict", "reply"} => cur.key \in Key
  /\ pos \in 0..Len(log)
  /\ allowed \in [Key -> SUBSET (Value \cup {Absent})]
  /\ forgotten \subseteq Key
  /\ crashes \in 0..MaxCrash

\* An interrupted record that a later run has written behind.
Buried == \E i \in DOMAIN log : log[i] = Torn /\ i < Len(log)

\* Of the first n records, the last one about key k leaves it with value v.
Says(n, k, v) ==
  \/ /\ v = Absent
     /\ \A i \in 1..n : log[i].key # k
  \/ \E i \in 1..n : /\ log[i].key = k /\ log[i].val = v
                     /\ \A j \in (i+1)..n : log[j].key # k

\* Memory never diverges from the log: while no torn record has been written
\* behind, every key holds what its last log record says, also between the
\* appends of one operation and when an append fails; the exception is a key
\* the trim after a replay dropped without a DEL.
MemoryMatchesLog ==
  Up /\ ~Buried => \A k \in Key \ forgotten : Says(Len(log), k, mem[k])

\* Across any number of crashes and failed appends, a lookup returns what the
\* replies promised (an acknowledged write, or the effect of an operation that
\* a crash interrupted, settled once for all by the first restart), as long as
\* no torn record has been written behind and the key was not trimmed.
IntactLogKeepsPromises ==
  Up /\ ~Buried => \A k \in Key \ forgotten : mem[k] \in allowed[k]

\* The cache exceeds its capacity by one key at most, and outside an eviction
\* only when the log has failed: the sticky ok_ refuses the next new key.
CapacityPlusOne ==
  Capacity > 0 /\ Up => /\ Len(lru) <= Capacity + 1
                        /\ Len(lru) <= Capacity \/ phase = "evict" \/ ~walOk

\* What is acknowledged as written is there after every restart.
NoAckedWriteLost ==
  Up => \A k \in Key : Absent \notin allowed[k] => mem[k] \in allowed[k]

\* A key that is gone (deleted, evicted or trimmed) does not come back unless
\* a client writes it again.
NoResurrection ==
  Up => \A k \in Key : allowed[k] = {Absent} => mem[k] = Absent

-----------------------------------------------------------------------------
(* What the store promises, as long as its log is intact. *)

Stored == [k \in Key |-> CHOOSE v \in Value \cup {Absent} : Says(Len(log), k, v)]
Exactly(v) == {v}
Shown == [k \in Key |-> Exactly(IF Up THEN mem[k] ELSE Absent)]
Mode == IF ~Up THEN "down" ELSE IF walOk THEN "up" ELSE "failed"

Engine == INSTANCE DurableMap WITH data <- Stored, view <- Shown, mode <- Mode,
                                   Reads <- Exactly

\* A step that leaves no torn record written behind and no key trimmed is a step
\* of a durable map: what the log says changes only with a logged operation or
\* eviction, memory shows it from the same step on, and neither a failed append
\* nor a crash, a replay or a reordering of the cache changes it.
IntactStepsAreMapSteps ==
  [][~Buried' /\ forgotten' = {} => [Engine!MNext]_(Engine!promise)]_vars
=============================================================================
