----------------------------- MODULE DiskStore ------------------------------
(***************************************************************************)
(* The on-disk engine (src/src/disk_store.cpp) as Storage drives it: an    *)
(* append-only file, an index of key -> place of the latest value, and a   *)
(* start-up that scans the file, cuts off a damaged tail and may compact.  *)
(*                                                                         *)
(* The file is a sequence of records and a place is a record's number; a   *)
(* value is only ever read through the index.  Operations run under the    *)
(* storage mutex and so do not interleave; a crash can fall anywhere.      *)
(* The bytes-per-record rule that triggers compaction is left open: any    *)
(* file with a superseded record may or may not be compacted; a compaction *)
(* that gives up before its rename changes nothing.  A reopen that fails   *)
(* during a start ends the process (server.cpp:260-264), as Crash does.    *)
(* Three I/O errors pass without the code noticing: a truncation (line     *)
(* 104), a resize (line 199) and a read that ends the scan (line 157).     *)
(***************************************************************************)
EXTENDS Naturals, Sequences, FiniteSets, Functions

CONSTANTS Key, Value, Absent,
          MaxLog,      \* bound: records in the file
          MaxTorn,     \* bound: interrupted appends
          MaxCrash     \* bound: crashes

ASSUME DiskAssumption ==
  /\ Absent \notin Key \cup Value
  /\ IsFiniteSet(Key)
  /\ MaxLog \in Nat /\ MaxTorn \in Nat /\ MaxCrash \in Nat

VARIABLES
  file,        \* the data file
  index, ok,   \* index_ (0: no entry) and ok_
  phase,       \* where the process is
  scanned,     \* recover: records parsed so far
  tmp,         \* compact: the new file, not yet renamed
  isFollower,  \* the node's configuration: a follower is cleared by its leader,
               \* a leader snapshots its store for its followers
  cut,         \* the places snapshot_index handed out
  \* History: the data at that cut; what a lookup may return given the replies;
  \* the effect of the operation in progress; whether an I/O error has passed
  \* unnoticed since the file was last truncated; counters for the bounds.
  cutData, allowed, cur, unnoticed, tears, crashes

store == <<file, index, ok>>
snapshot == <<cut, cutData>>
vars == <<store, phase, scanned, tmp, isFollower, snapshot, allowed, cur, unnoticed, tears,
          crashes>>

SetRec(k, v) == [op |-> "SET", key |-> k, val |-> v]
DelRec(k) == [op |-> "DEL", key |-> k, val |-> Absent]
Torn == [op |-> "torn", key |-> Absent, val |-> Absent]
Record == {SetRec(k, v) : k \in Key, v \in Value} \cup {DelRec(k) : k \in Key}

NoPlace == [k \in Key |-> 0]
Nothing == [k \in Key |-> Absent]
ValueAt(place) == IF place = 0 THEN Absent ELSE file[place].val
Contents == [k \in Key |-> ValueAt(index[k])]

\* The results a lookup may have: the value, or nothing when its bytes cannot be
\* read, which fails that lookup and not the engine.  An engine that has failed
\* finds nothing.
Readings(v) == {v, Absent}
get(k) == IF ok THEN Readings(Contents[k]) ELSE {Absent}

Init ==
  /\ file = <<>> /\ index = NoPlace /\ ok = TRUE
  /\ phase = "serve" /\ scanned = 0 /\ tmp = <<>>
  /\ isFollower \in BOOLEAN
  /\ cut = NoPlace /\ cutData = Nothing
  /\ allowed = [k \in Key |-> {Absent}]
  /\ cur = [key |-> Absent, val |-> Absent]
  /\ unnoticed = FALSE /\ tears = 0 /\ crashes = 0

-----------------------------------------------------------------------------
(* Serving. *)

Tear == tears < MaxTorn /\ tears' = tears + 1 /\ file' = Append(file, Torn)

\* The record is written and flushed.
Appended(r) ==
  /\ ok
  /\ Len(file) < MaxLog
  /\ file' = Append(file, r)
  /\ ok' = ok /\ tears' = tears

\* The stream fails: nothing, or a part of the record, reached the file.
AppendFailed ==
  /\ ok
  /\ \/ file' = file /\ tears' = tears
     \/ Tear
  /\ ok' = FALSE

\* An operation that changed key k to v on disk and has yet to be acknowledged.
Pending(k, v) ==
  /\ phase' = "reply"
  /\ cur' = [key |-> k, val |-> v]
  /\ allowed' = [allowed EXCEPT ![k] = @ \cup {v}]

IndexesBeforeFlush(k, v) ==
  /\ phase = "serve"
  /\ index' = [index EXCEPT ![k] = Len(file) + 1]
  /\ \/ Appended(SetRec(k, v)) /\ Pending(k, v)
     \/ AppendFailed /\ UNCHANGED <<phase, cur, allowed>>
  /\ UNCHANGED <<scanned, tmp, isFollower, snapshot, unnoticed, crashes>>

OverwritesInPlace(k, v) ==
  /\ phase = "serve"
  /\ \/ /\ index[k] = 0
        /\ Appended(SetRec(k, v))
        /\ index' = [index EXCEPT ![k] = Len(file) + 1]
     \/ /\ index[k] # 0
        /\ file' = [file EXCEPT ![index[k]] = SetRec(k, v)]
        /\ UNCHANGED <<index, ok, tears>>
  /\ Pending(k, v)
  /\ UNCHANGED <<scanned, tmp, isFollower, snapshot, unnoticed, crashes>>

set(k, v) ==
  /\ phase = "serve"
  /\ \/ /\ Appended(SetRec(k, v))
        /\ index' = [index EXCEPT ![k] = Len(file) + 1]
        /\ Pending(k, v)
     \/ /\ AppendFailed
        /\ UNCHANGED <<index, phase, cur, allowed>>
  /\ UNCHANGED <<scanned, tmp, isFollower, snapshot, unnoticed, crashes>>

del(k) ==
  /\ phase = "serve"
  /\ index[k] # 0
  /\ \/ /\ Appended(DelRec(k))
        /\ index' = [index EXCEPT ![k] = 0]
        /\ Pending(k, Absent)
     \/ /\ AppendFailed
        /\ UNCHANGED <<index, phase, cur, allowed>>
  /\ UNCHANGED <<scanned, tmp, isFollower, snapshot, unnoticed, crashes>>

Reply ==
  /\ phase = "reply"
  /\ allowed' = [allowed EXCEPT ![cur.key] = {cur.val}]
  /\ phase' = "serve"
  /\ UNCHANGED <<store, scanned, tmp, isFollower, snapshot, cur, unnoticed, tears, crashes>>

\* clear(): the index goes first, ...
clear ==
  /\ phase = "serve" /\ isFollower
  /\ index' = NoPlace
  /\ phase' = "truncate"
  /\ allowed' = [k \in Key |-> allowed[k] \cup {Absent}]
  /\ UNCHANGED <<file, ok, scanned, tmp, isFollower, snapshot, cur, unnoticed, tears, crashes>>

\* ... then the file is truncated and opened again.  When both fail the old
\* records may still be there and return with the next start, but the engine
\* says so; when only the truncation fails, nothing does.
Truncate ==
  /\ phase = "truncate"
  /\ \/ /\ file' = <<>> /\ ok' \in BOOLEAN
        /\ allowed' = [k \in Key |-> {Absent}]
        /\ unnoticed' = FALSE
     \/ ok' = FALSE /\ UNCHANGED <<file, allowed, unnoticed>>
     \/ ok' = TRUE /\ unnoticed' = TRUE /\ UNCHANGED <<file, allowed>>
  /\ phase' = "serve"
  /\ UNCHANGED <<index, scanned, tmp, isFollower, snapshot, cur, tears, crashes>>

\* The cut a follower's full sync starts from; the values are read later, with
\* the storage mutex released.
snapshot_index ==
  /\ phase = "serve" /\ ~isFollower
  /\ cut' = index
  /\ cutData' = Contents
  /\ UNCHANGED <<store, phase, scanned, tmp, isFollower, allowed, cur, unnoticed, tears,
                 crashes>>

-----------------------------------------------------------------------------
(* Crash, and recover(). *)

Crash ==
  /\ phase # "down"
  /\ crashes < MaxCrash
  /\ \/ file' = file /\ tears' = tears
     \/ phase = "serve" /\ ok /\ Tear
  /\ phase' = "down"
  /\ index' = NoPlace /\ tmp' = <<>>
  /\ cut' = NoPlace /\ cutData' = Nothing
  /\ crashes' = crashes + 1
  /\ UNCHANGED <<ok, scanned, isFollower, allowed, cur, unnoticed>>

Open ==
  /\ phase = "down"
  /\ phase' = "scan" /\ scanned' = 0 /\ ok' = TRUE
  /\ UNCHANGED <<file, index, tmp, isFollower, snapshot, allowed, cur, unnoticed, tears,
                 crashes>>

MoreToScan == scanned < Len(file) /\ file[scanned + 1] # Torn

KeepsDeleted ==
  /\ phase = "scan" /\ MoreToScan
  /\ scanned' = scanned + 1
  /\ LET r == file[scanned + 1]
     IN  index' = IF r.op = "SET" THEN [index EXCEPT ![r.key] = scanned + 1] ELSE index
  /\ UNCHANGED <<file, ok, phase, tmp, isFollower, snapshot, allowed, cur, unnoticed, tears,
                 crashes>>

ScanRecord ==
  /\ phase = "scan" /\ MoreToScan
  /\ scanned' = scanned + 1
  /\ LET r == file[scanned + 1]
     IN  index' = [index EXCEPT ![r.key] = IF r.op = "SET" THEN scanned + 1 ELSE 0]
  /\ UNCHANGED <<file, ok, phase, tmp, isFollower, snapshot, allowed, cur, unnoticed, tears,
                 crashes>>

LeavesTail ==
  /\ phase = "scan" /\ ~MoreToScan
  /\ phase' = "loaded"
  /\ UNCHANGED <<store, scanned, tmp, isFollower, snapshot, allowed, cur, unnoticed, tears,
                 crashes>>

\* Drop everything past the last complete record.  Two errors pass unnoticed: a
\* read that fails looks like the end of the file and takes the records behind
\* it along, and a resize that fails leaves what it should have dropped.
HealTail ==
  /\ phase = "scan"
  /\ \/ /\ ~MoreToScan
        /\ file' = SubSeq(file, 1, scanned)
        /\ UNCHANGED unnoticed
     \/ /\ scanned < Len(file)
        /\ \/ MoreToScan /\ file' = SubSeq(file, 1, scanned)
           \/ file' = file
        /\ unnoticed' = TRUE
  /\ phase' = "loaded"
  /\ UNCHANGED <<index, ok, scanned, tmp, isFollower, snapshot, allowed, cur, tears, crashes>>

LiveKeys == {k \in Key : index[k] # 0}

\* compact() writes the live records, in the index's order, to a second file.
WriteTmp ==
  /\ phase = "loaded"
  /\ Len(file) > Cardinality(LiveKeys)
  /\ \E order \in Bijection(1..Cardinality(LiveKeys), LiveKeys) :
       tmp' = [i \in DOMAIN order |-> SetRec(order[i], Contents[order[i]])]
  /\ phase' = "rename"
  /\ UNCHANGED <<store, scanned, isFollower, snapshot, allowed, cur, unnoticed, tears,
                 crashes>>

\* The new file replaces the old one, and its places become the index; or the
\* rename fails, the second file is removed and nothing has changed.
Rename ==
  /\ phase = "rename"
  /\ \/ /\ file' = tmp
        /\ index' = [k \in Key |-> IF k \in LiveKeys
                                   THEN CHOOSE i \in DOMAIN tmp : tmp[i].key = k
                                   ELSE 0]
     \/ UNCHANGED <<file, index>>
  /\ tmp' = <<>>
  /\ phase' = "compacted"
  /\ UNCHANGED <<ok, scanned, isFollower, snapshot, allowed, cur, unnoticed, tears,
                 crashes>>

\* Start serving; what the restart shows settles an interrupted operation.
Serve ==
  /\ phase \in {"loaded", "compacted"}
  /\ phase' = "serve"
  /\ allowed' = [k \in Key |-> IF Contents[k] \in allowed[k]
                               THEN {Contents[k]} ELSE allowed[k]]
  /\ UNCHANGED <<store, scanned, tmp, isFollower, snapshot, cur, unnoticed, tears, crashes>>

Next ==
  \/ \E k \in Key, v \in Value : set(k, v)
  \/ \E k \in Key : del(k)
  \/ Reply \/ clear \/ Truncate \/ snapshot_index
  \/ Crash \/ Open \/ ScanRecord \/ HealTail
  \/ WriteTmp \/ Rename \/ Serve

Spec == Init /\ [][Next]_vars

-----------------------------------------------------------------------------
(* Properties. *)

\* The types, and an index that never points outside the file or at a record
\* of another key, not even while the file is being compacted.
TypeOK ==
  /\ file \in Seq(Record \cup {Torn})
  /\ index \in [Key -> 0..Len(file)]
  /\ \A k \in Key : index[k] # 0 => file[index[k]].op = "SET" /\ file[index[k]].key = k
  /\ ok \in BOOLEAN
  /\ phase \in {"serve", "reply", "truncate", "down", "scan", "loaded", "rename",
               "compacted"}
  /\ scanned \in 0..Len(file) \/ phase # "scan"
  /\ tmp \in Seq(Record)
  /\ isFollower \in BOOLEAN
  /\ cut \in [Key -> Nat]
  /\ cutData \in [Key -> Value \cup {Absent}]
  /\ allowed \in [Key -> SUBSET (Value \cup {Absent})]
  /\ cur \in [key : Key \cup {Absent}, val : Value \cup {Absent}]
  /\ unnoticed \in BOOLEAN
  /\ tears \in 0..MaxTorn
  /\ crashes \in 0..MaxCrash

\* Through interrupted appends, failed writes, crashes in the middle of a
\* clear or of a compaction, and any number of restarts, the store's contents
\* are what the replies promised: an acknowledged write stays, a refused one
\* never shows, and one a crash interrupted is settled by the first restart.
\* A clear that reports failure promises nothing, and neither does the engine
\* between an I/O error it took no notice of and the next clear that works.
KeepsPromises ==
  ~unnoticed /\ phase \in {"serve", "reply"} => \A k \in Key : Contents[k] \in allowed[k]

\* The offsets of a snapshot stay valid while its values are read without the
\* storage mutex, whatever is written meanwhile (disk_store.h:44-47).
CutStaysValid == [k \in Key |-> ValueAt(cut[k])] = cutData

-----------------------------------------------------------------------------
(* What the engine promises. *)

\* Record i is the last of the first n records of f about k, and a SET.
Sets(f, i, k) == f[i].op = "SET" /\ f[i].key = k

LastSet(f, n, k, i) ==
  /\ i \in 1..n /\ Sets(f, i, k)
  /\ \A j \in 1..n : j > i => f[j].key # k

\* The value the records of f leave key k with.
Said(f, k) ==
  IF \E i \in 1..Len(f) : LastSet(f, Len(f), k, i)
  THEN f[CHOOSE i \in 1..Len(f) : LastSet(f, Len(f), k, i)].val
  ELSE Absent

Serving == phase \in {"serve", "reply"}

Stored == [k \in Key |-> Said(file, k)]
Shown == [k \in Key |-> IF Serving THEN get(k) ELSE {Absent}]
Mode == IF Serving THEN (IF ok THEN "up" ELSE "failed")
        ELSE IF phase = "truncate" THEN "clearing" ELSE "down"

Engine == INSTANCE DurableMap WITH data <- Stored, view <- Shown, mode <- Mode,
                                   Reads <- Readings

\* Every step of the engine is a step of a durable map, as long as no I/O error
\* has passed unnoticed since the file was last truncated: what the file says
\* changes only with an operation that succeeds, and a crash, a torn append, a
\* scan, the healing of the tail and a compaction leave it alone; a lookup
\* finds just that from the same step on, or nothing: when its read fails, and
\* once the engine has failed.
NoticedStepsAreMapSteps ==
  [][~unnoticed' => [Engine!MNext]_(Engine!promise)]_vars
=============================================================================
