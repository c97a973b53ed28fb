----------------------------- MODULE DurableMap -----------------------------
(***************************************************************************)
(* What a storage engine promises the commands above it (storage.h), with  *)
(* neither records nor an index: a map that only its own operations        *)
(* change, one key at a time or as a whole, that crashes and restarts      *)
(* leave alone, and that lookups show as it is, up to what the engine may  *)
(* fail to read.  Once an engine has reported a failure it takes no more   *)
(* writes until the next restart or clear, and its lookups may show        *)
(* nothing.                                                                *)
(***************************************************************************)
CONSTANTS Key, Value, Absent,
          Reads(_)   \* the results a lookup of a value may have

VARIABLES data,   \* what the next restart would load
          view,   \* the results lookups may have
          mode    \* "up", "failed", "clearing" or "down"

promise == <<data, view, mode>>

Empty == [k \in Key |-> Absent]

Answers(d) == [k \in Key |-> Reads(d[k])]
NoAnswers == [k \in Key |-> {Absent}]

MInit == data = Empty /\ view = NoAnswers /\ mode = "up"

\* A key is set, deleted or evicted: the next restart and the next lookup agree
\* on it from the same step on.
Update(k, v) ==
  /\ mode = "up"
  /\ data' = [data EXCEPT ![k] = v]
  /\ view' = Answers(data')
  /\ UNCHANGED mode

\* An operation is refused because the engine can no longer write.
Fail ==
  /\ mode = "up"
  /\ mode' = "failed"
  /\ view' \in {view, NoAnswers}
  /\ UNCHANGED data

BeginClear ==
  /\ mode \in {"up", "failed"}
  /\ mode' = "clearing"
  /\ view' = NoAnswers
  /\ UNCHANGED data

\* A clear that fails may leave the old data for the next restart, but then the
\* engine says so.
EndClear ==
  /\ mode = "clearing"
  /\ \/ data' = Empty /\ mode' \in {"up", "failed"}
     \/ data' = data /\ mode' = "failed"
  /\ view' = NoAnswers

Halt ==
  /\ mode # "down"
  /\ mode' = "down"
  /\ view' = NoAnswers
  /\ UNCHANGED data

Resume ==
  /\ mode = "down"
  /\ mode' = "up"
  /\ view' = Answers(data)
  /\ UNCHANGED data

MNext ==
  \/ \E k \in Key, v \in Value \cup {Absent} : Update(k, v)
  \/ Fail \/ BeginClear \/ EndClear \/ Halt \/ Resume

MSpec == MInit /\ [][MNext]_promise
=============================================================================
