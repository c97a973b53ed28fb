-------------------------- MODULE DiskStoreProofs ---------------------------
(***************************************************************************)
(* Proofs about DiskStore for any finite set of keys, any values and any   *)
(* bounds on the file, the interrupted appends and the crashes.            *)
(***************************************************************************)
EXTENDS DiskStore, FiniteSetTheorems, TLAPS

\* The last of the first n records of f about k, if there is one, sets it to v;
\* Absent if there is none or it is a DEL.
NoLastSet(f, n, k) ==
  \A i \in 1..n : Sets(f, i, k) => \E j \in 1..n : j > i /\ f[j].key = k

FileSays(f, k, v) ==
  \/ v = Absent /\ NoLastSet(f, Len(f), k)
  \/ \E i \in 1..Len(f) : LastSet(f, Len(f), k, i) /\ f[i].val = v

\* The index is what a scan of the first n records yields.
Indexed(n) ==
  \A k \in Key : \/ index[k] = 0 /\ NoLastSet(file, n, k)
                 \/ index[k] # 0 /\ LastSet(file, n, k, index[k])

\* A damaged record can only be the last one, and only until it is healed: as
\* long as no I/O error has passed unnoticed, like every fact below that does
\* not hold of an index and the file alone.
TornLast == ~unnoticed => \A i \in 1..Len(file) : file[i] = Torn => i = Len(file)

Healed ==
  ~unnoticed /\
  (\/ phase \in {"loaded", "rename", "compacted"}
   \/ phase \in {"serve", "reply", "truncate"} /\ ok)
    => \A i \in 1..Len(file) : file[i] # Torn

\* What the file says may be returned, whatever becomes of the index.
Durable == ~unnoticed => \A k \in Key : \E v \in allowed[k] : FileSays(file, k, v)

IndexFacts ==
  /\ phase = "scan" => Indexed(scanned) /\ \A i \in 1..scanned : file[i] # Torn
  /\ ~unnoticed /\ phase \in {"loaded", "rename", "compacted", "reply"}
       => Indexed(Len(file))
  /\ ~unnoticed /\ phase = "serve" /\ ok => Indexed(Len(file))
  /\ phase = "down" \/ (phase = "scan" /\ scanned = 0) => index = NoPlace
  /\ phase \in {"reply", "scan", "loaded", "rename", "compacted"} => ok

\* clear() in progress.
ClearFacts ==
  phase = "truncate" =>
    /\ isFollower /\ index = NoPlace
    /\ \A k \in Key : Absent \in allowed[k]

\* An operation that is about to be acknowledged is in the file.
ReplyFacts ==
  phase = "reply" =>
    /\ cur.key \in Key
    /\ Contents[cur.key] = cur.val /\ FileSays(file, cur.key, cur.val)

\* compact(): the second file has one record for each live key, no more.
TmpFacts ==
  phase = "rename" =>
    /\ \A i \in 1..Len(tmp) : tmp[i].key \in LiveKeys
                              /\ tmp[i] = SetRec(tmp[i].key, Contents[tmp[i].key])
    /\ \A i, j \in 1..Len(tmp) : tmp[i].key = tmp[j].key => i = j
    /\ \A k \in LiveKeys : \E i \in 1..Len(tmp) : tmp[i].key = k

\* A cut belongs to a leader that is serving, and lies within its file.
CutFacts ==
  /\ cut \in [Key -> 0..Len(file)]
  /\ isFollower \/ phase \notin {"serve", "reply"} => cut = NoPlace

IInv ==
  /\ TypeOK /\ TornLast /\ Healed /\ Durable /\ KeepsPromises
  /\ IndexFacts /\ ClearFacts /\ ReplyFacts /\ TmpFacts
  /\ CutFacts /\ CutStaysValid
-----------------------------------------------------------------------------
(* Lemmas about records and files. *)

Records == Record \cup {Torn}

\* What the two kinds of record and a torn one look like.
LEMMA RecordFacts ==
  /\ \A k \in Key, v \in Value :
       /\ SetRec(k, v) \in Record
       /\ SetRec(k, v).op = "SET" /\ SetRec(k, v).key = k /\ SetRec(k, v).val = v
  /\ \A k \in Key :
       DelRec(k) \in Record /\ DelRec(k).op = "DEL" /\ DelRec(k).key = k
  /\ \A r \in Record : /\ r # Torn /\ r.key \in Key /\ r.op \in {"SET", "DEL"}
                       /\ r.op = "SET" => r.val \in Value
  /\ Torn \notin Record /\ Torn.key \notin Key /\ Torn.op = "torn"
<1>1. \A k \in Key, v \in Value :
        /\ SetRec(k, v) \in Record
        /\ SetRec(k, v).op = "SET" /\ SetRec(k, v).key = k /\ SetRec(k, v).val = v
  BY DEF Record, SetRec
<1>2. \A k \in Key :
        DelRec(k) \in Record /\ DelRec(k).op = "DEL" /\ DelRec(k).key = k
  BY DEF Record, DelRec
<1>3. Torn.key = Absent /\ Torn.op = "torn"
  BY Zenon DEF Torn
<1>4. ASSUME NEW r \in Record
      PROVE  /\ r.key \in Key /\ r.op \in {"SET", "DEL"}
             /\ r.op = "SET" => r.val \in Value
  BY <1>1, <1>2 DEF Record
<1>5. Absent \notin Key
  BY DiskAssumption, Zenon
<1> QED
  BY <1>1, <1>2, <1>3, <1>4, <1>5, Zenon

\* An append leaves the other records where they are.
LEMMA AppendFacts ==
  ASSUME NEW f \in Seq(Records), NEW r \in Records
  PROVE  /\ Append(f, r) \in Seq(Records)
         /\ Len(f) \in Nat /\ Len(Append(f, r)) = Len(f) + 1
         /\ \A i \in 1..Len(f) : Append(f, r)[i] = f[i]
         /\ Append(f, r)[Len(f) + 1] = r
  OBVIOUS

\* An append about another key, or a torn one, does not change what a scan finds
\* of k.
LEMMA AppendElsewhere ==
  ASSUME NEW f \in Seq(Records), NEW r \in Records, NEW k \in Key, r.key # k
  PROVE  /\ NoLastSet(f, Len(f), k) => NoLastSet(Append(f, r), Len(f) + 1, k)
         /\ \A i : LastSet(f, Len(f), k, i) => LastSet(Append(f, r), Len(f) + 1, k, i)
         /\ \A v : FileSays(f, k, v) => FileSays(Append(f, r), k, v)
<1> DEFINE g == Append(f, r)
<1>1. /\ Len(f) \in Nat /\ Len(g) = Len(f) + 1
      /\ \A i \in 1..Len(f) : g[i] = f[i]
      /\ g[Len(f) + 1] = r
  BY AppendFacts, Zenon
<1> HIDE DEF g
<1>2. NoLastSet(f, Len(f), k) => NoLastSet(g, Len(f) + 1, k)
  <2> SUFFICES ASSUME NoLastSet(f, Len(f), k), NEW i \in 1..(Len(f) + 1), Sets(g, i, k)
               PROVE  \E j \in 1..(Len(f) + 1) : j > i /\ g[j].key = k
    BY Zenon DEF NoLastSet
  <2>1. i \in 1..Len(f)
    BY <1>1 DEF Sets
  <2>2. Sets(f, i, k)
    BY <1>1, <2>1, Zenon DEF Sets
  <2>3. PICK j \in 1..Len(f) : j > i /\ f[j].key = k
    BY <2>1, <2>2, Zenon DEF NoLastSet
  <2> QED
    BY <1>1, <2>3
<1>3. \A i : LastSet(f, Len(f), k, i) => LastSet(g, Len(f) + 1, k, i)
  BY <1>1 DEF LastSet, Sets
<1>4. \A v : FileSays(f, k, v) => FileSays(g, k, v)
  BY <1>1, <1>2, <1>3, Zenon DEF FileSays, LastSet
<1> QED
  BY <1>2, <1>3, <1>4, Zenon DEF g

\* A SET that is appended is the last one of its key, and a DEL leaves none.
LEMMA AppendAbout ==
  ASSUME NEW f \in Seq(Records), NEW k \in Key
  PROVE  /\ \A v \in Value :
              /\ LastSet(Append(f, SetRec(k, v)), Len(f) + 1, k, Len(f) + 1)
              /\ FileSays(Append(f, SetRec(k, v)), k, v)
         /\ NoLastSet(Append(f, DelRec(k)), Len(f) + 1, k)
         /\ FileSays(Append(f, DelRec(k)), k, Absent)
<1>1. DelRec(k) \in Records /\ \A v \in Value : SetRec(k, v) \in Records
  BY RecordFacts, Zenon DEF Records
<1>2. \A v \in Value : LastSet(Append(f, SetRec(k, v)), Len(f) + 1, k, Len(f) + 1)
  BY <1>1, RecordFacts, AppendFacts DEF LastSet, Sets
<1>3. NoLastSet(Append(f, DelRec(k)), Len(f) + 1, k)
  BY <1>1, RecordFacts, AppendFacts DEF NoLastSet, Sets
<1> QED
  BY <1>1, <1>2, <1>3, RecordFacts, AppendFacts DEF FileSays

\* An index built from the whole file returns what the file says.
LEMMA IndexedMeansSaid ==
  ASSUME TypeOK, Indexed(Len(file)), NEW k \in Key
  PROVE  /\ FileSays(file, k, Contents[k])
         /\ \A v : FileSays(file, k, v) => v = Contents[k]
<1>1. Len(file) \in Nat /\ index[k] \in 0..Len(file)
  BY DEF TypeOK
<1>2. CASE index[k] = 0
  <2>1. Contents[k] = Absent /\ NoLastSet(file, Len(file), k)
    BY <1>2, Zenon DEF Contents, ValueAt, Indexed
  <2>2. \A i : ~LastSet(file, Len(file), k, i)
    BY <1>1, <2>1, Zenon DEF LastSet, NoLastSet
  <2> QED
    BY <2>1, <2>2, Zenon DEF FileSays
<1>3. CASE index[k] # 0
  <2>1. Contents[k] = file[index[k]].val /\ LastSet(file, Len(file), k, index[k])
    BY <1>3, Zenon DEF Contents, ValueAt, Indexed
  <2>2. ~NoLastSet(file, Len(file), k)
    BY <1>1, <2>1, Zenon DEF LastSet, NoLastSet
  <2>3. \A i : LastSet(file, Len(file), k, i) => i = index[k]
    BY <1>1, <2>1 DEF LastSet, Sets
  <2> QED
    BY <1>1, <2>1, <2>2, <2>3, Zenon DEF FileSays, LastSet
<1> QED
  BY <1>2, <1>3, Zenon
-----------------------------------------------------------------------------
(* Init, and the steps that append. *)

LEMMA InitIInv == Init => IInv
<1> SUFFICES ASSUME Init PROVE IInv
  OBVIOUS
<1>1. TypeOK
  <2>1. unnoticed \in BOOLEAN /\ ok \in BOOLEAN
    BY Zenon DEF Init
  <2> QED
    BY <2>1, DiskAssumption DEF Init, TypeOK, NoPlace, Nothing
<1>2. KeepsPromises /\ CutStaysValid
  BY Zenon DEF Init, KeepsPromises, CutStaysValid, Contents, ValueAt, NoPlace, Nothing
<1>3. Durable /\ IndexFacts
  BY DEF Init, Durable, IndexFacts, FileSays, Indexed, NoLastSet, NoPlace
<1> QED
  BY <1>1, <1>2, <1>3
     DEF Init, IInv, TornLast, Healed, ClearFacts, ReplyFacts, TmpFacts, CutFacts, NoPlace

\* Places below the end of the file keep their values when a record is appended.
LEMMA AppendKeepsValues ==
  ASSUME TypeOK, NEW r \in Records, file' = Append(file, r), NEW p \in 0..Len(file)
  PROVE  ValueAt(p)' = ValueAt(p)
  BY AppendFacts DEF ValueAt, TypeOK, Records

LEMMA AppendKeepsCut ==
  ASSUME IInv, NEW r \in Records, file' = Append(file, r), UNCHANGED <<snapshot, isFollower>>,
         phase' \in {"serve", "reply"} \/ cut = NoPlace
  PROVE  CutFacts' /\ CutStaysValid'
<1>1. file \in Seq(Records) /\ Len(file') = Len(file) + 1 /\ Len(file) \in Nat
  BY AppendFacts, Zenon DEF IInv, TypeOK, Records
<1>2. cut' = cut /\ cutData' = cutData /\ isFollower' = isFollower
  BY Zenon DEF snapshot
<1>3. CutFacts'
  BY <1>1, <1>2 DEF IInv, CutFacts, NoPlace
<1>4. \A k \in Key : ValueAt(cut[k])' = ValueAt(cut[k])
  BY <1>2, AppendKeepsValues, Zenon DEF IInv, CutFacts
<1>5. CutStaysValid'
  BY <1>2, <1>4, Zenon DEF IInv, CutStaysValid
<1> QED
  BY <1>3, <1>5, Zenon

\* A torn record at the end of a file without one, while the index stays.
LEMMA TearKeepsIInv ==
  ASSUME IInv, phase = "serve", ok, Tear, UNCHANGED <<index, phase, cur, allowed, scanned,
         tmp, isFollower, snapshot, unnoticed>>, crashes' \in 0..MaxCrash, ok' = FALSE
  PROVE  IInv'
<1>1. /\ file \in Seq(Records) /\ Torn \in Records /\ file' = Append(file, Torn)
      /\ Len(file) \in Nat /\ Len(file') = Len(file) + 1
      /\ \A i \in 1..Len(file) : file'[i] = file[i]
      /\ file'[Len(file')] = Torn
  BY AppendFacts DEF IInv, TypeOK, Records, Tear
<1>2. TypeOK'
  <2>1. file' \in Seq(Record \cup {Torn})
    BY <1>1, AppendFacts, Zenon DEF Records
  <2>2. index' \in [Key -> 0..Len(file')]
    BY <1>1 DEF IInv, TypeOK
  <2>3. \A k \in Key : index'[k] # 0 => file'[index'[k]].op = "SET" /\ file'[index'[k]].key = k
    BY <1>1 DEF IInv, TypeOK
  <2> QED
    <3>1. tears' \in 0..MaxTorn
      BY DiskAssumption DEF IInv, TypeOK, Tear
    <3> QED
      BY <2>1, <2>2, <2>3, <3>1, Zenon DEF IInv, TypeOK, snapshot
<1>3. TornLast'
  BY <1>1 DEF IInv, Healed, TornLast
<1>4. Durable'
  BY <1>1, RecordFacts, AppendElsewhere, Zenon DEF IInv, Durable
<1>5. KeepsPromises'
  BY <1>1, AppendKeepsValues, Zenon DEF IInv, KeepsPromises, Contents, TypeOK
<1>6. CutFacts' /\ CutStaysValid'
  BY <1>1, AppendKeepsCut, Zenon
<1> QED
  BY <1>2, <1>3, <1>4, <1>5, <1>6, Zenon
     DEF IInv, Healed, IndexFacts, ClearFacts, ReplyFacts, TmpFacts

LEMMA AppendFailedKeepsIInv ==
  ASSUME IInv, phase = "serve", AppendFailed,
         UNCHANGED <<index, phase, cur, allowed, scanned, tmp, isFollower, snapshot, unnoticed, crashes>>
  PROVE  IInv'
<1>1. CASE Tear
  BY <1>1, TearKeepsIInv, Zenon DEF AppendFailed, IInv, TypeOK
<1>2. CASE file' = file /\ tears' = tears
  <2>1. TypeOK'
    BY <1>2, Zenon DEF IInv, TypeOK, AppendFailed, snapshot
  <2>2. TornLast' /\ Healed' /\ Durable' /\ CutFacts' /\ CutStaysValid'
    BY <1>2, Zenon DEF IInv, TornLast, Healed, AppendFailed, Durable, CutFacts, CutStaysValid,
                snapshot, ValueAt
  <2>3. KeepsPromises'
    BY <1>2, Zenon DEF IInv, KeepsPromises, Contents, ValueAt
  <2> QED
    BY <1>2, <2>1, <2>2, <2>3, Zenon
       DEF IInv, AppendFailed, IndexFacts, ClearFacts, ReplyFacts, TmpFacts
<1> QED
  BY <1>1, <1>2, Zenon DEF AppendFailed

\* The successful branch of set and del: v is Absent for a DEL.
LEMMA AppendedKeepsIInv ==
  ASSUME IInv, phase = "serve", NEW k \in Key, NEW v \in Value \cup {Absent},
         NEW r \in Record, Appended(r), Pending(k, v),
         \/ r = SetRec(k, v) /\ v \in Value /\ index' = [index EXCEPT ![k] = Len(file) + 1]
         \/ r = DelRec(k) /\ v = Absent /\ index' = [index EXCEPT ![k] = 0],
         UNCHANGED <<scanned, tmp, isFollower, snapshot, unnoticed, crashes>>
  PROVE  IInv'
<1>1. /\ file \in Seq(Records) /\ r \in Records /\ file' = Append(file, r)
      /\ Len(file) \in Nat /\ Len(file') = Len(file) + 1
      /\ \A i \in 1..Len(file) : file'[i] = file[i]
      /\ file'[Len(file')] = r
  BY AppendFacts DEF IInv, TypeOK, Records, Appended
<1>2. r.key = k /\ r # Torn /\ (v # Absent => r.op = "SET" /\ r.val = v /\ v \in Value)
  BY RecordFacts
<1>3. TypeOK'
  <2>1. file' \in Seq(Record \cup {Torn})
    BY <1>1, AppendFacts, Zenon DEF Records
  <2>2. index' \in [Key -> 0..Len(file')]
    <3>1. index \in [Key -> 0..Len(file')] /\ Len(file) + 1 \in 0..Len(file') /\ 0 \in 0..Len(file')
      BY <1>1 DEF IInv, TypeOK
    <3> QED
      BY <3>1, Zenon
  <2>3. \A q \in Key : index'[q] # 0 => file'[index'[q]].op = "SET" /\ file'[index'[q]].key = q
    BY <1>1, RecordFacts DEF IInv, TypeOK
  <2>4. /\ allowed' \in [Key -> SUBSET (Value \cup {Absent})]
        /\ cur' \in [key : Key \cup {Absent}, val : Value \cup {Absent}]
    BY Zenon DEF IInv, TypeOK, Pending
  <2> QED
    BY <2>1, <2>2, <2>3, <2>4, Zenon DEF IInv, TypeOK, Appended, Pending, snapshot
<1>4. TornLast' /\ Healed'
  BY <1>1, <1>2 DEF IInv, Healed, TornLast, Appended
<1>5. /\ FileSays(file', k, v)
      /\ \A q \in Key : q # k => \A w : FileSays(file, q, w) => FileSays(file', q, w)
  BY <1>1, <1>2, AppendAbout, AppendElsewhere, Zenon
<1>6. /\ v \in allowed'[k]
      /\ \A q \in Key : q # k => allowed'[q] = allowed[q]
  BY DEF Pending, IInv, TypeOK
<1>7. Durable'
  BY <1>5, <1>6, Zenon DEF IInv, Durable
<1>8. ASSUME ~unnoticed PROVE Indexed(Len(file))'
  <2>1. \A q \in Key : q # k => index'[q] = index[q]
    BY Zenon DEF IInv, TypeOK
  <2>2. Indexed(Len(file))
    BY <1>8, Zenon DEF IInv, IndexFacts, Appended
  <2>3. ASSUME NEW q \in Key, q # k
        PROVE  \/ index'[q] = 0 /\ NoLastSet(file', Len(file'), q)
               \/ index'[q] # 0 /\ LastSet(file', Len(file'), q, index'[q])
    BY <1>1, <1>2, <2>1, <2>2, <2>3, AppendElsewhere, Zenon DEF Indexed
  <2>4. \/ index'[k] = 0 /\ NoLastSet(file', Len(file'), k)
        \/ index'[k] # 0 /\ LastSet(file', Len(file'), k, index'[k])
    BY <1>1, AppendAbout DEF IInv, TypeOK
  <2> QED
    BY <2>3, <2>4, Zenon DEF Indexed
<1>9. \A q \in Key : Contents'[q] = IF q = k THEN v ELSE Contents[q]
  <2>1. \A q \in Key : q # k => ValueAt(index[q])' = ValueAt(index[q])
    <3> TAKE q \in Key
    <3> HAVE q # k
    <3>1. index'[q] = index[q] /\ index[q] \in 0..Len(file)
      BY Zenon DEF IInv, TypeOK
    <3>2. \A p \in 0..Len(file) : ValueAt(p)' = ValueAt(p)
      BY <1>1, AppendKeepsValues, Zenon DEF IInv
    <3> QED
      BY <1>1, <3>1 DEF ValueAt
  <2>2. ValueAt(index[k])' = v
    BY <1>1, <1>2, RecordFacts, DiskAssumption DEF ValueAt, IInv, TypeOK
  <2> QED
    BY <2>1, <2>2, Zenon DEF Contents
<1>10. KeepsPromises'
  BY <1>6, <1>9, Zenon DEF IInv, KeepsPromises
<1>11. ReplyFacts'
  BY <1>5, <1>9, Zenon DEF ReplyFacts, Pending
<1>12. CutFacts' /\ CutStaysValid'
  BY <1>1, AppendKeepsCut, Zenon DEF Pending
<1>13. phase' = "reply" /\ ok'
  BY Zenon DEF Pending, Appended
<1> QED
  BY <1>3, <1>4, <1>7, <1>8, <1>10, <1>11, <1>12, <1>13, Zenon
     DEF IInv, IndexFacts, ClearFacts, TmpFacts

LEMMA SetKeepsIInv ==
  ASSUME IInv, NEW k \in Key, NEW v \in Value, set(k, v)
  PROVE  IInv'
<1>1. SetRec(k, v) \in Record
  BY RecordFacts, Zenon
<1> QED
  BY <1>1, AppendedKeepsIInv, AppendFailedKeepsIInv, Zenon DEF set

LEMMA DelKeepsIInv ==
  ASSUME IInv, NEW k \in Key, del(k)
  PROVE  IInv'
<1>1. DelRec(k) \in Record
  BY RecordFacts, Zenon
<1> QED
  BY <1>1, AppendedKeepsIInv, AppendFailedKeepsIInv, Zenon DEF del
-----------------------------------------------------------------------------
(* The other steps of a serving process. *)

LEMMA ReplyKeepsIInv ==
  ASSUME IInv, Reply
  PROVE  IInv'
<1>1. /\ UNCHANGED <<file, index, ok, scanned, tmp, isFollower, cut, cutData, cur, unnoticed, tears, crashes>>
      /\ phase = "reply" /\ phase' = "serve" /\ cur.key \in Key
      /\ cur.val \in Value \cup {Absent}
      /\ allowed' = [allowed EXCEPT ![cur.key] = {cur.val}]
  BY Zenon DEF Reply, store, snapshot, IInv, ReplyFacts, TypeOK
<1>2. TypeOK'
  BY <1>1, Zenon DEF IInv, TypeOK
<1>3. \A k \in Key : allowed'[k] = IF k = cur.key THEN {cur.val} ELSE allowed[k]
  BY <1>1, Zenon DEF IInv, TypeOK
<1>4. Durable'
  BY <1>1, <1>3 DEF IInv, Durable, ReplyFacts
<1>5. Contents' = Contents
  BY <1>1, Zenon DEF Contents, ValueAt
<1>6. KeepsPromises'
  BY <1>1, <1>3, <1>5 DEF IInv, KeepsPromises, ReplyFacts
<1>7. CutFacts' /\ CutStaysValid'
  BY <1>1, Zenon DEF IInv, CutFacts, CutStaysValid, ValueAt
<1>8. IndexFacts'
  BY <1>1, Zenon DEF IInv, IndexFacts, Indexed
<1>9. TornLast' /\ Healed'
  BY <1>1, Zenon DEF IInv, TornLast, Healed, IndexFacts
<1> QED
  BY <1>1, <1>2, <1>4, <1>6, <1>7, <1>8, <1>9, Zenon DEF IInv, ClearFacts, ReplyFacts, TmpFacts

LEMMA ClearKeepsIInv ==
  ASSUME IInv, clear
  PROVE  IInv'
<1>1. /\ UNCHANGED <<file, ok, scanned, tmp, isFollower, cut, cutData, cur, unnoticed, tears, crashes>>
      /\ phase = "serve" /\ phase' = "truncate" /\ isFollower /\ index' = NoPlace
      /\ allowed' = [k \in Key |-> allowed[k] \cup {Absent}]
  BY Zenon DEF clear, snapshot
<1>2. TypeOK'
  BY <1>1 DEF IInv, TypeOK, NoPlace
<1>3. Durable'
  BY <1>1, Zenon DEF IInv, Durable
<1>4. CutFacts' /\ CutStaysValid'
  BY <1>1, Zenon DEF IInv, CutFacts, CutStaysValid, ValueAt
<1>5. TornLast' /\ Healed'
  BY <1>1, Zenon DEF IInv, TornLast, Healed
<1>6. ClearFacts'
  BY <1>1, Zenon DEF ClearFacts
<1> QED
  BY <1>1, <1>2, <1>3, <1>4, <1>5, <1>6, Zenon
     DEF IInv, KeepsPromises, IndexFacts, ReplyFacts, TmpFacts

LEMMA TruncateKeepsIInv ==
  ASSUME IInv, Truncate
  PROVE  IInv'
<1>1. /\ UNCHANGED <<index, scanned, tmp, isFollower, cut, cutData, cur, tears, crashes>>
      /\ phase = "truncate" /\ phase' = "serve" /\ isFollower /\ index = NoPlace
      /\ \A k \in Key : Absent \in allowed[k]
      /\ cut = NoPlace
  BY Zenon DEF Truncate, snapshot, IInv, ClearFacts, CutFacts
<1>2. KeepsPromises' /\ CutFacts' /\ CutStaysValid'
  <2>1. \A k \in Key : Absent \in allowed'[k]
    BY <1>1, Zenon DEF Truncate
  <2>2. Len(file') \in Nat
    BY DEF Truncate, IInv, TypeOK
  <2>3. cutData = [k \in Key |-> Absent]
    BY <1>1, Zenon DEF IInv, CutStaysValid, ValueAt, NoPlace
  <2> QED
    BY <1>1, <2>1, <2>2, <2>3
       DEF KeepsPromises, Contents, ValueAt, NoPlace, CutFacts, CutStaysValid
<1>3. CASE /\ file' = <<>> /\ ok' \in BOOLEAN /\ allowed' = [k \in Key |-> {Absent}]
           /\ unnoticed' = FALSE
  <2>1. TypeOK'
    <3>1. unnoticed' \in BOOLEAN /\ ok' \in BOOLEAN
      BY <1>3, Zenon
    <3> QED
      BY <1>1, <1>3, <3>1 DEF IInv, TypeOK, NoPlace
  <2>2. Durable' /\ Indexed(Len(file))'
    BY <1>1, <1>3 DEF Durable, FileSays, NoLastSet, Indexed, NoPlace
  <2>3. TornLast' /\ Healed'
    BY <1>3 DEF TornLast, Healed
  <2> QED
    BY <1>1, <1>2, <2>1, <2>2, <2>3, Zenon DEF IInv, IndexFacts, ClearFacts, ReplyFacts, TmpFacts
<1>4. CASE ok' = FALSE /\ UNCHANGED <<file, allowed, unnoticed>>
  <2>1. TypeOK'
    BY <1>1, <1>4, Zenon DEF IInv, TypeOK
  <2>2. Durable' /\ TornLast' /\ Healed'
    BY <1>1, <1>4, Zenon DEF IInv, Durable, TornLast, Healed
  <2> QED
    BY <1>1, <1>2, <1>4, <2>1, <2>2, Zenon DEF IInv, IndexFacts, ClearFacts, ReplyFacts, TmpFacts
<1>5. CASE ok' = TRUE /\ unnoticed' = TRUE /\ UNCHANGED <<file, allowed>>
  <2>1. TypeOK'
    BY <1>1, <1>5, Zenon DEF IInv, TypeOK
  <2> QED
    BY <1>1, <1>2, <1>5, <2>1, Zenon
       DEF IInv, TornLast, Healed, Durable, IndexFacts, ClearFacts, ReplyFacts, TmpFacts
<1> QED
  BY <1>3, <1>4, <1>5, Zenon DEF Truncate

LEMMA SnapshotKeepsIInv ==
  ASSUME IInv, snapshot_index
  PROVE  IInv'
<1>1. /\ UNCHANGED <<file, index, ok, phase, scanned, tmp, isFollower, allowed, cur, unnoticed, tears, crashes>>
      /\ phase = "serve" /\ ~isFollower /\ cut' = index /\ cutData' = Contents
  BY Zenon DEF snapshot_index, store
<1>2. Contents \in [Key -> Value \cup {Absent}]
  <2>1. ASSUME NEW k \in Key PROVE ValueAt(index[k]) \in Value \cup {Absent}
    <3>1. CASE index[k] = 0
      BY <3>1, Zenon DEF ValueAt
    <3>2. CASE index[k] # 0
      <4>1. index[k] \in 1..Len(file) /\ file[index[k]].op = "SET"
        BY <3>2 DEF IInv, TypeOK
      <4>2. file[index[k]] \in Record \cup {Torn}
        BY <4>1 DEF IInv, TypeOK
      <4> QED
        BY <3>2, <4>1, <4>2, RecordFacts, Zenon DEF ValueAt
    <3> QED
      BY <3>1, <3>2, Zenon
  <2> QED
    BY <2>1, Zenon DEF Contents
<1>3. TypeOK'
  BY <1>1, <1>2 DEF IInv, TypeOK
<1>4. CutFacts' /\ CutStaysValid'
  BY <1>1, Zenon DEF IInv, TypeOK, CutFacts, CutStaysValid, Contents, ValueAt
<1>5. Contents' = Contents
  BY <1>1, Zenon DEF Contents, ValueAt
<1>6. KeepsPromises' /\ Durable'
  BY <1>1, <1>5, Zenon DEF IInv, KeepsPromises, Durable
<1>7. IndexFacts'
  BY <1>1, Zenon DEF IInv, IndexFacts, Indexed
<1> QED
  BY <1>1, <1>3, <1>4, <1>6, <1>7, Zenon
     DEF IInv, TornLast, Healed, ClearFacts, ReplyFacts, TmpFacts
-----------------------------------------------------------------------------
(* Crash and recovery. *)

LEMMA CrashKeepsIInv ==
  ASSUME IInv, Crash
  PROVE  IInv'
<1>1. /\ phase' = "down" /\ index' = NoPlace /\ tmp' = <<>> /\ cut' = NoPlace
      /\ cutData' = Nothing /\ UNCHANGED <<ok, scanned, isFollower, allowed, cur, unnoticed>>
      /\ crashes' \in 0..MaxCrash
  BY DiskAssumption DEF Crash, IInv, TypeOK
<1>2. /\ file' \in Seq(Record \cup {Torn}) /\ tears' \in 0..MaxTorn
      /\ TornLast' /\ Durable'
  <2>1. CASE file' = file /\ tears' = tears
    BY <1>1, <2>1, Zenon DEF IInv, TypeOK, TornLast, Durable
  <2>2. CASE phase = "serve" /\ ok /\ Tear
    <3>1. /\ file \in Seq(Records) /\ Torn \in Records /\ file' = Append(file, Torn)
          /\ Len(file) \in Nat /\ Len(file') = Len(file) + 1
          /\ \A i \in 1..Len(file) : file'[i] = file[i]
      BY <2>2, AppendFacts DEF IInv, TypeOK, Records, Tear
    <3>2. file' \in Seq(Record \cup {Torn})
      BY <3>1, AppendFacts, Zenon DEF Records
    <3>3. tears' \in 0..MaxTorn
      BY <2>2, DiskAssumption DEF IInv, TypeOK, Tear
    <3>4. TornLast'
      BY <1>1, <2>2, <3>1 DEF IInv, Healed, TornLast
    <3>5. Durable'
      BY <1>1, <3>1, RecordFacts, AppendElsewhere, Zenon DEF IInv, Durable
    <3> QED
      BY <3>2, <3>3, <3>4, <3>5, Zenon
  <2> QED
    BY <2>1, <2>2, Zenon DEF Crash
<1>3. Len(file') \in Nat
  BY <1>2
<1>4. TypeOK'
  BY <1>1, <1>2, <1>3 DEF IInv, TypeOK, NoPlace, Nothing
<1>5. CutFacts' /\ CutStaysValid'
  BY <1>1, <1>3 DEF CutFacts, CutStaysValid, NoPlace, Nothing, ValueAt
<1> QED
  BY <1>1, <1>2, <1>4, <1>5, Zenon
     DEF IInv, Healed, KeepsPromises, IndexFacts, ClearFacts, ReplyFacts, TmpFacts

LEMMA OpenKeepsIInv ==
  ASSUME IInv, Open
  PROVE  IInv'
<1>1. /\ UNCHANGED <<file, index, tmp, isFollower, cut, cutData, allowed, cur, unnoticed, tears, crashes>>
      /\ phase = "down" /\ phase' = "scan" /\ scanned' = 0 /\ ok' = TRUE /\ index = NoPlace
  BY Zenon DEF Open, snapshot, IInv, IndexFacts
<1>2. TypeOK'
  BY <1>1 DEF IInv, TypeOK
<1>3. IndexFacts'
  BY <1>1 DEF IndexFacts, Indexed, NoLastSet, NoPlace
<1>4. TornLast' /\ Durable' /\ CutFacts' /\ CutStaysValid'
  BY <1>1, Zenon DEF IInv, TornLast, Durable, CutFacts, CutStaysValid, ValueAt
<1> QED
  BY <1>1, <1>2, <1>3, <1>4, Zenon DEF IInv, Healed, KeepsPromises, ClearFacts, ReplyFacts, TmpFacts

LEMMA ScanRecordKeepsIInv ==
  ASSUME IInv, ScanRecord
  PROVE  IInv'
<1> DEFINE n == scanned
           r == file[n + 1]
<1>1. /\ UNCHANGED <<file, ok, phase, tmp, isFollower, cut, cutData, allowed, cur, unnoticed, tears, crashes>>
      /\ phase = "scan" /\ n \in Nat /\ n + 1 \in 1..Len(file) /\ scanned' = n + 1
      /\ r # Torn /\ Len(file) \in Nat
      /\ index' = [index EXCEPT ![r.key] = IF r.op = "SET" THEN n + 1 ELSE 0]
      /\ cut = NoPlace
  BY DEF ScanRecord, MoreToScan, snapshot, IInv, TypeOK, CutFacts
<1>2. r \in Record /\ r.key \in Key /\ r.op \in {"SET", "DEL"}
  BY <1>1, RecordFacts DEF IInv, TypeOK
<1>3. Indexed(n)
  BY <1>1, Zenon DEF IInv, IndexFacts
<1>4. index \in [Key -> 0..Len(file)]
  BY Zenon DEF IInv, TypeOK
<1>5. ASSUME NEW k \in Key, k # r.key
      PROVE  \/ index'[k] = 0 /\ NoLastSet(file, n + 1, k)
             \/ index'[k] # 0 /\ LastSet(file, n + 1, k, index'[k])
  <2>1. index'[k] = index[k]
    BY <1>1, <1>4, <1>5, Zenon
  <2>2. CASE index[k] = 0
    <3>1. NoLastSet(file, n, k)
      BY <1>3, <2>2, Zenon DEF Indexed
    <3>2. \A i \in 1..(n + 1) : Sets(file, i, k) => i \in 1..n
      BY <1>1, <1>5 DEF Sets
    <3>3. NoLastSet(file, n + 1, k)
      BY <1>1, <3>1, <3>2 DEF NoLastSet
    <3> QED
      BY <2>1, <2>2, <3>3, Zenon
  <2>3. CASE index[k] # 0
    <3>1. LastSet(file, n, k, index[k])
      BY <1>3, <2>3, Zenon DEF Indexed
    <3>2. LastSet(file, n + 1, k, index[k])
      BY <1>1, <1>5, <3>1 DEF LastSet
    <3> QED
      BY <2>1, <2>3, <3>2, Zenon
  <2> QED
    BY <2>2, <2>3, Zenon
<1>6. \/ index'[r.key] = 0 /\ NoLastSet(file, n + 1, r.key)
      \/ index'[r.key] # 0 /\ LastSet(file, n + 1, r.key, index'[r.key])
  <2>1. index'[r.key] = IF r.op = "SET" THEN n + 1 ELSE 0
    BY <1>1, <1>2, <1>4, Zenon
  <2>2. CASE r.op = "SET"
    <3>1. LastSet(file, n + 1, r.key, n + 1)
      BY <1>1, <2>2 DEF LastSet, Sets
    <3> QED
      BY <1>1, <2>1, <2>2, <3>1
  <2>3. CASE r.op = "DEL"
    <3>1. \A i \in 1..(n + 1) : Sets(file, i, r.key) => i < n + 1
      BY <1>1, <2>3 DEF Sets
    <3>2. NoLastSet(file, n + 1, r.key)
      BY <1>1, <3>1 DEF NoLastSet
    <3> QED
      BY <2>1, <2>3, <3>2, Zenon
  <2> QED
    BY <1>2, <2>2, <2>3, Zenon
<1>7. Indexed(scanned)' /\ \A i \in 1..scanned' : file'[i] # Torn
  BY <1>1, <1>3, <1>5, <1>6 DEF Indexed, IInv, IndexFacts
<1>8. TypeOK'
  <2>1. index' \in [Key -> 0..Len(file)]
    <3>1. (IF r.op = "SET" THEN n + 1 ELSE 0) \in 0..Len(file)
      BY <1>1
    <3> QED
      BY <1>1, <1>2, <1>4, <3>1, Zenon
  <2>2. \A k \in Key : index'[k] # 0 => file[index'[k]].op = "SET" /\ file[index'[k]].key = k
    BY <1>5, <1>6, Zenon DEF LastSet, Sets
  <2> QED
    BY <1>1, <2>1, <2>2 DEF IInv, TypeOK
<1>9. CutFacts' /\ CutStaysValid'
  BY <1>1, Zenon DEF IInv, CutFacts, CutStaysValid, ValueAt, NoPlace
<1> QED
  BY <1>1, <1>7, <1>8, <1>9 DEF IInv, TornLast, Healed, Durable, KeepsPromises, IndexFacts,
                                ClearFacts, ReplyFacts, TmpFacts

\* The index built so far lies within the records scanned, whatever is cut off;
\* when no error passes unnoticed, only a torn record is.
LEMMA HealTailKeepsIInv ==
  ASSUME IInv, HealTail
  PROVE  IInv'
<1> DEFINE n == scanned
           g == SubSeq(file, 1, n)
<1>1. /\ UNCHANGED <<index, ok, scanned, tmp, isFollower, cut, cutData, allowed, cur, tears, crashes>>
      /\ phase = "scan" /\ phase' = "loaded" /\ n \in 0..Len(file)
      /\ Len(file) \in Nat /\ file \in Seq(Records)
      /\ Indexed(n) /\ cut = NoPlace
  BY DEF HealTail, snapshot, IInv, TypeOK, CutFacts, IndexFacts, Records
<1>2. g \in Seq(Records) /\ Len(g) = n /\ \A i \in 1..n : g[i] = file[i]
  BY <1>1
<1>3. \A k \in Key : index[k] # 0 => index[k] \in 1..n
  BY <1>1, Zenon DEF Indexed, LastSet
<1>4. file' \in {g, file} /\ unnoticed' \in BOOLEAN
  BY DEF HealTail, IInv, TypeOK
<1> HIDE DEF g
<1>5. TypeOK'
  <2>1. CASE file' = file
    BY <1>1, <1>4, <2>1 DEF IInv, TypeOK
  <2>2. CASE file' = g
    <3>1. index' \in [Key -> 0..Len(file')]
      BY <1>1, <1>2, <1>3, <2>2 DEF IInv, TypeOK
    <3>2. \A k \in Key : index'[k] # 0 => file'[index'[k]].op = "SET" /\ file'[index'[k]].key = k
      BY <1>1, <1>2, <1>3, <2>2, Zenon DEF IInv, TypeOK
    <3> QED
      BY <1>1, <1>2, <1>4, <2>2, <3>1, <3>2, Zenon DEF IInv, TypeOK, Records
  <2> QED
    BY <1>4, <2>1, <2>2, Zenon
<1>6. CutFacts' /\ CutStaysValid'
  BY <1>1, <1>2, <1>4 DEF IInv, CutFacts, CutStaysValid, ValueAt, NoPlace
<1>7. ASSUME ~unnoticed'
      PROVE  TornLast' /\ Healed' /\ Durable' /\ Indexed(Len(file))'
  <2>1. ~unnoticed /\ file' = g /\ (n = Len(file) \/ file[n + 1] = Torn)
    BY <1>1, <1>7 DEF HealTail, MoreToScan, g
  <2>2. /\ \A i \in 1..n : file[i] # Torn
        /\ \A i \in 1..Len(file) : i > n => i = Len(file) /\ i = n + 1 /\ file[i] = Torn
    BY <1>1, <2>1 DEF IInv, TornLast, IndexFacts
  <2>3. ASSUME NEW k \in Key
        PROVE  /\ NoLastSet(file, n, k) <=> NoLastSet(g, n, k)
               /\ NoLastSet(file, Len(file), k) => NoLastSet(g, n, k)
               /\ \A i : LastSet(file, n, k, i) <=> LastSet(g, n, k, i)
               /\ \A i : LastSet(file, Len(file), k, i) => LastSet(g, n, k, i)
    <3>1. Torn.key # k
      BY RecordFacts, Zenon
    <3>2. \A i \in 1..Len(file) : i > n => file[i].key # k
      BY <2>2, <3>1, Zenon
    <3>3. NoLastSet(file, n, k) <=> NoLastSet(g, n, k)
      BY <1>2 DEF NoLastSet, Sets
    <3>4. NoLastSet(file, Len(file), k) => NoLastSet(file, n, k)
      BY <1>1, <3>2 DEF NoLastSet
    <3>5. \A i : LastSet(file, n, k, i) <=> LastSet(g, n, k, i)
      BY <1>2, Zenon DEF LastSet, Sets
    <3>6. \A i : LastSet(file, Len(file), k, i) => LastSet(file, n, k, i)
      BY <1>1, <3>2 DEF LastSet, Sets
    <3> QED
      BY <3>3, <3>4, <3>5, <3>6, Zenon
  <2>4. \A k \in Key : \A v : FileSays(file, k, v) => FileSays(g, k, v)
    BY <1>2, <2>3, Zenon DEF FileSays, LastSet
  <2>5. Durable'
    BY <1>1, <2>1, <2>4, Zenon DEF IInv, Durable
  <2>6. Indexed(Len(file))'
    BY <1>1, <1>2, <2>1, <2>3, Zenon DEF Indexed
  <2>7. TornLast' /\ Healed'
    BY <1>1, <1>2, <2>1, <2>2, Zenon DEF TornLast, Healed
  <2> QED
    BY <2>5, <2>6, <2>7, Zenon
<1>8. TornLast' /\ Healed' /\ Durable' /\ (~unnoticed' => Indexed(Len(file))')
  BY <1>7, Zenon DEF TornLast, Healed, Durable
<1> QED
  BY <1>1, <1>5, <1>6, <1>8, Zenon
     DEF IInv, KeepsPromises, IndexFacts, ClearFacts, ReplyFacts, TmpFacts

LEMMA WriteTmpKeepsIInv ==
  ASSUME IInv, WriteTmp
  PROVE  IInv'
<1> DEFINE c == Cardinality(LiveKeys)
<1>1. /\ UNCHANGED <<file, index, ok, scanned, isFollower, cut, cutData, allowed, cur, unnoticed, tears, crashes>>
      /\ phase = "loaded" /\ phase' = "rename" /\ cut = NoPlace
      /\ ~unnoticed => Indexed(Len(file)) /\ \A i \in 1..Len(file) : file[i] # Torn
  BY Zenon DEF WriteTmp, store, snapshot, IInv, CutFacts, IndexFacts, Healed
<1>2. c \in Nat
  <2>1. IsFiniteSet(Key)
    BY DiskAssumption, Zenon
  <2>2. LiveKeys \subseteq Key
    BY Zenon DEF LiveKeys
  <2>3. IsFiniteSet(LiveKeys)
    BY <2>1, <2>2, FS_Subset, Zenon
  <2> QED
    BY <2>3, FS_CardinalityType, Zenon
<1> HIDE DEF c
<1>3. PICK order \in Bijection(1..c, LiveKeys) :
        tmp' = [i \in DOMAIN order |-> SetRec(order[i], Contents[order[i]])]
  BY Zenon DEF WriteTmp, c
<1>4. /\ DOMAIN order = 1..c
      /\ \A i \in 1..c : order[i] \in LiveKeys
      /\ \A i, j \in 1..c : order[i] = order[j] => i = j
      /\ \A k \in LiveKeys : \E i \in 1..c : order[i] = k
  BY <1>3, Zenon DEF Bijection, Injection, Surjection, IsInjective
<1>5. \A k \in LiveKeys : k \in Key /\ Contents[k] \in Value
  BY <1>1, RecordFacts DEF LiveKeys, Contents, ValueAt, IInv, TypeOK
<1>6. /\ tmp' = [i \in 1..c |-> SetRec(order[i], Contents[order[i]])]
      /\ \A i \in 1..c : SetRec(order[i], Contents[order[i]]) \in Record
  BY <1>3, <1>4, <1>5, RecordFacts, Zenon
<1>7. tmp' \in Seq(Record) /\ Len(tmp') = c
  BY <1>2, <1>6
<1>8. TypeOK'
  BY <1>1, <1>7, Zenon DEF IInv, TypeOK
<1>9. \A i \in 1..c : tmp'[i] = SetRec(order[i], Contents[order[i]]) /\ tmp'[i].key = order[i]
  BY <1>4, <1>5, <1>6, RecordFacts
<1>10. LiveKeys' = LiveKeys /\ Contents' = Contents
  BY <1>1, Zenon DEF LiveKeys, Contents, ValueAt
<1>11. TmpFacts'
  BY <1>4, <1>7, <1>9, <1>10 DEF TmpFacts
<1>12. CutFacts' /\ CutStaysValid'
  BY <1>1, Zenon DEF IInv, CutFacts, CutStaysValid, ValueAt, NoPlace
<1> QED
  BY <1>1, <1>8, <1>11, <1>12, Zenon
     DEF IInv, TornLast, Healed, Durable, KeepsPromises, IndexFacts, Indexed, ClearFacts, ReplyFacts

\* The compacted file says of every key what the index said.
LEMMA RenameKeepsIInv ==
  ASSUME IInv, Rename
  PROVE  IInv'
<1>1. /\ UNCHANGED <<ok, scanned, isFollower, cut, cutData, allowed, cur, unnoticed, tears, crashes>>
      /\ phase = "rename" /\ phase' = "compacted" /\ tmp' = <<>> /\ cut = NoPlace
      /\ ~unnoticed => Indexed(Len(file)) /\ \A i \in 1..Len(file) : file[i] # Torn
      /\ tmp \in Seq(Record)
  BY Zenon DEF Rename, snapshot, IInv, TypeOK, CutFacts, IndexFacts, Healed
<1>2. tmp' \in Seq(Record)
  BY <1>1
<1>3. CASE UNCHANGED <<file, index>>
  <2>1. TypeOK'
    BY <1>1, <1>2, <1>3, Zenon DEF IInv, TypeOK
  <2>2. CutFacts' /\ CutStaysValid'
    BY <1>1, <1>3, Zenon DEF IInv, CutFacts, CutStaysValid, ValueAt, NoPlace
  <2> QED
    BY <1>1, <1>3, <2>1, <2>2, Zenon
       DEF IInv, TornLast, Healed, Durable, KeepsPromises, IndexFacts, Indexed,
           ClearFacts, ReplyFacts, TmpFacts
<1>4. CASE /\ file' = tmp
           /\ index' = [k \in Key |-> IF k \in LiveKeys
                                      THEN CHOOSE i \in DOMAIN tmp : tmp[i].key = k
                                      ELSE 0]
  <2> DEFINE at(k) == CHOOSE i \in DOMAIN tmp : tmp[i].key = k
  <2>0. \A k, v : SetRec(k, v).op = "SET" /\ SetRec(k, v).val = v
    BY Zenon DEF SetRec
  <2>1. /\ \A i \in 1..Len(tmp) : tmp[i].key \in LiveKeys
                                  /\ tmp[i] = SetRec(tmp[i].key, Contents[tmp[i].key])
        /\ \A i, j \in 1..Len(tmp) : tmp[i].key = tmp[j].key => i = j
        /\ \A k \in LiveKeys : \E i \in 1..Len(tmp) : tmp[i].key = k
    BY <1>1, Zenon DEF IInv, TmpFacts
  <2>2. DOMAIN tmp = 1..Len(tmp) /\ Len(tmp) \in Nat
    BY <1>1
  <2>3. \A k \in LiveKeys : at(k) \in 1..Len(tmp) /\ tmp[at(k)].key = k
    BY <2>1, <2>2, Zenon
  <2>4. /\ \A k \in LiveKeys : index'[k] = at(k)
        /\ \A k \in Key : k \notin LiveKeys => index'[k] = 0
        /\ LiveKeys \subseteq Key
    BY <1>4, Zenon DEF LiveKeys
  <2> HIDE DEF at
  <2>5. \A i \in 1..Len(tmp) : tmp[i] \in Record /\ tmp[i].op = "SET" /\ tmp[i] # Torn
    <3>1. ASSUME NEW i \in 1..Len(tmp)
          PROVE  tmp[i] \in Record /\ tmp[i].op = "SET" /\ tmp[i] # Torn
      <4>1. tmp[i] \in Record
        BY <1>1
      <4>2. tmp[i].op = "SET"
        BY <2>0, <2>1
      <4> QED
        BY <4>1, <4>2, RecordFacts, Zenon
    <3> QED
      BY <3>1, Zenon
  <2>6. ASSUME NEW k \in LiveKeys
        PROVE  LastSet(tmp, Len(tmp), k, index'[k]) /\ tmp[index'[k]].val = Contents[k]
    <3>1. index'[k] \in 1..Len(tmp) /\ tmp[index'[k]].key = k
      BY <2>3, <2>4, Zenon
    <3>2. tmp[index'[k]].val = Contents[k]
      BY <2>0, <2>1, <3>1
    <3> QED
      BY <2>1, <2>2, <2>5, <3>1, <3>2 DEF LastSet, Sets
  <2>7. ASSUME NEW k \in Key, k \notin LiveKeys
        PROVE  NoLastSet(tmp, Len(tmp), k)
    BY <2>1, <2>7 DEF NoLastSet, Sets
  <2>8. Indexed(Len(file))'
    <3>1. ASSUME NEW k \in Key
          PROVE  \/ index'[k] = 0 /\ NoLastSet(tmp, Len(tmp), k)
                 \/ index'[k] # 0 /\ LastSet(tmp, Len(tmp), k, index'[k])
      <4>1. CASE k \in LiveKeys
        <5>1. LastSet(tmp, Len(tmp), k, index'[k])
          BY <2>6, <4>1, Zenon
        <5>2. index'[k] # 0
          BY <2>2, <5>1 DEF LastSet
        <5> QED
          BY <5>1, <5>2, Zenon
      <4>2. CASE k \notin LiveKeys
        BY <2>4, <2>7, <4>2, Zenon
      <4> QED
        BY <4>1, <4>2, Zenon
    <3> QED
      BY <1>4, <3>1, Zenon DEF Indexed
  <2>9. TypeOK'
    <3>1. index' \in [Key -> 0..Len(tmp)]
      BY <1>4, <2>2, <2>3, <2>4 DEF at
    <3>2. \A k \in Key : index'[k] # 0 => tmp[index'[k]].op = "SET" /\ tmp[index'[k]].key = k
      BY <2>4, <2>6, Zenon DEF LastSet, Sets
    <3>3. file' \in Seq(Record \cup {Torn})
      BY <1>1, <1>4
    <3> QED
      BY <1>1, <1>2, <1>4, <3>1, <3>2, <3>3, Zenon DEF IInv, TypeOK
  <2>10. Durable'
    <3>1. ASSUME ~unnoticed, NEW k \in Key
          PROVE  \E v \in allowed[k] : FileSays(tmp, k, v)
      <4>1. Contents[k] \in allowed[k]
        BY <1>1, <3>1, IndexedMeansSaid, Zenon DEF IInv, Durable
      <4>2. CASE k \in LiveKeys
        BY <2>6, <4>1, <4>2, Zenon DEF FileSays, LastSet
      <4>3. CASE k \notin LiveKeys
        <5>1. Contents[k] = Absent
          BY <4>3, Zenon DEF LiveKeys, Contents, ValueAt
        <5> QED
          BY <2>7, <4>1, <4>3, <5>1, Zenon DEF FileSays
      <4> QED
        BY <4>2, <4>3, Zenon
    <3> QED
      BY <1>1, <1>4, <3>1, Zenon DEF Durable
  <2>11. CutFacts' /\ CutStaysValid'
    BY <1>1, <1>4, <2>2 DEF IInv, CutFacts, CutStaysValid, ValueAt, NoPlace
  <2> QED
    BY <1>1, <1>4, <2>2, <2>5, <2>8, <2>9, <2>10, <2>11, Zenon
       DEF IInv, TornLast, Healed, KeepsPromises, IndexFacts, ClearFacts, ReplyFacts, TmpFacts
<1> QED
  BY <1>3, <1>4, Zenon DEF Rename

LEMMA ServeKeepsIInv ==
  ASSUME IInv, Serve
  PROVE  IInv'
<1>1. /\ UNCHANGED <<file, index, ok, scanned, tmp, isFollower, cut, cutData, cur, unnoticed, tears, crashes>>
      /\ phase \in {"loaded", "compacted"} /\ phase' = "serve" /\ cut = NoPlace
      /\ ~unnoticed => Indexed(Len(file)) /\ \A i \in 1..Len(file) : file[i] # Torn
      /\ allowed' = [k \in Key |-> IF Contents[k] \in allowed[k]
                                   THEN {Contents[k]} ELSE allowed[k]]
  BY Zenon DEF Serve, store, snapshot, IInv, CutFacts, IndexFacts, Healed
<1>2. ~unnoticed => \A k \in Key : /\ Contents[k] \in allowed[k]
                                   /\ FileSays(file, k, Contents[k])
  BY <1>1, IndexedMeansSaid, Zenon DEF IInv, Durable
<1>3. ~unnoticed => \A k \in Key : allowed'[k] = {Contents[k]}
  BY <1>1, <1>2, Zenon
<1>4. Contents' = Contents
  BY <1>1, Zenon DEF Contents, ValueAt
<1>5. TypeOK'
  <2>1. allowed' \in [Key -> SUBSET (Value \cup {Absent})]
    BY <1>1 DEF IInv, TypeOK
  <2> QED
    BY <1>1, <2>1, Zenon DEF IInv, TypeOK
<1>6. Durable' /\ KeepsPromises'
  BY <1>1, <1>2, <1>3, <1>4, Zenon DEF Durable, KeepsPromises
<1>7. CutFacts' /\ CutStaysValid'
  BY <1>1, Zenon DEF IInv, CutFacts, CutStaysValid, ValueAt, NoPlace
<1> QED
  BY <1>1, <1>5, <1>6, <1>7, Zenon
     DEF IInv, TornLast, Healed, IndexFacts, Indexed, ClearFacts, ReplyFacts, TmpFacts

LEMMA StutterKeepsIInv ==
  ASSUME IInv, UNCHANGED vars
  PROVE  IInv'
<1>1. UNCHANGED <<file, index, ok, phase, scanned, tmp, isFollower, cut, cutData, allowed,
                  cur, unnoticed, tears, crashes>>
  BY Zenon DEF vars, store, snapshot
<1>2. TypeOK'
  BY <1>1 DEF IInv, TypeOK
<1>3. Contents' = Contents /\ LiveKeys' = LiveKeys /\ \A n : Indexed(n)' <=> Indexed(n)
  BY <1>1 DEF Contents, ValueAt, LiveKeys, Indexed
<1>4. TornLast' /\ Healed' /\ Durable' /\ KeepsPromises'
  BY <1>1, <1>3, Zenon DEF IInv, TornLast, Healed, Durable, KeepsPromises
<1>5. IndexFacts' /\ ClearFacts' /\ ReplyFacts' /\ TmpFacts'
  BY <1>1, <1>3, Zenon DEF IInv, IndexFacts, ClearFacts, ReplyFacts, TmpFacts
<1>6. CutFacts' /\ CutStaysValid'
  BY <1>1 DEF IInv, CutFacts, CutStaysValid, ValueAt
<1> QED
  BY <1>2, <1>4, <1>5, <1>6, Zenon DEF IInv
-----------------------------------------------------------------------------
(* The theorems. *)

\* IInv is inductive: every operation, crash and step of a restart keeps it.
THEOREM InductiveInvariant == Spec => []IInv
<1>1. Init => IInv
  BY InitIInv, Zenon
<1>2. IInv /\ [Next]_vars => IInv'
  <2> SUFFICES ASSUME IInv, [Next]_vars
               PROVE  IInv'
    OBVIOUS
  <2>1. CASE \E k \in Key, v \in Value : set(k, v)
    BY <2>1, SetKeepsIInv, Zenon
  <2>2. CASE \E k \in Key : del(k)
    BY <2>2, DelKeepsIInv, Zenon
  <2>3. CASE Reply
    BY <2>3, ReplyKeepsIInv, Zenon
  <2>4. CASE clear
    BY <2>4, ClearKeepsIInv, Zenon
  <2>5. CASE Truncate
    BY <2>5, TruncateKeepsIInv, Zenon
  <2>6. CASE snapshot_index
    BY <2>6, SnapshotKeepsIInv, Zenon
  <2>7. CASE Crash
    BY <2>7, CrashKeepsIInv, Zenon
  <2>8. CASE Open
    BY <2>8, OpenKeepsIInv, Zenon
  <2>9. CASE ScanRecord
    BY <2>9, ScanRecordKeepsIInv, Zenon
  <2>10. CASE HealTail
    BY <2>10, HealTailKeepsIInv, Zenon
  <2>11. CASE WriteTmp
    BY <2>11, WriteTmpKeepsIInv, Zenon
  <2>12. CASE Rename
    BY <2>12, RenameKeepsIInv, Zenon
  <2>13. CASE Serve
    BY <2>13, ServeKeepsIInv, Zenon
  <2>14. CASE UNCHANGED vars
    BY <2>14, StutterKeepsIInv, Zenon
  <2> QED
    BY <2>1, <2>2, <2>3, <2>4, <2>5, <2>6, <2>7, <2>8, <2>9, <2>10, <2>11, <2>12, <2>13,
       <2>14, Zenon DEF Next
<1> QED
  BY <1>1, <1>2, PTL DEF Spec

\* The index never points outside the file or at another key's record, also
\* while recover() and compact() replace both.
THEOREM TypeCorrect == Spec => []TypeOK
<1>1. IInv => TypeOK
  BY Zenon DEF IInv
<1> QED
  BY <1>1, InductiveInvariant, PTL

\* Acknowledged writes and deletes survive interrupted appends, crashes in the
\* middle of clear() and compact(), and any number of restarts; what was
\* refused never shows.
THEOREM ContentsKeepPromises == Spec => []KeepsPromises
<1>1. IInv => KeepsPromises
  BY Zenon DEF IInv
<1> QED
  BY <1>1, InductiveInvariant, PTL

\* The places snapshot_index() handed out keep their values while they are read
\* without the storage mutex.
THEOREM CutsStayValid == Spec => []CutStaysValid
<1>1. IInv => CutStaysValid
  BY Zenon DEF IInv
<1> QED
  BY <1>1, InductiveInvariant, PTL
-----------------------------------------------------------------------------
(* The engine implements DurableMap. *)

\* The map the refinement reads off the file is what the file says.
LEMMA SaidIsWhatTheFileSays ==
  ASSUME NEW f, Len(f) \in Nat, NEW k, NEW v, FileSays(f, k, v)
  PROVE  Said(f, k) = v
<1>1. CASE v = Absent /\ NoLastSet(f, Len(f), k)
  <2>1. \A i \in 1..Len(f) : ~LastSet(f, Len(f), k, i)
    BY <1>1, Zenon DEF NoLastSet, LastSet
  <2> QED
    BY <1>1, <2>1, Zenon DEF Said
<1>2. ASSUME NEW i \in 1..Len(f), LastSet(f, Len(f), k, i), f[i].val = v
      PROVE  Said(f, k) = v
  <2>1. ASSUME NEW j \in 1..Len(f), LastSet(f, Len(f), k, j) PROVE i = j
    BY <1>2, <2>1 DEF LastSet, Sets
  <2>2. (CHOOSE j \in 1..Len(f) : LastSet(f, Len(f), k, j)) = i
    BY <1>2, <2>1, Zenon
  <2> QED
    BY <1>2, <2>2, Zenon DEF Said
<1> QED
  BY <1>1, <1>2, Zenon DEF FileSays

\* Every file says something of every key.
LEMMA TheFileSaysSomething ==
  ASSUME NEW f, Len(f) \in Nat, NEW k
  PROVE  FileSays(f, k, Said(f, k))
<1>1. CASE \E i \in 1..Len(f) : LastSet(f, Len(f), k, i)
  <2> DEFINE i == CHOOSE j \in 1..Len(f) : LastSet(f, Len(f), k, j)
  <2>1. i \in 1..Len(f) /\ LastSet(f, Len(f), k, i)
    BY <1>1, Zenon
  <2>2. Said(f, k) = f[i].val
    BY <1>1, Zenon DEF Said
  <2> QED
    BY <2>1, <2>2, Zenon DEF FileSays
<1>2. CASE ~\E i \in 1..Len(f) : LastSet(f, Len(f), k, i)
  <2>1. NoLastSet(f, Len(f), k)
    BY <1>2, Zenon DEF NoLastSet, LastSet
  <2> QED
    BY <1>2, <2>1, Zenon DEF Said, FileSays
<1> QED
  BY <1>1, <1>2, Zenon

\* A torn record at the end adds nothing.
LEMMA TornSaysNothing ==
  ASSUME TypeOK, file' = Append(file, Torn)
  PROVE  Stored' = Stored
<1>1. file \in Seq(Records) /\ Torn \in Records /\ Len(file) \in Nat /\ Len(file') \in Nat
  BY AppendFacts DEF TypeOK, Records
<1>2. ASSUME NEW k \in Key PROVE Said(file', k) = Said(file, k)
  <2>1. FileSays(file, k, Said(file, k))
    BY <1>1, TheFileSaysSomething, Zenon
  <2>2. FileSays(file', k, Said(file, k))
    BY <1>1, <2>1, RecordFacts, AppendElsewhere, Zenon
  <2> QED
    BY <1>1, <2>2, SaidIsWhatTheFileSays, Zenon
<1> QED
  BY <1>2, Zenon DEF Stored

\* Lookups of a working engine return what is stored, or nothing.
LEMMA ShownIsStored ==
  IInv /\ ~unnoticed /\ Serving /\ ok => Shown = Engine!Answers(Stored)
<1> SUFFICES ASSUME IInv, ~unnoticed, Serving, ok PROVE Shown = Engine!Answers(Stored)
  OBVIOUS
<1>1. TypeOK /\ Indexed(Len(file)) /\ Len(file) \in Nat
  BY DEF IInv, IndexFacts, Serving, TypeOK
<1>2. ASSUME NEW k \in Key PROVE get(k) = Readings(Said(file, k))
  <2>1. FileSays(file, k, Contents[k])
    BY <1>1, IndexedMeansSaid, Zenon
  <2> QED
    BY <1>1, <2>1, SaidIsWhatTheFileSays, Zenon DEF get
<1> QED
  BY <1>2, Zenon DEF Shown, Stored, Engine!Answers

\* A step of a restart that leaves the file's meaning alone.
LEMMA HiddenStep ==
  ASSUME Stored' = Stored, Mode = "down", Mode' = "down"
  PROVE  UNCHANGED Engine!promise
<1>1. ~Serving /\ ~Serving'
  BY DEF Mode
<1> QED
  BY <1>1, Zenon DEF Engine!promise, Shown

LEMMA AppendFailedIsFail ==
  ASSUME IInv, Serving, Serving', AppendFailed
  PROVE  Engine!Fail
<1>1. Stored' = Stored
  BY TornSaysNothing, Zenon DEF AppendFailed, Tear, IInv, Stored
<1>2. Mode = "up" /\ Mode' = "failed" /\ ok' = FALSE
  BY Zenon DEF Mode, AppendFailed
<1>3. Shown' = Engine!NoAnswers
  BY <1>2, Zenon DEF Shown, Engine!NoAnswers, get
<1> QED
  BY <1>1, <1>2, <1>3 DEF Engine!Fail

LEMMA AppendedIsUpdate ==
  ASSUME IInv, IInv', ~unnoticed', phase = "serve", NEW k \in Key, NEW v \in Value \cup {Absent},
         NEW r \in Record, Appended(r), Pending(k, v),
         \/ r = SetRec(k, v) /\ v \in Value
         \/ r = DelRec(k) /\ v = Absent
  PROVE  Engine!Update(k, v)
<1>1. /\ file \in Seq(Records) /\ r \in Records /\ file' = Append(file, r)
      /\ Len(file) \in Nat /\ Len(file') \in Nat /\ r.key = k
  <2>1. /\ file \in Seq(Records) /\ r \in Records /\ file' = Append(file, r)
        /\ Len(file) \in Nat /\ Len(file') \in Nat
    BY AppendFacts DEF IInv, TypeOK, Records, Appended
  <2>2. r.key = k
    BY RecordFacts
  <2> QED
    BY <2>1, <2>2, Zenon
<1>2. Said(file', k) = v
  <2>1. FileSays(file', k, v)
    BY <1>1, AppendAbout, Zenon
  <2> QED
    BY <1>1, <2>1, SaidIsWhatTheFileSays, Zenon
<1>3. ASSUME NEW q \in Key, q # k PROVE Said(file', q) = Said(file, q)
  <2>1. FileSays(file, q, Said(file, q))
    BY <1>1, TheFileSaysSomething, Zenon
  <2>2. FileSays(file', q, Said(file, q))
    BY <1>1, <1>3, <2>1, AppendElsewhere, Zenon
  <2> QED
    BY <1>1, <2>2, SaidIsWhatTheFileSays, Zenon
<1>4. Stored' = [Stored EXCEPT ![k] = v]
  BY <1>2, <1>3, Zenon DEF Stored
<1>5. Serving /\ Serving' /\ ok /\ ok'
  BY Zenon DEF Serving, Appended, Pending
<1>6. (IInv /\ ~unnoticed /\ Serving /\ ok => Shown = Engine!Answers(Stored))'
  BY ShownIsStored, PTL
<1>7. Shown' = Engine!Answers(Stored')
  BY <1>5, <1>6, Zenon
<1> QED
  BY <1>4, <1>5, <1>7, Zenon DEF Engine!Update, Mode

LEMMA SetIsAMapStep ==
  ASSUME IInv, ~unnoticed', NEW k \in Key, NEW v \in Value, set(k, v)
  PROVE  Engine!MNext
<1>1. IInv' /\ SetRec(k, v) \in Record
  BY SetKeepsIInv, RecordFacts, Zenon
<1>2. CASE Appended(SetRec(k, v)) /\ Pending(k, v)
  <2>1. Engine!Update(k, v)
    BY <1>1, <1>2, AppendedIsUpdate, Zenon DEF set
  <2> QED
    BY <2>1, Zenon DEF Engine!MNext
<1>3. CASE AppendFailed /\ UNCHANGED phase
  <2>1. Engine!Fail
    BY <1>3, AppendFailedIsFail, Zenon DEF set, Serving
  <2> QED
    BY <2>1, Zenon DEF Engine!MNext
<1> QED
  BY <1>2, <1>3, Zenon DEF set

LEMMA DelIsAMapStep ==
  ASSUME IInv, ~unnoticed', NEW k \in Key, del(k)
  PROVE  Engine!MNext
<1>1. IInv' /\ DelRec(k) \in Record
  BY DelKeepsIInv, RecordFacts, Zenon
<1>2. CASE Appended(DelRec(k)) /\ Pending(k, Absent)
  <2>1. Engine!Update(k, Absent)
    BY <1>1, <1>2, AppendedIsUpdate, Zenon DEF del
  <2> QED
    BY <2>1, Zenon DEF Engine!MNext
<1>3. CASE AppendFailed /\ UNCHANGED phase
  <2>1. Engine!Fail
    BY <1>3, AppendFailedIsFail, Zenon DEF del, Serving
  <2> QED
    BY <2>1, Zenon DEF Engine!MNext
<1> QED
  BY <1>2, <1>3, Zenon DEF del

\* clear() hides the data at once; whether the next restart still finds it is
\* decided by the truncation, which fails the engine when it fails.
LEMMA ClearIsAMapStep ==
  ASSUME IInv, clear
  PROVE  Engine!BeginClear
<1>1. Stored' = Stored
  BY Zenon DEF clear, Stored
<1>2. Serving /\ ~Serving' /\ phase' = "truncate"
  BY Zenon DEF clear, Serving
<1>3. Mode \in {"up", "failed"} /\ Mode' = "clearing"
  BY <1>2 DEF Mode
<1>4. Shown' = Engine!NoAnswers
  BY <1>2, Zenon DEF Shown, Engine!NoAnswers
<1> QED
  BY <1>1, <1>3, <1>4, Zenon DEF Engine!BeginClear

LEMMA TruncateIsAMapStep ==
  ASSUME IInv, ~unnoticed', Truncate
  PROVE  Engine!EndClear
<1>1. phase = "truncate" /\ phase' = "serve" /\ index' = NoPlace
  BY Zenon DEF Truncate, IInv, ClearFacts
<1>2. Mode = "clearing"
  BY <1>1 DEF Mode, Serving
<1>3. Mode' = IF ok' THEN "up" ELSE "failed"
  BY <1>1, Zenon DEF Mode, Serving
<1>4. Shown' = Engine!NoAnswers
  <2>1. \A k \in Key : index'[k] = 0
    BY <1>1, Zenon DEF NoPlace
  <2> QED
    BY <2>1, Zenon DEF Shown, Engine!NoAnswers, get, Readings, Contents, ValueAt
<1>5. CASE file' = <<>> /\ ok' \in BOOLEAN
  <2>1. \A k \in Key : Said(<<>>, k) = Absent
    BY DEF Said
  <2>2. Stored' = Engine!Empty
    BY <1>5, <2>1, Zenon DEF Stored, Engine!Empty
  <2> QED
    BY <1>2, <1>3, <1>4, <1>5, <2>2 DEF Engine!EndClear
<1>6. CASE ok' = FALSE /\ UNCHANGED file
  <2>1. Stored' = Stored
    BY <1>6, Zenon DEF Stored
  <2> QED
    BY <1>2, <1>3, <1>4, <1>6, <2>1, Zenon DEF Engine!EndClear
<1> QED
  BY <1>5, <1>6, Zenon DEF Truncate

\* A crash, in the middle of an append too, changes nothing that is stored.
LEMMA CrashIsAMapStep ==
  ASSUME IInv, Crash
  PROVE  Engine!Halt \/ UNCHANGED Engine!promise
<1>1. Stored' = Stored
  BY TornSaysNothing, Zenon DEF Crash, Tear, IInv, Stored
<1>2. ~Serving' /\ Mode' = "down"
  BY DEF Crash, Mode, Serving
<1>3. Shown' = Engine!NoAnswers
  BY <1>2, Zenon DEF Shown, Engine!NoAnswers
<1>4. CASE Mode = "down"
  BY <1>1, <1>2, <1>4, HiddenStep, Zenon
<1>5. CASE Mode # "down"
  BY <1>1, <1>2, <1>3, <1>5, Zenon DEF Engine!Halt
<1> QED
  BY <1>4, <1>5, Zenon

\* Cutting off the torn tail changes nothing that is stored.
LEMMA HealTailSaysTheSame ==
  ASSUME IInv, ~unnoticed', HealTail
  PROVE  Stored' = Stored
<1>1. /\ phase = "scan" /\ phase' = "loaded" /\ UNCHANGED index
      /\ Len(file) \in Nat /\ scanned \in 0..Len(file) /\ ~unnoticed /\ TornLast
      /\ scanned = Len(file) \/ file[scanned + 1] = Torn
      /\ file' = SubSeq(file, 1, scanned) /\ file \in Seq(Records)
  BY DEF HealTail, MoreToScan, IInv, TypeOK, Records
<1>2. Len(file') = scanned /\ \A i \in 1..scanned : file'[i] = file[i]
  BY <1>1
<1>3. \A i \in 1..Len(file) : i > scanned => file[i] = Torn
  BY <1>1 DEF TornLast
<1>4. ASSUME NEW k \in Key PROVE Said(file', k) = Said(file, k)
  <2>1. \A i \in 1..Len(file) : i > scanned => file[i].key # k
    <3>1. Torn.key # k
      BY RecordFacts, Zenon
    <3> QED
      BY <1>3, <3>1, Zenon
  <2>2. ASSUME NEW i \in 1..Len(file), LastSet(file, Len(file), k, i)
        PROVE  i \in 1..Len(file') /\ LastSet(file', Len(file'), k, i) /\ file'[i] = file[i]
    <3>1. i \in 1..scanned
      BY <1>1, <2>1, <2>2 DEF LastSet, Sets
    <3> QED
      BY <1>1, <1>2, <2>2, <3>1 DEF LastSet, Sets
  <2>3. ASSUME NoLastSet(file, Len(file), k)
        PROVE  NoLastSet(file', Len(file'), k)
    <3> SUFFICES ASSUME NEW i \in 1..scanned, Sets(file, i, k)
                 PROVE  \E j \in 1..scanned : j > i /\ file[j].key = k
      BY <1>2, Zenon DEF NoLastSet, Sets
    <3>1. i \in 1..Len(file)
      BY <1>1
    <3>2. PICK j \in 1..Len(file) : j > i /\ file[j].key = k
      BY <2>3, <3>1, Zenon DEF NoLastSet
    <3>3. j \in 1..scanned
      BY <1>1, <2>1, <3>2
    <3> QED
      BY <3>2, <3>3, Zenon
  <2>4. FileSays(file, k, Said(file, k))
    BY <1>1, TheFileSaysSomething, Zenon
  <2>5. FileSays(file', k, Said(file, k))
    BY <2>2, <2>3, <2>4, Zenon DEF FileSays
  <2>6. Len(file') \in Nat
    BY <1>1, <1>2
  <2> QED
    BY <2>5, <2>6, SaidIsWhatTheFileSays, Zenon
<1> QED
  BY <1>4, Zenon DEF Stored

\* The compacted file says of every key what the old one said.
LEMMA RenameSaysTheSame ==
  ASSUME IInv, ~unnoticed', Rename
  PROVE  Stored' = Stored
<1>1. /\ TypeOK /\ phase = "rename" /\ Indexed(Len(file)) /\ tmp \in Seq(Record)
      /\ Len(tmp) \in Nat /\ Len(file) \in Nat
  BY DEF Rename, IInv, TypeOK, IndexFacts
<1>2. /\ \A i \in 1..Len(tmp) : tmp[i].key \in LiveKeys
                                /\ tmp[i] = SetRec(tmp[i].key, Contents[tmp[i].key])
      /\ \A i, j \in 1..Len(tmp) : tmp[i].key = tmp[j].key => i = j
      /\ \A k \in LiveKeys : \E i \in 1..Len(tmp) : tmp[i].key = k
  BY <1>1, Zenon DEF IInv, TmpFacts
<1>3. \A k, v : SetRec(k, v).op = "SET" /\ SetRec(k, v).val = v
  BY Zenon DEF SetRec
<1>4. ASSUME NEW k \in Key PROVE FileSays(tmp, k, Contents[k])
  <2>1. CASE k \in LiveKeys
    <3>1. PICK i \in 1..Len(tmp) : tmp[i].key = k
      BY <1>2, <2>1, Zenon
    <3>2. tmp[i].op = "SET" /\ tmp[i].val = Contents[k]
      BY <1>2, <1>3, <3>1
    <3>3. \A j \in 1..Len(tmp) : j > i => tmp[j].key # k
      BY <1>2, <3>1
    <3>4. LastSet(tmp, Len(tmp), k, i)
      BY <3>1, <3>2, <3>3, Zenon DEF LastSet, Sets
    <3> QED
      BY <3>2, <3>4, Zenon DEF FileSays
  <2>2. CASE k \notin LiveKeys
    <3>1. Contents[k] = Absent
      BY <2>2, Zenon DEF LiveKeys, Contents, ValueAt
    <3>2. NoLastSet(tmp, Len(tmp), k)
      BY <1>2, <2>2 DEF NoLastSet, Sets
    <3> QED
      BY <3>1, <3>2, Zenon DEF FileSays
  <2> QED
    BY <2>1, <2>2, Zenon
<1>5. ASSUME NEW k \in Key PROVE Said(tmp, k) = Said(file, k)
  <2>1. Said(tmp, k) = Contents[k]
    BY <1>1, <1>4, SaidIsWhatTheFileSays, Zenon
  <2>2. Said(file, k) = Contents[k]
    BY <1>1, IndexedMeansSaid, SaidIsWhatTheFileSays, Zenon
  <2> QED
    BY <2>1, <2>2, Zenon
<1>6. CASE file' = tmp
  BY <1>5, <1>6, Zenon DEF Stored
<1>7. CASE file' = file
  BY <1>7, Zenon DEF Stored
<1> QED
  BY <1>6, <1>7, Zenon DEF Rename

\* The steps of a restart before it serves.
LEMMA RestartIsHidden ==
  ASSUME IInv, ~unnoticed', Open \/ ScanRecord \/ HealTail \/ WriteTmp \/ Rename
  PROVE  UNCHANGED Engine!promise
<1>1. /\ phase \in {"down", "scan", "loaded", "rename"}
      /\ phase' \in {"scan", "loaded", "rename", "compacted"}
  BY DEF Open, ScanRecord, HealTail, WriteTmp, Rename
<1>2. Mode = "down" /\ Mode' = "down"
  BY <1>1 DEF Mode, Serving
<1>3. ASSUME Open \/ ScanRecord \/ WriteTmp PROVE Stored' = Stored
  BY <1>3, Zenon DEF Open, ScanRecord, WriteTmp, store, Stored
<1>4. Stored' = Stored
  BY <1>3, HealTailSaysTheSame, RenameSaysTheSame, Zenon
<1> QED
  BY <1>2, <1>4, HiddenStep, Zenon

LEMMA ServeIsAMapStep ==
  ASSUME IInv, ~unnoticed', Serve
  PROVE  Engine!Resume
<1>1. Stored' = Stored
  BY Zenon DEF Serve, store, Stored
<1>2. /\ phase \in {"loaded", "compacted"} /\ ~Serving /\ Serving' /\ ok' = ok
      /\ Indexed(Len(file)) /\ TypeOK /\ Len(file) \in Nat
  BY DEF Serve, Serving, store, IInv, IndexFacts, TypeOK
<1>3. ok
  BY <1>2, Zenon DEF IInv, IndexFacts
<1>4. Mode = "down" /\ Mode' = "up"
  BY <1>2, <1>3 DEF Mode
<1>5. IInv'
  BY ServeKeepsIInv, Zenon
<1>6. (IInv /\ ~unnoticed /\ Serving /\ ok => Shown = Engine!Answers(Stored))'
  BY ShownIsStored, PTL
<1>7. Shown' = Engine!Answers(Stored')
  BY <1>2, <1>3, <1>5, <1>6, Zenon
<1> QED
  BY <1>1, <1>4, <1>7, Zenon DEF Engine!Resume

LEMMA NoticedStep ==
  IInv /\ [Next]_vars /\ ~unnoticed' => [Engine!MNext]_(Engine!promise)
<1> SUFFICES ASSUME IInv, [Next]_vars, ~unnoticed'
             PROVE  Engine!MNext \/ UNCHANGED Engine!promise
  BY Zenon
<1>1. CASE \E k \in Key, v \in Value : set(k, v)
  BY <1>1, SetIsAMapStep, Zenon
<1>2. CASE \E k \in Key : del(k)
  BY <1>2, DelIsAMapStep, Zenon
<1>3. CASE clear
  BY <1>3, ClearIsAMapStep, Zenon DEF Engine!MNext
<1>4. CASE Truncate
  BY <1>4, TruncateIsAMapStep, Zenon DEF Engine!MNext
<1>5. CASE Crash
  BY <1>5, CrashIsAMapStep, Zenon DEF Engine!MNext
<1>6. CASE Open \/ ScanRecord \/ HealTail \/ WriteTmp \/ Rename
  BY <1>6, RestartIsHidden, Zenon
<1>7. CASE Serve
  BY <1>7, ServeIsAMapStep, Zenon DEF Engine!MNext
<1>8. CASE Reply \/ snapshot_index \/ UNCHANGED vars
  <2>1. /\ UNCHANGED <<file, index, ok>>
        /\ Serving' = Serving /\ (phase' = "truncate") = (phase = "truncate")
    BY <1>8 DEF Reply, snapshot_index, vars, store, Serving
  <2>2. Contents' = Contents
    BY <2>1, Zenon DEF Contents, ValueAt
  <2> QED
    BY <2>1, <2>2, Zenon DEF Engine!promise, Stored, Shown, Mode, get
<1> QED
  BY <1>1, <1>2, <1>3, <1>4, <1>5, <1>6, <1>7, <1>8, Zenon DEF Next

\* As long as no I/O error passes unnoticed, what is stored changes with
\* successful operations only, survives torn appends, crashes, healing and
\* compaction, and is what a lookup finds, if it finds anything; and it is so
\* again from the next clear on that works.
THEOREM NoticedStepsFollowTheMap == Spec => NoticedStepsAreMapSteps
<1>1. IInv /\ [Next]_vars => (~unnoticed' => [Engine!MNext]_(Engine!promise))
  BY NoticedStep, Zenon
<1> QED
  BY <1>1, InductiveInvariant, PTL DEF Spec, NoticedStepsAreMapSteps

\* An engine on a file system whose truncations and scans do not fail is a
\* durable map from its first start on.
THEOREM EngineImplementsMap == Spec /\ [](~unnoticed) => Engine!MSpec
<1>1. Init => Engine!MInit
  <2> SUFFICES ASSUME Init PROVE Engine!MInit
    OBVIOUS
  <2>1. Mode = "up"
    BY Zenon DEF Init, Serving, Mode
  <2>2. \A k \in Key : Said(<<>>, k) = Absent
    BY DEF Said
  <2>3. Stored = Engine!Empty
    BY <2>2, Zenon DEF Init, Stored, Engine!Empty
  <2>4. Shown = Engine!NoAnswers
    BY Zenon DEF Init, Serving, Shown, get, Readings, Contents, ValueAt, NoPlace,
                 Engine!NoAnswers
  <2> QED
    BY <2>1, <2>3, <2>4, Zenon DEF Engine!MInit
<1>2. IInv /\ [Next]_vars /\ (~unnoticed)' => [Engine!MNext]_(Engine!promise)
  BY NoticedStep, Zenon
<1> QED
  BY <1>1, <1>2, InductiveInvariant, PTL DEF Spec, Engine!MSpec
=============================================================================
