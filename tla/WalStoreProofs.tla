--------------------------- MODULE WalStoreProofs ---------------------------
(***************************************************************************)
(* Proofs about WalStore for any keys and values, any capacity and any     *)
(* bounds on the log, the interrupted appends and the crashes.             *)
(***************************************************************************)
EXTENDS WalStore, SequenceTheorems, TLAPS

\* What the whole log says about key k.
Logged(k, v) == Says(Len(log), k, v)

\* The keys the map holds.
Held == {k \in Key : mem[k] # Absent}

\* An operation not yet acknowledged is in memory, and at the front of the list
\* while set() evicts.
OpFacts ==
  /\ phase \in {"evict", "reply"} => mem[cur.key] = cur.val /\ cur.key \notin forgotten
  /\ phase = "evict" => lru # <<>> /\ lru[1] = cur.key

\* A restart begins with nothing, and has what the records read so far say.
ReplayFacts ==
  /\ phase = "down" => lru = <<>> /\ mem = [k \in Key |-> Absent]
  /\ phase = "replay" => /\ \A i \in 1..pos : log[i] # Torn
                         /\ \A k \in Key : Says(pos, k, mem[k])

\* What the log says may be returned, whether the process is up or not.
Durable ==
  ~Buried => \A k \in Key \ forgotten : \E v \in allowed[k] : Logged(k, v)

IInv ==
  TypeOK /\ CapacityPlusOne /\ OpFacts /\ ReplayFacts /\ Durable /\ MemoryMatchesLog

-----------------------------------------------------------------------------
(* The list of recently used keys. *)

\* A list of keys without repetition, which holds exactly the keys of S.
Lists(s, S) == s \in Seq(Key) /\ Range(s) = S /\ IsInjective(s)

\* erase from items_: the other keys stay in their order.
LEMMA UnlinkFacts ==
  ASSUME NEW s \in Seq(Key), IsInjective(s), NEW k \in Key
  PROVE  LET t == Unlink(s, k)
         IN  /\ Lists(t, Range(s) \ {k})
             /\ Len(t) = IF k \in Range(s) THEN Len(s) - 1 ELSE Len(s)
             /\ s # <<>> /\ s[1] # k => t # <<>> /\ t[1] = s[1]
<1> DEFINE t == Unlink(s, k)
<1>0. Len(s) \in Nat
  OBVIOUS
<1>1. Len(s) \in Nat /\ DOMAIN s = 1..Len(s)
  OBVIOUS
<1>2. CASE k \notin Range(s)
  <2>1. t = s
    BY <1>2, Zenon DEF Unlink
  <2> QED
    BY <1>2, <2>1, Zenon DEF Lists
<1>3. CASE k \in Range(s)
  <2>1. PICK i \in 1..Len(s) : s[i] = k
    BY <1>1, <1>3, Zenon DEF Range
  <2>2. (CHOOSE j \in DOMAIN s : s[j] = k) = i
    BY <1>1, <2>1, Zenon DEF IsInjective
  <2>3. t = SubSeq(s, 1, i - 1) \o SubSeq(s, i + 1, Len(s))
    BY <1>3, <2>2, Zenon DEF Unlink
  <2> DEFINE a == SubSeq(s, 1, i - 1)
             b == SubSeq(s, i + 1, Len(s))
  <2>6. /\ a \in Seq(Key) /\ Len(a) = i - 1
        /\ \A j \in 1..(i - 1) : a[j] = s[j]
    BY <1>1, <2>1
  <2>7. /\ b \in Seq(Key) /\ Len(b) = Len(s) - i
        /\ \A j \in 1..(Len(s) - i) : b[j] = s[j + i]
    <3>1. \A j \in (i + 1)..Len(s) : s[j] \in Key
      BY <1>1, <2>1
    <3>2. /\ b \in Seq(Key)
          /\ Len(b) = IF i + 1 <= Len(s) THEN Len(s) - (i + 1) + 1 ELSE 0
          /\ \A j \in 1..(Len(s) - (i + 1) + 1) : b[j] = s[(i + 1) + j - 1]
      BY <1>1, <2>1, <3>1, SubSeqProperties
    <3> HIDE DEF a, b, t
    <3>3. Len(s) - (i + 1) + 1 = Len(s) - i
      BY <1>1, <2>1
    <3>4. ASSUME NEW j \in 1..(Len(s) - i) PROVE b[j] = s[j + i]
      <4>1. (i + 1) + j - 1 = j + i
        BY <1>1, <2>1
      <4> QED
        BY <3>2, <3>3, <4>1, Zenon
    <3>5. Len(b) = Len(s) - i
      <4>1. CASE i < Len(s)
        <5>1. i + 1 <= Len(s)
          BY <1>0, <4>1
        <5> QED
          BY <3>2, <3>3, <5>1, Zenon
      <4>2. CASE i = Len(s)
        BY <1>0, <3>2, <4>2
      <4>3. i < Len(s) \/ i = Len(s)
        BY <1>0
      <4> QED
        BY <4>1, <4>2, <4>3, Zenon
    <3> QED
      BY <3>2, <3>4, <3>5, Zenon
  <2>8. /\ t \in Seq(Key) /\ Len(t) = Len(s) - 1
        /\ \A j \in 1..(Len(s) - 1) : t[j] = IF j < i THEN s[j] ELSE s[j + 1]
    <3> HIDE DEF t, a, b
    <3>1. t = a \o b
      BY <2>3, Zenon DEF a, b
    <3>2. t \in Seq(Key) /\ Len(t) = Len(s) - 1
      <4>1. Len(t) = Len(a) + Len(b) /\ t \in Seq(Key)
        BY <2>6, <2>7, <3>1, ConcatProperties, Zenon
      <4> QED
        BY <1>1, <2>1, <2>6, <2>7, <4>1
    <3>3. \A j \in 1..(Len(s) - 1) : t[j] = IF j < i THEN a[j] ELSE b[j - (i - 1)]
      BY <1>1, <2>1, <2>6, <2>7, <3>1
    <3>4. \A j \in 1..(Len(s) - 1) : ~(j < i) => b[j - (i - 1)] = s[j + 1]
      <4>1. ASSUME NEW j \in 1..(Len(s) - 1), ~(j < i) PROVE b[j - (i - 1)] = s[j + 1]
        <5>1. j - (i - 1) \in 1..(Len(s) - i) /\ (j - (i - 1)) + i = j + 1
          BY <1>1, <2>1, <4>1
        <5> QED
          BY <2>7, <5>1, Zenon
      <4> QED
        BY <4>1, Zenon
    <3>5. \A j \in 1..(Len(s) - 1) : j < i => a[j] = s[j]
      BY <1>1, <2>1, <2>6
    <3> QED
      BY <3>2, <3>3, <3>4, <3>5, Zenon
  <2> HIDE DEF t, a, b
  <2>9. DOMAIN t = 1..(Len(s) - 1)
    BY <2>8
  <2>10. IsInjective(t)
    <3> SUFFICES ASSUME NEW p \in 1..(Len(s) - 1), NEW q \in 1..(Len(s) - 1), t[p] = t[q]
                 PROVE  p = q
      BY <2>9, Zenon DEF IsInjective
    <3> DEFINE old(j) == IF j < i THEN j ELSE j + 1
    <3>1. old(p) \in 1..Len(s) /\ old(q) \in 1..Len(s)
      BY <1>0, <2>1
    <3>2. t[p] = s[old(p)] /\ t[q] = s[old(q)]
      BY <2>8
    <3>3. old(p) = old(q)
      BY <1>1, <3>1, <3>2, Zenon DEF IsInjective
    <3> QED
      BY <1>0, <2>1, <3>3
  <2>11. Range(t) = Range(s) \ {k}
    <3>1. ASSUME NEW x \in Range(t) PROVE x \in Range(s) /\ x # k
      <4>1. PICK j \in 1..(Len(s) - 1) : x = t[j]
        BY <2>9, Zenon DEF Range
      <4> DEFINE m == IF j < i THEN j ELSE j + 1
      <4>2. m \in 1..Len(s) /\ x = s[m] /\ m # i
        BY <1>1, <2>1, <2>8, <4>1
      <4> QED
        BY <1>1, <2>1, <4>2, Zenon DEF Range, IsInjective
    <3>2. ASSUME NEW x \in Range(s), x # k PROVE x \in Range(t)
      <4>1. PICK m \in 1..Len(s) : x = s[m] /\ m # i
        BY <1>1, <2>1, <3>2, Zenon DEF Range
      <4> DEFINE j == IF m < i THEN m ELSE m - 1
      <4>2. j \in 1..(Len(s) - 1) /\ t[j] = x
        BY <1>1, <2>1, <2>8, <4>1
      <4> QED
        BY <2>9, <4>2, Zenon DEF Range
    <3> QED
      BY <3>1, <3>2, Zenon
  <2>12. s[1] # k => t # <<>> /\ t[1] = s[1]
    BY <1>1, <2>1, <2>8
  <2> QED
    BY <1>3, <2>8, <2>10, <2>11, <2>12, Zenon DEF Lists, t
<1> QED
  BY <1>2, <1>3, Zenon

\* emplace_front of a key that is not in the list.
LEMMA PushFrontFacts ==
  ASSUME NEW s \in Seq(Key), IsInjective(s), NEW k \in Key, k \notin Range(s)
  PROVE  LET t == <<k>> \o s
         IN  /\ Lists(t, Range(s) \cup {k}) /\ Len(t) = Len(s) + 1
             /\ t # <<>> /\ t[1] = k
<1> DEFINE t == <<k>> \o s
<1>1. Len(s) \in Nat /\ DOMAIN s = 1..Len(s)
  OBVIOUS
<1>2. /\ t \in Seq(Key) /\ Len(t) = Len(s) + 1 /\ t[1] = k
      /\ \A j \in 1..Len(s) : t[j + 1] = s[j]
  BY <1>1
<1> HIDE DEF t
<1>3. DOMAIN t = 1..(Len(s) + 1)
  BY <1>2
<1>4. \A j \in 2..(Len(s) + 1) : j - 1 \in 1..Len(s) /\ t[j] = s[j - 1]
  <2>1. ASSUME NEW j \in 2..(Len(s) + 1) PROVE j - 1 \in 1..Len(s) /\ t[j] = s[j - 1]
    <3>1. j - 1 \in 1..Len(s) /\ (j - 1) + 1 = j
      BY <1>1
    <3> QED
      BY <1>2, <3>1, Zenon
  <2> QED
    BY <2>1, Zenon
<1>5. \A j \in 1..Len(s) : s[j] # k
  BY <1>1, Zenon DEF Range
<1>6. IsInjective(t)
  <2> SUFFICES ASSUME NEW x \in 1..(Len(s) + 1), NEW y \in 1..(Len(s) + 1), t[x] = t[y]
               PROVE  x = y
    BY <1>3, Zenon DEF IsInjective
  <2>1. CASE x = 1 \/ y = 1
    BY <1>1, <1>2, <1>4, <1>5, <2>1
  <2>2. CASE x # 1 /\ y # 1
    <3>1. x - 1 \in 1..Len(s) /\ y - 1 \in 1..Len(s) /\ s[x - 1] = s[y - 1]
      BY <1>1, <1>4, <2>2
    <3>2. x - 1 = y - 1
      BY <1>1, <3>1, Zenon DEF IsInjective
    <3> QED
      BY <1>1, <3>2
  <2> QED
    BY <2>1, <2>2, Zenon
<1>7. Range(t) = Range(s) \cup {k}
  <2>1. ASSUME NEW x \in Range(t) PROVE x \in Range(s) \cup {k}
    <3>1. PICK j \in 1..(Len(s) + 1) : x = t[j]
      BY <1>3, Zenon DEF Range
    <3> QED
      BY <1>1, <1>2, <1>4, <3>1 DEF Range
  <2>2. ASSUME NEW x \in Range(s) PROVE x \in Range(t)
    <3>1. PICK j \in 1..Len(s) : x = s[j]
      BY <1>1, Zenon DEF Range
    <3>2. j + 1 \in DOMAIN t /\ t[j + 1] = x
      BY <1>1, <1>2, <1>3, <3>1
    <3> QED
      BY <3>2, Zenon DEF Range
  <2>3. k \in Range(t)
    BY <1>1, <1>2, <1>3 DEF Range
  <2> QED
    BY <2>1, <2>2, <2>3, Zenon
<1> QED
  BY <1>1, <1>2, <1>6, <1>7 DEF Lists, t

\* A key moved or added to the front.
LEMMA MoveToFrontFacts ==
  ASSUME NEW s \in Seq(Key), IsInjective(s), NEW k \in Key
  PROVE  LET t == <<k>> \o Unlink(s, k)
         IN  /\ Lists(t, Range(s) \cup {k})
             /\ Len(t) = IF k \in Range(s) THEN Len(s) ELSE Len(s) + 1
             /\ t # <<>> /\ t[1] = k
<1> DEFINE r == Unlink(s, k)
<1>1. /\ r \in Seq(Key) /\ IsInjective(r) /\ Range(r) = Range(s) \ {k}
      /\ Len(r) = IF k \in Range(s) THEN Len(s) - 1 ELSE Len(s)
  BY UnlinkFacts, Zenon DEF Lists
<1> HIDE DEF r
<1>2. /\ Lists(<<k>> \o r, Range(r) \cup {k}) /\ Len(<<k>> \o r) = Len(r) + 1
      /\ <<k>> \o r # <<>> /\ (<<k>> \o r)[1] = k
  BY <1>1, PushFrontFacts, Zenon
<1>3. Range(r) \cup {k} = Range(s) \cup {k} /\ Len(s) \in Nat
  BY <1>1
<1>4. Len(r) + 1 = IF k \in Range(s) THEN Len(s) ELSE Len(s) + 1
  BY <1>1, <1>3
<1>5. Lists(<<k>> \o r, Range(s) \cup {k})
  BY <1>2, <1>3, Zenon
<1> QED
  BY <1>2, <1>4, <1>5, Zenon DEF r

\* The trim keeps a prefix.
LEMMA PrefixFacts ==
  ASSUME NEW s \in Seq(Key), IsInjective(s), NEW n \in Nat, n < Len(s)
  PROVE  LET t == SubSeq(s, 1, n)
         IN  Lists(t, Range(t)) /\ Range(t) \subseteq Range(s) /\ Len(t) = n
<1> DEFINE t == SubSeq(s, 1, n)
<1>1. Len(s) \in Nat /\ DOMAIN s = 1..Len(s)
  OBVIOUS
<1>2. t \in Seq(Key) /\ Len(t) = n /\ DOMAIN t = 1..n /\ \A j \in 1..n : t[j] = s[j]
  BY <1>1
<1> HIDE DEF t
<1> QED
  BY <1>1, <1>2 DEF Lists, Range, IsInjective, t
-----------------------------------------------------------------------------
(* The log. *)

Records == Record \cup {Torn}

\* What the two kinds of record and a torn one look like.
LEMMA RecordFacts ==
  /\ \A k \in Key, v \in Value :
       SetRec(k, v) \in Record /\ SetRec(k, v).key = k /\ SetRec(k, v).val = v
  /\ \A k \in Key :
       DelRec(k) \in Record /\ DelRec(k).key = k /\ DelRec(k).val = Absent
  /\ \A r \in Record : /\ r # Torn /\ r.key \in Key /\ r.op \in {"SET", "DEL"}
                       /\ r.op = "SET" => r.val \in Value
                       /\ r.op = "DEL" => r.val = Absent
  /\ Torn.key \notin Key /\ Absent \notin Value
<1>1. \A k \in Key, v \in Value :
        SetRec(k, v) \in Record /\ SetRec(k, v).key = k /\ SetRec(k, v).val = v
  BY DEF Record, SetRec
<1>2. \A k \in Key :
        DelRec(k) \in Record /\ DelRec(k).key = k /\ DelRec(k).val = Absent
  BY DEF Record, DelRec
<1>3. \A k, v : SetRec(k, v).op = "SET" /\ DelRec(k).op = "DEL"
  BY Zenon DEF SetRec, DelRec
<1>4. ASSUME NEW r \in Record
      PROVE  /\ r.key \in Key /\ r.op \in {"SET", "DEL"}
             /\ r.op = "SET" => r.val \in Value
             /\ r.op = "DEL" => r.val = Absent
  <2>1. CASE \E k \in Key, v \in Value : r = SetRec(k, v)
    BY <1>1, <1>3, <2>1
  <2>2. CASE \E k \in Key : r = DelRec(k)
    BY <1>2, <1>3, <2>2, Zenon
  <2> QED
    BY <2>1, <2>2 DEF Record
<1>5. Absent \notin Key /\ Absent \notin Value
  BY StoreAssumption, Zenon
<1>6. Torn.key = Absent
  BY Zenon DEF Torn
<1> QED
  BY <1>1, <1>2, <1>4, <1>5, <1>6, Zenon

\* The record after the first n decides about its key and about no other.
LEMMA OneMoreRecord ==
  ASSUME TypeOK, NEW n \in Nat, n < Len(log), NEW k \in Key
  PROVE  /\ log[n + 1].key = k => Says(n + 1, k, log[n + 1].val)
         /\ log[n + 1].key # k => \A v : Says(n, k, v) => Says(n + 1, k, v)
<1>1. log[n + 1].key = k => Says(n + 1, k, log[n + 1].val)
  BY DEF Says
<1>2. ASSUME NEW v, log[n + 1].key # k, Says(n, k, v)
      PROVE  Says(n + 1, k, v)
  <2>1. CASE v = Absent /\ \A i \in 1..n : log[i].key # k
    BY <1>2, <2>1 DEF Says
  <2>2. ASSUME NEW i \in 1..n, log[i].key = k, log[i].val = v,
               \A j \in (i + 1)..n : log[j].key # k
        PROVE  Says(n + 1, k, v)
    <3>1. \A j \in (i + 1)..(n + 1) : log[j].key # k
      BY <1>2, <2>2
    <3> QED
      BY <2>2, <3>1 DEF Says
  <2> QED
    BY <1>2, <2>1, <2>2, Zenon DEF Says
<1> QED
  BY <1>1, <1>2, Zenon

\* The log says one thing of a key.
LEMMA LogSaysOneThing ==
  ASSUME NEW n \in Nat, NEW k \in Key, NEW v, NEW w, Says(n, k, v), Says(n, k, w)
  PROVE  v = w
<1>1. CASE \A i \in 1..n : log[i].key # k
  BY <1>1 DEF Says
<1>2. CASE \E i \in 1..n : log[i].key = k
  <2>1. PICK i \in 1..n : /\ log[i].key = k /\ log[i].val = v
                          /\ \A j \in (i + 1)..n : log[j].key # k
    BY <1>2, Zenon DEF Says
  <2>2. PICK m \in 1..n : /\ log[m].key = k /\ log[m].val = w
                          /\ \A j \in (m + 1)..n : log[j].key # k
    BY <1>2, Zenon DEF Says
  <2>3. i = m
    BY <2>1, <2>2
  <2> QED
    BY <2>1, <2>2, <2>3, Zenon
<1> QED
  BY <1>1, <1>2, Zenon

\* An append: what was said of other keys stands, and an intact log was intact.
LEMMA AppendFacts ==
  ASSUME TypeOK, NEW r \in Records, log' = Append(log, r)
  PROVE  /\ log' \in Seq(Records) /\ Len(log') = Len(log) + 1
         /\ ~Buried' => ~Buried
         /\ \A k \in Key : r.key = k => Logged(k, r.val)'
         /\ \A k \in Key : r.key # k => \A v : Logged(k, v) => Logged(k, v)'
<1>1. /\ log \in Seq(Records) /\ Len(log) \in Nat /\ log' \in Seq(Records)
      /\ Len(log') = Len(log) + 1 /\ log'[Len(log) + 1] = r
      /\ \A i \in 1..Len(log) : log'[i] = log[i]
  BY DEF TypeOK, Records
<1>2. DOMAIN log = 1..Len(log) /\ DOMAIN log' = 1..(Len(log) + 1)
  BY <1>1
<1>3. Buried => Buried'
  BY <1>1, <1>2 DEF Buried
<1>4. ASSUME NEW k \in Key, r.key = k PROVE Logged(k, r.val)'
  BY <1>1, <1>4 DEF Logged, Says
<1>5. ASSUME NEW k \in Key, r.key # k, NEW v, Logged(k, v) PROVE Logged(k, v)'
  <2>1. CASE v = Absent /\ \A i \in 1..Len(log) : log[i].key # k
    BY <1>1, <1>5, <2>1 DEF Logged, Says
  <2>2. ASSUME NEW i \in 1..Len(log), log[i].key = k, log[i].val = v,
               \A j \in (i + 1)..Len(log) : log[j].key # k
        PROVE  Logged(k, v)'
    <3>1. \A j \in (i + 1)..(Len(log) + 1) : log'[j].key # k
      BY <1>1, <1>5, <2>2
    <3>2. i \in 1..Len(log') /\ log'[i].key = k /\ log'[i].val = v
      BY <1>1, <2>2
    <3> QED
      BY <1>1, <3>1, <3>2, Zenon DEF Logged, Says
  <2> QED
    BY <1>5, <2>1, <2>2, Zenon DEF Logged, Says
<1> QED
  BY <1>1, <1>3, <1>4, <1>5, Zenon

\* A failed or an interrupted append takes nothing away.
LEMMA FailedAppendFacts ==
  ASSUME TypeOK, log' \in {log, Append(log, Torn)}
  PROVE  /\ log' \in Seq(Records) /\ Len(log') >= Len(log)
         /\ ~Buried' => ~Buried
         /\ \A k \in Key : \A v : Logged(k, v) => Logged(k, v)'
<1>1. CASE log' = log
  BY <1>1 DEF TypeOK, Records, Buried, Logged, Says
<1>2. CASE log' = Append(log, Torn)
  <2>1. Torn \in Records /\ \A k \in Key : Torn.key # k
    BY RecordFacts, Zenon DEF Records
  <2>2. Len(log) \in Nat
    BY DEF TypeOK
  <2> QED
    BY <1>2, <2>1, <2>2, AppendFacts
<1> QED
  BY <1>1, <1>2, Zenon

\* A step that does not touch the log changes nothing of what it says.
LEMMA SameLogFacts ==
  ASSUME UNCHANGED log
  PROVE  /\ Buried' <=> Buried
         /\ \A k, v : Logged(k, v)' <=> Logged(k, v)
         /\ UNCHANGED <<allowed, forgotten>> /\ Durable => Durable'
         /\ UNCHANGED <<mem, forgotten>> /\ (Up' => Up) /\ MemoryMatchesLog => MemoryMatchesLog'
<1>1. Buried' <=> Buried
  BY Zenon DEF Buried
<1>2. \A k, v : Logged(k, v)' <=> Logged(k, v)
  BY Zenon DEF Logged, Says
<1>3. ASSUME UNCHANGED <<allowed, forgotten>>, Durable PROVE Durable'
  BY <1>1, <1>2, <1>3, Zenon DEF Durable
<1>4. ASSUME UNCHANGED <<mem, forgotten>>, Up' => Up, MemoryMatchesLog PROVE MemoryMatchesLog'
  <2> SUFFICES ASSUME Up', ~Buried', NEW k \in Key \ forgotten'
               PROVE  Logged(k, mem[k])'
    BY Zenon DEF MemoryMatchesLog, Logged
  <2>1. PICK w : w = mem[k] /\ w = mem'[k] /\ Logged(k, w)
    BY <1>1, <1>4, Zenon DEF MemoryMatchesLog, Logged
  <2>2. Logged(k, w)'
    BY <1>2, <2>1, Zenon
  <2> QED
    BY <2>1, <2>2, Zenon DEF Logged, Says
<1> QED
  BY <1>1, <1>2, <1>3, <1>4, Zenon
-----------------------------------------------------------------------------
(* One lemma per action. *)

\* TypeOK, its part about list and map named.
LEMMA TypeSplit ==
  TypeOK <=> /\ log \in Seq(Records) /\ mem \in [Key -> Value \cup {Absent}]
             /\ Lists(lru, Held) /\ walOk \in BOOLEAN /\ phase \in Phase
             /\ cur \in [key : Key \cup {Absent}, val : Value \cup {Absent}]
             /\ phase \in {"evict", "reply"} => cur.key \in Key
             /\ pos \in 0..Len(log)
             /\ allowed \in [Key -> SUBSET (Value \cup {Absent})]
             /\ forgotten \subseteq Key /\ crashes \in 0..MaxCrash
BY Zenon DEF TypeOK, Lists, Held, Records

\* The empty list.
LEMMA EmptyList == Lists(<<>>, {}) /\ Len(<<>>) = 0
BY DEF Lists, Range, IsInjective

LEMMA InitIInv ==
  ASSUME Init
  PROVE  IInv
<1>1. Held = {}
  BY Zenon DEF Init, Held
<1>2. TypeOK
  <2>1. pos \in 0..Len(log) /\ crashes \in 0..MaxCrash
    BY StoreAssumption DEF Init
  <2>2. Lists(lru, Held)
    BY <1>1, EmptyList, Zenon DEF Init
  <2> QED
    BY <2>1, <2>2, TypeSplit DEF Init, Phase, Records
<1>3. CapacityPlusOne
  BY EmptyList, StoreAssumption DEF Init, CapacityPlusOne
<1>4. \A k \in Key : Logged(k, Absent)
  BY DEF Init, Logged, Says
<1> QED
  BY <1>2, <1>3, <1>4, Zenon DEF Init, IInv, OpFacts, ReplayFacts, Durable, MemoryMatchesLog, Logged

\* The cache after SET k v or a replayed SET.
LEMMA InsertFacts ==
  ASSUME TypeOK, NEW k \in Key, NEW v \in Value, Insert(k, v)
  PROVE  /\ mem' \in [Key -> Value \cup {Absent}] /\ Lists(lru, Held)'
         /\ mem'[k] = v /\ \A m \in Key : m # k => mem'[m] = mem[m]
         /\ Len(lru') = IF Present(k) THEN Len(lru) ELSE Len(lru) + 1
         /\ lru' # <<>> /\ lru'[1] = k
<1>1. mem \in [Key -> Value \cup {Absent}] /\ Lists(lru, Held)
  BY TypeSplit, Zenon
<1>2. mem' = [mem EXCEPT ![k] = v] /\ lru' = <<k>> \o Unlink(lru, k)
  BY Zenon DEF Insert
<1>3. /\ Lists(lru', Range(lru) \cup {k})
      /\ Len(lru') = IF k \in Range(lru) THEN Len(lru) ELSE Len(lru) + 1
      /\ lru' # <<>> /\ lru'[1] = k
  BY <1>1, <1>2, MoveToFrontFacts, Zenon DEF Lists
<1>4. /\ mem' \in [Key -> Value \cup {Absent}]
      /\ mem'[k] = v /\ \A m \in Key : m # k => mem'[m] = mem[m]
  BY <1>1, <1>2, Zenon
<1>5. Held' = Held \cup {k}
  BY <1>4, RecordFacts DEF Held
<1>6. Range(lru) = Held /\ (k \in Held <=> Present(k))
  BY <1>1, Zenon DEF Lists, Held, Present
<1>7. Lists(lru, Held)'
  BY <1>3, <1>5, <1>6, Zenon
<1> QED
  BY <1>3, <1>4, <1>6, <1>7, Zenon

\* The cache after a DEL or an eviction of a key it holds.
LEMMA EraseFacts ==
  ASSUME TypeOK, NEW k \in Key, Present(k), Erase(k)
  PROVE  /\ mem' \in [Key -> Value \cup {Absent}] /\ Lists(lru, Held)'
         /\ mem'[k] = Absent /\ \A m \in Key : m # k => mem'[m] = mem[m]
         /\ Len(lru') = Len(lru) - 1
         /\ lru # <<>> /\ lru[1] # k => lru' # <<>> /\ lru'[1] = lru[1]
<1>1. mem \in [Key -> Value \cup {Absent}] /\ Lists(lru, Held)
  BY TypeSplit, Zenon
<1>2. mem' = [mem EXCEPT ![k] = Absent] /\ lru' = Unlink(lru, k)
  BY Zenon DEF Erase
<1>3. /\ Lists(lru', Range(lru) \ {k})
      /\ Len(lru') = IF k \in Range(lru) THEN Len(lru) - 1 ELSE Len(lru)
      /\ lru # <<>> /\ lru[1] # k => lru' # <<>> /\ lru'[1] = lru[1]
  BY <1>1, <1>2, UnlinkFacts, Zenon DEF Lists
<1>4. /\ mem' \in [Key -> Value \cup {Absent}]
      /\ mem'[k] = Absent /\ \A m \in Key : m # k => mem'[m] = mem[m]
  BY <1>1, <1>2, Zenon
<1>5. Held' = Held \ {k}
  BY <1>4, Zenon DEF Held
<1>6. Range(lru) = Held /\ k \in Held
  BY <1>1, Zenon DEF Lists, Held, Present
<1>7. Lists(lru, Held)'
  BY <1>3, <1>5, <1>6, Zenon
<1> QED
  BY <1>3, <1>4, <1>6, <1>7, Zenon

\* An append that fails, or a crash in the middle of one, with the cache as it was.
LEMMA AppendFailedKeepsFacts ==
  ASSUME IInv, AppendFailed
  PROVE  /\ walOk' = FALSE /\ log' \in Seq(Records) /\ pos \in 0..Len(log')
         /\ UNCHANGED <<mem, forgotten, allowed>> /\ Up =>
              (~Buried' => /\ \A k \in Key \ forgotten : Logged(k, mem[k])'
                           /\ \A k \in Key \ forgotten : \E v \in allowed[k] : Logged(k, v)')
<1>1. log' \in {log, Append(log, Torn)} /\ walOk' = FALSE
  BY Zenon DEF AppendFailed
<1>2. /\ log' \in Seq(Records) /\ Len(log') >= Len(log)
      /\ ~Buried' => ~Buried
      /\ \A k \in Key : \A v : Logged(k, v) => Logged(k, v)'
  BY <1>1, FailedAppendFacts, Zenon DEF IInv
<1>3. pos \in 0..Len(log')
  <2>1. pos \in 0..Len(log) /\ Len(log) \in Nat /\ Len(log') \in Nat
    BY <1>2 DEF IInv, TypeOK
  <2> QED
    BY <1>2, <2>1
<1>4. Up /\ ~Buried => /\ \A k \in Key \ forgotten : Logged(k, mem[k])
                       /\ \A k \in Key \ forgotten : \E v \in allowed[k] : Logged(k, v)
  BY Zenon DEF IInv, MemoryMatchesLog, Durable, Logged
<1>5. ASSUME UNCHANGED <<mem, forgotten, allowed>>, Up, ~Buried'
      PROVE  /\ \A k \in Key \ forgotten : Logged(k, mem[k])'
             /\ \A k \in Key \ forgotten : \E v \in allowed[k] : Logged(k, v)'
  <2>1. ~Buried
    BY <1>2, <1>5, Zenon
  <2>2. \A k \in Key \ forgotten : Logged(k, mem[k])'
    <3>1. ASSUME NEW k \in Key \ forgotten PROVE Logged(k, mem[k])'
      <4>1. Logged(k, mem[k])
        BY <1>4, <1>5, <2>1, Zenon
      <4>2. PICK w : w = mem[k] /\ w = mem'[k]
        BY <1>5, Zenon
      <4>3. Logged(k, w)'
        BY <1>2, <4>1, <4>2, Zenon
      <4> QED
        BY <4>2, <4>3, Zenon DEF Logged, Says
    <3> QED
      BY <3>1, Zenon
  <2> QED
    BY <1>2, <1>4, <1>5, <2>1, <2>2, Zenon
<1> QED
  BY <1>1, <1>2, <1>3, <1>5, Zenon

\* A record and its effect on memory go together.
LEMMA AppendKeepsLogFacts ==
  ASSUME IInv, Up, NEW r \in Record, log' = Append(log, r),
         mem'[r.key] = r.val, \A m \in Key : m # r.key => mem'[m] = mem[m],
         forgotten' = forgotten \ {r.key},
         r.val \in allowed'[r.key], \A m \in Key : m # r.key => allowed'[m] = allowed[m]
  PROVE  /\ log' \in Seq(Records) /\ Len(log') = Len(log) + 1 /\ pos \in 0..Len(log')
         /\ Durable' /\ MemoryMatchesLog'
<1>1. /\ log' \in Seq(Records) /\ Len(log') = Len(log) + 1
      /\ ~Buried' => ~Buried
      /\ Logged(r.key, r.val)'
      /\ \A k \in Key : r.key # k => \A v : Logged(k, v) => Logged(k, v)'
  <2>1. r \in Records /\ r.key \in Key
    BY RecordFacts, Zenon DEF Records
  <2> QED
    BY <2>1, AppendFacts, Zenon DEF IInv
<1>2. pos \in 0..Len(log')
  <2>1. pos \in 0..Len(log) /\ Len(log) \in Nat
    BY DEF IInv, TypeOK
  <2> QED
    BY <1>1, <2>1
<1>3. ASSUME ~Buried', NEW m \in Key \ forgotten'
      PROVE  Logged(m, mem[m])' /\ \E v \in allowed'[m] : Logged(m, v)'
  <2>1. CASE m = r.key
    <3>1. PICK w : w = r.val /\ w = mem'[m]
      BY <2>1, Zenon
    <3>2. Logged(m, w)'
      BY <1>1, <2>1, <3>1, Zenon
    <3>3. Logged(m, mem[m])'
      BY <3>1, <3>2, Zenon DEF Logged, Says
    <3> QED
      BY <2>1, <3>1, <3>2, <3>3, Zenon
  <2>2. CASE m # r.key
    <3>1. m \in Key \ forgotten
      BY <2>2, Zenon
    <3>2. Logged(m, mem[m]) /\ \E v \in allowed[m] : Logged(m, v)
      BY <1>1, <1>3, <3>1, Zenon DEF IInv, MemoryMatchesLog, Durable, Logged
    <3>3. PICK w : w = mem[m] /\ w = mem'[m]
      BY <2>2, Zenon
    <3>4. Logged(m, w)'
      BY <1>1, <2>2, <3>2, <3>3, Zenon
    <3>5. Logged(m, mem[m])'
      BY <3>3, <3>4, Zenon DEF Logged, Says
    <3>6. \E v \in allowed'[m] : Logged(m, v)'
      BY <1>1, <2>2, <3>2, Zenon
    <3> QED
      BY <3>5, <3>6, Zenon
  <2> QED
    BY <2>1, <2>2, Zenon
<1>4. Durable' /\ MemoryMatchesLog'
  BY <1>3, Zenon DEF Durable, MemoryMatchesLog, Logged
<1> QED
  BY <1>1, <1>2, <1>4, Zenon

\* A refused operation.
LEMMA RefusalKeepsIInv ==
  ASSUME IInv, Up, AppendFailed,
         UNCHANGED <<mem, lru, cur, pos, allowed, forgotten, crashes>>,
         phase' = phase \/ (phase = "evict" /\ phase' = "reply")
  PROVE  IInv'
<1>1. /\ walOk' = FALSE /\ log' \in Seq(Records) /\ pos \in 0..Len(log')
      /\ ~Buried' => /\ \A k \in Key \ forgotten : Logged(k, mem[k])'
                     /\ \A k \in Key \ forgotten : \E v \in allowed[k] : Logged(k, v)'
  BY AppendFailedKeepsFacts, Zenon
<1>2. Held' = Held
  BY Zenon DEF Held
<1>3. TypeOK'
  BY <1>1, <1>2, TypeSplit, Zenon DEF IInv, Phase, Lists, Held, TypeOK, Records
<1>4. Durable' /\ MemoryMatchesLog'
  BY <1>1, Zenon DEF Durable, MemoryMatchesLog, Logged
<1> QED
  BY <1>1, <1>3, <1>4, Zenon DEF IInv, CapacityPlusOne, OpFacts, ReplayFacts, Up

LEMMA SetKeepsIInv ==
  ASSUME IInv, NEW k \in Key, NEW v \in Value, set(k, v)
  PROVE  IInv'
<1>1. CASE AppendFailed /\ UNCHANGED <<cache, phase, cur, history>>
  BY <1>1, RefusalKeepsIInv, Zenon DEF set, Up, cache, history
<1>2. CASE /\ Appended(SetRec(k, v)) /\ Insert(k, v)
           /\ phase' = IF Present(k) THEN "reply" ELSE "evict"
           /\ cur' = [key |-> k, val |-> v]
           /\ allowed' = [allowed EXCEPT ![k] = @ \cup {v}]
           /\ forgotten' = forgotten \ {k}
  <2>1. phase = "idle" /\ UNCHANGED <<pos, crashes>>
    BY Zenon DEF set
  <2>2. /\ mem' \in [Key -> Value \cup {Absent}] /\ Lists(lru, Held)'
        /\ mem'[k] = v /\ \A m \in Key : m # k => mem'[m] = mem[m]
        /\ Len(lru') = IF Present(k) THEN Len(lru) ELSE Len(lru) + 1
        /\ lru' # <<>> /\ lru'[1] = k
    BY <1>2, InsertFacts, Zenon DEF IInv
  <2>3. /\ SetRec(k, v) \in Record /\ SetRec(k, v).key = k /\ SetRec(k, v).val = v
    BY RecordFacts
  <2>4. /\ walOk /\ walOk' = walOk /\ log' = Append(log, SetRec(k, v))
    BY <1>2, Zenon DEF Appended
  <2>5. allowed \in [Key -> SUBSET (Value \cup {Absent})]
    BY Zenon DEF IInv, TypeOK
  <2>6. /\ allowed' \in [Key -> SUBSET (Value \cup {Absent})]
        /\ v \in allowed'[k] /\ \A m \in Key : m # k => allowed'[m] = allowed[m]
    BY <1>2, <2>5, Zenon
  <2>7. /\ log' \in Seq(Records) /\ Len(log') = Len(log) + 1 /\ pos \in 0..Len(log')
        /\ Durable' /\ MemoryMatchesLog'
    BY <1>2, <2>1, <2>2, <2>3, <2>4, <2>6, AppendKeepsLogFacts, Zenon DEF Up
  <2>8. /\ cur'.key = k /\ cur'.val = v
        /\ cur' \in [key : Key \cup {Absent}, val : Value \cup {Absent}]
    BY <1>2, Zenon
  <2>9. TypeOK'
    <3>1. walOk' \in BOOLEAN /\ forgotten' \subseteq Key /\ crashes' \in 0..MaxCrash
      BY <1>2, <2>1, <2>4, Zenon DEF IInv, TypeOK
    <3>2. phase' \in Phase /\ cur'.key \in Key
      BY <1>2, <2>8, Zenon DEF Phase
    <3> QED
      BY <2>1, <2>2, <2>6, <2>7, <2>8, <3>1, <3>2, Zenon DEF TypeOK, Lists, Held, Records
  <2>10. CapacityPlusOne'
    <3>1. Len(lru) \in Nat /\ (Capacity > 0 => Len(lru) <= Capacity)
      BY <2>1, <2>4 DEF IInv, TypeOK, CapacityPlusOne, Up
    <3> QED
      BY <1>2, <2>2, <3>1, StoreAssumption DEF CapacityPlusOne
  <2>11. OpFacts'
    BY <1>2, <2>2, <2>8, Zenon DEF OpFacts
  <2> QED
    BY <1>2, <2>7, <2>9, <2>10, <2>11, Zenon DEF IInv, ReplayFacts
<1> QED
  BY <1>1, <1>2, Zenon DEF set

LEMMA DelKeepsIInv ==
  ASSUME IInv, NEW k \in Key, del(k)
  PROVE  IInv'
<1>1. CASE AppendFailed /\ UNCHANGED <<cache, phase, cur, history>>
  BY <1>1, RefusalKeepsIInv, Zenon DEF del, Up, cache, history
<1>2. CASE /\ Appended(DelRec(k)) /\ Erase(k) /\ phase' = "reply"
           /\ cur' = [key |-> k, val |-> Absent]
           /\ allowed' = [allowed EXCEPT ![k] = @ \cup {Absent}]
           /\ forgotten' = forgotten \ {k}
  <2>1. phase = "idle" /\ Present(k) /\ UNCHANGED <<pos, crashes>>
    BY Zenon DEF del
  <2>2. /\ mem' \in [Key -> Value \cup {Absent}] /\ Lists(lru, Held)'
        /\ mem'[k] = Absent /\ \A m \in Key : m # k => mem'[m] = mem[m]
        /\ Len(lru') = Len(lru) - 1
    BY <1>2, <2>1, EraseFacts, Zenon DEF IInv
  <2>3. /\ DelRec(k) \in Record /\ DelRec(k).key = k /\ DelRec(k).val = Absent
    BY RecordFacts, Zenon
  <2>4. /\ walOk /\ walOk' = walOk /\ log' = Append(log, DelRec(k))
    BY <1>2, Zenon DEF Appended
  <2>5. allowed \in [Key -> SUBSET (Value \cup {Absent})]
    BY Zenon DEF IInv, TypeOK
  <2>6. /\ allowed' \in [Key -> SUBSET (Value \cup {Absent})]
        /\ Absent \in allowed'[k] /\ \A m \in Key : m # k => allowed'[m] = allowed[m]
    BY <1>2, <2>5, Zenon
  <2>7. /\ log' \in Seq(Records) /\ Len(log') = Len(log) + 1 /\ pos \in 0..Len(log')
        /\ Durable' /\ MemoryMatchesLog'
    BY <1>2, <2>1, <2>2, <2>3, <2>4, <2>6, AppendKeepsLogFacts, Zenon DEF Up
  <2>8. /\ cur'.key = k /\ cur'.val = Absent
        /\ cur' \in [key : Key \cup {Absent}, val : Value \cup {Absent}]
    BY <1>2, Zenon
  <2>9. TypeOK'
    <3>1. walOk' \in BOOLEAN /\ forgotten' \subseteq Key /\ crashes' \in 0..MaxCrash
      BY <1>2, <2>1, <2>4, Zenon DEF IInv, TypeOK
    <3>2. phase' \in Phase /\ cur'.key \in Key
      BY <1>2, <2>8, Zenon DEF Phase
    <3> QED
      BY <2>1, <2>2, <2>6, <2>7, <2>8, <3>1, <3>2, Zenon DEF TypeOK, Lists, Held, Records
  <2>10. CapacityPlusOne'
    <3>1. Len(lru) \in Nat /\ (Capacity > 0 => Len(lru) <= Capacity)
      BY <2>1, <2>4 DEF IInv, TypeOK, CapacityPlusOne, Up
    <3> QED
      BY <1>2, <2>2, <3>1, StoreAssumption DEF CapacityPlusOne
  <2>11. OpFacts'
    BY <1>2, <2>2, <2>8, Zenon DEF OpFacts
  <2> QED
    BY <1>2, <2>7, <2>9, <2>10, <2>11, Zenon DEF IInv, ReplayFacts
<1> QED
  BY <1>1, <1>2, Zenon DEF del

\* The victim is the last key of a list of two or more, never the new one.
LEMMA EvictKeepsIInv ==
  ASSUME IInv, evict_lru_locked
  PROVE  IInv'
<1> DEFINE victim == lru[Len(lru)]
<1>1. phase = "evict" /\ UNCHANGED <<cur, pos, crashes>>
  BY Zenon DEF evict_lru_locked
<1>2. CASE /\ AppendFailed /\ phase' = "reply" /\ UNCHANGED <<cache, history>>
  BY <1>1, <1>2, RefusalKeepsIInv, Zenon DEF Up, cache, history
<1>3. CASE ~OverCapacity(lru) /\ phase' = "reply" /\ UNCHANGED <<file, cache, history>>
  <2>1. UNCHANGED <<log, walOk, mem, lru, allowed, forgotten>>
    BY <1>3, Zenon DEF file, cache, history
  <2>2. TypeOK'
    BY <1>1, <1>3, <2>1, Zenon DEF IInv, TypeOK, Phase
  <2>3. CapacityPlusOne'
    BY <1>3, <2>1, StoreAssumption DEF IInv, TypeOK, CapacityPlusOne, OverCapacity
  <2>4. Durable' /\ MemoryMatchesLog'
    BY <1>1, <2>1, SameLogFacts, Zenon DEF IInv, Up
  <2> QED
    BY <1>1, <1>3, <2>1, <2>2, <2>3, <2>4, Zenon DEF IInv, OpFacts, ReplayFacts
<1>4. CASE /\ OverCapacity(lru) /\ Appended(DelRec(victim)) /\ Erase(victim)
           /\ allowed' = [allowed EXCEPT ![victim] = {Absent}]
           /\ forgotten' = forgotten \ {victim} /\ phase' = phase
  <2>1. /\ lru \in Seq(Key) /\ Len(lru) \in Nat /\ Len(lru) >= 2 /\ Capacity > 0
        /\ IsInjective(lru) /\ Range(lru) = Held
    BY <1>4, StoreAssumption DEF IInv, TypeOK, OverCapacity, Held
  <2>2. /\ victim \in Key /\ victim \in Range(lru) /\ victim # lru[1]
    <3>1. /\ DOMAIN lru = 1..Len(lru)
          /\ 1 \in 1..Len(lru) /\ Len(lru) \in 1..Len(lru) /\ Len(lru) # 1
      <4>1. DOMAIN lru = 1..Len(lru)
        BY <2>1
      <4>2. \A n \in Nat : n >= 2 => 1 \in 1..n /\ n \in 1..n /\ n # 1
        OBVIOUS
      <4> QED
        BY <2>1, <4>1, <4>2, Zenon
    <3>2. victim = lru[Len(lru)]
      OBVIOUS
    <3> QED
      BY <2>1, <3>1, <3>2 DEF Range, IsInjective
  <2>3. Present(victim) /\ lru[1] = cur.key /\ lru # <<>> /\ cur.key \in Key
    BY <1>1, <2>1, <2>2, Zenon DEF Held, Present, IInv, OpFacts, TypeOK
  <2> HIDE DEF victim
  <2>4. /\ mem' \in [Key -> Value \cup {Absent}] /\ Lists(lru, Held)'
        /\ mem'[victim] = Absent /\ \A m \in Key : m # victim => mem'[m] = mem[m]
        /\ Len(lru') = Len(lru) - 1 /\ lru' # <<>> /\ lru'[1] = lru[1]
    BY <1>4, <2>2, <2>3, EraseFacts, Zenon DEF IInv
  <2>5. /\ DelRec(victim) \in Record /\ DelRec(victim).key = victim
        /\ DelRec(victim).val = Absent
    BY <2>2, RecordFacts, Zenon
  <2>6. walOk /\ walOk' = walOk /\ log' = Append(log, DelRec(victim))
    BY <1>4, Zenon DEF Appended
  <2>7. allowed \in [Key -> SUBSET (Value \cup {Absent})]
    BY Zenon DEF IInv, TypeOK
  <2>8. /\ allowed' \in [Key -> SUBSET (Value \cup {Absent})]
        /\ Absent \in allowed'[victim] /\ \A m \in Key : m # victim => allowed'[m] = allowed[m]
    BY <1>4, <2>2, <2>7, Zenon
  <2>9. /\ log' \in Seq(Records) /\ Len(log') = Len(log) + 1 /\ pos \in 0..Len(log')
        /\ Durable' /\ MemoryMatchesLog'
    BY <1>1, <1>4, <2>4, <2>5, <2>6, <2>8, AppendKeepsLogFacts, Zenon DEF Up
  <2>10. TypeOK'
    <3>1. walOk' \in BOOLEAN /\ forgotten' \subseteq Key
      BY <1>4, <2>6, Zenon DEF IInv, TypeOK
    <3> QED
      BY <1>1, <1>4, <2>4, <2>8, <2>9, <3>1, Zenon DEF IInv, TypeOK, Lists, Held, Records
  <2>11. CapacityPlusOne'
    <3>1. Len(lru) <= Capacity + 1
      BY <1>1, <2>1 DEF IInv, CapacityPlusOne, Up
    <3>2. Len(lru') <= Capacity /\ Len(lru') <= Capacity + 1
      BY <2>1, <2>4, <3>1, StoreAssumption
    <3> QED
      BY <3>2, Zenon DEF CapacityPlusOne
  <2>12. OpFacts'
    BY <1>1, <1>4, <2>2, <2>3, <2>4, Zenon DEF IInv, OpFacts
  <2> QED
    BY <1>1, <1>4, <2>9, <2>10, <2>11, <2>12, Zenon DEF IInv, ReplayFacts
<1> QED
  BY <1>2, <1>3, <1>4, Zenon DEF evict_lru_locked

LEMMA ReplyKeepsIInv ==
  ASSUME IInv, Reply
  PROVE  IInv'
<1>1. /\ UNCHANGED <<log, walOk, mem, lru, cur, pos, forgotten, crashes>>
      /\ phase = "reply" /\ phase' = "idle"
      /\ allowed' = [allowed EXCEPT ![cur.key] = {cur.val}]
      /\ allowed \in [Key -> SUBSET (Value \cup {Absent})]
      /\ cur.key \in Key /\ mem[cur.key] = cur.val /\ cur.key \notin forgotten
  BY Zenon DEF Reply, file, cache, IInv, TypeOK, OpFacts
<1>2. cur.val \in Value \cup {Absent}
  BY Zenon DEF IInv, TypeOK
<1>3. TypeOK'
  <2>1. allowed' \in [Key -> SUBSET (Value \cup {Absent})]
    BY <1>1, <1>2, Zenon
  <2> QED
    BY <1>1, <2>1, Zenon DEF IInv, TypeOK, Phase
<1>4. MemoryMatchesLog'
  BY <1>1, SameLogFacts, Zenon DEF IInv, Up
<1>5. Durable'
  <2> SUFFICES ASSUME ~Buried, NEW k \in Key \ forgotten
               PROVE  \E v \in allowed'[k] : Logged(k, v)
    BY <1>1, SameLogFacts, Zenon DEF Durable
  <2>1. CASE k = cur.key
    BY <1>1, <2>1, Zenon DEF IInv, MemoryMatchesLog, Logged, Up
  <2>2. CASE k # cur.key
    BY <1>1, <2>2, Zenon DEF IInv, Durable
  <2> QED
    BY <2>1, <2>2, Zenon
<1> QED
  BY <1>1, <1>3, <1>4, <1>5, Zenon DEF IInv, CapacityPlusOne, OpFacts, ReplayFacts, Up

LEMMA GetKeepsIInv ==
  ASSUME IInv, NEW k \in Key, get(k)
  PROVE  IInv'
<1>1. /\ UNCHANGED <<log, walOk, mem, phase, cur, pos, allowed, forgotten, crashes>>
      /\ phase = "idle" /\ Present(k) /\ lru' = <<k>> \o Unlink(lru, k)
      /\ lru \in Seq(Key) /\ IsInjective(lru) /\ Range(lru) = Held
  BY Zenon DEF get, file, history, IInv, TypeOK, Held
<1>2. Lists(lru', Range(lru) \cup {k}) /\ k \in Range(lru) /\ Len(lru') = Len(lru)
  BY <1>1, MoveToFrontFacts, Zenon DEF Held, Present
<1>3. Range(lru) \cup {k} = Held' /\ Held' = Held
  BY <1>1, <1>2, Zenon DEF Held
<1>4. TypeOK'
  BY <1>1, <1>2, <1>3, Zenon DEF IInv, TypeOK, Lists, Held
<1> QED
  <2>1. CapacityPlusOne' /\ OpFacts' /\ ReplayFacts'
    BY <1>1, <1>2, Zenon DEF IInv, CapacityPlusOne, OpFacts, ReplayFacts, Says, Up
  <2>2. Durable' /\ MemoryMatchesLog'
    BY <1>1, SameLogFacts, Zenon DEF IInv, Up
  <2> QED
    BY <1>4, <2>1, <2>2, Zenon DEF IInv

LEMMA CrashKeepsIInv ==
  ASSUME IInv, Crash
  PROVE  IInv'
<1>1. /\ UNCHANGED <<walOk, cur, pos, allowed, forgotten>>
      /\ phase' = "down" /\ crashes < MaxCrash /\ crashes' = crashes + 1
      /\ mem' = [k \in Key |-> Absent] /\ lru' = <<>>
      /\ log' \in {log, Append(log, Torn)}
  BY Zenon DEF Crash, history
<1>2. /\ log' \in Seq(Records) /\ Len(log') >= Len(log)
      /\ ~Buried' => ~Buried
      /\ \A k \in Key : \A v : Logged(k, v) => Logged(k, v)'
  BY <1>1, FailedAppendFacts, Zenon DEF IInv
<1>3. TypeOK'
  <2>1. pos \in 0..Len(log')
    <3>1. pos \in 0..Len(log) /\ Len(log) \in Nat /\ Len(log') \in Nat
      BY <1>2 DEF IInv, TypeOK
    <3> QED
      BY <1>2, <3>1
  <2>2. crashes' \in 0..MaxCrash
    BY <1>1, StoreAssumption DEF IInv, TypeOK
  <2>3. Held' = {}
    BY <1>1, Zenon DEF Held
  <2>4. Lists(lru, Held)'
    BY <1>1, <2>3, EmptyList, Zenon DEF Lists
  <2>5. mem' \in [Key -> Value \cup {Absent}]
    BY <1>1, Zenon
  <2> QED
    BY <1>1, <1>2, <2>1, <2>2, <2>4, <2>5, Zenon DEF IInv, TypeOK, Lists, Held, Records, Phase
<1>4. Durable'
  BY <1>1, <1>2, Zenon DEF IInv, Durable
<1> QED
  BY <1>1, <1>3, <1>4, Zenon
     DEF IInv, CapacityPlusOne, OpFacts, ReplayFacts, MemoryMatchesLog, Up

LEMMA StartKeepsIInv ==
  ASSUME IInv, Start
  PROVE  IInv'
<1>1. /\ UNCHANGED <<log, walOk, mem, lru, cur, allowed, forgotten, crashes>>
      /\ phase = "down" /\ phase' = "replay" /\ pos' = 0
      /\ mem = [k \in Key |-> Absent]
  BY Zenon DEF Start, file, cache, history, IInv, ReplayFacts
<1>2. TypeOK'
  <2>1. 0 \in 0..Len(log)
    BY DEF IInv, TypeOK
  <2> QED
    BY <1>1, <2>1, Zenon DEF IInv, TypeOK, Phase
<1>3. ReplayFacts'
  BY <1>1 DEF ReplayFacts, Says
<1>4. Durable'
  BY <1>1, SameLogFacts, Zenon DEF IInv
<1> QED
  BY <1>1, <1>2, <1>3, <1>4, Zenon DEF IInv, CapacityPlusOne, OpFacts, MemoryMatchesLog, Up

\* Memory follows the records one by one.
LEMMA ReplayKeepsIInv ==
  ASSUME IInv, ReplayRecord
  PROVE  IInv'
<1> DEFINE r == log[pos + 1]
<1>1. /\ UNCHANGED <<log, walOk, phase, cur, allowed, forgotten, crashes>>
      /\ phase = "replay" /\ pos' = pos + 1 /\ pos < Len(log) /\ r # Torn
      /\ \/ r.op = "SET" /\ Insert(r.key, r.val)
         \/ r.op = "DEL" /\ (IF Present(r.key) THEN Erase(r.key) ELSE UNCHANGED cache)
      /\ pos \in Nat /\ pos + 1 \in 1..Len(log) /\ Len(log) \in Nat
  BY DEF ReplayRecord, MoreToReplay, file, history, IInv, TypeOK
<1>2. r \in Record
  BY <1>1 DEF IInv, TypeOK
<1>3. /\ r.key \in Key
      /\ r.op = "SET" => r.val \in Value
      /\ r.op = "DEL" => r.val = Absent
  BY <1>2, RecordFacts, Zenon
<1> HIDE DEF r
<1>4. /\ mem' \in [Key -> Value \cup {Absent}] /\ Lists(lru, Held)'
      /\ mem'[r.key] = r.val /\ \A m \in Key : m # r.key => mem'[m] = mem[m]
  <2>1. CASE r.op = "SET" /\ Insert(r.key, r.val)
    BY <1>3, <2>1, InsertFacts, Zenon DEF IInv
  <2>2. CASE r.op = "DEL" /\ Present(r.key) /\ Erase(r.key)
    BY <1>3, <2>2, EraseFacts, Zenon DEF IInv
  <2>3. CASE r.op = "DEL" /\ ~Present(r.key) /\ UNCHANGED cache
    BY <1>3, <2>3, TypeSplit, Zenon DEF IInv, Present, cache, Lists, Held
  <2> QED
    BY <1>1, <2>1, <2>2, <2>3, Zenon
<1>5. TypeOK'
  <2>1. pos' \in 0..Len(log)
    BY <1>1
  <2> QED
    BY <1>1, <1>4, <2>1, Zenon DEF IInv, TypeOK, Lists, Held
<1>6. ASSUME NEW k \in Key PROVE Says(pos, k, mem[k])'
  <2>1. PICK w : w = mem'[k]
    OBVIOUS
  <2>2. Says(pos + 1, k, w)
    <3>1. CASE r.key = k
      BY <1>1, <1>4, <2>1, <3>1, OneMoreRecord, Zenon DEF r, IInv
    <3>2. CASE r.key # k
      <4>1. Says(pos, k, w)
        BY <1>1, <1>4, <2>1, <3>2, Zenon DEF IInv, ReplayFacts
      <4> QED
        BY <1>1, <3>2, <4>1, OneMoreRecord, Zenon DEF r, IInv
    <3> QED
      BY <3>1, <3>2, Zenon
  <2> QED
    BY <1>1, <2>1, <2>2, Zenon DEF Says
<1>7. \A i \in 1..(pos + 1) : log[i] # Torn
  BY <1>1 DEF r, IInv, ReplayFacts
<1>8. ReplayFacts'
  BY <1>1, <1>6, <1>7, Zenon DEF ReplayFacts
<1>9. Durable'
  BY <1>1, SameLogFacts, Zenon DEF IInv
<1> QED
  BY <1>1, <1>5, <1>8, <1>9, Zenon DEF IInv, CapacityPlusOne, OpFacts, MemoryMatchesLog, Up

\* The reader saw all of an intact log, or all but the torn record at its end.
LEMMA IntactLogIsReadToItsEnd ==
  ASSUME IInv, phase = "replay", ~MoreToReplay, ~Buried, NEW k \in Key
  PROVE  Logged(k, mem[k])
<1>1. /\ pos \in 0..Len(log) /\ Len(log) \in Nat /\ Says(pos, k, mem[k])
      /\ pos < Len(log) => log[pos + 1] = Torn
  BY DEF IInv, TypeOK, ReplayFacts, MoreToReplay
<1>2. CASE pos = Len(log)
  BY <1>1, <1>2, Zenon DEF Logged
<1>3. CASE pos < Len(log)
  <2>1. pos + 1 \in 1..Len(log) /\ log[pos + 1] = Torn
    BY <1>1, <1>3
  <2>2. DOMAIN log = 1..Len(log)
    BY DEF IInv, TypeOK
  <2>3. pos + 1 = Len(log)
    <3>1. ~(pos + 1 < Len(log))
      BY <2>1, <2>2, Zenon DEF Buried
    <3> QED
      BY <1>1, <1>3, <3>1
  <2>4. log[pos + 1].key # k
    BY <2>1, RecordFacts, Zenon
  <2>5. Says(pos + 1, k, mem[k])
    BY <1>1, <1>3, <2>4, OneMoreRecord DEF IInv
  <2> QED
    BY <2>3, <2>5, Zenon DEF Logged
<1> QED
  BY <1>1, <1>2, <1>3

LEMMA FinishReplayKeepsIInv ==
  ASSUME IInv, FinishReplay
  PROVE  IInv'
<1> DEFINE trimmed == {k \in Key : Present(k) /\ k \notin Range(Kept)}
<1>1. /\ UNCHANGED <<log, cur, pos, crashes>>
      /\ phase = "replay" /\ phase' = "idle" /\ ~MoreToReplay /\ walOk' = TRUE
      /\ lru' = Kept
      /\ mem' = [k \in Key |-> IF k \in trimmed THEN Absent ELSE mem[k]]
      /\ forgotten' = forgotten \cup trimmed
      /\ allowed' = [k \in Key |-> IF k \in trimmed THEN {Absent}
                                   ELSE IF mem[k] \in allowed[k] THEN {mem[k]}
                                   ELSE allowed[k]]
  BY Zenon DEF FinishReplay
<1>2. /\ lru \in Seq(Key) /\ IsInjective(lru) /\ Range(lru) = Held /\ Len(lru) \in Nat
      /\ mem \in [Key -> Value \cup {Absent}]
      /\ allowed \in [Key -> SUBSET (Value \cup {Absent})]
  BY DEF IInv, TypeOK, Held
<1>3. /\ Lists(Kept, Range(Kept)) /\ Range(Kept) \subseteq Held
      /\ Capacity > 0 => Len(Kept) <= Capacity
  <2>1. CASE OverCapacity(lru)
    <3>1. Kept = SubSeq(lru, 1, Capacity) /\ Capacity \in Nat /\ Capacity < Len(lru)
      BY <1>2, <2>1, StoreAssumption, Zenon DEF Kept, OverCapacity
    <3>2. /\ Lists(Kept, Range(Kept)) /\ Range(Kept) \subseteq Range(lru)
          /\ Len(Kept) = Capacity
      BY <1>2, <3>1, PrefixFacts, Zenon
    <3> QED
      BY <1>2, <3>1, <3>2
  <2>2. CASE ~OverCapacity(lru)
    <3>1. Kept = lru
      BY <2>2, Zenon DEF Kept
    <3> QED
      BY <1>2, <2>2, <3>1, StoreAssumption DEF Lists, OverCapacity
  <2> QED
    BY <2>1, <2>2, Zenon
<1>4. Held' = Range(Kept)
  <2>1. \A k \in Key : k \in trimmed <=> k \in Held /\ k \notin Range(Kept)
    BY Zenon DEF Held, Present
  <2>2. \A k \in Key : mem'[k] = IF k \in trimmed THEN Absent ELSE mem[k]
    BY <1>1, Zenon
  <2> HIDE DEF trimmed
  <2>3. \A k \in Key : mem'[k] # Absent <=> k \in Range(Kept)
    BY <1>3, <2>1, <2>2, Zenon DEF Held
  <2>4. Range(Kept) \subseteq Key
    BY <1>3, Zenon DEF Held
  <2> QED
    BY <2>3, <2>4, Zenon DEF Held
<1> HIDE DEF trimmed
<1>5. TypeOK'
  <2>1. mem' \in [Key -> Value \cup {Absent}]
    BY <1>1, <1>2, Zenon
  <2>2. allowed' \in [Key -> SUBSET (Value \cup {Absent})]
    BY <1>1, <1>2, Zenon
  <2>3. forgotten' \subseteq Key
    BY <1>1, Zenon DEF trimmed, IInv, TypeOK
  <2>4. Lists(lru, Held)'
    BY <1>1, <1>3, <1>4, Zenon DEF Lists
  <2> QED
    BY <1>1, <2>1, <2>2, <2>3, <2>4, Zenon DEF IInv, TypeOK, Lists, Held, Phase
<1>6. CapacityPlusOne'
  <2>1. Len(Kept) \in Nat
    BY <1>3 DEF Lists
  <2> QED
    BY <1>1, <1>3, <2>1, StoreAssumption DEF CapacityPlusOne
<1>7. ASSUME ~Buried, NEW k \in Key \ forgotten'
      PROVE  mem'[k] = mem[k] /\ Logged(k, mem[k]) /\ mem[k] \in allowed'[k]
  <2>1. k \in Key \ forgotten /\ k \notin trimmed
    BY <1>1, <1>7, Zenon
  <2>2. Logged(k, mem[k])
    BY <1>1, <1>7, <2>1, IntactLogIsReadToItsEnd, Zenon
  <2>3. PICK v \in allowed[k] : Logged(k, v)
    BY <1>7, <2>1, Zenon DEF IInv, Durable
  <2>4. v = mem[k]
    <3>1. Len(log) \in Nat
      BY DEF IInv, TypeOK
    <3> QED
      BY <2>1, <2>2, <2>3, <3>1, LogSaysOneThing, Zenon DEF Logged
  <2> QED
    BY <1>1, <2>1, <2>2, <2>3, <2>4, Zenon
<1>8. Durable' /\ MemoryMatchesLog'
  <2>1. (Buried' <=> Buried) /\ \A k, v : Logged(k, v)' <=> Logged(k, v)
    BY <1>1, SameLogFacts, Zenon
  <2>2. ASSUME ~Buried, NEW k \in Key \ forgotten'
        PROVE  Logged(k, mem[k])' /\ \E v \in allowed'[k] : Logged(k, v)'
    <3>1. PICK w : w = mem[k] /\ w = mem'[k] /\ w \in allowed'[k] /\ Logged(k, w)
      BY <1>7, <2>2, Zenon
    <3>2. Logged(k, w)'
      BY <2>1, <3>1, Zenon
    <3>3. Logged(k, mem[k])'
      BY <3>1, <3>2, Zenon DEF Logged, Says
    <3> QED
      BY <3>1, <3>2, <3>3, Zenon
  <2> QED
    BY <2>1, <2>2, Zenon DEF Durable, MemoryMatchesLog, Logged
<1> QED
  BY <1>1, <1>5, <1>6, <1>8, Zenon DEF IInv, OpFacts, ReplayFacts

LEMMA StutterKeepsIInv ==
  ASSUME IInv, UNCHANGED vars
  PROVE  IInv'
<1>1. UNCHANGED <<log, walOk, mem, lru, phase, cur, pos, allowed, forgotten, crashes>>
  BY Zenon DEF vars, file, cache, history
<1>2. TypeOK'
  BY <1>1, Zenon DEF IInv, TypeOK
<1>3. Durable' /\ MemoryMatchesLog'
  BY <1>1, SameLogFacts, Zenon DEF IInv, Up
<1>4. ReplayFacts'
  BY <1>1 DEF IInv, ReplayFacts, Says
<1> QED
  BY <1>1, <1>2, <1>3, <1>4, Zenon DEF IInv, CapacityPlusOne, OpFacts, Up
-----------------------------------------------------------------------------
(* The theorems. *)

\* IInv is inductive: operations, evictions, crashes and replay keep it.
THEOREM InductiveInvariant == Spec => []IInv
<1>1. Init => IInv
  BY InitIInv, Zenon
<1>2. IInv /\ [Next]_vars => IInv'
  <2> SUFFICES ASSUME IInv, [Next]_vars
               PROVE  IInv'
    OBVIOUS
  <2>1. CASE \E k \in Key, v \in Value : set(k, v)
    BY <2>1, SetKeepsIInv, Zenon
  <2>2. CASE \E k \in Key : del(k) \/ get(k)
    BY <2>2, DelKeepsIInv, GetKeepsIInv, Zenon
  <2>3. CASE evict_lru_locked
    BY <2>3, EvictKeepsIInv, Zenon
  <2>4. CASE Reply
    BY <2>4, ReplyKeepsIInv, Zenon
  <2>5. CASE Crash
    BY <2>5, CrashKeepsIInv, Zenon
  <2>6. CASE Start
    BY <2>6, StartKeepsIInv, Zenon
  <2>7. CASE ReplayRecord
    BY <2>7, ReplayKeepsIInv, Zenon
  <2>8. CASE FinishReplay
    BY <2>8, FinishReplayKeepsIInv, Zenon
  <2>9. CASE UNCHANGED vars
    BY <2>9, StutterKeepsIInv, Zenon
  <2> QED
    BY <2>1, <2>2, <2>3, <2>4, <2>5, <2>6, <2>7, <2>8, <2>9, Zenon DEF Next
<1> QED
  BY <1>1, <1>2, PTL DEF Spec

\* The list and the map of the cache hold the same keys, each once.
THEOREM TypeCorrect == Spec => []TypeOK
<1>1. IInv => TypeOK
  BY Zenon DEF IInv
<1> QED
  BY <1>1, InductiveInvariant, PTL

\* The cache is at most one key over its capacity, and stays there only while
\* the log is down.
THEOREM CapacityIsKept == Spec => []CapacityPlusOne
<1>1. IInv => CapacityPlusOne
  BY Zenon DEF IInv
<1> QED
  BY <1>1, InductiveInvariant, PTL

\* Memory and log agree on every key that was not trimmed, as long as no torn
\* record has been written behind.
THEOREM MemoryFollowsLog == Spec => []MemoryMatchesLog
<1>1. IInv => MemoryMatchesLog
  BY Zenon DEF IInv
<1> QED
  BY <1>1, InductiveInvariant, PTL

\* With such a log, what was acknowledged is what is found, across any number of
\* crashes.
THEOREM IntactLogsKeepPromises == Spec => []IntactLogKeepsPromises
<1>1. IInv => IntactLogKeepsPromises
  <2> SUFFICES ASSUME IInv, Up, ~Buried, NEW k \in Key \ forgotten
               PROVE  mem[k] \in allowed[k]
    BY Zenon DEF IntactLogKeepsPromises
  <2>1. Logged(k, mem[k]) /\ \E v \in allowed[k] : Logged(k, v)
    BY Zenon DEF IInv, MemoryMatchesLog, Durable, Logged
  <2>2. Len(log) \in Nat
    BY DEF IInv, TypeOK
  <2> QED
    BY <2>1, <2>2, LogSaysOneThing, Zenon DEF Logged
<1> QED
  BY <1>1, InductiveInvariant, PTL
-----------------------------------------------------------------------------
(* With an intact log the store implements DurableMap. *)

\* What is stored is what the log says.
LEMMA StoredIsLogged ==
  TypeOK => \A m \in Key, w \in Value \cup {Absent} : Logged(m, w) => Stored[m] = w
<1> SUFFICES ASSUME TypeOK, NEW k \in Key, NEW v \in Value \cup {Absent}, Logged(k, v)
             PROVE  Stored[k] = v
  BY Zenon
<1>1. Len(log) \in Nat
  BY DEF TypeOK
<1>2. \A w \in Value \cup {Absent} : Says(Len(log), k, w) => w = v
  BY <1>1, LogSaysOneThing, Zenon DEF Logged
<1>3. (CHOOSE w \in Value \cup {Absent} : Says(Len(log), k, w)) = v
  BY <1>2, Zenon DEF Logged
<1> QED
  BY <1>3, Zenon DEF Stored

LEMMA StoredIsLoggedNext ==
  (TypeOK => \A m \in Key, w \in Value \cup {Absent} : Logged(m, w) => Stored[m] = w)'
  BY StoredIsLogged, PTL

\* An intact log says something of every key that was not trimmed.
LEMMA StoredWhenIntact ==
  ASSUME IInv, ~Buried, NEW k \in Key \ forgotten
  PROVE  Stored[k] \in Value \cup {Absent} /\ Logged(k, Stored[k])
<1>1. PICK v \in allowed[k] : Logged(k, v)
  BY Zenon DEF IInv, Durable
<1>2. v \in Value \cup {Absent}
  BY <1>1, Zenon DEF IInv, TypeOK
<1>3. Stored[k] = v
  BY <1>1, <1>2, StoredIsLogged, Zenon DEF IInv
<1> QED
  BY <1>1, <1>2, <1>3, Zenon

\* Memory shows what is stored.
LEMMA ShownIsStored ==
  IInv /\ Up /\ ~Buried /\ forgotten = {} => Shown = Engine!Answers(Stored)
<1> SUFFICES ASSUME IInv, Up, ~Buried, forgotten = {}
             PROVE  Shown = Engine!Answers(Stored)
  OBVIOUS
<1>1. ASSUME NEW k \in Key PROVE mem[k] = Stored[k]
  <2>1. Logged(k, mem[k])
    BY Zenon DEF IInv, MemoryMatchesLog, Logged
  <2>2. mem[k] \in Value \cup {Absent}
    BY Zenon DEF IInv, TypeOK
  <2> QED
    BY <2>1, <2>2, StoredIsLogged, Zenon DEF IInv
<1> QED
  BY <1>1, Zenon DEF Shown, Exactly, Engine!Answers

\* A failed or interrupted append, and a step that appends nothing, store nothing.
LEMMA StoredUnlessAppended ==
  ASSUME IInv, IInv', log' \in {log, Append(log, Torn)}, ~Buried', forgotten = {}
  PROVE  Stored' = Stored
<1>1. ~Buried /\ \A k \in Key : \A v : Logged(k, v) => Logged(k, v)'
  BY FailedAppendFacts, Zenon DEF IInv
<1>2. (TypeOK => \A m \in Key, w \in Value \cup {Absent} : Logged(m, w) => Stored[m] = w)'
  BY StoredIsLoggedNext
<1>3. ASSUME NEW k \in Key PROVE Stored'[k] = Stored[k]
  <2>1. PICK v \in Value \cup {Absent} : v = Stored[k] /\ Logged(k, v)
    BY <1>1, StoredWhenIntact, Zenon
  <2>2. Logged(k, v)'
    BY <1>1, <2>1, Zenon
  <2>3. Stored'[k] = v
    BY <1>2, <2>2, Zenon DEF IInv
  <2> QED
    BY <2>1, <2>3, Zenon
<1> QED
  BY <1>3, Zenon DEF Stored

\* A record that is appended stores its value, under its key only.
LEMMA AppendIsUpdate ==
  ASSUME IInv, IInv', Up, Up', NEW r \in Record, Appended(r), forgotten' = forgotten \ {r.key},
         ~Buried', forgotten' = {}, NEW k, NEW v, k = r.key, v = r.val
  PROVE  Engine!MNext
<1>1. k \in Key /\ v \in Value \cup {Absent} /\ r \in Records
  BY RecordFacts, Zenon DEF Records
<1>2. /\ log' = Append(log, r) /\ walOk /\ walOk' = walOk
      /\ ~Buried /\ Logged(k, v)'
      /\ \A q \in Key : q # k => \A w : Logged(q, w) => Logged(q, w)'
  BY <1>1, AppendFacts, Zenon DEF Appended, IInv
<1>3. (TypeOK => \A m \in Key, w \in Value \cup {Absent} : Logged(m, w) => Stored[m] = w)'
  BY StoredIsLoggedNext
<1>4. Stored'[k] = v
  BY <1>1, <1>2, <1>3, Zenon DEF IInv
<1>5. ASSUME NEW q \in Key, q # k PROVE Stored'[q] = Stored[q]
  <2>1. q \in Key \ forgotten
    BY <1>5, Zenon
  <2>2. PICK w \in Value \cup {Absent} : w = Stored[q] /\ Logged(q, w)
    BY <1>2, <2>1, StoredWhenIntact, Zenon
  <2>3. Stored'[q] = w
    BY <1>2, <1>3, <1>5, <2>2, Zenon DEF IInv
  <2> QED
    BY <2>2, <2>3, Zenon
<1>6. Stored' = [Stored EXCEPT ![k] = v]
  BY <1>4, <1>5, Zenon DEF Stored
<1>7. (IInv /\ Up /\ ~Buried /\ forgotten = {} => Shown = Engine!Answers(Stored))'
  BY ShownIsStored, PTL
<1>8. Mode = "up" /\ Mode' = "up"
  BY <1>2, Zenon DEF Mode
<1>9. Engine!Update(k, v)
  BY <1>6, <1>7, <1>8, Zenon DEF Engine!Update
<1> QED
  BY <1>1, <1>9, Zenon DEF Engine!MNext

\* An operation or an eviction that cannot be logged.
LEMMA FailureIsAMapStep ==
  ASSUME IInv, IInv', Up, Up', AppendFailed, UNCHANGED <<mem, forgotten>>, ~Buried', forgotten' = {}
  PROVE  Engine!MNext \/ UNCHANGED Engine!promise
<1>1. Stored' = Stored
  BY StoredUnlessAppended, Zenon DEF AppendFailed
<1>2. Shown' = Shown
  BY Zenon DEF Shown
<1>3. Mode' = "failed"
  BY Zenon DEF Mode, AppendFailed
<1>4. CASE walOk
  <2>1. Mode = "up"
    BY <1>4, Zenon DEF Mode
  <2>2. Engine!Fail
    BY <1>1, <1>2, <1>3, <2>1, Zenon DEF Engine!Fail
  <2> QED
    BY <2>2, Zenon DEF Engine!MNext
<1>5. CASE ~walOk
  <2>1. Mode = "failed"
    BY <1>5, Zenon DEF Mode
  <2> QED
    BY <1>1, <1>2, <1>3, <2>1, Zenon DEF Engine!promise
<1> QED
  BY <1>4, <1>5, Zenon

LEMMA SetIsAMapStep ==
  ASSUME IInv, NEW k \in Key, NEW v \in Value, set(k, v), ~Buried', forgotten' = {}
  PROVE  Engine!MNext \/ UNCHANGED Engine!promise
<1>1. IInv' /\ phase = "idle" /\ Up
  BY SetKeepsIInv, Zenon DEF set, Up
<1>2. CASE Appended(SetRec(k, v)) /\ phase' \in {"reply", "evict"} /\ forgotten' = forgotten \ {k}
  <2>1. SetRec(k, v) \in Record /\ SetRec(k, v).key = k
    BY RecordFacts, Zenon
  <2>2. Up'
    BY <1>2 DEF Up
  <2> QED
    BY <1>1, <1>2, <2>1, <2>2, AppendIsUpdate, Zenon
<1>3. CASE AppendFailed /\ UNCHANGED <<cache, phase, cur, history>>
  BY <1>1, <1>3, FailureIsAMapStep, Zenon DEF Up, cache, history
<1> QED
  BY <1>2, <1>3, Zenon DEF set

LEMMA DelIsAMapStep ==
  ASSUME IInv, NEW k \in Key, del(k), ~Buried', forgotten' = {}
  PROVE  Engine!MNext \/ UNCHANGED Engine!promise
<1>1. IInv' /\ phase = "idle" /\ Up
  BY DelKeepsIInv, Zenon DEF del, Up
<1>2. CASE Appended(DelRec(k)) /\ phase' = "reply" /\ forgotten' = forgotten \ {k}
  <2>1. DelRec(k) \in Record /\ DelRec(k).key = k
    BY RecordFacts, Zenon
  <2>2. Up'
    BY <1>2 DEF Up
  <2> QED
    BY <1>1, <1>2, <2>1, <2>2, AppendIsUpdate, Zenon
<1>3. CASE AppendFailed /\ UNCHANGED <<cache, phase, cur, history>>
  BY <1>1, <1>3, FailureIsAMapStep, Zenon DEF Up, cache, history
<1> QED
  BY <1>2, <1>3, Zenon DEF del

\* A step of a process that is up which leaves log and memory alone.
LEMMA QuietStep ==
  ASSUME UNCHANGED <<log, mem, walOk>>, Up' <=> Up
  PROVE  UNCHANGED Engine!promise
<1>1. Stored' = Stored
  BY DEF Stored, Says
<1>2. Shown' = Shown /\ Mode' = Mode
  BY Zenon DEF Shown, Mode
<1> QED
  BY <1>1, <1>2, Zenon DEF Engine!promise

LEMMA EvictIsAMapStep ==
  ASSUME IInv, evict_lru_locked, ~Buried', forgotten' = {}
  PROVE  Engine!MNext \/ UNCHANGED Engine!promise
<1> DEFINE victim == lru[Len(lru)]
<1>1. IInv' /\ phase = "evict" /\ Up
  BY EvictKeepsIInv, Zenon DEF evict_lru_locked, Up
<1>2. CASE /\ OverCapacity(lru) /\ Appended(DelRec(victim))
           /\ forgotten' = forgotten \ {victim} /\ phase' = phase
  <2>1. victim \in Key
    <3>1. lru \in Seq(Key) /\ lru # <<>>
      BY <1>1, Zenon DEF IInv, TypeOK, OpFacts
    <3> QED
      BY <3>1
  <2>2. DelRec(victim) \in Record /\ DelRec(victim).key = victim
    BY <2>1, RecordFacts, Zenon
  <2>3. Up'
    BY <1>1, <1>2, Zenon DEF Up
  <2> QED
    BY <1>1, <1>2, <2>2, <2>3, AppendIsUpdate, Zenon
<1>3. CASE AppendFailed /\ phase' = "reply" /\ UNCHANGED <<cache, history>>
  <2>1. Up'
    BY <1>3 DEF Up
  <2> QED
    BY <1>1, <1>3, <2>1, FailureIsAMapStep, Zenon DEF cache, history
<1>4. CASE phase' = "reply" /\ UNCHANGED <<file, cache, history>>
  <2>1. Up'
    BY <1>4 DEF Up
  <2> QED
    BY <1>1, <1>4, <2>1, QuietStep, Zenon DEF file, cache
<1> QED
  BY <1>2, <1>3, <1>4, Zenon DEF evict_lru_locked

\* A crash, in the middle of an append too, stores nothing and loses nothing.
LEMMA CrashIsAMapStep ==
  ASSUME IInv, Crash, ~Buried', forgotten' = {}
  PROVE  Engine!MNext \/ UNCHANGED Engine!promise
<1>1. IInv' /\ forgotten = {} /\ log' \in {log, Append(log, Torn)}
  BY CrashKeepsIInv, Zenon DEF Crash, history
<1>2. Stored' = Stored
  BY <1>1, StoredUnlessAppended, Zenon
<1>3. ~Up' /\ Mode' = "down" /\ Shown' = Engine!NoAnswers
  BY DEF Crash, Up, Mode, Shown, Exactly, Engine!NoAnswers
<1>4. CASE Up
  <2>1. Mode # "down"
    BY <1>4 DEF Mode
  <2>2. Engine!Halt
    BY <1>2, <1>3, <2>1, Zenon DEF Engine!Halt
  <2> QED
    BY <2>2, Zenon DEF Engine!MNext
<1>5. CASE ~Up
  <2>1. Mode = "down" /\ Shown = Engine!NoAnswers
    BY <1>5, Zenon DEF Mode, Shown, Exactly, Engine!NoAnswers
  <2> QED
    BY <1>2, <1>3, <2>1, Zenon DEF Engine!promise
<1> QED
  BY <1>4, <1>5, Zenon

\* The replay is hidden until it is over, and then shows what is stored.
LEMMA ReplayIsAMapStep ==
  ASSUME IInv, Start \/ ReplayRecord \/ FinishReplay, ~Buried', forgotten' = {}
  PROVE  Engine!MNext \/ UNCHANGED Engine!promise
<1>1. UNCHANGED log /\ ~Up
  BY DEF Start, ReplayRecord, FinishReplay, file, Up
<1>2. Stored' = Stored
  BY <1>1 DEF Stored, Says
<1>3. Mode = "down"
  BY <1>1, Zenon DEF Mode
<1>4. CASE Start \/ ReplayRecord
  <2>1. ~Up'
    BY <1>4 DEF Start, ReplayRecord, Up
  <2> QED
    BY <1>1, <1>2, <1>3, <2>1, Zenon DEF Engine!promise, Shown, Mode
<1>5. CASE FinishReplay
  <2>1. IInv' /\ Up' /\ Mode' = "up"
    BY <1>5, FinishReplayKeepsIInv DEF FinishReplay, Up, Mode
  <2>2. (IInv /\ Up /\ ~Buried /\ forgotten = {} => Shown = Engine!Answers(Stored))'
    BY ShownIsStored, PTL
  <2>3. Engine!Resume
    BY <1>2, <1>3, <2>1, <2>2, Zenon DEF Engine!Resume
  <2> QED
    BY <2>3, Zenon DEF Engine!MNext
<1> QED
  BY <1>4, <1>5, Zenon

LEMMA IntactStep ==
  IInv /\ [Next]_vars /\ ~Buried' /\ forgotten' = {} => [Engine!MNext]_(Engine!promise)
<1> SUFFICES ASSUME IInv, [Next]_vars, ~Buried', forgotten' = {}
             PROVE  Engine!MNext \/ UNCHANGED Engine!promise
  BY Zenon
<1>1. CASE \E k \in Key, v \in Value : set(k, v)
  BY <1>1, SetIsAMapStep, Zenon
<1>2. CASE \E k \in Key : del(k)
  BY <1>2, DelIsAMapStep, Zenon
<1>3. CASE \E k \in Key : get(k)
  <2>1. UNCHANGED <<log, mem, walOk>> /\ (Up' <=> Up)
    BY <1>3, Zenon DEF get, file, Up
  <2> QED
    BY <2>1, QuietStep, Zenon
<1>4. CASE evict_lru_locked
  BY <1>4, EvictIsAMapStep, Zenon
<1>5. CASE Reply
  <2>1. UNCHANGED <<log, mem, walOk>> /\ (Up' <=> Up)
    BY <1>5 DEF Reply, file, cache, Up
  <2> QED
    BY <2>1, QuietStep, Zenon
<1>6. CASE Crash
  BY <1>6, CrashIsAMapStep, Zenon
<1>7. CASE Start \/ ReplayRecord \/ FinishReplay
  BY <1>7, ReplayIsAMapStep, Zenon
<1>8. CASE UNCHANGED vars
  <2>1. UNCHANGED <<log, mem, walOk>> /\ (Up' <=> Up)
    BY <1>8, Zenon DEF vars, file, cache, Up
  <2> QED
    BY <2>1, QuietStep, Zenon
<1> QED
  BY <1>1, <1>2, <1>3, <1>4, <1>5, <1>6, <1>7, <1>8, Zenon DEF Next

\* Every step of the store that leaves its log intact and no key trimmed is a
\* step of a durable map, whatever the capacity, the keys and the number of
\* crashes.
THEOREM IntactLogsAreMaps == Spec => IntactStepsAreMapSteps
<1>1. IInv /\ [Next]_vars
        => (~Buried' /\ forgotten' = {} => [Engine!MNext]_(Engine!promise))
  BY IntactStep, Zenon
<1> QED
  BY <1>1, InductiveInvariant, PTL DEF Spec, IntactStepsAreMapSteps

\* A store whose log stays intact and that trims no key is a durable map from
\* its first start on.
THEOREM IntactStoreIsAMap ==
  Spec /\ [](~Buried /\ forgotten = {}) => Engine!MSpec
<1>1. Init => Engine!MInit
  <2> SUFFICES ASSUME Init PROVE Engine!MInit
    OBVIOUS
  <2>1. IInv /\ Up /\ walOk /\ ~Buried /\ forgotten = {}
    BY InitIInv DEF Init, Up, Buried
  <2>2. Mode = "up"
    BY <2>1, Zenon DEF Mode
  <2>3. Shown = Engine!NoAnswers
    BY <2>1 DEF Init, Shown, Exactly, Engine!NoAnswers
  <2>4. ASSUME NEW k \in Key PROVE Stored[k] = Absent
    <3>1. mem[k] = Absent /\ Logged(k, mem[k])
      BY <2>1, Zenon DEF Init, IInv, MemoryMatchesLog, Logged
    <3> QED
      BY <2>1, <3>1, StoredIsLogged, Zenon DEF IInv
  <2>5. Stored = Engine!Empty
    BY <2>4, Zenon DEF Stored, Engine!Empty
  <2> QED
    BY <2>2, <2>3, <2>5, Zenon DEF Engine!MInit
<1>2. IInv /\ [Next]_vars /\ (~Buried /\ forgotten = {})' => [Engine!MNext]_(Engine!promise)
  BY IntactStep, Zenon
<1> QED
  BY <1>1, <1>2, InductiveInvariant, PTL DEF Spec, Engine!MSpec
=============================================================================
