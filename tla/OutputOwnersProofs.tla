-------------------------- MODULE OutputOwnersProofs --------------------------
(***************************************************************************)
(* Who may read which file, how large the map grows and what is saved, for *)
(* any number of files, prompts, accounts and flushers.                    *)
(***************************************************************************)
EXTENDS OutputOwners, SeqRetainProofs, FunctionTheorems

(* What insert and assign_owner keep, for every capacity.                  *)

(* Every record has its pair in the order, and the map is not too large.   *)
Covered(mp) ==
  \A k \in Known(mp.entries) : <<k, mp.entries[k].seq>> \in Elems(mp.order)

MapSound(mp) == Covered(mp) /\ Cardinality(Known(mp.entries)) <= Capacity

(* The eviction loop ends: at the latest when the order is empty.          *)
LEMMA PopsExists ==
  ASSUME NEW entries, NEW order \in Seq(Keys \X Nat), NEW now
  PROVE  /\ Pops(entries, order, now) \in 0..Len(order)
         /\ Stops(entries, order, Pops(entries, order, now), now)
         /\ \A m \in 0..Len(order) :
              Stops(entries, order, m, now) => Pops(entries, order, now) <= m
<1> DEFINE T == {n \in 0..Len(order) : Stops(entries, order, n, now)}
<1>1. T \in SUBSET Nat /\ Len(order) \in T
  BY DEF Stops
<1>2. PICK n \in T : \A m \in T : n <= m
  BY <1>1, LeastNat
<1>3. \A m \in 0..Len(order) : Stops(entries, order, m, now) => n <= m
  BY <1>2
<1> HIDE DEF T
<1>4. n \in 0..Len(order) /\ Stops(entries, order, n, now)
  BY <1>2 DEF T
<1> QED
  BY <1>3, <1>4 DEF Pops

(* What is left of a sequence without its first n elements.                *)
LEMMA RestOfSequence ==
  ASSUME NEW S, NEW s \in Seq(S), NEW n \in 0..Len(s)
  PROVE  LET rest == SubSeq(s, n + 1, Len(s))
         IN  /\ rest \in Seq(S)
             /\ Len(rest) = Len(s) - n
             /\ \A i \in 1..Len(rest) : rest[i] = s[i + n]
<1> DEFINE rest == SubSeq(s, n + 1, Len(s))
<1>1. n + 1 \in Int /\ Len(s) \in Int /\ \A i \in (n + 1)..Len(s) : s[i] \in S
  OBVIOUS
<1>2. /\ rest \in Seq(S)
      /\ Len(rest) = IF n + 1 <= Len(s) THEN Len(s) - (n + 1) + 1 ELSE 0
      /\ \A i \in 1..(Len(s) - (n + 1) + 1) : rest[i] = s[n + 1 + i - 1]
  BY <1>1, SubSeqProperties
<1> HIDE DEF rest
<1>3. Len(rest) = Len(s) - n
  BY <1>2
<1>4. ASSUME NEW i \in 1..Len(rest) PROVE rest[i] = s[i + n]
  BY <1>2, <1>3, n + 1 + i - 1 = i + n
<1> QED
  BY <1>2, <1>3, <1>4 DEF rest

(* insert leaves a map of the right type, and each key with the new         *)
(* record, the one that was there, or none.                                *)
LEMMA InsertEntries ==
  ASSUME NEW mp \in MapType, NEW k \in Keys, NEW prompt \in Jobs,
         NEW owner \in Accounts \cup {NoOne}, NEW expires \in Nat,
         NEW recorded \in Nat, NEW now
  PROVE  LET new == [prompt |-> prompt, owner |-> owner, expires |-> expires,
                     recorded |-> recorded, seq |-> mp.nextSeq]
             after == InsertRecord(mp, k, prompt, owner, expires, recorded, now)
         IN  /\ after \in MapType
             /\ after.entries[k] \in {new, NoOne}
             /\ \A j \in Keys \ {k} : after.entries[j] \in {mp.entries[j], NoOne}
             /\ Covered(mp) => MapSound(after)
<1> DEFINE seq     == mp.nextSeq
           new     == [prompt |-> prompt, owner |-> owner, expires |-> expires,
                       recorded |-> recorded, seq |-> seq]
           entries == [mp.entries EXCEPT ![k] = new]
           order   == Append(mp.order, <<k, seq>>)
           n       == Pops(entries, order, now)
           left    == Popped(entries, order, n)
           rest    == SubSeq(order, n + 1, Len(order))
           after   == InsertRecord(mp, k, prompt, owner, expires, recorded, now)
<1>1. after = [entries |-> left, order |-> Compacted(left, rest), nextSeq |-> seq + 1]
  BY DEF InsertRecord
<1>2. new \in OutputRecord /\ seq \in Nat /\ new # NoOne /\ new.seq = seq
  BY RecordAssumption DEF MapType, OutputRecord
<1>3. entries \in [Keys -> OutputRecord \cup {NoOne}]
  <2> HIDE DEF new
  <2> QED
    BY <1>2 DEF MapType
<1>4. entries[k] = new /\ \A j \in Keys \ {k} : entries[j] = mp.entries[j]
  <2> HIDE DEF new
  <2> QED
    BY DEF MapType
<1>5. /\ order \in Seq(Keys \X Nat)
      /\ Len(order) = Len(mp.order) + 1
      /\ \A i \in 1..Len(mp.order) : order[i] = mp.order[i]
      /\ order[Len(mp.order) + 1] = <<k, seq>>
  <2>1. mp.order \in Seq(Keys \X Nat) /\ <<k, seq>> \in Keys \X Nat
    BY <1>2 DEF MapType
  <2> QED
    BY <2>1, AppendProperties
<1> HIDE DEF new, entries, order
<1>6. n \in 0..Len(order) /\ Stops(entries, order, n, now)
  BY <1>5, PopsExists
<1> HIDE DEF n
<1>7. /\ left \in [Keys -> OutputRecord \cup {NoOne}]
      /\ \A j \in Keys : left[j] \in {entries[j], NoOne}
  BY <1>3 DEF Popped
<1>8. /\ rest \in Seq(Keys \X Nat)
      /\ Len(rest) = Len(order) - n
      /\ \A i \in 1..Len(rest) : rest[i] = order[i + n]
  BY <1>5, <1>6, RestOfSequence
<1> HIDE DEF left, rest, after
<1>9. /\ Compacted(left, rest) \in Seq(Keys \X Nat)
      /\ \A pair \in Elems(rest) : IsLive(left, pair) => pair \in Elems(Compacted(left, rest))
  BY <1>8, WithoutProperties DEF Compacted
<1>10. after \in MapType
  BY <1>1, <1>2, <1>7, <1>9 DEF MapType
<1>11. ASSUME Covered(mp) PROVE MapSound(after)
  <2>1. \A j \in Known(entries) : <<j, entries[j].seq>> \in Elems(order)
    <3> SUFFICES ASSUME NEW j \in Known(entries)
                 PROVE  \E i \in 1..Len(order) : order[i] = <<j, entries[j].seq>>
      BY DEF Elems
    <3>0. Len(mp.order) \in Nat
      BY DEF MapType
    <3>1. CASE j = k
      BY <1>2, <1>4, <1>5, <3>0, <3>1
    <3>2. CASE j # k
      <4>1. j \in Known(mp.entries) /\ entries[j] = mp.entries[j]
        BY <1>4, <3>2 DEF Known
      <4>2. PICK i \in 1..Len(mp.order) : mp.order[i] = <<j, entries[j].seq>>
        BY <1>11, <4>1 DEF Covered, Elems
      <4>3. i \in 1..Len(order)
        BY <1>5, <3>0
      <4>4. order[i] = mp.order[i]
        BY <1>5
      <4> QED
        BY <4>2, <4>3, <4>4
    <3> QED
      BY <3>1, <3>2
  <2>2. ASSUME NEW j \in Known(left)
        PROVE  <<j, left[j].seq>> \in Elems(rest) /\ IsLive(left, <<j, left[j].seq>>)
    <3>1. j \in Known(entries) /\ left[j] = entries[j]
      BY <1>7 DEF Known
    <3>2. PICK i \in 1..Len(order) : order[i] = <<j, entries[j].seq>>
      BY <2>1, <3>1 DEF Elems
    <3>3. IsLive(entries, order[i]) /\ order[i][1] = j
      BY <3>1, <3>2 DEF IsLive, Known
    <3>4. ~ (i \in 1..n)
      BY <2>2, <3>3, <3>1 DEF left, Popped, Known
    <3>5. i - n \in 1..Len(rest) /\ rest[i - n] = order[i]
      BY <1>5, <1>6, <1>8, <3>4
    <3> QED
      BY <3>1, <3>2, <3>5 DEF Elems, IsLive, Known
  <2>3. Covered(after)
    BY <1>1, <1>9, <2>2 DEF Covered
  <2>4. Cardinality(Known(left)) <= Capacity
    <3>1. CASE n = Len(order)
      <4>1. Len(rest) = 0
        BY <1>5, <1>8, <3>1
      <4>2. Known(left) = {}
        BY <2>2, <4>1 DEF Elems, Known
      <4> QED
        BY <4>2, FS_EmptySet, MapAssumption
    <3>2. CASE n # Len(order)
      BY <1>6, <3>2 DEF Stops, left
    <3> QED
      BY <3>1, <3>2
  <2> QED
    BY <1>1, <2>3, <2>4 DEF MapSound
<1> QED
  BY <1>4, <1>7, <1>1, <1>10, <1>11 DEF new, after

(* assign_owner changes owners only.                                       *)
LEMMA AssignEntries ==
  ASSUME NEW mp \in MapType, NEW prompt \in Jobs, NEW owner \in Accounts \cup {NoOne}
  PROVE  LET after == AssignOwner(mp, prompt, owner)
         IN  /\ after \in MapType
             /\ \A j \in Keys \ Unassigned(mp.entries, prompt) :
                  after.entries[j] = mp.entries[j]
             /\ \A j \in Unassigned(mp.entries, prompt) :
                  after.entries[j] = [mp.entries[j] EXCEPT !.owner = owner]
             /\ Known(after.entries) = Known(mp.entries)
             /\ MapSound(mp) => MapSound(after)
<1> DEFINE U     == Unassigned(mp.entries, prompt)
           after == AssignOwner(mp, prompt, owner)
           f == [k \in Keys |-> IF k \in U THEN [mp.entries[k] EXCEPT !.owner = owner]
                                           ELSE mp.entries[k]]
<1>1. after = [mp EXCEPT !.entries = f]
  BY DEF AssignOwner
<1>2. \A j \in U : mp.entries[j] \in OutputRecord /\ j \in Keys
  BY DEF Unassigned, Known, MapType
<1>3. \A j \in U : /\ [mp.entries[j] EXCEPT !.owner = owner] \in OutputRecord
                   /\ [mp.entries[j] EXCEPT !.owner = owner].seq = mp.entries[j].seq
  BY <1>2 DEF OutputRecord
<1> HIDE DEF U
<1>4. f \in [Keys -> OutputRecord \cup {NoOne}]
  BY <1>3 DEF MapType
<1>5. /\ after \in MapType /\ after.entries = f /\ after.order = mp.order
  <2> HIDE DEF f
  <2> QED
    BY <1>1, <1>4 DEF MapType
<1>6. Known(f) = Known(mp.entries)
  BY <1>2, <1>3, RecordAssumption DEF Known
<1>7. \A j \in Known(f) : f[j].seq = mp.entries[j].seq
  BY <1>3 DEF Known
<1>8. MapSound(mp) => MapSound(after)
  <2> HIDE DEF f
  <2> QED
    BY <1>5, <1>6, <1>7 DEF MapSound, Covered
<1> QED
  BY <1>5, <1>6, <1>8, <1>2 DEF U

-----------------------------------------------------------------------------
(* The order. *)

(* The pairs of the order are numbered as they came, below the next number.*)
Ordered(mp) ==
  /\ Increasing(mp.order)
  /\ \A i \in 1..Len(mp.order) : mp.order[i][2] < mp.nextSeq

(* A stretch of the naturals has as many elements as its last one says.    *)
LEMMA CardinalityUpTo ==
  ASSUME NEW n \in Nat
  PROVE  Cardinality(1..n) = n
BY FS_Interval

(* Only finitely many files are known: there are no more than pairs.       *)
LEMMA KnownFinite ==
  ASSUME NEW entries, NEW order \in Seq(Keys \X Nat),
         \A k \in Known(entries) : <<k, entries[k].seq>> \in Elems(order)
  PROVE  IsFiniteSet(Known(entries))
<1> DEFINE T == {order[i][1] : i \in 1..Len(order)}
           firsts == [i \in 1..Len(order) |-> order[i][1]]
<1>1. firsts \in [1..Len(order) -> T] /\ \A t \in T : \E i \in 1..Len(order) : firsts[i] = t
  OBVIOUS
<1>2. Known(entries) \subseteq T
  <2> SUFFICES ASSUME NEW k \in Known(entries)
               PROVE  \E i \in 1..Len(order) : order[i][1] = k
    OBVIOUS
  <2> QED
    BY DEF Elems
<1> HIDE DEF T, firsts
<1>3. IsFiniteSet(1..Len(order))
  BY FS_Interval
<1>4. firsts \in Surjection(1..Len(order), T)
  BY <1>1, Fun_IsSurj
<1> QED
  BY <1>2, <1>3, <1>4, FS_Surjection, FS_Subset

(* Compaction keeps the order, and leaves a pair for each record at most.  *)
LEMMA CompactedOrder ==
  ASSUME NEW left \in [Keys -> OutputRecord \cup {NoOne}],
         NEW rest \in Seq(Keys \X Nat), Increasing(rest),
         \A k \in Known(left) : <<k, left[k].seq>> \in Elems(rest),
         Cardinality(Known(left)) <= Capacity
  PROVE  /\ Increasing(Compacted(left, rest))
         /\ Elems(Compacted(left, rest)) \subseteq Elems(rest)
         /\ Len(Compacted(left, rest)) <= 2 * Capacity
<1> DEFINE stale == {pair \in Elems(rest) : ~ IsLive(left, pair)}
           c == Without(rest, stale)
<1>1. CASE ~ (Len(rest) > 2 * Capacity)
  BY <1>1, MapAssumption DEF Compacted
<1>2. CASE Len(rest) > 2 * Capacity
  <2>1. Compacted(left, rest) = c
    BY <1>2 DEF Compacted
  <2>2. c \in Seq(Keys \X Nat) /\ Elems(c) = Elems(rest) \ stale /\ Increasing(c)
    BY WithoutProperties, WithoutIncreasing
  <2>3. \A i \in 1..Len(c) : c[i] \in Keys \X Nat /\ IsLive(left, c[i])
    <3> SUFFICES ASSUME NEW i \in 1..Len(c) PROVE c[i] \in Keys \X Nat /\ IsLive(left, c[i])
      OBVIOUS
    <3>1. c[i] \in Elems(c)
      BY DEF Elems
    <3> QED
      BY <2>2, <3>1
  <2> HIDE DEF c, stale
  <2> DEFINE key == [i \in 1..Len(c) |-> c[i][1]]
  <2>4. IsFiniteSet(Known(left))
    BY KnownFinite
  <2>5. key \in [1..Len(c) -> Known(left)]
    BY <2>3 DEF IsLive, Known
  <2>6. \A i, j \in 1..Len(c) : key[i] = key[j] => i = j
    <3> SUFFICES ASSUME NEW i \in 1..Len(c), NEW j \in 1..Len(c), key[i] = key[j], i # j
                 PROVE  FALSE
      OBVIOUS
    <3>1. c[i][2] = c[j][2]
      BY <2>3 DEF IsLive
    <3>2. c[i][2] \in Nat /\ c[j][2] \in Nat /\ (i < j \/ j < i)
      BY <2>3
    <3> QED
      BY <2>2, <3>1, <3>2 DEF Increasing
  <2>7. key \in Injection(1..Len(c), Known(left))
    <3> HIDE DEF key
    <3> QED
      BY <2>5, <2>6, Fun_IsInj
  <2>8. Cardinality(1..Len(c)) <= Cardinality(Known(left))
    BY <2>4, <2>7, FS_Injection
  <2>9. Len(c) \in Nat
    BY <2>2
  <2>10. Cardinality(1..Len(c)) = Len(c)
    BY <2>9, CardinalityUpTo
  <2>11. Cardinality(Known(left)) \in Nat
    BY <2>4, FS_CardinalityType
  <2> QED
    BY <2>1, <2>2, <2>8, <2>9, <2>10, <2>11, MapAssumption
<1> QED
  BY <1>1, <1>2

(* The intermediate values of insert: the map with the new record, the     *)
(* order with its pair, the number of pops, and the order they leave.      *)
Between(mp, k, new, entries, order, n, rest, now) ==
  /\ new \in OutputRecord /\ new.seq = mp.nextSeq
  /\ entries \in [Keys -> OutputRecord \cup {NoOne}]
  /\ entries[k] = new /\ \A j \in Keys \ {k} : entries[j] = mp.entries[j]
  /\ order \in Seq(Keys \X Nat)
  /\ Len(order) = Len(mp.order) + 1
  /\ \A i \in 1..Len(mp.order) : order[i] = mp.order[i]
  /\ order = Append(mp.order, <<k, mp.nextSeq>>)
  /\ order[Len(order)] = <<k, mp.nextSeq>>
  /\ n \in Nat /\ Len(order) \in Nat /\ n \in 0..Len(order)
  /\ Stops(entries, order, n, now)
  /\ \A m \in 0..Len(order) : Stops(entries, order, m, now) => n <= m
  /\ rest \in Seq(Keys \X Nat)
  /\ Len(rest) = Len(order) - n
  /\ \A i \in 1..Len(rest) : rest[i] = order[i + n]

Unfolds(mp, k, prompt, owner, expires, recorded, now) ==
  \E new, entries, order, n, rest :
    /\ Between(mp, k, new, entries, order, n, rest, now)
    /\ new.expires = expires /\ new.recorded = recorded
    /\ InsertRecord(mp, k, prompt, owner, expires, recorded, now)
         = [entries |-> Popped(entries, order, n),
            order   |-> Compacted(Popped(entries, order, n), rest),
            nextSeq |-> mp.nextSeq + 1]

LEMMA InsertUnfolds ==
  ASSUME NEW mp \in MapType, NEW k \in Keys, NEW prompt \in Jobs,
         NEW owner \in Accounts \cup {NoOne}, NEW expires \in Nat,
         NEW recorded \in Nat, NEW now
  PROVE  Unfolds(mp, k, prompt, owner, expires, recorded, now)
<1> DEFINE seq     == mp.nextSeq
           new     == [prompt |-> prompt, owner |-> owner, expires |-> expires,
                       recorded |-> recorded, seq |-> seq]
           entries == [mp.entries EXCEPT ![k] = new]
           order   == Append(mp.order, <<k, seq>>)
           n       == Pops(entries, order, now)
           rest    == SubSeq(order, n + 1, Len(order))
<1>1. InsertRecord(mp, k, prompt, owner, expires, recorded, now)
        = [entries |-> Popped(entries, order, n),
           order   |-> Compacted(Popped(entries, order, n), rest),
           nextSeq |-> seq + 1]
  BY DEF InsertRecord
<1>2. /\ new \in OutputRecord /\ new.seq = seq /\ new.expires = expires
      /\ new.recorded = recorded /\ seq \in Nat
  BY DEF MapType, OutputRecord
<1> HIDE DEF new
<1>3. entries \in [Keys -> OutputRecord \cup {NoOne}]
  BY <1>2 DEF MapType
<1>4. entries[k] = new /\ \A j \in Keys \ {k} : entries[j] = mp.entries[j]
  BY DEF MapType
<1>5. /\ order \in Seq(Keys \X Nat)
      /\ Len(order) = Len(mp.order) + 1
      /\ \A i \in 1..Len(mp.order) : order[i] = mp.order[i]
      /\ order[Len(order)] = <<k, seq>>
  <2>1. mp.order \in Seq(Keys \X Nat) /\ <<k, seq>> \in Keys \X Nat
    BY <1>2 DEF MapType
  <2> QED
    BY <2>1, AppendProperties
<1>6. order = Append(mp.order, <<k, seq>>)
  OBVIOUS
<1> HIDE DEF entries, order
<1>7. /\ n \in 0..Len(order) /\ Stops(entries, order, n, now)
      /\ \A m \in 0..Len(order) : Stops(entries, order, m, now) => n <= m
  BY <1>5, PopsExists
<1> HIDE DEF n
<1>8. /\ rest \in Seq(Keys \X Nat)
      /\ Len(rest) = Len(order) - n
      /\ \A i \in 1..Len(rest) : rest[i] = order[i + n]
  BY <1>5, <1>7, RestOfSequence
<1> HIDE DEF rest
<1>11. Len(order) \in Nat
  BY <1>5
<1>12. n \in Nat
  BY <1>7, <1>11
<1>9. Between(mp, k, new, entries, order, n, rest, now)
  BY <1>11, <1>12, <1>2, <1>3, <1>4, <1>5, <1>6, <1>7, <1>8 DEF Between
<1>10. /\ Between(mp, k, new, entries, order, n, rest, now)
       /\ new.expires = expires /\ new.recorded = recorded
       /\ InsertRecord(mp, k, prompt, owner, expires, recorded, now)
            = [entries |-> Popped(entries, order, n),
               order   |-> Compacted(Popped(entries, order, n), rest),
               nextSeq |-> mp.nextSeq + 1]
  BY <1>1, <1>2, <1>9
<1> QED
  BY <1>10, Zenon DEF Unfolds

HasPair(order, j, seq) == \E i \in 1..Len(order) : order[i] = <<j, seq>>

(* Each record has its pair in the order.                                  *)
LEMMA OrderCovers ==
  ASSUME NEW mp \in MapType, NEW k \in Keys, NEW new, NEW entries, NEW order, NEW n,
         NEW rest, NEW now, Between(mp, k, new, entries, order, n, rest, now),
         Covered(mp), NEW j \in Known(entries)
  PROVE  HasPair(order, j, entries[j].seq)
<1>1. /\ entries \in [Keys -> OutputRecord \cup {NoOne}]
      /\ entries[k] = new /\ \A d \in Keys \ {k} : entries[d] = mp.entries[d]
      /\ new.seq = mp.nextSeq
      /\ Len(order) = Len(mp.order) + 1 /\ Len(order) \in Nat /\ n \in Nat
      /\ \A i \in 1..Len(mp.order) : order[i] = mp.order[i]
      /\ order[Len(order)] = <<k, mp.nextSeq>>
      /\ n \in 0..Len(order) /\ Len(rest) = Len(order) - n
      /\ \A i \in 1..Len(rest) : rest[i] = order[i + n]
  BY DEF Between
<1>2. Len(mp.order) \in Nat
  BY DEF MapType
<1>3. CASE j = k
  <2>1. Len(order) \in 1..Len(order)
    BY <1>1, <1>2
  <2>2. order[Len(order)] = <<j, entries[j].seq>>
    BY <1>1, <1>3
  <2> QED
    BY <2>1, <2>2 DEF HasPair
<1>4. CASE j # k
  <2>1. j \in Known(mp.entries) /\ entries[j] = mp.entries[j]
    BY <1>1, <1>4 DEF Known
  <2>2. PICK i \in 1..Len(mp.order) : mp.order[i] = <<j, entries[j].seq>>
    BY <2>1 DEF Covered, Elems
  <2>3. i \in 1..Len(order) /\ order[i] = mp.order[i]
    BY <1>1, <1>2
  <2> QED
    BY <2>2, <2>3 DEF HasPair
<1> QED
  BY <1>3, <1>4

(* What is left has its pair in the rest of the order.                     *)
LEMMA RestCovers ==
  ASSUME NEW mp \in MapType, NEW k \in Keys, NEW new, NEW entries, NEW order, NEW n,
         NEW rest, NEW now, Between(mp, k, new, entries, order, n, rest, now),
         Covered(mp), NEW j \in Known(Popped(entries, order, n))
  PROVE  LET left == Popped(entries, order, n)
         IN  /\ j \in Known(entries) /\ left[j] = entries[j]
             /\ <<j, left[j].seq>> \in Elems(rest)
<1> DEFINE left == Popped(entries, order, n)
<1>1. /\ Len(order) \in Nat /\ n \in Nat
      /\ n \in 0..Len(order) /\ Len(rest) = Len(order) - n
      /\ \A i \in 1..Len(rest) : rest[i] = order[i + n]
  BY DEF Between
<1>2. j \in Known(entries) /\ left[j] = entries[j] /\ j \in Keys
  BY DEF left, Popped, Known
<1>3. PICK i \in 1..Len(order) : order[i] = <<j, entries[j].seq>>
  <2>1. HasPair(order, j, entries[j].seq)
    BY <1>2, OrderCovers
  <2> QED
    BY <2>1 DEF HasPair
<1>4. IsLive(entries, order[i]) /\ order[i][1] = j
  BY <1>2, <1>3 DEF IsLive, Known
<1>5. ~ (i \in 1..n)
  BY <1>2, <1>4 DEF left, Popped, Known
<1>6. i - n \in 1..Len(rest) /\ (i - n) + n = i
  BY <1>1, <1>5
<1>7. rest[i - n] = order[i]
  BY <1>1, <1>6
<1> QED
  BY <1>2, <1>3, <1>6, <1>7 DEF Elems

(* insert keeps the order sound, and bounds its length.                    *)
LEMMA InsertOrder ==
  ASSUME NEW mp \in MapType, NEW k \in Keys, NEW prompt \in Jobs,
         NEW owner \in Accounts \cup {NoOne}, NEW expires \in Nat,
         NEW recorded \in Nat, NEW now, Covered(mp), Ordered(mp)
  PROVE  LET after == InsertRecord(mp, k, prompt, owner, expires, recorded, now)
         IN  Ordered(after) /\ Len(after.order) <= 2 * Capacity
<1> DEFINE after == InsertRecord(mp, k, prompt, owner, expires, recorded, now)
<1>0. PICK new, entries, order, n, rest :
        /\ Between(mp, k, new, entries, order, n, rest, now)
        /\ new.expires = expires /\ new.recorded = recorded
        /\ InsertRecord(mp, k, prompt, owner, expires, recorded, now)
             = [entries |-> Popped(entries, order, n),
                order   |-> Compacted(Popped(entries, order, n), rest),
                nextSeq |-> mp.nextSeq + 1]
  <2>1. Unfolds(mp, k, prompt, owner, expires, recorded, now)
    BY InsertUnfolds
  <2> QED
    BY <2>1, Zenon DEF Unfolds
<1>1. /\ entries \in [Keys -> OutputRecord \cup {NoOne}]
      /\ order \in Seq(Keys \X Nat) /\ order = Append(mp.order, <<k, mp.nextSeq>>)
      /\ Len(order) = Len(mp.order) + 1 /\ order[Len(order)] = <<k, mp.nextSeq>>
      /\ \A i \in 1..Len(mp.order) : order[i] = mp.order[i]
      /\ n \in Nat /\ Len(order) \in Nat /\ n \in 0..Len(order)
      /\ rest \in Seq(Keys \X Nat) /\ Len(rest) = Len(order) - n
      /\ \A i \in 1..Len(rest) : rest[i] = order[i + n]
  BY <1>0 DEF Between
<1> DEFINE left == Popped(entries, order, n)
<1>2. /\ left \in [Keys -> OutputRecord \cup {NoOne}]
      /\ after.entries = left /\ after.order = Compacted(left, rest)
      /\ after.nextSeq = mp.nextSeq + 1
  <2>1. left \in [Keys -> OutputRecord \cup {NoOne}]
    BY <1>1 DEF Popped
  <2> HIDE DEF left, after
  <2>2. after = [entries |-> left, order |-> Compacted(left, rest),
                 nextSeq |-> mp.nextSeq + 1]
    BY <1>0, Zenon DEF left, after
  <2> QED
    BY <2>1, <2>2
<1> HIDE DEF left, after
<1>3. mp.nextSeq \in Nat /\ mp.order \in Seq(Keys \X Nat) /\ Len(mp.order) \in Nat
  BY DEF MapType
<1>4. Increasing(order)
  BY <1>1, <1>3, AppendIncreasing DEF Ordered
<1>5. \A i \in 1..Len(order) : order[i][2] < mp.nextSeq + 1
  <2> SUFFICES ASSUME NEW i \in 1..Len(order) PROVE order[i][2] < mp.nextSeq + 1
    OBVIOUS
  <2>1. CASE i = Len(order)
    BY <1>1, <1>3, <2>1
  <2>2. CASE i # Len(order)
    <3>1. i \in 1..Len(mp.order)
      BY <1>1, <1>3, <2>2
    <3>2. mp.order[i][2] \in Nat /\ mp.order[i][2] < mp.nextSeq
      BY <1>3, <3>1 DEF Ordered
    <3> QED
      BY <1>1, <1>3, <3>1, <3>2
  <2> QED
    BY <2>1, <2>2
<1>6. Increasing(rest) /\ \A i \in 1..Len(rest) : rest[i][2] < mp.nextSeq + 1
  <2>0. Len(rest) = Len(order) - n /\ n \in Nat /\ Len(order) \in Nat
    BY <1>1
  <2>1. \A i \in 1..Len(rest) : i + n \in 1..Len(order) /\ rest[i] = order[i + n]
    <3> SUFFICES ASSUME NEW i \in 1..Len(rest)
                 PROVE  i + n \in 1..Len(order) /\ rest[i] = order[i + n]
      OBVIOUS
    <3>1. i + n \in 1..Len(order)
      BY <2>0
    <3> QED
      BY <1>1, <3>1
  <2>2. \A i \in 1..Len(rest) : rest[i][2] < mp.nextSeq + 1
    BY <1>5, <2>1
  <2>3. ASSUME NEW i \in 1..Len(rest), NEW j \in 1..Len(rest), i < j
        PROVE  rest[i][2] < rest[j][2]
    <3>1. i + n < j + n
      BY <1>1, <2>3
    <3> QED
      BY <1>4, <2>1, <3>1 DEF Increasing
  <2> QED
    BY <2>2, <2>3 DEF Increasing
<1>7. /\ \A j \in Known(left) : <<j, left[j].seq>> \in Elems(rest)
      /\ Cardinality(Known(left)) <= Capacity
  <2>1. \A j \in Known(left) : <<j, left[j].seq>> \in Elems(rest)
    BY <1>0, RestCovers DEF left
  <2>2. Cardinality(Known(after.entries)) <= Capacity
    BY InsertEntries DEF MapSound, after
  <2> QED
    BY <1>2, <2>1, <2>2
<1>8. /\ Increasing(after.order) /\ Elems(after.order) \subseteq Elems(rest)
      /\ Len(after.order) <= 2 * Capacity
  BY <1>1, <1>2, <1>6, <1>7, CompactedOrder
<1>9. ASSUME NEW i \in 1..Len(after.order) PROVE after.order[i][2] < after.nextSeq
  <2>1. after.order[i] \in Elems(rest)
    BY <1>8 DEF Elems
  <2>2. PICK j \in 1..Len(rest) : after.order[i] = rest[j]
    BY <2>1 DEF Elems
  <2> QED
    BY <1>2, <1>6, <2>2
<1> QED
  BY <1>8, <1>9 DEF Ordered, after

-----------------------------------------------------------------------------
(* What the eviction loop gives up. *)

(* Later records expire later.                                             *)
ExpireInOrder(entries) ==
  \A a, b \in Known(entries) :
    entries[a].seq < entries[b].seq => entries[a].expires <= entries[b].expires

(* With one record too many at most, the loop pops an unexpired record     *)
(* only when it is the oldest of an overfull map, and stops after it: what *)
(* it pops before and after has expired, or is not live.                   *)
LEMMA PopsOldest ==
  ASSUME NEW entries \in [Keys -> OutputRecord \cup {NoOne}],
         NEW order \in Seq(Keys \X Nat), Increasing(order),
         NEW n \in 0..Len(order), NEW now \in Nat,
         \A m \in 0..Len(order) : Stops(entries, order, m, now) => n <= m,
         \A j \in Known(entries) : \E i \in 1..Len(order) : order[i] = <<j, entries[j].seq>>,
         IsFiniteSet(Known(entries)), Cardinality(Known(entries)) <= Capacity + 1,
         ExpireInOrder(entries),
         NEW v \in Known(entries), now < entries[v].expires,
         v \notin Known(Popped(entries, order, n))
  PROVE  /\ Cardinality(Known(Popped(entries, order, n))) = Capacity
         /\ \A j \in Known(Popped(entries, order, n)) : entries[j].seq > entries[v].seq
<1> DEFINE Left(m) == Known(Popped(entries, order, m))
<1>1. Len(order) \in Nat /\ n \in Nat
  OBVIOUS
<1>2. \A i \in 1..Len(order) : order[i] \in Keys \X Nat
  OBVIOUS
<1>3. \A j \in Known(entries) : /\ j \in Keys /\ entries[j] \in OutputRecord
                                 /\ entries[j].seq \in Nat /\ entries[j].expires \in Nat
  BY DEF Known, OutputRecord
<1>4. \A m : Left(m) = {j \in Known(entries) :
                         ~ \E i \in 1..m : order[i][1] = j /\ IsLive(entries, order[i])}
  BY DEF Popped, Known
<1> HIDE DEF Left
<1>5. \A m : IsFiniteSet(Left(m)) /\ Cardinality(Left(m)) \in Nat
  <2> TAKE m
  <2>1. Left(m) \subseteq Known(entries)
    BY <1>4
  <2> QED
    BY <2>1, FS_Subset, FS_CardinalityType
<1>6. PICK i \in 1..n : order[i][1] = v /\ IsLive(entries, order[i])
  BY <1>4 DEF Left
<1>7. i \in 1..Len(order) /\ i - 1 \in 0..Len(order) /\ i - 1 < n /\ (i - 1) + 1 = i
  BY <1>1
<1>8. order[i][2] = entries[v].seq
  BY <1>6 DEF IsLive
<1>9. ASSUME NEW m \in 0..Len(order), m < n
      PROVE  \/ ~ IsLive(entries, order[m + 1])
             \/ Cardinality(Left(m)) > Capacity
             \/ ~ (now < entries[order[m + 1][1]].expires)
  <2>1. ~ Stops(entries, order, m, now)
    BY <1>1, <1>9
  <2>2. Cardinality(Left(m)) \in Nat /\ Capacity \in Nat
    BY <1>5, MapAssumption
  <2> QED
    BY <2>1, <2>2 DEF Stops, Left
<1>10. Cardinality(Left(i - 1)) > Capacity
  BY <1>6, <1>7, <1>9
<1>11. Left(i - 1) = Known(entries) /\ Cardinality(Known(entries)) = Capacity + 1
  <2>1. Left(i - 1) \subseteq Known(entries)
    BY <1>4
  <2>2. /\ Cardinality(Left(i - 1)) <= Cardinality(Known(entries))
        /\ Cardinality(Left(i - 1)) = Cardinality(Known(entries)) => Left(i - 1) = Known(entries)
    BY <2>1, FS_Subset
  <2>3. Cardinality(Known(entries)) \in Nat /\ Capacity \in Nat /\ Cardinality(Left(i - 1)) \in Nat
    BY <1>5, FS_CardinalityType, MapAssumption
  <2> QED
    BY <1>10, <2>2, <2>3
<1>12. Cardinality(Known(entries) \ {v}) = Capacity
  <2>1. Cardinality(Known(entries) \ {v}) = Cardinality(Known(entries)) - 1
    BY FS_RemoveElement
  <2> QED
    BY <1>11, <2>1, MapAssumption
<1>13. ASSUME NEW j \in Known(entries) \ {v}, NEW l \in 1..n,
              order[l][1] = j, IsLive(entries, order[l])
       PROVE  FALSE
  <2>1. l \in 1..Len(order) /\ l - 1 \in 0..Len(order) /\ l - 1 < n /\ (l - 1) + 1 = l
    BY <1>1
  <2>2. ~ (l \in 1..(i - 1))
    BY <1>4, <1>11, <1>13
  <2>3. i < l
    BY <1>6, <1>13, <2>1, <2>2
  <2>4. order[i][2] < order[l][2]
    BY <1>7, <2>1, <2>3 DEF Increasing
  <2>5. order[l][2] = entries[j].seq
    BY <1>13 DEF IsLive
  <2>6. entries[v].expires <= entries[j].expires
    BY <1>8, <1>13, <2>4, <2>5 DEF ExpireInOrder
  <2>7. now < entries[j].expires
    BY <1>3, <1>13, <2>6
  <2>8. Cardinality(Left(l - 1)) > Capacity
    BY <1>9, <1>13, <2>1, <2>7
  <2>9. Left(l - 1) \subseteq Known(entries) \ {v}
    <3>1. i \in 1..(l - 1)
      BY <2>3
    <3> QED
      BY <1>4, <1>6, <3>1
  <2>10. IsFiniteSet(Known(entries) \ {v})
    BY FS_Subset
  <2>11. Cardinality(Left(l - 1)) <= Capacity
    BY <1>12, <2>9, <2>10, FS_Subset
  <2> QED
    BY <1>5, <2>8, <2>11, MapAssumption
<1>14. Left(n) = Known(entries) \ {v}
  <2>1. Left(n) \subseteq Known(entries) \ {v}
    BY <1>4 DEF Left
  <2> QED
    BY <1>4, <1>13, <2>1
<1>15. ASSUME NEW j \in Left(n) PROVE entries[j].seq > entries[v].seq
  <2>1. j \in Known(entries)
    BY <1>14
  <2>2. PICK l \in 1..Len(order) : order[l] = <<j, entries[j].seq>>
    BY <2>1
  <2>3. order[l][1] = j /\ order[l][2] = entries[j].seq /\ IsLive(entries, order[l])
    BY <2>1, <2>2 DEF IsLive, Known
  <2>4. ~ (l \in 1..n)
    BY <1>4, <1>15, <2>3
  <2>5. i < l
    BY <1>1, <2>4
  <2>6. order[i][2] < order[l][2]
    BY <1>7, <2>5 DEF Increasing
  <2> QED
    BY <1>3, <1>8, <2>1, <2>3, <2>6
<1> QED
  BY <1>12, <1>14, <1>15 DEF Left

(* The number of a record is below the next one.                           *)
LEMMA KnownBelow ==
  ASSUME NEW mp \in MapType, Covered(mp), Ordered(mp), NEW j \in Known(mp.entries)
  PROVE  /\ mp.entries[j] \in OutputRecord
         /\ mp.entries[j].seq \in Nat /\ mp.entries[j].recorded \in Nat
         /\ mp.entries[j].seq < mp.nextSeq
<1>1. /\ mp.entries[j] \in OutputRecord
      /\ mp.entries[j].seq \in Nat /\ mp.entries[j].recorded \in Nat
  BY DEF MapType, Known, OutputRecord
<1>2. PICK i \in 1..Len(mp.order) : mp.order[i] = <<j, mp.entries[j].seq>>
  BY DEF Covered, Elems
<1>3. mp.order[i][2] = mp.entries[j].seq
  BY <1>2
<1> QED
  BY <1>1, <1>3 DEF Ordered

(* Later records were made later.                                          *)
AgesInOrder(entries) ==
  \A a, b \in Known(entries) :
    entries[a].seq < entries[b].seq => entries[a].recorded <= entries[b].recorded

(* insert keeps the ages in order when the new record is the youngest.     *)
LEMMA InsertAges ==
  ASSUME NEW mp \in MapType, NEW k \in Keys, NEW prompt \in Jobs,
         NEW owner \in Accounts \cup {NoOne}, NEW expires \in Nat,
         NEW recorded \in Nat, NEW now,
         Covered(mp), Ordered(mp), AgesInOrder(mp.entries),
         \A j \in Known(mp.entries) : mp.entries[j].recorded <= recorded
  PROVE  LET after == InsertRecord(mp, k, prompt, owner, expires, recorded, now)
         IN  /\ AgesInOrder(after.entries)
             /\ \A j \in Known(after.entries) : after.entries[j].recorded <= recorded
<1> DEFINE new   == [prompt |-> prompt, owner |-> owner, expires |-> expires,
                     recorded |-> recorded, seq |-> mp.nextSeq]
           after == InsertRecord(mp, k, prompt, owner, expires, recorded, now)
           then  == after.entries
<1>1. /\ then[k] \in {new, NoOne}
      /\ \A j \in Keys \ {k} : then[j] \in {mp.entries[j], NoOne}
  BY InsertEntries
<1>2. new.seq = mp.nextSeq /\ new.recorded = recorded /\ mp.nextSeq \in Nat
  BY DEF MapType
<1> HIDE DEF new, after, then
<1>3. \A j \in Known(then) :
        \/ j = k /\ then[j] = new
        \/ j \in Known(mp.entries) /\ then[j] = mp.entries[j]
  BY <1>1 DEF Known
<1>4. \A j \in Known(mp.entries) : /\ mp.entries[j].seq \in Nat
                                    /\ mp.entries[j].seq < mp.nextSeq
  BY KnownBelow
<1>5. ASSUME NEW a \in Known(then), NEW b \in Known(then), then[a].seq < then[b].seq
      PROVE  then[a].recorded <= then[b].recorded
  <2>1. CASE a = k /\ then[a] = new
    <3>1. CASE b = k
      BY <1>2, <1>5, <2>1, <3>1
    <3>2. CASE b \in Known(mp.entries) /\ then[b] = mp.entries[b]
      BY <1>2, <1>4, <1>5, <2>1, <3>2
    <3> QED
      BY <1>3, <3>1, <3>2
  <2>2. CASE a \in Known(mp.entries) /\ then[a] = mp.entries[a]
    <3>1. CASE b = k /\ then[b] = new
      BY <1>2, <2>2, <3>1
    <3>2. CASE b \in Known(mp.entries) /\ then[b] = mp.entries[b]
      BY <1>5, <2>2, <3>2 DEF AgesInOrder
    <3> QED
      BY <1>3, <3>1, <3>2
  <2> QED
    BY <1>3, <2>1, <2>2
<1>6. \A j \in Known(then) : then[j].recorded <= recorded
  BY <1>2, <1>3
<1> QED
  BY <1>5, <1>6 DEF AgesInOrder, then, after

(* The same of insert: an unexpired record that it does away with was the  *)
(* oldest of a full map.                                                   *)
LEMMA InsertEvictsOldest ==
  ASSUME NEW mp \in MapType, NEW k \in Keys, NEW prompt \in Jobs,
         NEW owner \in Accounts \cup {NoOne}, NEW expires \in Nat,
         NEW recorded \in Nat, NEW now \in Nat, now < expires,
         MapSound(mp), Ordered(mp), ExpireInOrder(mp.entries),
         \A j \in Known(mp.entries) : mp.entries[j].expires <= expires,
         NEW v \in Known(mp.entries), now < mp.entries[v].expires,
         InsertRecord(mp, k, prompt, owner, expires, recorded, now).entries[v] = NoOne
  PROVE  LET after == InsertRecord(mp, k, prompt, owner, expires, recorded, now)
         IN  /\ Cardinality(Known(after.entries)) = Capacity
             /\ \A j \in Known(after.entries) :
                  after.entries[j].seq > mp.entries[v].seq
<1> DEFINE after == InsertRecord(mp, k, prompt, owner, expires, recorded, now)
<1>0. PICK new, entries, order, n, rest :
        /\ Between(mp, k, new, entries, order, n, rest, now)
        /\ new.expires = expires /\ new.recorded = recorded
        /\ InsertRecord(mp, k, prompt, owner, expires, recorded, now)
             = [entries |-> Popped(entries, order, n),
                order   |-> Compacted(Popped(entries, order, n), rest),
                nextSeq |-> mp.nextSeq + 1]
  <2>1. Unfolds(mp, k, prompt, owner, expires, recorded, now)
    BY InsertUnfolds
  <2> QED
    BY <2>1, Zenon DEF Unfolds
<1> DEFINE left == Popped(entries, order, n)
<1>1. /\ new \in OutputRecord /\ new.seq = mp.nextSeq /\ new.expires = expires
      /\ entries \in [Keys -> OutputRecord \cup {NoOne}]
      /\ entries[k] = new /\ \A j \in Keys \ {k} : entries[j] = mp.entries[j]
      /\ order \in Seq(Keys \X Nat) /\ order = Append(mp.order, <<k, mp.nextSeq>>)
      /\ n \in 0..Len(order)
      /\ \A m \in 0..Len(order) : Stops(entries, order, m, now) => n <= m
  BY <1>0 DEF Between
<1>2. after.entries = left
  BY <1>0
<1> HIDE DEF after
<1>3. /\ mp.nextSeq \in Nat /\ mp.order \in Seq(Keys \X Nat) /\ Len(mp.order) \in Nat
      /\ mp.entries \in [Keys -> OutputRecord \cup {NoOne}]
      /\ Covered(mp) /\ Cardinality(Known(mp.entries)) <= Capacity
  BY DEF MapType, MapSound
<1>4. Increasing(order)
  BY <1>1, <1>3, AppendIncreasing DEF Ordered
<1>5. /\ \A j \in Known(entries) : \E i \in 1..Len(order) : order[i] = <<j, entries[j].seq>>
      /\ \A j \in Known(left) : j \in Known(entries) /\ left[j] = entries[j]
  <2>1. Between(mp, k, new, entries, order, n, rest, now) /\ Covered(mp)
    BY <1>0, <1>3
  <2>2. \A j \in Known(entries) : \E i \in 1..Len(order) : order[i] = <<j, entries[j].seq>>
    <3>1. \A j \in Known(entries) : HasPair(order, j, entries[j].seq)
      BY <2>1, OrderCovers
    <3> QED
      BY <3>1 DEF HasPair
  <2>3. \A j \in Known(left) : j \in Known(entries) /\ left[j] = entries[j]
    BY DEF Popped, Known
  <2> QED
    BY <2>2, <2>3
<1>6. /\ Known(entries) = Known(mp.entries) \cup {k}
      /\ \A j \in Known(mp.entries) : /\ mp.entries[j].seq \in Nat
                                       /\ mp.entries[j].seq < mp.nextSeq
  <2>1. Known(entries) = Known(mp.entries) \cup {k}
    BY <1>1, RecordAssumption DEF Known
  <2> QED
    BY <1>3, <2>1, KnownBelow
<1>7. IsFiniteSet(Known(entries)) /\ Cardinality(Known(entries)) <= Capacity + 1
  <2>1. IsFiniteSet(Known(mp.entries))
    BY <1>3, KnownFinite DEF Covered
  <2>2. Cardinality(Known(mp.entries)) \in Nat
    BY <2>1, FS_CardinalityType
  <2>3. /\ IsFiniteSet(Known(entries))
        /\ \/ Cardinality(Known(entries)) = Cardinality(Known(mp.entries))
           \/ Cardinality(Known(entries)) = Cardinality(Known(mp.entries)) + 1
    BY <1>6, <2>1, FS_AddElement
  <2> QED
    BY <1>3, <2>2, <2>3, MapAssumption
<1>8. ExpireInOrder(entries)
  <2> SUFFICES ASSUME NEW a \in Known(entries), NEW b \in Known(entries),
                      entries[a].seq < entries[b].seq
               PROVE  entries[a].expires <= entries[b].expires
    BY DEF ExpireInOrder
  <2>0. \A j \in Known(entries) \ {k} : j \in Known(mp.entries) /\ entries[j] = mp.entries[j]
    BY <1>1 DEF Known
  <2>1. CASE a = k
    <3>1. b \in Known(mp.entries) /\ entries[b] = mp.entries[b]
      BY <1>1, <1>3, <2>0, <2>1
    <3>2. mp.entries[b].seq < mp.nextSeq
      BY <1>6, <3>1
    <3> QED
      BY <1>1, <1>3, <1>6, <2>1, <3>1, <3>2
  <2>2. CASE a # k /\ b = k
    BY <1>1, <2>0, <2>2
  <2>3. CASE a # k /\ b # k
    BY <2>0, <2>3 DEF ExpireInOrder
  <2> QED
    BY <2>1, <2>2, <2>3
<1>9. /\ v \in Known(entries) /\ now < entries[v].expires
      /\ entries[v].seq >= mp.entries[v].seq /\ entries[v].seq \in Nat
  <2>1. v \in Keys
    BY DEF Known
  <2>2. CASE v = k
    BY <1>1, <1>3, <1>6, <2>2
  <2>3. CASE v # k
    <3>1. entries[v] = mp.entries[v]
      BY <1>1, <2>1, <2>3
    <3> QED
      BY <1>6, <3>1
  <2> QED
    BY <2>2, <2>3
<1>10. v \notin Known(left)
  <2>1. left[v] = NoOne
    BY <1>0
  <2> QED
    BY <2>1 DEF Known
<1>11. /\ Cardinality(Known(left)) = Capacity
       /\ \A j \in Known(left) : entries[j].seq > entries[v].seq
  BY <1>1, <1>4, <1>5, <1>7, <1>8, <1>9, <1>10, PopsOldest
<1>12. ASSUME NEW j \in Known(left) PROVE left[j].seq > mp.entries[v].seq
  <2>1. left[j] = entries[j] /\ entries[j].seq > entries[v].seq
    BY <1>5, <1>11
  <2>2. entries[j].seq \in Nat
    BY <1>1, <1>5 DEF Known, OutputRecord
  <2> QED
    BY <1>6, <1>9, <2>1, <2>2
<1> QED
  BY <1>2, <1>11, <1>12 DEF after

-----------------------------------------------------------------------------

(* TypeOK holds initially.                                                 *)
LEMMA InitType == Init => TypeOK
<1> SUFFICES ASSUME Init PROVE TypeOK
  OBVIOUS
<1>1. map \in MapType
  BY DEF Init, EmptyMap, MapType
<1>2. dirty \in BOOLEAN
  BY Zenon DEF Init
<1>3. /\ file \in SUBSET PersistedOutput /\ loading \in SUBSET PersistedOutput
      /\ flush \in [Flushers -> [pc : FlushPC, snap : SUBSET PersistedOutput]]
      /\ bind \in [Jobs -> {"posted", "assign", "mark", "bound", "lost"}]
      /\ ownerOf \in [Jobs -> Accounts \cup {NoOne}]
      /\ clock \in 0..MaxClock /\ faults \in 0..MaxFaults /\ restarts \in 0..MaxRestarts
  BY OwnersAssumption DEF Init, FlushPC
<1>4. recorder = [pc |-> "idle"] /\ [pc |-> "idle"] \in [pc : {"idle"}]
  BY DEF Init
<1> QED
  BY <1>1, <1>2, <1>3, <1>4 DEF TypeOK

(* The steps of the recorder and of the submitters keep TypeOK.            *)
LEMMA RecordType ==
  ASSUME TypeOK, \/ \E p \in Jobs, k \in Keys : ReadOwner(p, k)
                 \/ Reactor
                 \/ \E p \in Jobs : BindOwner(p) \/ Submitter(p)
  PROVE  TypeOK'
<1>1. ASSUME NEW p \in Jobs, NEW k \in Keys, ReadOwner(p, k) PROVE TypeOK'
  <2> DEFINE r == [pc |-> "insert", prompt |-> p, key |-> k, owner |-> ownerOf[p]]
  <2>1. r \in [pc : {"insert"}, prompt : Jobs, key : Keys, owner : Accounts \cup {NoOne}]
    BY DEF TypeOK
  <2>2. recorder' = r
    BY <1>1 DEF ReadOwner
  <2> QED
    BY <1>1, <2>1, <2>2 DEF ReadOwner, TypeOK
<1>2. CASE Record
  <2>1. /\ recorder.key \in Keys /\ recorder.prompt \in Jobs
        /\ recorder.owner \in Accounts \cup {NoOne}
    BY <1>2 DEF Record, TypeOK
  <2>2. clock \in Nat /\ clock + TTL \in Nat
    BY OwnersAssumption DEF TypeOK
  <2>3. map' \in MapType
    BY <1>2, <2>1, <2>2, InsertEntries DEF Record, TypeOK
  <2> QED
    BY <1>2, <2>3 DEF Record, TypeOK
<1>3. CASE MarkRecorded
  <2>1. dirty' \in BOOLEAN
    BY <1>3, Zenon DEF MarkRecorded
  <2> QED
    BY <1>3, <2>1 DEF MarkRecorded, TypeOK
<1>4. ASSUME NEW p \in Jobs, BindOwner(p) PROVE TypeOK'
  BY <1>4, OwnersAssumption DEF BindOwner, TypeOK
<1>5. ASSUME NEW p \in Jobs, Assign(p) PROVE TypeOK'
  <2>1. map' \in MapType
    BY <1>5, AssignEntries DEF Assign, TypeOK
  <2> QED
    BY <1>5, <2>1 DEF Assign, TypeOK
<1>6. ASSUME NEW p \in Jobs, MarkAssigned(p) PROVE TypeOK'
  <2>1. dirty' \in BOOLEAN
    BY <1>6, Zenon DEF MarkAssigned
  <2> QED
    BY <1>6, <2>1 DEF MarkAssigned, TypeOK
<1> QED
  BY <1>1, <1>2, <1>3, <1>4, <1>5, <1>6 DEF Reactor, Submitter

(* A saved entry has the type of the file's.                               *)
LEMMA SavedType ==
  ASSUME TypeOK, NEW k \in Known(map.entries)
  PROVE  /\ Saved(k) \in PersistedOutput
         /\ Saved(k).key = k
         /\ Saved(k).prompt = map.entries[k].prompt
         /\ Saved(k).owner = map.entries[k].owner
         /\ Saved(k).recorded = map.entries[k].recorded
<1>1. map.entries[k] \in OutputRecord /\ k \in Keys
  BY DEF TypeOK, MapType, Known
<1> QED
  BY <1>1 DEF Saved, PersistedOutput, OutputRecord

(* flush keeps TypeOK.                                                     *)
LEMMA FlushType ==
  ASSUME TypeOK, NEW f \in Flushers, Flush(f)
  PROVE  TypeOK'
<1> DEFINE Flushing == [pc : FlushPC, snap : SUBSET PersistedOutput]
<1>0. flush \in [Flushers -> Flushing] /\ flush[f] \in Flushing
  BY DEF TypeOK
<1>1. ASSUME NEW x \in Flushing, flush' = [flush EXCEPT ![f] = x]
      PROVE  flush' \in [Flushers -> Flushing]
  BY <1>0, <1>1
<1>2. [pc |-> "idle", snap |-> {}] \in Flushing
  BY DEF FlushPC
<1>3. CASE SwapDirty(f)
  <2> DEFINE x == [flush[f] EXCEPT !.pc = "snapshot"]
  <2>1. x \in Flushing /\ flush' = [flush EXCEPT ![f] = x]
    BY <1>0, <1>3 DEF SwapDirty, FlushPC
  <2>2. flush' \in [Flushers -> Flushing]
    BY <1>1, <2>1
  <2>3. dirty' \in BOOLEAN
    BY <1>3, Zenon DEF SwapDirty
  <2> QED
    BY <1>3, <2>2, <2>3 DEF SwapDirty, TypeOK
<1>4. CASE Snapshot(f)
  <2> DEFINE snap == {Saved(k) : k \in {j \in Keys : LookupHits(map, j, clock)}}
             x == [pc |-> "write", snap |-> snap]
  <2>1. snap \subseteq PersistedOutput
    BY SavedType DEF LookupHits, Known
  <2> HIDE DEF snap
  <2>2. x \in Flushing
    BY <2>1 DEF FlushPC
  <2>3. flush' = [flush EXCEPT ![f] = x]
    BY <1>4 DEF Snapshot, snap
  <2>4. flush' \in [Flushers -> Flushing]
    BY <1>1, <2>2, <2>3
  <2> QED
    BY <1>4, <2>4 DEF Snapshot, TypeOK
<1>5. CASE Rename(f) \/ WriteInPlace(f)
  <2>1. flush' \in [Flushers -> Flushing]
    BY <1>1, <1>2, <1>5 DEF Rename, WriteInPlace, FlushEnds
  <2>2. file' \in SUBSET PersistedOutput
    BY <1>0, <1>5 DEF Rename, WriteInPlace
  <2> QED
    BY <1>5, <2>1, <2>2 DEF Rename, WriteInPlace, TypeOK
<1>6. CASE Truncate(f)
  <2> DEFINE x == [flush[f] EXCEPT !.pc = "inPlace"]
  <2>1. x \in Flushing /\ flush' = [flush EXCEPT ![f] = x]
    BY <1>0, <1>6 DEF Truncate, FlushPC
  <2>2. flush' \in [Flushers -> Flushing]
    BY <1>1, <2>1
  <2> QED
    BY <1>6, <2>2 DEF Truncate, TypeOK
<1>7. CASE SaveFails(f)
  <2>1. flush' \in [Flushers -> Flushing]
    BY <1>1, <1>2, <1>7 DEF SaveFails, FlushEnds
  <2>2. dirty' \in BOOLEAN
    BY <1>7, Zenon DEF SaveFails
  <2>3. faults' \in 0..MaxFaults
    BY <1>7, OwnersAssumption DEF SaveFails, TypeOK
  <2> QED
    BY <1>7, <2>1, <2>2, <2>3 DEF SaveFails, TypeOK
<1> QED
  BY <1>3, <1>4, <1>5, <1>6, <1>7 DEF Flush

(* A crash, the restoring and the clock keep TypeOK.                       *)
LEMMA RestartType ==
  ASSUME TypeOK, Restart \/ RestoreNext \/ Tick
  PROVE  TypeOK'
<1>1. CASE Restart
  <2>1. map' \in MapType
    BY <1>1 DEF Restart, EmptyMap, MapType
  <2>2. dirty' \in BOOLEAN
    BY <1>1, Zenon DEF Restart
  <2>3. recorder' = [pc |-> "idle"] /\ [pc |-> "idle"] \in [pc : {"idle"}]
    BY <1>1 DEF Restart
  <2>4. loading' \in SUBSET PersistedOutput
    BY <1>1 DEF Restart, Restorable, TypeOK
  <2>5. flush' \in [Flushers -> [pc : FlushPC, snap : SUBSET PersistedOutput]]
    BY <1>1 DEF Restart, FlushPC
  <2>6. /\ bind' \in [Jobs -> {"posted", "assign", "mark", "bound", "lost"}]
        /\ ownerOf' \in [Jobs -> Accounts \cup {NoOne}]
        /\ restarts' \in 0..MaxRestarts
    BY <1>1, OwnersAssumption DEF Restart, TypeOK
  <2> QED
    BY <1>1, <2>1, <2>2, <2>3, <2>4, <2>5, <2>6 DEF Restart, TypeOK
<1>2. CASE RestoreNext
  <2>1. PICK e \in loading :
          /\ loading' = loading \ {e}
          /\ map' = IF map.entries[e.key] # NoOne THEN map
                    ELSE InsertRecord(map, e.key, e.prompt, e.owner,
                           clock + (TTL - (clock - e.recorded)), e.recorded, clock)
    BY <1>2 DEF RestoreNext
  <2>2. e \in PersistedOutput
    BY DEF TypeOK
  <2>3. /\ e.key \in Keys /\ e.prompt \in Jobs /\ e.owner \in Accounts \cup {NoOne}
        /\ e.recorded \in Nat /\ clock + (TTL - (clock - e.recorded)) \in Nat
    BY <2>2, OwnersAssumption DEF PersistedOutput, TypeOK
  <2>4. map' \in MapType
    BY <2>1, <2>3, InsertEntries DEF TypeOK
  <2> QED
    BY <1>2, <2>1, <2>4 DEF RestoreNext, TypeOK
<1>3. CASE Tick
  BY <1>3, OwnersAssumption DEF Tick, TypeOK
<1> QED
  BY <1>1, <1>2, <1>3

(* Every step keeps TypeOK.                                                *)
LEMMA NextType == TypeOK /\ [Next]_vars => TypeOK'
<1> SUFFICES ASSUME TypeOK, [Next]_vars PROVE TypeOK'
  OBVIOUS
<1>1. CASE UNCHANGED vars
  BY <1>1 DEF vars, TypeOK
<1> QED
  BY <1>1, RecordType, FlushType, RestartType DEF Next

(* The state is well-formed in every behaviour.                            *)
THEOREM TypeCorrect == Spec => []TypeOK
<1> QED
  BY InitType, NextType, PTL DEF Spec

-----------------------------------------------------------------------------
(* The capacity. *)

(* How a step changes the map: not at all, back to the empty one, by one   *)
(* record, or by the owners of some records.                               *)
LEMMA MapMoves ==
  ASSUME TypeOK, [Next]_vars
  PROVE  \/ UNCHANGED map
         \/ Restart
         \/ \E p \in Jobs : Assign(p)
         \/ \E k \in Keys, p \in Jobs, o \in Accounts \cup {NoOne}, x \in Nat, r \in Nat :
              map' = InsertRecord(map, k, p, o, x, r, clock)
<1>1. CASE Record
  <2>1. /\ recorder.key \in Keys /\ recorder.prompt \in Jobs
        /\ recorder.owner \in Accounts \cup {NoOne}
    BY <1>1 DEF Record, TypeOK
  <2>2. clock \in Nat /\ clock + TTL \in Nat
    BY OwnersAssumption DEF TypeOK
  <2> QED
    BY <1>1, <2>1, <2>2 DEF Record
<1>2. CASE RestoreNext
  <2>1. PICK e \in loading :
          map' = IF map.entries[e.key] # NoOne THEN map
                 ELSE InsertRecord(map, e.key, e.prompt, e.owner,
                        clock + (TTL - (clock - e.recorded)), e.recorded, clock)
    BY <1>2 DEF RestoreNext
  <2>2. e \in PersistedOutput
    BY DEF TypeOK
  <2>3. /\ e.key \in Keys /\ e.prompt \in Jobs /\ e.owner \in Accounts \cup {NoOne}
        /\ e.recorded \in Nat /\ clock + (TTL - (clock - e.recorded)) \in Nat
    BY <2>2, OwnersAssumption DEF PersistedOutput, TypeOK
  <2> QED
    BY <2>1, <2>3
<1>3. ASSUME \/ \E p \in Jobs, k \in Keys : ReadOwner(p, k)
             \/ MarkRecorded
             \/ \E p \in Jobs : BindOwner(p) \/ MarkAssigned(p)
             \/ \E f \in Flushers : Flush(f)
             \/ Tick \/ UNCHANGED vars
      PROVE  UNCHANGED map
  BY <1>3 DEF ReadOwner, MarkRecorded, BindOwner, MarkAssigned, Flush, SwapDirty,
     Snapshot, Rename, Truncate, WriteInPlace, SaveFails, Tick, vars
<1> QED
  BY <1>1, <1>2, <1>3 DEF Next, Reactor, Submitter

OrderInv == MapSound(map) /\ Ordered(map) /\ Len(map.order) <= 2 * Capacity

(* The map and its order are sound in every behaviour: whatever is         *)
(* recorded, recorded again, restored or expires, no record is without its *)
(* pair in the order, where the eviction loop finds it, and the pairs are  *)
(* numbered as they came.                                                  *)
LEMMA OrderCorrect == Spec => [](TypeOK /\ OrderInv)
<1> DEFINE Good(m) == MapSound(m) /\ Ordered(m) /\ Len(m.order) <= 2 * Capacity
<1>0. Good(EmptyMap)
  <2>1. Known(EmptyMap.entries) = {} /\ EmptyMap.order = <<>>
    BY DEF EmptyMap, Known
  <2> QED
    BY <2>1, FS_EmptySet, MapAssumption DEF MapSound, Covered, Ordered, Increasing
<1>1. Init => OrderInv
  BY <1>0 DEF Init, OrderInv
<1>2. TypeOK /\ OrderInv /\ [Next]_vars => OrderInv'
  <2> SUFFICES ASSUME TypeOK, Good(map), [Next]_vars PROVE Good(map')
    BY DEF OrderInv, MapSound, Covered, Known, Ordered, Increasing
  <2>0. map \in MapType /\ MapSound(map) /\ Ordered(map) /\ Len(map.order) <= 2 * Capacity
    BY DEF TypeOK
  <2>1. CASE UNCHANGED map
    BY <2>1
  <2>2. CASE Restart
    <3>1. map' = EmptyMap
      BY <2>2 DEF Restart
    <3> QED
      BY <1>0, <3>1
  <2>3. ASSUME NEW p \in Jobs, Assign(p) PROVE Good(map')
    <3>1. ownerOf[p] \in Accounts \cup {NoOne}
      BY DEF TypeOK
    <3>2. map' = AssignOwner(map, p, ownerOf[p])
      BY <2>3 DEF Assign
    <3>3. map'.order = map.order /\ map'.nextSeq = map.nextSeq
      BY <2>0, <3>2 DEF AssignOwner, MapType
    <3>4. MapSound(map')
      BY <2>0, <3>1, <3>2, AssignEntries
    <3> QED
      BY <2>0, <3>3, <3>4 DEF Ordered
  <2>4. ASSUME NEW k \in Keys, NEW p \in Jobs, NEW o \in Accounts \cup {NoOne},
               NEW x \in Nat, NEW r \in Nat,
               map' = InsertRecord(map, k, p, o, x, r, clock)
        PROVE  Good(map')
    <3>1. Covered(map)
      BY <2>0 DEF MapSound
    <3>2. MapSound(map')
      BY <2>0, <2>4, <3>1, InsertEntries
    <3>3. Ordered(map') /\ Len(map'.order) <= 2 * Capacity
      BY <2>0, <2>4, <3>1, InsertOrder
    <3> QED
      BY <3>2, <3>3
  <2> QED
    BY <2>1, <2>2, <2>3, <2>4, MapMoves
<1> QED
  BY <1>1, <1>2, InitType, NextType, PTL DEF Spec

(* The map never holds more than its capacity, nor the order more pairs    *)
(* than twice that, however often files are recorded again: compaction     *)
(* leaves one pair for each record.                                        *)
THEOREM StaysBounded == Spec => []Bounded
<1>1. OrderInv => Bounded
  BY DEF OrderInv, MapSound, Bounded
<1> QED
  BY <1>1, OrderCorrect, PTL

(* The order can be trusted to find the oldest record.                     *)
THEOREM OrderIsSound == Spec => []OrderSound
<1>1. OrderInv => OrderSound
  BY DEF OrderInv, MapSound, Covered, Ordered, Increasing, OrderSound
<1> QED
  BY <1>1, OrderCorrect, PTL

-----------------------------------------------------------------------------
(* Who may read what, and for how long. *)

(* An owner that was not made up: the account that sent the prompt, or     *)
(* nobody yet.                                                             *)
Honest(owner, prompt) == owner \in {NoOne, SenderOf[prompt]}

RecordsSound(m) ==
  \A k \in Known(m.entries) :
    /\ Honest(m.entries[k].owner, m.entries[k].prompt)
    /\ m.entries[k].expires = m.entries[k].recorded + TTL

(* Every place an owner passes through on its way from the PromptQueue to  *)
(* the file and, after a restart, back into the map.                       *)
OwnersSound ==
  /\ RecordsSound(map)
  /\ \A p \in Jobs : Honest(ownerOf[p], p)
  /\ recorder.pc = "insert" => Honest(recorder.owner, recorder.prompt)
  /\ \A f \in Flushers : \A e \in flush[f].snap : Honest(e.owner, e.prompt)
  /\ \A e \in file : Honest(e.owner, e.prompt)
  /\ \A e \in loading : Honest(e.owner, e.prompt)

(* insert keeps the records sound when the new one is.                     *)
LEMMA InsertSound ==
  ASSUME NEW m \in MapType, RecordsSound(m), NEW k \in Keys, NEW p \in Jobs,
         NEW o \in Accounts \cup {NoOne}, Honest(o, p),
         NEW r \in Nat, NEW x \in Nat, x = r + TTL, NEW now
  PROVE  RecordsSound(InsertRecord(m, k, p, o, x, r, now))
<1> DEFINE after == InsertRecord(m, k, p, o, x, r, now)
           new   == [prompt |-> p, owner |-> o, expires |-> x, recorded |-> r,
                     seq |-> m.nextSeq]
<1>1. /\ after.entries[k] \in {new, NoOne}
      /\ \A j \in Keys \ {k} : after.entries[j] \in {m.entries[j], NoOne}
  BY InsertEntries
<1>2. new.owner = o /\ new.prompt = p /\ new.expires = new.recorded + TTL
  OBVIOUS
<1> HIDE DEF after, new
<1>3. ASSUME NEW j \in Known(after.entries)
      PROVE  /\ Honest(after.entries[j].owner, after.entries[j].prompt)
             /\ after.entries[j].expires = after.entries[j].recorded + TTL
  <2>1. j \in Keys /\ after.entries[j] # NoOne
    BY DEF Known
  <2>2. CASE j = k
    BY <1>1, <1>2, <2>1, <2>2
  <2>3. CASE j # k
    <3>1. after.entries[j] = m.entries[j] /\ j \in Known(m.entries)
      BY <1>1, <2>1, <2>3 DEF Known
    <3> QED
      BY <3>1 DEF RecordsSound
  <2> QED
    BY <2>2, <2>3
<1> QED
  BY <1>3 DEF RecordsSound, after

(* assign_owner keeps the records sound: it touches only the records of    *)
(* the prompt whose owner it was given.                                    *)
LEMMA AssignSound ==
  ASSUME NEW m \in MapType, RecordsSound(m), NEW p \in Jobs,
         NEW o \in Accounts \cup {NoOne}, Honest(o, p)
  PROVE  RecordsSound(AssignOwner(m, p, o))
<1> DEFINE after == AssignOwner(m, p, o)
<1>1. ASSUME NEW j \in Keys
      PROVE  after.entries[j] = IF j \in Unassigned(m.entries, p)
                                THEN [m.entries[j] EXCEPT !.owner = o] ELSE m.entries[j]
  BY DEF AssignOwner, MapType
<1> HIDE DEF after
<1>2. ASSUME NEW j \in Known(after.entries)
      PROVE  /\ Honest(after.entries[j].owner, after.entries[j].prompt)
             /\ after.entries[j].expires = after.entries[j].recorded + TTL
  <2>1. j \in Keys /\ after.entries[j] # NoOne
    BY DEF Known
  <2>2. CASE j \in Unassigned(m.entries, p)
    <3>1. j \in Known(m.entries) /\ m.entries[j].prompt = p /\ m.entries[j] \in OutputRecord
      BY <2>2 DEF Unassigned, Known, MapType
    <3>2. after.entries[j] = [m.entries[j] EXCEPT !.owner = o]
      BY <1>1, <2>1, <2>2
    <3>3. /\ after.entries[j].owner = o
          /\ after.entries[j].prompt = p
          /\ after.entries[j].expires = m.entries[j].expires
          /\ after.entries[j].recorded = m.entries[j].recorded
      BY <3>1, <3>2 DEF OutputRecord
    <3> QED
      BY <3>1, <3>3 DEF RecordsSound
  <2>3. CASE j \notin Unassigned(m.entries, p)
    <3>1. after.entries[j] = m.entries[j] /\ j \in Known(m.entries)
      BY <1>1, <2>1, <2>3 DEF Known
    <3> QED
      BY <3>1 DEF RecordsSound
  <2> QED
    BY <2>2, <2>3
<1> QED
  BY <1>2 DEF RecordsSound, after

(* The steps of the recorder and of the submitters keep the owners sound.  *)
LEMMA RecordOwners ==
  ASSUME TypeOK, OwnersSound,
         \/ \E p \in Jobs, k \in Keys : ReadOwner(p, k)
         \/ Reactor
         \/ \E p \in Jobs : BindOwner(p) \/ Submitter(p)
  PROVE  OwnersSound'
<1>1. ASSUME NEW p \in Jobs, NEW k \in Keys, ReadOwner(p, k) PROVE OwnersSound'
  <2>1. Honest(recorder'.owner, recorder'.prompt)
    BY <1>1 DEF ReadOwner, OwnersSound
  <2> QED
    BY <1>1, <2>1 DEF ReadOwner, OwnersSound, RecordsSound, Known, Honest
<1>2. CASE Record
  <2>1. /\ recorder.key \in Keys /\ recorder.prompt \in Jobs
        /\ recorder.owner \in Accounts \cup {NoOne}
        /\ Honest(recorder.owner, recorder.prompt)
    BY <1>2 DEF Record, TypeOK, OwnersSound
  <2>2. clock \in Nat /\ clock + TTL \in Nat /\ map \in MapType
    BY OwnersAssumption DEF TypeOK
  <2>3. RecordsSound(map')
    BY <1>2, <2>1, <2>2, InsertSound DEF Record, OwnersSound
  <2> QED
    BY <1>2, <2>3 DEF Record, OwnersSound, RecordsSound, Known, Honest
<1>3. CASE MarkRecorded
  BY <1>3 DEF MarkRecorded, OwnersSound, RecordsSound, Known, Honest
<1>4. ASSUME NEW p \in Jobs, BindOwner(p) PROVE OwnersSound'
  <2>1. \A q \in Jobs : Honest(ownerOf'[q], q)
    BY <1>4 DEF BindOwner, TypeOK, OwnersSound, Honest
  <2> QED
    BY <1>4, <2>1 DEF BindOwner, OwnersSound, RecordsSound, Known, Honest
<1>5. ASSUME NEW p \in Jobs, Assign(p) PROVE OwnersSound'
  <2>1. ownerOf[p] \in Accounts \cup {NoOne} /\ Honest(ownerOf[p], p) /\ map \in MapType
    BY DEF TypeOK, OwnersSound
  <2>2. RecordsSound(map')
    BY <1>5, <2>1, AssignSound DEF Assign, OwnersSound
  <2> QED
    BY <1>5, <2>2 DEF Assign, OwnersSound, RecordsSound, Known, Honest
<1>6. ASSUME NEW p \in Jobs, MarkAssigned(p) PROVE OwnersSound'
  BY <1>6 DEF MarkAssigned, OwnersSound, RecordsSound, Known, Honest
<1> QED
  BY <1>1, <1>2, <1>3, <1>4, <1>5, <1>6 DEF Reactor, Submitter

(* Saving keeps the owners sound.                                          *)
LEMMA FlushOwners ==
  ASSUME TypeOK, OwnersSound, NEW f \in Flushers, Flush(f)
  PROVE  OwnersSound'
<1> DEFINE Sound(entries) == \A e \in entries : Honest(e.owner, e.prompt)
<1>0. /\ flush \in [Flushers -> [pc : FlushPC, snap : SUBSET PersistedOutput]]
      /\ \A g \in Flushers : Sound(flush[g].snap)
      /\ Sound(file)
  BY DEF TypeOK, OwnersSound
<1>1. SUFFICES (\A g \in Flushers : Sound(flush'[g].snap)) /\ Sound(file')
  <2>1. UNCHANGED <<map, recorder, ownerOf, loading>>
    BY DEF Flush, SwapDirty, Snapshot, Rename, Truncate, WriteInPlace, SaveFails
  <2> QED
    BY <1>1, <2>1 DEF OwnersSound, RecordsSound, Known, Honest
<1>2. Sound({})
  OBVIOUS
<1>3. CASE SwapDirty(f) \/ Truncate(f)
  <2>1. \A g \in Flushers : flush'[g].snap = flush[g].snap
    BY <1>0, <1>3 DEF SwapDirty, Truncate
  <2>2. file' = file \/ file' = {}
    BY <1>3 DEF SwapDirty, Truncate
  <2> QED
    BY <1>0, <1>2, <2>1, <2>2
<1>4. CASE Snapshot(f)
  <2> DEFINE snap == {Saved(k) : k \in {j \in Keys : LookupHits(map, j, clock)}}
  <2>1. Sound(snap)
    BY SavedType DEF LookupHits, Known, OwnersSound, RecordsSound
  <2> HIDE DEF snap, Sound
  <2>2. flush' = [flush EXCEPT ![f] = [pc |-> "write", snap |-> snap]] /\ file' = file
    BY <1>4 DEF Snapshot, snap
  <2>3. \A g \in Flushers : flush'[g].snap = IF g = f THEN snap ELSE flush[g].snap
    BY <1>0, <2>2
  <2> QED
    BY <1>0, <2>1, <2>2, <2>3
<1>5. CASE Rename(f) \/ WriteInPlace(f) \/ SaveFails(f)
  <2>1. flush' = [flush EXCEPT ![f] = [pc |-> "idle", snap |-> {}]]
    BY <1>5 DEF Rename, WriteInPlace, SaveFails, FlushEnds
  <2>2. \A g \in Flushers : flush'[g].snap = IF g = f THEN {} ELSE flush[g].snap
    BY <1>0, <2>1
  <2>3. file' = file \/ file' = flush[f].snap
    BY <1>5 DEF Rename, WriteInPlace, SaveFails
  <2> QED
    BY <1>0, <1>2, <2>2, <2>3
<1> QED
  BY <1>3, <1>4, <1>5 DEF Flush

(* A crash, the restoring and the clock keep the owners sound.             *)
LEMMA RestartOwners ==
  ASSUME TypeOK, OwnersSound, Restart \/ RestoreNext \/ Tick
  PROVE  OwnersSound'
<1>1. CASE Restart
  <2>1. RecordsSound(map')
    BY <1>1 DEF Restart, EmptyMap, RecordsSound, Known
  <2>2. /\ \A p \in Jobs : Honest(ownerOf'[p], p)
        /\ recorder'.pc # "insert"
        /\ \A f \in Flushers : flush'[f].snap = {}
    BY <1>1 DEF Restart, Honest
  <2>3. file' = file /\ loading' \subseteq file
    BY <1>1 DEF Restart, Restorable
  <2> QED
    BY <2>1, <2>2, <2>3 DEF OwnersSound, RecordsSound, Known, Honest
<1>2. CASE RestoreNext
  <2>1. PICK e \in loading :
          /\ loading' = loading \ {e}
          /\ map' = IF map.entries[e.key] # NoOne THEN map
                    ELSE InsertRecord(map, e.key, e.prompt, e.owner,
                           clock + (TTL - (clock - e.recorded)), e.recorded, clock)
    BY <1>2 DEF RestoreNext
  <2>2. e \in PersistedOutput /\ Honest(e.owner, e.prompt)
    BY DEF TypeOK, OwnersSound
  <2>3. /\ e.key \in Keys /\ e.prompt \in Jobs /\ e.owner \in Accounts \cup {NoOne}
        /\ e.recorded \in Nat
        /\ clock + (TTL - (clock - e.recorded)) \in Nat
        /\ clock + (TTL - (clock - e.recorded)) = e.recorded + TTL
    BY <2>2, OwnersAssumption DEF PersistedOutput, TypeOK
  <2>4. RecordsSound(map')
    BY <2>1, <2>2, <2>3, InsertSound DEF TypeOK, OwnersSound
  <2> QED
    BY <1>2, <2>1, <2>4 DEF RestoreNext, OwnersSound, RecordsSound, Known, Honest
<1>3. CASE Tick
  BY <1>3 DEF Tick, OwnersSound, RecordsSound, Known, Honest
<1> QED
  BY <1>1, <1>2, <1>3

(* The owners are sound in every behaviour.                                *)
LEMMA OwnersCorrect == Spec => [](TypeOK /\ OwnersSound)
<1>1. Init => OwnersSound
  BY DEF Init, EmptyMap, OwnersSound, RecordsSound, Known, Honest
<1>2. TypeOK /\ OwnersSound /\ [Next]_vars => OwnersSound'
  <2> SUFFICES ASSUME TypeOK, OwnersSound, [Next]_vars PROVE OwnersSound'
    OBVIOUS
  <2>1. CASE UNCHANGED vars
    BY <2>1 DEF vars, OwnersSound, RecordsSound, Known, Honest
  <2> QED
    BY <2>1, RecordOwners, FlushOwners, RestartOwners DEF Next
<1> QED
  BY <1>1, <1>2, InitType, NextType, PTL DEF Spec

(* Whoever reads a file as a named account sent the prompt that produced   *)
(* it: owners reach the map only from the PromptQueue or from a file that  *)
(* was written from the map.                                               *)
THEOREM ReadsIsolated == Spec => []ReadIsolation
<1>1. TypeOK /\ OwnersSound => ReadIsolation
  <2> SUFFICES ASSUME TypeOK, OwnersSound, NEW k \in Keys, NEW u \in Accounts, MayRead(k, u)
               PROVE  SenderOf[map.entries[k].prompt] = u
    BY DEF ReadIsolation
  <2>1. k \in Known(map.entries) /\ u # NoOne
    BY MapAssumption DEF MayRead, LookupHits, Known
  <2>2. map.entries[k].prompt \in Jobs
    BY <2>1 DEF TypeOK, MapType, OutputRecord, Known
  <2>3. Honest(map.entries[k].owner, map.entries[k].prompt)
    BY <2>1 DEF OwnersSound, RecordsSound
  <2>4. Honest(ownerOf[map.entries[k].prompt], map.entries[k].prompt)
    BY <2>2 DEF OwnersSound
  <2> QED
    BY <2>1, <2>3, <2>4 DEF MayRead, Honest
<1> QED
  BY <1>1, OwnersCorrect, PTL

(* A record lives for the TTL from when its file was recorded, however     *)
(* often the process restarts in between.                                  *)
THEOREM LifetimesKept == Spec => []LifetimeKept
<1>1. OwnersSound => LifetimeKept
  BY DEF OwnersSound, RecordsSound, LifetimeKept
<1> QED
  BY <1>1, OwnersCorrect, PTL

-----------------------------------------------------------------------------
(* What the file holds. *)

(* The set S has every record of the map m that has not expired.           *)
Holds(m, now, S) ==
  \A k \in Keys : LookupHits(m, k, now) =>
    \E e \in S : /\ e.key = k
                 /\ e.prompt = m.entries[k].prompt
                 /\ e.owner = m.entries[k].owner
                 /\ e.recorded = m.entries[k].recorded

(* Somebody will still copy the map, or mark it as dirty. *)
Pending ==
  \/ dirty
  \/ recorder.pc = "mark"
  \/ \E p \in Jobs : bind[p] = "mark"
  \/ \E f \in Flushers : flush[f].pc = "snapshot"

Writing(f) == flush[f].pc \in {"write", "inPlace"}

OneSaver == \A f, g \in Flushers : flush[f].pc # "idle" /\ flush[g].pc # "idle" => f = g

(* Nothing is saved while the file is being loaded. *)
LoadsTheFile ==
  loading # {} => loading \subseteq file /\ \A f \in Flushers : flush[f].pc = "idle"

(* With nothing pending, the copy on its way to the file, or else the      *)
(* file, is complete.                                                      *)
CopyComplete ==
  ~ Pending =>
    /\ \A f \in Flushers : Writing(f) => Holds(map, clock, flush[f].snap)
    /\ (\A f \in Flushers : ~ Writing(f)) => Holds(map, clock, file)

SaveSound == OneSaver /\ LoadsTheFile /\ CopyComplete

(* A set that holds a map holds any map that has none but the same records.*)
LEMMA HoldsFewer ==
  ASSUME NEW m, NEW n, NEW now, NEW then, NEW S, Holds(m, now, S),
         \A k \in Keys : LookupHits(n, k, then) =>
           LookupHits(m, k, now) /\ n.entries[k] = m.entries[k]
  PROVE  Holds(n, then, S)
BY DEF Holds

(* The steps that write no file keep SaveSound when what they leave        *)
(* pending was pending, and a map with something pending needs no file.    *)
LEMMA QuietSave ==
  ASSUME TypeOK, SaveSound, UNCHANGED <<flush, file>>, Running, loading' = loading,
         \/ Pending'
         \/ /\ Pending => Pending'
            /\ \A k \in Keys : LookupHits(map', k, clock') =>
                 LookupHits(map, k, clock) /\ map'.entries[k] = map.entries[k]
  PROVE  SaveSound'
<1>1. OneSaver' /\ LoadsTheFile'
  BY DEF SaveSound, OneSaver, LoadsTheFile, Running
<1>2. CASE Pending'
  BY <1>1, <1>2 DEF SaveSound, CopyComplete
<1>3. CASE ~ Pending'
  <2>1. \A S : Holds(map, clock, S) => Holds(map', clock', S)
    BY <1>3, HoldsFewer
  <2>2. /\ \A f \in Flushers : Writing(f) => Holds(map, clock, flush[f].snap)
        /\ (\A f \in Flushers : ~ Writing(f)) => Holds(map, clock, file)
    BY <1>3 DEF SaveSound, CopyComplete
  <2>3. /\ \A f \in Flushers : Writing(f)' => Holds(map', clock', flush'[f].snap)
        /\ (\A f \in Flushers : ~ Writing(f)') => Holds(map', clock', file')
    BY <2>1, <2>2 DEF Writing
  <2> QED
    BY <1>1, <2>3 DEF SaveSound, CopyComplete
<1> QED
  BY <1>2, <1>3

(* The recorder, the submitters and the clock keep SaveSound.              *)
LEMMA RecordSaved ==
  ASSUME TypeOK, SaveSound,
         \/ \E p \in Jobs, k \in Keys : ReadOwner(p, k)
         \/ Reactor
         \/ \E p \in Jobs : BindOwner(p) \/ Submitter(p)
         \/ Tick
  PROVE  SaveSound'
<1>1. ASSUME NEW p \in Jobs, NEW k \in Keys, ReadOwner(p, k) PROVE SaveSound'
  <2>1. Pending => Pending'
    BY <1>1 DEF ReadOwner, Pending
  <2> QED
    BY <1>1, <2>1, QuietSave DEF ReadOwner, LookupHits
<1>2. CASE Record
  BY <1>2, QuietSave DEF Record, Pending
<1>3. CASE MarkRecorded
  BY <1>3, QuietSave DEF MarkRecorded, Pending
<1>4. ASSUME NEW p \in Jobs, BindOwner(p) PROVE SaveSound'
  <2>1. \A q \in Jobs : bind[q] = "mark" => bind'[q] = "mark"
    BY <1>4 DEF BindOwner, TypeOK
  <2>2. Pending => Pending'
    BY <1>4, <2>1 DEF BindOwner, Pending
  <2> QED
    BY <1>4, <2>2, QuietSave DEF BindOwner, LookupHits
<1>5. ASSUME NEW p \in Jobs, Assign(p) PROVE SaveSound'
  <2>1. CASE Unassigned(map.entries, p) = {}
    <3>1. \A q \in Jobs : bind[q] = "mark" => bind'[q] = "mark"
      BY <1>5 DEF Assign, TypeOK
    <3>2. Pending => Pending'
      BY <1>5, <3>1 DEF Assign, Pending
    <3>3. \A k \in Keys : map'.entries[k] = map.entries[k]
      BY <1>5, <2>1, AssignEntries DEF Assign, TypeOK
    <3> QED
      BY <1>5, <3>2, <3>3, QuietSave DEF Assign, LookupHits
  <2>2. CASE Unassigned(map.entries, p) # {}
    <3>1. bind'[p] = "mark"
      BY <1>5, <2>2 DEF Assign, TypeOK
    <3> QED
      BY <1>5, <3>1, QuietSave DEF Assign, Pending
  <2> QED
    BY <2>1, <2>2
<1>6. ASSUME NEW p \in Jobs, MarkAssigned(p) PROVE SaveSound'
  BY <1>6, QuietSave DEF MarkAssigned, Pending
<1>7. CASE Tick
  <2>1. Pending => Pending'
    BY <1>7 DEF Tick, Pending
  <2>2. ASSUME NEW k \in Keys, LookupHits(map', k, clock')
        PROVE  LookupHits(map, k, clock) /\ map'.entries[k] = map.entries[k]
    <3>1. map' = map /\ clock' = clock + 1 /\ clock \in Nat
      BY <1>7 DEF Tick, TypeOK
    <3>2. map.entries[k] # NoOne /\ clock + 1 < map.entries[k].expires
      BY <2>2, <3>1 DEF LookupHits
    <3>3. map.entries[k].expires \in Nat
      BY <3>2 DEF TypeOK, MapType, OutputRecord
    <3> QED
      BY <3>1, <3>2, <3>3 DEF LookupHits
  <2> QED
    BY <1>7, <2>1, <2>2, QuietSave DEF Tick
<1> QED
  BY <1>1, <1>2, <1>3, <1>4, <1>5, <1>6, <1>7 DEF Reactor, Submitter

(* Saving keeps SaveSound: save_lock lets nobody else copy the map between *)
(* a flusher's copy and its write.                                         *)
LEMMA FlushSaved ==
  ASSUME TypeOK, SaveSound, NEW f \in Flushers, Flush(f)
  PROVE  SaveSound'
<1>0. /\ flush \in [Flushers -> [pc : FlushPC, snap : SUBSET PersistedOutput]]
      /\ loading = {} /\ loading' = {} /\ map' = map /\ clock' = clock
      /\ recorder' = recorder /\ bind' = bind
  BY DEF TypeOK, Flush, SwapDirty, Snapshot, Rename, Truncate, WriteInPlace, SaveFails,
     Running
<1>1. LoadsTheFile'
  BY <1>0 DEF LoadsTheFile
<1>2. CASE SwapDirty(f)
  <2>1. \A g \in Flushers : flush'[g].pc = IF g = f THEN "snapshot" ELSE "idle"
    BY <1>0, <1>2 DEF SwapDirty
  <2>2. OneSaver' /\ Pending'
    BY <2>1 DEF OneSaver, Pending
  <2> QED
    BY <1>1, <2>2 DEF SaveSound, CopyComplete
<1>3. ASSUME flush[f].pc # "idle"
      PROVE  \A g \in Flushers \ {f} : flush[g].pc = "idle"
  BY <1>3 DEF SaveSound, OneSaver
<1>4. CASE Snapshot(f)
  <2> DEFINE snap == {Saved(k) : k \in {j \in Keys : LookupHits(map, j, clock)}}
  <2>1. Holds(map, clock, snap)
    BY SavedType DEF Holds, LookupHits, Known
  <2> HIDE DEF snap
  <2>2. flush' = [flush EXCEPT ![f] = [pc |-> "write", snap |-> snap]]
    BY <1>4 DEF Snapshot, snap
  <2>3. /\ flush'[f].pc = "write" /\ flush'[f].snap = snap
        /\ \A g \in Flushers \ {f} : flush'[g].pc = "idle"
    BY <1>0, <1>3, <1>4, <2>2 DEF Snapshot
  <2>4. OneSaver'
    BY <2>3 DEF OneSaver
  <2>5. CopyComplete'
    BY <1>0, <2>1, <2>3 DEF CopyComplete, Writing
  <2> QED
    BY <1>1, <2>4, <2>5 DEF SaveSound
<1>5. CASE Truncate(f)
  <2>1. /\ flush[f].pc = "write" /\ flush'[f].pc = "inPlace" /\ flush'[f].snap = flush[f].snap
        /\ \A g \in Flushers \ {f} : flush'[g].pc = "idle" /\ flush[g].pc = "idle"
        /\ dirty' = dirty
    BY <1>0, <1>3, <1>5 DEF Truncate
  <2>2. OneSaver' /\ (Pending => Pending')
    BY <1>0, <2>1 DEF OneSaver, Pending
  <2>3. CopyComplete'
    BY <1>0, <2>1, <2>2 DEF SaveSound, CopyComplete, Writing
  <2> QED
    BY <1>1, <2>2, <2>3 DEF SaveSound
<1>6. CASE Rename(f) \/ WriteInPlace(f) \/ SaveFails(f)
  <2>1. /\ Writing(f)
        /\ flush' = [flush EXCEPT ![f] = [pc |-> "idle", snap |-> {}]]
    BY <1>6 DEF Rename, WriteInPlace, SaveFails, FlushEnds, Writing
  <2>2. \A g \in Flushers : flush'[g].pc = "idle"
    BY <1>0, <1>3, <2>1 DEF Writing
  <2>3. OneSaver'
    BY <2>2 DEF OneSaver
  <2>4. CASE SaveFails(f)
    BY <1>1, <2>3, <2>4 DEF SaveFails, SaveSound, CopyComplete, Pending
  <2>5. CASE Rename(f) \/ WriteInPlace(f)
    <3>1. file' = flush[f].snap /\ dirty' = dirty
      BY <2>5 DEF Rename, WriteInPlace
    <3>2. \A g \in Flushers : flush[g].pc # "snapshot"
      BY <1>3, <2>1 DEF Writing
    <3>3. Pending => Pending'
      BY <1>0, <3>1, <3>2 DEF Pending
    <3>4. ~ Pending' => Holds(map', clock', file')
      BY <1>0, <2>1, <3>1, <3>3 DEF SaveSound, CopyComplete
    <3>5. \A g \in Flushers : ~ Writing(g)'
      BY <2>2 DEF Writing
    <3> QED
      BY <1>1, <2>3, <3>4, <3>5 DEF SaveSound, CopyComplete
  <2> QED
    BY <1>6, <2>4, <2>5
<1> QED
  BY <1>2, <1>4, <1>5, <1>6 DEF Flush

(* A crash leaves an empty map, and what is restored is in the file.       *)
LEMMA RestartSaved ==
  ASSUME TypeOK, SaveSound, Restart \/ RestoreNext
  PROVE  SaveSound'
<1>1. CASE Restart
  <2>1. \A f \in Flushers : flush'[f].pc = "idle"
    BY <1>1 DEF Restart
  <2>2. loading' \subseteq file'
    BY <1>1 DEF Restart, Restorable
  <2>3. \A S : Holds(map', clock', S)
    BY <1>1 DEF Restart, EmptyMap, Holds, LookupHits
  <2> QED
    BY <2>1, <2>2, <2>3 DEF SaveSound, OneSaver, LoadsTheFile, CopyComplete, Writing
<1>2. CASE RestoreNext
  <2>1. PICK e \in loading :
          /\ loading' = loading \ {e}
          /\ map' = IF map.entries[e.key] # NoOne THEN map
                    ELSE InsertRecord(map, e.key, e.prompt, e.owner,
                           clock + (TTL - (clock - e.recorded)), e.recorded, clock)
    BY <1>2 DEF RestoreNext
  <2>2. /\ UNCHANGED <<dirty, file, flush, recorder, bind, clock>>
        /\ e \in file /\ loading \subseteq file
        /\ \A f \in Flushers : flush[f].pc = "idle"
    BY <1>2 DEF RestoreNext, SaveSound, LoadsTheFile
  <2>3. OneSaver' /\ LoadsTheFile'
    BY <2>1, <2>2 DEF OneSaver, LoadsTheFile
  <2>4. Pending' = Pending /\ \A f \in Flushers : ~ Writing(f) /\ ~ Writing(f)'
    BY <2>2 DEF Pending, Writing
  <2>5. ASSUME Holds(map, clock, file) PROVE Holds(map', clock, file)
    <3>1. CASE map' = map
      BY <2>5, <3>1
    <3>2. CASE map' # map
      <4> DEFINE x   == clock + (TTL - (clock - e.recorded))
                 new == [prompt |-> e.prompt, owner |-> e.owner, expires |-> x,
                         recorded |-> e.recorded, seq |-> map.nextSeq]
      <4>1. e \in PersistedOutput
        BY DEF TypeOK
      <4>2. /\ e.key \in Keys /\ e.prompt \in Jobs /\ e.owner \in Accounts \cup {NoOne}
            /\ e.recorded \in Nat /\ x \in Nat /\ map \in MapType
        BY <4>1, OwnersAssumption DEF PersistedOutput, TypeOK
      <4>3. /\ map'.entries[e.key] \in {new, NoOne}
            /\ \A j \in Keys \ {e.key} : map'.entries[j] \in {map.entries[j], NoOne}
        BY <2>1, <3>2, <4>2, InsertEntries
      <4>4. /\ new.prompt = e.prompt /\ new.owner = e.owner /\ new.recorded = e.recorded
        OBVIOUS
      <4> HIDE DEF new, x
      <4>5. ASSUME NEW k \in Keys, LookupHits(map', k, clock)
            PROVE  \E d \in file : /\ d.key = k
                                   /\ d.prompt = map'.entries[k].prompt
                                   /\ d.owner = map'.entries[k].owner
                                   /\ d.recorded = map'.entries[k].recorded
        <5>1. CASE k = e.key
          BY <2>2, <4>3, <4>4, <4>5, <5>1 DEF LookupHits
        <5>2. CASE k # e.key
          BY <2>5, <4>3, <4>5, <5>2 DEF LookupHits, Holds
        <5> QED
          BY <5>1, <5>2
      <4> QED
        BY <4>5 DEF Holds
    <3> QED
      BY <3>1, <3>2
  <2>6. CopyComplete'
    BY <2>2, <2>4, <2>5 DEF SaveSound, CopyComplete
  <2> QED
    BY <2>3, <2>6 DEF SaveSound
<1> QED
  BY <1>1, <1>2

(* When nobody is saving or about to mark the map, and it is clean, then   *)
(* the file has every record that has not expired: whatever changes the    *)
(* map leaves a mark, and the mark is cleared before the copy is taken.    *)
THEOREM CleanIsSaved == Spec => []SavedWhenClean
<1>1. Init => SaveSound
  BY DEF Init, EmptyMap, SaveSound, OneSaver, LoadsTheFile, CopyComplete, Holds, LookupHits
<1>2. TypeOK /\ SaveSound /\ [Next]_vars => SaveSound'
  <2> SUFFICES ASSUME TypeOK, SaveSound, [Next]_vars PROVE SaveSound'
    OBVIOUS
  <2>1. CASE UNCHANGED vars
    BY <2>1 DEF vars, SaveSound, OneSaver, LoadsTheFile, CopyComplete, Pending, Writing,
       Holds, LookupHits
  <2> QED
    BY <2>1, RecordSaved, FlushSaved, RestartSaved DEF Next
<1>3. SaveSound => SavedWhenClean
  <2> SUFFICES ASSUME SaveSound, Settled PROVE Holds(map, clock, file)
    BY DEF SavedWhenClean, Holds
  <2>1. ~ Pending /\ \A f \in Flushers : ~ Writing(f)
    BY DEF Settled, Pending, Writing
  <2> QED
    BY <2>1 DEF SaveSound, CopyComplete
<1> QED
  BY <1>1, <1>2, <1>3, InitType, NextType, PTL DEF Spec

-----------------------------------------------------------------------------
(* Who is evicted. *)

Aged(S) == \A e \in S : e.recorded <= clock

(* The ages of the records, in the map and wherever they pass through the  *)
(* file: what is still to be restored is younger than all that has been.   *)
AgeSound ==
  /\ AgesInOrder(map.entries)
  /\ \A k \in Known(map.entries) : map.entries[k].recorded <= clock
  /\ Aged(file)
  /\ \A f \in Flushers : Aged(flush[f].snap)
  /\ \A e \in loading :
       /\ e.recorded <= clock /\ clock < e.recorded + TTL
       /\ \A k \in Known(map.entries) : map.entries[k].recorded <= e.recorded

(* The steps that change neither the records nor their copies.             *)
LEMMA QuietAges ==
  ASSUME AgeSound, UNCHANGED <<map, file, loading, clock>>,
         \A f \in Flushers : Aged(flush[f].snap) => Aged(flush'[f].snap)
  PROVE  AgeSound'
BY DEF AgeSound, Aged, AgesInOrder, Known

(* The recorder and the submitters keep the ages.                          *)
LEMMA RecordAges ==
  ASSUME TypeOK, OrderInv, AgeSound,
         \/ \E p \in Jobs, k \in Keys : ReadOwner(p, k)
         \/ Reactor
         \/ \E p \in Jobs : BindOwner(p) \/ Submitter(p)
  PROVE  AgeSound'
<1>1. ASSUME \/ \E p \in Jobs, k \in Keys : ReadOwner(p, k)
             \/ MarkRecorded
             \/ \E p \in Jobs : BindOwner(p) \/ MarkAssigned(p)
      PROVE  AgeSound'
  BY <1>1, QuietAges DEF ReadOwner, MarkRecorded, BindOwner, MarkAssigned
<1>2. CASE Record
  <2>1. /\ recorder.key \in Keys /\ recorder.prompt \in Jobs
        /\ recorder.owner \in Accounts \cup {NoOne}
    BY <1>2 DEF Record, TypeOK
  <2>2. clock \in Nat /\ clock + TTL \in Nat /\ map \in MapType
    BY OwnersAssumption DEF TypeOK
  <2>3. AgesInOrder(map'.entries) /\ \A k \in Known(map'.entries) : map'.entries[k].recorded <= clock
    BY <1>2, <2>1, <2>2, InsertAges DEF Record, OrderInv, MapSound, AgeSound
  <2>4. UNCHANGED <<file, flush, loading, clock>> /\ loading = {}
    BY <1>2 DEF Record, Running
  <2> QED
    BY <2>3, <2>4 DEF AgeSound, Aged
<1>3. ASSUME NEW p \in Jobs, Assign(p) PROVE AgeSound'
  <2>1. /\ map' = AssignOwner(map, p, ownerOf[p]) /\ map \in MapType
        /\ ownerOf[p] \in Accounts \cup {NoOne}
        /\ UNCHANGED <<file, flush, loading, clock>>
    BY <1>3 DEF Assign, TypeOK
  <2>2. /\ Known(map'.entries) = Known(map.entries)
        /\ \A k \in Known(map.entries) : /\ map'.entries[k].recorded = map.entries[k].recorded
                                        /\ map'.entries[k].seq = map.entries[k].seq
    <3>1. Known(map'.entries) = Known(map.entries)
      BY <2>1, AssignEntries
    <3>2. ASSUME NEW k \in Known(map.entries)
          PROVE  /\ map'.entries[k].recorded = map.entries[k].recorded
                 /\ map'.entries[k].seq = map.entries[k].seq
      <4>1. k \in Keys /\ map.entries[k] \in OutputRecord
        BY <2>1 DEF Known, MapType
      <4>2. CASE k \in Unassigned(map.entries, p)
        <5>1. map'.entries[k] = [map.entries[k] EXCEPT !.owner = ownerOf[p]]
          BY <2>1, <4>1, <4>2 DEF AssignOwner, MapType
        <5> QED
          BY <4>1, <5>1 DEF OutputRecord
      <4>3. CASE k \notin Unassigned(map.entries, p)
        BY <2>1, <4>1, <4>3, AssignEntries
      <4> QED
        BY <4>2, <4>3
    <3> QED
      BY <3>1, <3>2
  <2> QED
    BY <2>1, <2>2 DEF AgeSound, Aged, AgesInOrder
<1> QED
  BY <1>1, <1>2, <1>3 DEF Reactor, Submitter

(* Saving, a crash, restoring and the clock keep the ages.                 *)
LEMMA OtherAges ==
  ASSUME TypeOK, OrderInv, AgeSound,
         (\E f \in Flushers : Flush(f)) \/ Restart \/ RestoreNext \/ Tick
  PROVE  AgeSound'
<1>1. ASSUME NEW f \in Flushers, Flush(f) PROVE AgeSound'
  <2>0. /\ flush \in [Flushers -> [pc : FlushPC, snap : SUBSET PersistedOutput]]
        /\ loading = {} /\ loading' = {} /\ map' = map /\ clock' = clock
    BY <1>1 DEF TypeOK, Flush, SwapDirty, Snapshot, Rename, Truncate, WriteInPlace,
       SaveFails, Running
  <2>1. Aged(file')
    BY <1>1 DEF Flush, SwapDirty, Snapshot, Rename, Truncate, WriteInPlace, SaveFails,
       AgeSound, Aged
  <2>2. ASSUME NEW g \in Flushers PROVE Aged(flush'[g].snap)
    <3>1. CASE Snapshot(f)
      <4> DEFINE snap == {Saved(k) : k \in {j \in Keys : LookupHits(map, j, clock)}}
      <4>1. Aged(snap)
        BY SavedType DEF Aged, AgeSound, LookupHits, Known
      <4> HIDE DEF snap
      <4>2. flush' = [flush EXCEPT ![f] = [pc |-> "write", snap |-> snap]]
        BY <3>1 DEF Snapshot, snap
      <4> QED
        BY <2>0, <4>1, <4>2 DEF AgeSound
    <3>2. CASE ~ Snapshot(f)
      <4>1. flush'[g].snap = flush[g].snap \/ flush'[g].snap = {}
        BY <1>1, <2>0, <3>2 DEF Flush, SwapDirty, Rename, Truncate, WriteInPlace,
           SaveFails, FlushEnds
      <4> QED
        BY <4>1 DEF AgeSound, Aged
    <3> QED
      BY <3>1, <3>2
  <2> QED
    BY <2>0, <2>1, <2>2 DEF AgeSound, Aged
<1>2. CASE Restart
  <2>1. /\ map' = EmptyMap /\ UNCHANGED <<file, clock>>
        /\ \A f \in Flushers : flush'[f].snap = {}
        /\ \A e \in loading' : e \in file /\ clock < e.recorded + TTL
    BY <1>2 DEF Restart, Restorable
  <2>2. Known(map'.entries) = {}
    BY <2>1 DEF Known, EmptyMap
  <2> QED
    BY <2>1, <2>2 DEF AgeSound, Aged, AgesInOrder
<1>3. CASE RestoreNext
  <2>1. PICK e \in loading :
          /\ \A d \in loading \ {e} : Newer(d, e)
          /\ loading' = loading \ {e}
          /\ map' = IF map.entries[e.key] # NoOne THEN map
                    ELSE InsertRecord(map, e.key, e.prompt, e.owner,
                           clock + (TTL - (clock - e.recorded)), e.recorded, clock)
    BY <1>3 DEF RestoreNext
  <2>2. UNCHANGED <<file, flush, clock>> /\ clock \in Nat /\ map \in MapType
    BY <1>3 DEF RestoreNext, TypeOK
  <2>3. loading \subseteq PersistedOutput
    BY DEF TypeOK
  <2>4. /\ e.key \in Keys /\ e.prompt \in Jobs /\ e.owner \in Accounts \cup {NoOne}
        /\ e.recorded \in Nat /\ clock + (TTL - (clock - e.recorded)) \in Nat
    BY <2>2, <2>3, OwnersAssumption DEF PersistedOutput
  <2>5. \A d \in loading' : d \in loading /\ e.recorded <= d.recorded
    BY <2>1, <2>3 DEF Newer, PersistedOutput
  <2>6. /\ AgesInOrder(map'.entries)
        /\ \A k \in Known(map'.entries) : map'.entries[k].recorded <= e.recorded
    <3>1. CASE map' = map
      BY <3>1 DEF AgeSound
    <3>2. CASE map' # map
      BY <2>1, <2>2, <2>4, <3>2, InsertAges DEF OrderInv, MapSound, AgeSound
    <3> QED
      BY <3>1, <3>2
  <2>7. map' \in MapType
    BY <1>3, RestartType DEF TypeOK
  <2>8. \A k \in Known(map'.entries) : map'.entries[k].recorded \in Nat
    BY <2>7 DEF Known, MapType, OutputRecord
  <2>9. \A d \in loading' : d.recorded \in Nat /\ d.recorded <= clock /\ clock < d.recorded + TTL
    BY <2>3, <2>5 DEF AgeSound, PersistedOutput
  <2>10. e.recorded <= clock
    BY DEF AgeSound
  <2>11. \A k \in Known(map'.entries) :
           /\ map'.entries[k].recorded <= clock
           /\ \A d \in loading' : map'.entries[k].recorded <= d.recorded
    BY <2>2, <2>4, <2>5, <2>6, <2>8, <2>9, <2>10
  <2> QED
    BY <2>2, <2>6, <2>9, <2>11 DEF AgeSound, Aged
<1>4. CASE Tick
  <2>1. /\ UNCHANGED <<map, file, flush, loading>> /\ loading = {}
        /\ clock' = clock + 1 /\ clock \in Nat
    BY <1>4 DEF Tick, Running, TypeOK
  <2>2. \A k \in Known(map.entries) : map.entries[k].recorded \in Nat
    BY DEF Known, TypeOK, MapType, OutputRecord
  <2>3. \A e \in PersistedOutput : e.recorded \in Nat
    BY DEF PersistedOutput
  <2>4. Aged(file)'
    BY <2>1, <2>3 DEF AgeSound, Aged, TypeOK
  <2>5. ASSUME NEW f \in Flushers PROVE Aged(flush[f].snap)'
    <3>1. flush[f].snap \subseteq PersistedOutput
      BY DEF TypeOK
    <3> QED
      BY <2>1, <2>3, <3>1 DEF AgeSound, Aged
  <2> QED
    BY <2>1, <2>2, <2>4, <2>5 DEF AgeSound
<1> QED
  BY <1>1, <1>2, <1>3, <1>4

EvictionInv == OrderInv /\ OwnersSound /\ AgeSound

(* What a step may do to the map.                                          *)
GivesUpOldest ==
  \A k \in Keys :
    (LookupHits(map, k, clock) /\ map'.entries[k] = NoOne /\ restarts' = restarts) =>
      /\ Cardinality(Known(map'.entries)) = Capacity
      /\ \A j \in Known(map'.entries) : map'.entries[j].seq > map.entries[k].seq

(* Records expire in the order in which they were made, and so the loop    *)
(* never pops an expired one from behind one that has to stay.             *)
LEMMA InsertGivesUp ==
  ASSUME TypeOK, EvictionInv, NEW k \in Keys, NEW p \in Jobs,
         NEW o \in Accounts \cup {NoOne}, NEW r \in Nat, NEW x \in Nat,
         x = r + TTL, clock < x,
         \A j \in Known(map.entries) : map.entries[j].recorded <= r,
         map' = InsertRecord(map, k, p, o, x, r, clock)
  PROVE  GivesUpOldest
<1> SUFFICES ASSUME NEW v \in Keys, LookupHits(map, v, clock), map'.entries[v] = NoOne
             PROVE  /\ Cardinality(Known(map'.entries)) = Capacity
                    /\ \A j \in Known(map'.entries) : map'.entries[j].seq > map.entries[v].seq
  BY DEF GivesUpOldest
<1>1. /\ map \in MapType /\ clock \in Nat /\ MapSound(map) /\ Ordered(map)
      /\ v \in Known(map.entries) /\ clock < map.entries[v].expires
      /\ TTL \in Nat
  BY OwnersAssumption DEF TypeOK, EvictionInv, OrderInv, LookupHits, Known
<1>2. \A j \in Known(map.entries) : /\ map.entries[j].expires = map.entries[j].recorded + TTL
                                    /\ map.entries[j].recorded \in Nat
  BY <1>1, KnownBelow DEF EvictionInv, OwnersSound, RecordsSound, MapSound
<1>3. ExpireInOrder(map.entries)
  BY <1>1, <1>2 DEF ExpireInOrder, EvictionInv, AgeSound, AgesInOrder
<1>4. \A j \in Known(map.entries) : map.entries[j].expires <= x
  BY <1>1, <1>2
<1> QED
  BY <1>1, <1>3, <1>4, InsertEvictsOldest

(* A record that has not expired is given up only by a full map, and then  *)
(* it is older than everything that stays: also after a restart, because   *)
(* the oldest are restored first.                                          *)
THEOREM OldestEvicted == Spec => EvictsOldest
<1>1. Init => AgeSound
  BY DEF Init, EmptyMap, AgeSound, Aged, AgesInOrder, Known
<1>2. TypeOK /\ OrderInv /\ AgeSound /\ [Next]_vars => AgeSound'
  <2> SUFFICES ASSUME TypeOK, OrderInv, AgeSound, [Next]_vars PROVE AgeSound'
    OBVIOUS
  <2>1. CASE UNCHANGED vars
    BY <2>1 DEF vars, AgeSound, Aged, AgesInOrder, Known
  <2> QED
    BY <2>1, RecordAges, OtherAges DEF Next
<1>3. TypeOK /\ EvictionInv /\ [Next]_vars => [GivesUpOldest]_vars
  <2> SUFFICES ASSUME TypeOK, EvictionInv, Next PROVE GivesUpOldest
    OBVIOUS
  <2>0. TTL \in Nat \ {0} /\ clock \in Nat /\ map \in MapType
    BY OwnersAssumption DEF TypeOK
  <2>1. CASE UNCHANGED map
    BY <2>1 DEF GivesUpOldest, LookupHits
  <2>2. CASE Restart
    <3>1. restarts' # restarts
      BY <2>2 DEF Restart, TypeOK
    <3> QED
      BY <3>1 DEF GivesUpOldest
  <2>3. ASSUME NEW p \in Jobs, Assign(p) PROVE GivesUpOldest
    <3>1. ownerOf[p] \in Accounts \cup {NoOne} /\ map' = AssignOwner(map, p, ownerOf[p])
      BY <2>3 DEF Assign, TypeOK
    <3>2. Known(map'.entries) = Known(map.entries)
      BY <2>0, <3>1, AssignEntries
    <3> QED
      BY <3>2 DEF GivesUpOldest, LookupHits, Known
  <2>4. CASE Record
    <3>1. /\ recorder.key \in Keys /\ recorder.prompt \in Jobs
          /\ recorder.owner \in Accounts \cup {NoOne}
      BY <2>4 DEF Record, TypeOK
    <3>2. clock + TTL \in Nat /\ clock < clock + TTL
      BY <2>0
    <3>3. map' = InsertRecord(map, recorder.key, recorder.prompt, recorder.owner,
                              clock + TTL, clock, clock)
      BY <2>4 DEF Record
    <3>4. \A j \in Known(map.entries) : map.entries[j].recorded <= clock
      BY DEF EvictionInv, AgeSound
    <3> QED
      BY <2>0, <3>1, <3>2, <3>3, <3>4, InsertGivesUp
  <2>5. CASE RestoreNext
    <3>1. PICK e \in loading :
            map' = IF map.entries[e.key] # NoOne THEN map
                   ELSE InsertRecord(map, e.key, e.prompt, e.owner,
                          clock + (TTL - (clock - e.recorded)), e.recorded, clock)
      BY <2>5 DEF RestoreNext
    <3>2. CASE map' = map
      BY <2>1, <3>2
    <3>3. CASE map' # map
      <4> DEFINE x == clock + (TTL - (clock - e.recorded))
      <4>1. e \in PersistedOutput
        BY DEF TypeOK
      <4>2. /\ e.key \in Keys /\ e.prompt \in Jobs /\ e.owner \in Accounts \cup {NoOne}
            /\ e.recorded \in Nat
        BY <4>1 DEF PersistedOutput
      <4>3. x = e.recorded + TTL /\ x \in Nat
        BY <2>0, <4>2
      <4>4. clock < e.recorded + TTL /\ \A j \in Known(map.entries) : map.entries[j].recorded <= e.recorded
        BY DEF EvictionInv, AgeSound
      <4>5. map' = InsertRecord(map, e.key, e.prompt, e.owner, x, e.recorded, clock)
        BY <3>1, <3>3
      <4> HIDE DEF x
      <4> QED
        BY <4>2, <4>3, <4>4, <4>5, InsertGivesUp
    <3> QED
      BY <3>2, <3>3
  <2>6. ASSUME \/ \E p \in Jobs, k \in Keys : ReadOwner(p, k)
               \/ MarkRecorded
               \/ \E p \in Jobs : BindOwner(p) \/ MarkAssigned(p)
               \/ \E f \in Flushers : Flush(f)
               \/ Tick
        PROVE  UNCHANGED map
    BY <2>6 DEF ReadOwner, MarkRecorded, BindOwner, MarkAssigned, Flush, SwapDirty,
       Snapshot, Rename, Truncate, WriteInPlace, SaveFails, Tick
  <2> QED
    BY <2>1, <2>2, <2>3, <2>4, <2>5, <2>6 DEF Next, Reactor, Submitter
<1>4. Spec => []AgeSound
  BY <1>1, <1>2, OrderCorrect, PTL DEF Spec
<1>5. Spec => [](TypeOK /\ EvictionInv)
  BY <1>4, OrderCorrect, OwnersCorrect, PTL DEF EvictionInv
<1>6. EvictsOldest <=> [][GivesUpOldest]_vars
  BY DEF EvictsOldest, GivesUpOldest
<1> QED
  BY <1>3, <1>5, <1>6, PTL DEF Spec

=============================================================================
