--------------------------- MODULE PrefsSyncProofs ---------------------------
(***************************************************************************)
(* What the pushes of PrefsSync keep, for any stores, and any number of    *)
(* changes, launches and failures.                                         *)
(***************************************************************************)
EXTENDS PrefsSync, SequenceTheorems, FiniteSetTheorems, TLAPS

-----------------------------------------------------------------------------
(* The requests on their way. *)

(* None of the requests is one of K, exactly one is. *)
NoneOf(K, reqs) == \A i \in 1..Len(reqs) : reqs[i] \notin K

OneOf(K, reqs) ==
  \E i \in 1..Len(reqs) : reqs[i] \in K /\ \A j \in 1..Len(reqs) : reqs[j] \in K => j = i

(* The pushes that the page of launch l counts with _syncing. *)
OwnPushes(l) == {r \in Request : r.kind = "push" /\ ~r.seed /\ r.launch = l}

Fetches == {r \in Request : r.kind = "fetch"}

(* A request that is sent comes last. *)
LEMMA Sent ==
  ASSUME NEW S, NEW reqs \in Seq(S), NEW r \in S
  PROVE  /\ Append(reqs, r) \in Seq(S)
         /\ Len(Append(reqs, r)) = Len(reqs) + 1
         /\ \A i \in 1..Len(reqs) : Append(reqs, r)[i] = reqs[i]
         /\ Append(reqs, r)[Len(reqs) + 1] = r
         /\ Len(reqs) \in Nat
OBVIOUS

(* The first is answered. *)
LEMMA Answered ==
  ASSUME NEW S, NEW reqs \in Seq(S), reqs # <<>>
  PROVE  /\ Tail(reqs) \in Seq(S) /\ Head(reqs) = reqs[1] /\ Head(reqs) \in S
         /\ Len(Tail(reqs)) = Len(reqs) - 1
         /\ \A i \in 1..Len(Tail(reqs)) : Tail(reqs)[i] = reqs[i + 1]
         /\ Len(reqs) \in Nat /\ Len(reqs) >= 1
OBVIOUS

(* One of them is aborted. *)
LEMMA Aborted ==
  ASSUME NEW S, NEW reqs \in Seq(S), NEW k \in 1..Len(reqs)
  PROVE  /\ RemoveAt(reqs, k) \in Seq(S)
         /\ Len(RemoveAt(reqs, k)) = Len(reqs) - 1
         /\ Len(reqs) \in Nat
         /\ \A i \in 1..(Len(reqs) - 1) :
              RemoveAt(reqs, k)[i] = reqs[IF i < k THEN i ELSE i + 1]
<1> DEFINE a == SubSeq(reqs, 1, k - 1)
           b == SubSeq(reqs, k + 1, Len(reqs))
           n == Len(reqs)
<1>1. n \in Nat /\ k \in Int /\ 1 <= k /\ k <= n /\ \A i \in 1..n : reqs[i] \in S
  OBVIOUS
<1>2. /\ a \in Seq(S) /\ Len(a) = k - 1
      /\ \A i \in 1..(k - 1) : a[i] = reqs[i]
  <2>1. \A i \in 1..(k - 1) : reqs[i] \in S
    BY <1>1
  <2>2. /\ a \in Seq(S) /\ Len(a) = IF 1 <= k - 1 THEN (k - 1) - 1 + 1 ELSE 0
        /\ \A i \in 1..((k - 1) - 1 + 1) : a[i] = reqs[1 + i - 1]
    BY <1>1, <2>1, SubSeqProperties
  <2> HIDE DEF a
  <2>3. Len(a) = k - 1
    BY <1>1, <2>2
  <2>4. \A i \in 1..(k - 1) : i \in 1..((k - 1) - 1 + 1) /\ 1 + i - 1 = i
    BY <1>1
  <2> QED
    BY <2>2, <2>3, <2>4
<1>3. /\ b \in Seq(S) /\ Len(b) = n - k
      /\ \A i \in 1..(n - k) : b[i] = reqs[k + i]
  <2>1. \A i \in (k + 1)..n : reqs[i] \in S
    BY <1>1
  <2>2. /\ b \in Seq(S) /\ Len(b) = IF k + 1 <= n THEN n - (k + 1) + 1 ELSE 0
        /\ \A i \in 1..(n - (k + 1) + 1) : b[i] = reqs[(k + 1) + i - 1]
    BY <1>1, <2>1, SubSeqProperties
  <2> HIDE DEF b
  <2>3. Len(b) = n - k
    BY <1>1, <2>2
  <2>4. \A i \in 1..(n - k) : i \in 1..(n - (k + 1) + 1) /\ (k + 1) + i - 1 = k + i
    BY <1>1
  <2> QED
    BY <2>2, <2>3, <2>4
<1> HIDE DEF a, b
<1>4. /\ a \o b \in Seq(S) /\ Len(a \o b) = (k - 1) + (n - k)
      /\ \A i \in 1..((k - 1) + (n - k)) : (a \o b)[i] = IF i <= k - 1 THEN a[i] ELSE b[i - (k - 1)]
  BY <1>2, <1>3, ConcatProperties
<1>5. (k - 1) + (n - k) = n - 1
  BY <1>1
<1>6. ASSUME NEW i \in 1..(n - 1)
      PROVE  (a \o b)[i] = reqs[IF i < k THEN i ELSE i + 1]
  <2>1. CASE i < k
    <3>1. i \in 1..(k - 1) /\ i <= k - 1
      BY <1>1, <2>1
    <3> QED
      BY <1>2, <1>4, <1>5, <2>1, <3>1
  <2>2. CASE ~(i < k)
    <3>1. i - (k - 1) \in 1..(n - k) /\ ~(i <= k - 1) /\ k + (i - (k - 1)) = i + 1
      BY <1>1, <2>2
    <3>2. (a \o b)[i] = b[i - (k - 1)]
      BY <1>4, <1>5, <3>1
    <3> QED
      BY <1>3, <2>2, <3>1, <3>2
  <2> QED
    BY <2>1, <2>2
<1>7. RemoveAt(reqs, k) = a \o b
  BY DEF RemoveAt, a, b
<1> QED
  BY <1>1, <1>4, <1>5, <1>6, <1>7

(* How many requests are of K when one is sent or answered. *)
LEMMA CountSent ==
  ASSUME NEW S, NEW K, NEW reqs \in Seq(S), NEW r \in S
  PROVE  /\ NoneOf(K, reqs) /\ r \notin K => NoneOf(K, Append(reqs, r))
         /\ NoneOf(K, reqs) /\ r \in K => OneOf(K, Append(reqs, r))
         /\ OneOf(K, reqs) /\ r \notin K => OneOf(K, Append(reqs, r))
<1> DEFINE q == Append(reqs, r)
           n == Len(reqs) + 1
<1>1. /\ Len(q) = n /\ \A i \in 1..Len(reqs) : q[i] = reqs[i]
      /\ q[n] = r /\ Len(reqs) \in Nat
  BY Sent
<1>2. \A i \in 1..n : i = n \/ i \in 1..Len(reqs)
  BY <1>1
<1>3. n \in 1..n /\ \A i \in 1..Len(reqs) : i \in 1..n
  BY <1>1
<1> HIDE DEF q, n
<1>4. ASSUME NoneOf(K, reqs), r \notin K PROVE NoneOf(K, q)
  BY <1>1, <1>2, <1>4 DEF NoneOf
<1>5. ASSUME NoneOf(K, reqs), r \in K PROVE OneOf(K, q)
  BY <1>1, <1>2, <1>3, <1>5 DEF NoneOf, OneOf
<1>6. ASSUME OneOf(K, reqs), r \notin K PROVE OneOf(K, q)
  BY <1>1, <1>2, <1>3, <1>6 DEF OneOf
<1> QED
  BY <1>4, <1>5, <1>6 DEF q

LEMMA CountAnswered ==
  ASSUME NEW S, NEW K, NEW reqs \in Seq(S), reqs # <<>>
  PROVE  /\ NoneOf(K, reqs) => NoneOf(K, Tail(reqs))
         /\ OneOf(K, reqs) /\ Head(reqs) \in K => NoneOf(K, Tail(reqs))
         /\ OneOf(K, reqs) /\ Head(reqs) \notin K => OneOf(K, Tail(reqs))
<1> DEFINE q == Tail(reqs)
           n == Len(reqs)
<1>1. /\ Len(q) = n - 1 /\ \A i \in 1..Len(q) : q[i] = reqs[i + 1]
      /\ Head(reqs) = reqs[1] /\ n \in Nat /\ n >= 1
  BY Answered
<1>2. \A i \in 1..(n - 1) : i + 1 \in 1..n /\ i + 1 # 1
  BY <1>1
<1>3. 1 \in 1..n /\ \A i \in 1..n : i # 1 => i - 1 \in 1..(n - 1) /\ (i - 1) + 1 = i
  BY <1>1
<1>4. \A i, j \in 1..(n - 1) : i + 1 = j + 1 => i = j
  BY <1>1
<1> HIDE DEF q
<1>5. ASSUME NoneOf(K, reqs) PROVE NoneOf(K, q)
  BY <1>1, <1>2, <1>5 DEF NoneOf
<1>6. ASSUME OneOf(K, reqs), Head(reqs) \in K PROVE NoneOf(K, q)
  <2>1. \A j \in 1..n : reqs[j] \in K => j = 1
    BY <1>1, <1>3, <1>6 DEF OneOf
  <2> QED
    BY <1>1, <1>2, <2>1 DEF NoneOf
<1>7. ASSUME OneOf(K, reqs), Head(reqs) \notin K PROVE OneOf(K, q)
  <2>1. PICK i \in 1..n : reqs[i] \in K /\ \A j \in 1..n : reqs[j] \in K => j = i
    BY <1>7 DEF OneOf
  <2>2. i # 1 /\ i - 1 \in 1..Len(q) /\ q[i - 1] = reqs[i]
    BY <1>1, <1>3, <1>7, <2>1
  <2>3. ASSUME NEW j \in 1..Len(q), q[j] \in K PROVE j = i - 1
    <3>1. j + 1 = i
      BY <1>1, <1>2, <2>1, <2>3
    <3> QED
      BY <1>1, <3>1
  <2> QED
    BY <2>1, <2>2, <2>3 DEF OneOf
<1> QED
  BY <1>5, <1>6, <1>7 DEF q

-----------------------------------------------------------------------------
(* Types. *)

(* An open page has been launched. *)
TypeInv == TypeOK /\ (open => launches >= 1)

LEMMA TypeFacts ==
  ASSUME TypeInv
  PROVE  /\ open \in BOOLEAN /\ timer \in BOOLEAN /\ syncing \in BOOLEAN
         /\ pending \in BOOLEAN /\ interrupted \in BOOLEAN
         /\ net \in Seq(Request) /\ launches \in 0..MaxLaunches
         /\ local \in Snapshot /\ opened \in Snapshot
         /\ load.pc # "done" => open
         /\ open => launches \in 1..MaxLaunches
BY PrefsAssumption DEF TypeInv, TypeOK

LEMMA PutIsRequest ==
  ASSUME TypeInv, open, NEW seed \in BOOLEAN, NEW keepalive \in BOOLEAN
  PROVE  /\ Put(seed, keepalive) \in Request
         /\ Put(seed, keepalive).kind = "push" /\ Put(seed, keepalive).snap = local
         /\ Put(seed, keepalive).seed = seed /\ Put(seed, keepalive).keepalive = keepalive
         /\ Put(seed, keepalive).launch = launches
BY TypeFacts DEF Put, Request

LEMMA PushIsTyped ==
  ASSUME NEW r \in Request, r.kind = "push"
  PROVE  r.snap \in Snapshot /\ r.seed \in BOOLEAN /\ r.keepalive \in BOOLEAN
BY DEF Request

(* The requests after a synchronisation was started, or the first was      *)
(* answered.                                                               *)
LEMMA DoSyncType ==
  ASSUME TypeInv, open, NEW keepalive \in BOOLEAN, DoSync(net, keepalive)
  PROVE  net' \in Seq(Request) /\ syncing' \in BOOLEAN /\ pending' \in BOOLEAN
<1>1. Put(FALSE, keepalive) \in Request
  BY PutIsRequest
<1> QED
  BY <1>1, TypeFacts, Sent DEF DoSync

LEMMA FlushType ==
  ASSUME TypeInv, open, Flush
  PROVE  net' \in Seq(Request) /\ syncing' \in BOOLEAN /\ pending' \in BOOLEAN /\ timer' = FALSE
<1>1. CASE timer
  BY <1>1, DoSyncType DEF Flush
<1>2. CASE ~timer
  BY <1>2, TypeFacts DEF Flush
<1> QED
  BY <1>1, <1>2

LEMMA PushEndsType ==
  ASSUME TypeInv, net # <<>>, PushEnds(Head(net))
  PROVE  net' \in Seq(Request) /\ syncing' \in BOOLEAN /\ pending' \in BOOLEAN
<1>1. Tail(net) \in Seq(Request)
  BY TypeFacts, Answered
<1>2. CASE ~Current(Head(net)) \/ Head(net).seed
  BY <1>1, <1>2, TypeFacts DEF PushEnds
<1>3. CASE ~(~Current(Head(net)) \/ Head(net).seed)
  <2>1. Put(FALSE, FALSE) \in Request
    BY <1>3, PutIsRequest DEF Current
  <2>2. Append(Tail(net), Put(FALSE, FALSE)) \in Seq(Request)
    BY <1>1, <2>1, Sent
  <2> QED
    BY <1>1, <1>3, <2>2, TypeFacts DEF PushEnds
<1> QED
  BY <1>2, <1>3

(* What the server stores, and what the page is answered. *)
LEMMA FetchEndsType ==
  ASSUME TypeInv, net # <<>>, NEW answer \in Snapshot \cup {None}, FetchEnds(Head(net), answer)
  PROVE  /\ net' \in Seq(Request)
         /\ load' \in [pc : {"fetching", "answered", "applying", "done"},
                       snap : Snapshot \cup {None}]
         /\ load'.pc = "applying" => load'.snap # None
         /\ ~open => load'.pc = "done"
<1>1. Tail(net) \in Seq(Request)
  BY TypeFacts, Answered
<1> QED
  BY <1>1 DEF FetchEnds, Current, TypeInv, TypeOK

LEMMA AppliedType ==
  ASSUME TypeInv, NEW stores, load.snap # None
  PROVE  Applied(stores) \in Snapshot
<1>1. load.snap \in Snapshot /\ local \in Snapshot
  BY DEF TypeInv, TypeOK
<1> QED
  BY <1>1 DEF Applied, Snapshot

LEMMA InitTypeInv == Init => TypeInv
<1> SUFFICES ASSUME Init PROVE TypeInv
  OBVIOUS
<1>1. local \in Snapshot /\ opened \in Snapshot
  BY PrefsAssumption DEF Init, Snapshot
<1>2. server \in Snapshot \cup {None}
  BY PrefsAssumption DEF Init, Snapshot
<1>3. {open, timer, syncing, pending, interrupted} \subseteq BOOLEAN
  BY DEF Init
<1>4. /\ load \in [pc : {"fetching", "answered", "applying", "done"}, snap : Snapshot \cup {None}]
      /\ load.pc = "done"
  BY DEF Init, Loaded
<1>5. changes \in 0..MaxChanges /\ launches \in 0..MaxLaunches /\ faults \in 0..MaxFaults
  BY PrefsAssumption DEF Init
<1> QED
  BY <1>1, <1>2, <1>3, <1>4, <1>5 DEF Init, TypeInv, TypeOK

LEMMA NextTypeInv ==
  ASSUME TypeInv, [Next]_vars
  PROVE  TypeInv'
<1> USE TypeFacts
<1>1. ASSUME Open PROVE TypeInv'
  <2>1. [kind |-> "fetch", launch |-> launches + 1] \in Request
    BY <1>1, PrefsAssumption DEF Open, Request
  <2>2. net' \in Seq(Request)
    BY <1>1, <2>1, Sent DEF Open
  <2>3. /\ load' \in [pc : {"fetching", "answered", "applying", "done"},
                      snap : Snapshot \cup {None}]
        /\ load'.pc = "fetching"
    BY <1>1 DEF Open
  <2>4. launches' \in 0..MaxLaunches /\ launches' >= 1
    BY <1>1, PrefsAssumption DEF Open
  <2> QED
    BY <1>1, <2>2, <2>3, <2>4 DEF Open, TypeInv, TypeOK
<1>2. ASSUME Hide PROVE TypeInv'
  <2>1. net' \in Seq(Request) /\ syncing' \in BOOLEAN /\ pending' \in BOOLEAN /\ timer' = FALSE
    BY <1>2, FlushType DEF Hide
  <2> QED
    BY <1>2, <2>1 DEF Hide, TypeInv, TypeOK
<1>3. ASSUME Close PROVE TypeInv'
  <2>1. net' \in Seq(Request) /\ syncing' \in BOOLEAN /\ pending' \in BOOLEAN /\ timer' = FALSE
    BY <1>3, FlushType DEF Close
  <2>2. interrupted' \in BOOLEAN
    BY <1>3 DEF Close
  <2> QED
    BY <1>3, <2>1, <2>2 DEF Close, Loaded, TypeInv, TypeOK
<1>4. ASSUME Abort PROVE TypeInv'
  <2>1. net' \in Seq(Request)
    BY <1>4, Aborted DEF Abort
  <2> QED
    BY <1>4, <2>1 DEF Abort, page, TypeInv, TypeOK
<1>5. ASSUME TimerFires PROVE TypeInv'
  <2>1. net' \in Seq(Request) /\ syncing' \in BOOLEAN /\ pending' \in BOOLEAN
    BY <1>5, DoSyncType DEF TimerFires
  <2> QED
    BY <1>5, <2>1 DEF TimerFires, TypeInv, TypeOK
<1>6. ASSUME NEW s \in Stores, Change(s) PROVE TypeInv'
  <2>1. local' \in Snapshot /\ changes' \in 0..MaxChanges
    BY <1>6, PrefsAssumption DEF Change, TypeInv, TypeOK, Snapshot
  <2>2. timer' \in BOOLEAN
    BY <1>6 DEF Change
  <2> QED
    BY <1>6, <2>1, <2>2 DEF Change, TypeInv, TypeOK
<1>7. ASSUME ServePush PROVE TypeInv'
  <2>1. net' \in Seq(Request) /\ syncing' \in BOOLEAN /\ pending' \in BOOLEAN
    BY <1>7, PushEndsType DEF ServePush
  <2>2. server' \in Snapshot
    BY <1>7, Answered, PushIsTyped DEF ServePush
  <2> QED
    BY <1>7, <2>1, <2>2 DEF ServePush, PushEnds, TypeInv, TypeOK
<1>8. ASSUME ServeFetch PROVE TypeInv'
  <2>1. server \in Snapshot \cup {None}
    BY DEF TypeInv, TypeOK
  <2>2. /\ net' \in Seq(Request)
        /\ load' \in [pc : {"fetching", "answered", "applying", "done"},
                      snap : Snapshot \cup {None}]
        /\ load'.pc = "applying" => load'.snap # None
        /\ ~open => load'.pc = "done"
    BY <1>8, <2>1, FetchEndsType DEF ServeFetch
  <2> QED
    BY <1>8, <2>2 DEF ServeFetch, FetchEnds, page, TypeInv, TypeOK
<1>9. ASSUME Fail PROVE TypeInv'
  <2>1. faults' \in 0..MaxFaults
    BY <1>9, PrefsAssumption DEF Fail, TypeInv, TypeOK
  <2>2. CASE Head(net).kind = "push" /\ PushEnds(Head(net)) /\ UNCHANGED load
    <3>1. net' \in Seq(Request) /\ syncing' \in BOOLEAN /\ pending' \in BOOLEAN
      BY <1>9, <2>2, PushEndsType DEF Fail
    <3> QED
      BY <1>9, <2>1, <2>2, <3>1 DEF Fail, PushEnds, TypeInv, TypeOK
  <2>3. CASE Head(net).kind = "fetch" /\ FetchEnds(Head(net), None)
    <3>1. /\ net' \in Seq(Request)
          /\ load' \in [pc : {"fetching", "answered", "applying", "done"},
                        snap : Snapshot \cup {None}]
          /\ load'.pc = "applying" => load'.snap # None
          /\ ~open => load'.pc = "done"
      BY <1>9, <2>3, FetchEndsType DEF Fail
    <3> QED
      BY <1>9, <2>1, <2>3, <3>1 DEF Fail, FetchEnds, page, TypeInv, TypeOK
  <2> QED
    BY <1>9, <2>2, <2>3 DEF Fail
<1>10. ASSUME Seed PROVE TypeInv'
  <2>1. open /\ Put(TRUE, FALSE) \in Request
    BY <1>10, PutIsRequest DEF Seed
  <2>2. net' \in Seq(Request)
    BY <1>10, <2>1, Sent DEF Seed
  <2> QED
    BY <1>10, <2>2 DEF Seed, Loaded, page, TypeInv, TypeOK
<1>11. ASSUME ApplyEarly PROVE TypeInv'
  <2>1. local' \in Snapshot
    BY <1>11, AppliedType DEF ApplyEarly
  <2> QED
    BY <1>11, <2>1 DEF ApplyEarly, page, TypeInv, TypeOK
<1>12. ASSUME ApplyLate PROVE TypeInv'
  <2>1. local' \in Snapshot
    BY <1>12, AppliedType DEF ApplyLate, TypeInv, TypeOK
  <2>2. timer' \in BOOLEAN
    BY <1>12 DEF ApplyLate
  <2> QED
    BY <1>12, <2>1, <2>2 DEF ApplyLate, Loaded, TypeInv, TypeOK
<1>13. ASSUME UNCHANGED vars PROVE TypeInv'
  BY <1>13 DEF vars, page, TypeInv, TypeOK
<1> QED
  BY <1>1, <1>2, <1>3, <1>4, <1>5, <1>6, <1>7, <1>8, <1>9, <1>10, <1>11, <1>12, <1>13 DEF Next

-----------------------------------------------------------------------------
(* What is in flight. *)

SentBy(l, reqs) == \A i \in 1..Len(reqs) : reqs[i].launch <= l

(* _syncing is set exactly while one push of the open page is on its way;  *)
(* no request is of a launch still to come.                                *)
Flight(op, l, sync, pend, reqs) ==
  /\ SentBy(l, reqs)
  /\ op /\ sync => OneOf(OwnPushes(l), reqs)
  /\ op /\ ~sync => NoneOf(OwnPushes(l), reqs) /\ ~pend

FlightInv == TypeInv /\ Flight(open, launches, syncing, pending, net)

LEMMA SentByKept ==
  ASSUME NEW reqs \in Seq(Request), NEW l, SentBy(l, reqs)
  PROVE  /\ \A r \in Request : r.launch <= l => SentBy(l, Append(reqs, r))
         /\ reqs # <<>> => SentBy(l, Tail(reqs))
         /\ \A k \in 1..Len(reqs) : SentBy(l, RemoveAt(reqs, k))
<1>1. ASSUME NEW r \in Request, r.launch <= l PROVE SentBy(l, Append(reqs, r))
  <2> DEFINE q == Append(reqs, r)
  <2>1. /\ Len(q) = Len(reqs) + 1 /\ \A i \in 1..Len(reqs) : q[i] = reqs[i]
        /\ q[Len(reqs) + 1] = r /\ Len(reqs) \in Nat
    BY Sent
  <2> HIDE DEF q
  <2>2. \A i \in 1..Len(q) : i = Len(reqs) + 1 \/ i \in 1..Len(reqs)
    BY <2>1
  <2>3. SentBy(l, q)
    BY <1>1, <2>1, <2>2 DEF SentBy
  <2> QED
    BY <2>3 DEF q
<1>2. ASSUME reqs # <<>> PROVE SentBy(l, Tail(reqs))
  <2> DEFINE q == Tail(reqs)
  <2>1. /\ Len(q) = Len(reqs) - 1 /\ \A i \in 1..Len(q) : q[i] = reqs[i + 1]
        /\ Len(reqs) \in Nat
    BY <1>2, Answered
  <2> HIDE DEF q
  <2>2. \A i \in 1..Len(q) : i + 1 \in 1..Len(reqs)
    BY <2>1
  <2>3. SentBy(l, q)
    BY <2>1, <2>2 DEF SentBy
  <2> QED
    BY <2>3 DEF q
<1>3. ASSUME NEW k \in 1..Len(reqs) PROVE SentBy(l, RemoveAt(reqs, k))
  <2> DEFINE q == RemoveAt(reqs, k)
  <2>1. /\ Len(q) = Len(reqs) - 1 /\ Len(reqs) \in Nat
        /\ \A i \in 1..(Len(reqs) - 1) : q[i] = reqs[IF i < k THEN i ELSE i + 1]
    BY Aborted
  <2> HIDE DEF q
  <2>2. \A i \in 1..Len(q) : (IF i < k THEN i ELSE i + 1) \in 1..Len(reqs)
    BY <2>1
  <2>3. SentBy(l, q)
    BY <2>1, <2>2 DEF SentBy
  <2> QED
    BY <2>3 DEF q
<1> QED
  BY <1>1, <1>2, <1>3

LEMMA OwnPut ==
  ASSUME TypeInv, open, NEW seed \in BOOLEAN, NEW keepalive \in BOOLEAN
  PROVE  /\ Put(seed, keepalive) \in OwnPushes(launches) <=> ~seed
         /\ Put(seed, keepalive).launch <= launches
<1>1. launches \in Int
  BY TypeFacts
<1> QED
  BY <1>1, PutIsRequest DEF OwnPushes

(* A push of _doSync is the only one of the open page. *)
LEMMA DoSyncFlight ==
  ASSUME FlightInv, open, NEW keepalive \in BOOLEAN, DoSync(net, keepalive)
  PROVE  Flight(TRUE, launches, syncing', pending', net')
<1> USE DEF FlightInv
<1> USE TypeFacts
<1>1. CASE syncing
  BY <1>1 DEF DoSync, Flight
<1>2. CASE ~syncing
  <2> DEFINE r == Put(FALSE, keepalive)
  <2>1. r \in Request /\ r \in OwnPushes(launches) /\ r.launch <= launches
    BY PutIsRequest, OwnPut
  <2>2. NoneOf(OwnPushes(launches), net) /\ ~pending /\ SentBy(launches, net)
    BY <1>2 DEF Flight
  <2> HIDE DEF r
  <2>3. OneOf(OwnPushes(launches), Append(net, r)) /\ SentBy(launches, Append(net, r))
    BY <2>1, <2>2, CountSent, SentByKept
  <2>4. net' = Append(net, r) /\ syncing' = TRUE
    BY <1>2 DEF DoSync, r
  <2> QED
    BY <2>3, <2>4 DEF Flight
<1> QED
  BY <1>1, <1>2

LEMMA FlushFlight ==
  ASSUME FlightInv, open, Flush
  PROVE  Flight(TRUE, launches, syncing', pending', net')
<1>1. CASE timer
  BY <1>1, DoSyncFlight DEF Flush
<1>2. CASE ~timer
  BY <1>2 DEF Flush, FlightInv, Flight
<1> QED
  BY <1>1, <1>2

(* The end of a push starts the one that was asked for meanwhile. *)
LEMMA PushEndsFlight ==
  ASSUME FlightInv, net # <<>>, Head(net).kind = "push", PushEnds(Head(net))
  PROVE  Flight(open, launches, syncing', pending', net')
<1> DEFINE r == Head(net)
           own == OwnPushes(launches)
<1> USE DEF FlightInv
<1>1. /\ net \in Seq(Request) /\ r \in Request /\ Tail(net) \in Seq(Request)
      /\ r.seed \in BOOLEAN /\ pending \in BOOLEAN /\ syncing \in BOOLEAN /\ open \in BOOLEAN
  BY TypeFacts, Answered, PushIsTyped
<1>2. SentBy(launches, net) /\ SentBy(launches, Tail(net))
  BY <1>1, SentByKept DEF Flight
<1>3. CASE ~Current(r) \/ r.seed
  <2>1. net' = Tail(net) /\ syncing' = syncing /\ pending' = pending
    BY <1>3 DEF PushEnds
  <2>2. CASE open
    <3>1. r \notin own
      BY <1>3, <2>2 DEF Current, OwnPushes
    <3>2. /\ NoneOf(own, net) => NoneOf(own, Tail(net))
          /\ OneOf(own, net) => OneOf(own, Tail(net))
      BY <1>1, <3>1, CountAnswered
    <3> QED
      BY <1>2, <2>1, <2>2, <3>2 DEF Flight
  <2>3. CASE ~open
    BY <1>2, <2>1, <2>3 DEF Flight
  <2> QED
    BY <2>2, <2>3
<1>4. CASE ~(~Current(r) \/ r.seed)
  <2>1. /\ pending' = FALSE /\ syncing' = pending
        /\ net' = IF pending THEN Append(Tail(net), Put(FALSE, FALSE)) ELSE Tail(net)
    BY <1>4 DEF PushEnds
  <2>2. open /\ r \in own
    BY <1>1, <1>4 DEF Current, OwnPushes
  <2>3. syncing
    <3>1. net[1] = r /\ 1 \in 1..Len(net)
      BY <1>1, Answered
    <3>2. ~NoneOf(own, net)
      BY <2>2, <3>1 DEF NoneOf
    <3> QED
      BY <1>1, <2>2, <3>2 DEF Flight
  <2>4. OneOf(own, net)
    BY <2>2, <2>3 DEF Flight
  <2>5. NoneOf(own, Tail(net))
    BY <1>1, <2>2, <2>4, CountAnswered
  <2>6. CASE pending
    <3> DEFINE p == Put(FALSE, FALSE)
    <3>1. p \in Request /\ p \in own /\ p.launch <= launches
      BY <2>2, PutIsRequest, OwnPut
    <3> HIDE DEF p
    <3>2. OneOf(own, Append(Tail(net), p)) /\ SentBy(launches, Append(Tail(net), p))
      BY <1>1, <1>2, <2>5, <3>1, CountSent, SentByKept
    <3>3. net' = Append(Tail(net), p)
      BY <2>1, <2>6 DEF p
    <3> QED
      BY <2>1, <2>6, <3>2, <3>3 DEF Flight
  <2>7. CASE ~pending
    BY <1>2, <2>1, <2>5, <2>7 DEF Flight
  <2> QED
    BY <2>6, <2>7
<1> QED
  BY <1>3, <1>4

(* The answer to a fetch is none of the page's pushes. *)
LEMMA FetchEndsFlight ==
  ASSUME FlightInv, net # <<>>, Head(net).kind = "fetch", NEW answer, FetchEnds(Head(net), answer)
  PROVE  Flight(open, launches, syncing', pending', net')
<1> DEFINE own == OwnPushes(launches)
<1>1. /\ net \in Seq(Request) /\ net' = Tail(net)
      /\ syncing' = syncing /\ pending' = pending
  BY TypeFacts DEF FlightInv, FetchEnds, page
<1>2. Head(net) \notin own
  BY DEF OwnPushes
<1>3. /\ NoneOf(own, net) => NoneOf(own, Tail(net))
      /\ OneOf(own, net) => OneOf(own, Tail(net))
  BY <1>1, <1>2, CountAnswered
<1>4. SentBy(launches, Tail(net))
  BY <1>1, SentByKept DEF FlightInv, Flight
<1> QED
  BY <1>1, <1>3, <1>4 DEF FlightInv, Flight

LEMMA InitFlightInv == Init => FlightInv
<1> SUFFICES ASSUME Init PROVE FlightInv
  OBVIOUS
<1>1. net = <<>> /\ open = FALSE /\ 1..Len(net) = {}
  BY DEF Init
<1> QED
  BY <1>1, InitTypeInv DEF FlightInv, Flight, SentBy

LEMMA NextFlightInv ==
  ASSUME FlightInv, [Next]_vars
  PROVE  FlightInv'
<1>0. TypeInv'
  BY NextTypeInv DEF FlightInv
<1> SUFFICES Flight(open, launches, syncing, pending, net)'
  BY <1>0 DEF FlightInv
<1> USE TypeFacts DEF FlightInv
<1>1. ASSUME Open PROVE Flight(open, launches, syncing, pending, net)'
  <2> DEFINE r == [kind |-> "fetch", launch |-> launches + 1]
             own == OwnPushes(launches + 1)
  <2>1. /\ net' = Append(net, r) /\ launches' = launches + 1
        /\ syncing' = FALSE /\ pending' = FALSE /\ launches \in Nat
    BY <1>1, PrefsAssumption DEF Open
  <2>2. r \in Request /\ r \notin own
    BY <1>1, PrefsAssumption DEF Open, Request, OwnPushes
  <2>3. \A i \in 1..Len(net) : net[i] \in Request /\ net[i].launch <= launches
    BY DEF Flight, SentBy
  <2>4. \A i \in 1..Len(net) : net[i].launch \in Int
    BY <2>3, PrefsAssumption DEF Request
  <2>5. \A i \in 1..Len(net) : net[i].launch <= launches + 1 /\ net[i].launch # launches + 1
    BY <2>1, <2>3, <2>4
  <2>6. NoneOf(own, net) /\ SentBy(launches + 1, net)
    BY <2>5 DEF NoneOf, SentBy, OwnPushes
  <2>7. r.launch <= launches + 1
    BY <2>1
  <2> HIDE DEF r
  <2>8. NoneOf(own, Append(net, r)) /\ SentBy(launches + 1, Append(net, r))
    BY <2>2, <2>6, <2>7, CountSent, SentByKept
  <2> QED
    BY <2>1, <2>8 DEF Flight
<1>2. ASSUME Hide PROVE Flight(open, launches, syncing, pending, net)'
  <2>1. Flight(TRUE, launches, syncing', pending', net')
    BY <1>2, FlushFlight DEF Hide
  <2> QED
    BY <1>2, <2>1 DEF Hide
<1>3. ASSUME Close PROVE Flight(open, launches, syncing, pending, net)'
  <2>1. Flight(TRUE, launches, syncing', pending', net')
    BY <1>3, FlushFlight DEF Close
  <2> QED
    BY <1>3, <2>1 DEF Close, Flight
<1>4. ASSUME Abort PROVE Flight(open, launches, syncing, pending, net)'
  <2>1. PICK k \in 1..Len(net) : net' = RemoveAt(net, k)
    BY <1>4 DEF Abort
  <2>2. SentBy(launches, RemoveAt(net, k))
    BY SentByKept DEF Flight
  <2> QED
    BY <1>4, <2>1, <2>2 DEF Abort, page, Flight
<1>5. ASSUME TimerFires PROVE Flight(open, launches, syncing, pending, net)'
  <2>1. Flight(TRUE, launches, syncing', pending', net')
    BY <1>5, DoSyncFlight DEF TimerFires
  <2> QED
    BY <1>5, <2>1 DEF TimerFires
<1>6. ASSUME NEW s \in Stores, Change(s) PROVE Flight(open, launches, syncing, pending, net)'
  BY <1>6 DEF Change
<1>7. ASSUME ServePush PROVE Flight(open, launches, syncing, pending, net)'
  <2>1. Flight(open, launches, syncing', pending', net')
    BY <1>7, PushEndsFlight DEF ServePush
  <2> QED
    BY <1>7, <2>1 DEF ServePush, PushEnds
<1>8. ASSUME ServeFetch PROVE Flight(open, launches, syncing, pending, net)'
  <2>1. Flight(open, launches, syncing', pending', net')
    BY <1>8, FetchEndsFlight DEF ServeFetch
  <2> QED
    BY <1>8, <2>1 DEF ServeFetch, FetchEnds, page
<1>9. ASSUME Fail PROVE Flight(open, launches, syncing, pending, net)'
  <2>1. Flight(open, launches, syncing', pending', net')
    BY <1>9, PushEndsFlight, FetchEndsFlight DEF Fail
  <2> QED
    BY <1>9, <2>1 DEF Fail, PushEnds, FetchEnds, page
<1>10. ASSUME Seed PROVE Flight(open, launches, syncing, pending, net)'
  <2> DEFINE r == Put(TRUE, FALSE)
             own == OwnPushes(launches)
  <2>1. open /\ r \in Request /\ r \notin own /\ r.launch <= launches
    BY <1>10, PutIsRequest, OwnPut DEF Seed
  <2>2. SentBy(launches, net)
    BY DEF Flight
  <2> HIDE DEF r
  <2>3. /\ NoneOf(own, net) => NoneOf(own, Append(net, r))
        /\ OneOf(own, net) => OneOf(own, Append(net, r))
        /\ SentBy(launches, Append(net, r))
    BY <2>1, <2>2, CountSent, SentByKept
  <2>4. net' = Append(net, r) /\ UNCHANGED <<open, launches, syncing, pending>>
    BY <1>10 DEF Seed, page, r
  <2> QED
    BY <2>3, <2>4 DEF Flight
<1>11. ASSUME ApplyEarly PROVE Flight(open, launches, syncing, pending, net)'
  BY <1>11 DEF ApplyEarly, page
<1>12. ASSUME ApplyLate PROVE Flight(open, launches, syncing, pending, net)'
  BY <1>12 DEF ApplyLate
<1>13. ASSUME UNCHANGED vars PROVE Flight(open, launches, syncing, pending, net)'
  BY <1>13 DEF vars, page
<1> QED
  BY <1>1, <1>2, <1>3, <1>4, <1>5, <1>6, <1>7, <1>8, <1>9, <1>10, <1>11, <1>12, <1>13 DEF Next

LEMMA FlightAlways == Spec => []FlightInv
<1>1. Init => FlightInv
  BY InitFlightInv
<1>2. FlightInv /\ [Next]_vars => FlightInv'
  BY NextFlightInv
<1> QED
  BY <1>1, <1>2, PTL DEF Spec

(* Types: a snapshot has a number for every store, and only an open page   *)
(* has a timer, or a loadAndApply under way.                               *)
THEOREM TypeCorrect == Spec => []TypeOK
<1>1. FlightInv => TypeOK
  BY DEF FlightInv, TypeInv
<1> QED
  BY <1>1, FlightAlways, PTL

(* _syncing stands for exactly one push of the open page, and a push that  *)
(* was asked for meanwhile is noted only while there is one that ends.     *)
THEOREM SyncingIsAPush == Spec => []PushInFlight
<1>1. ASSUME FlightInv PROVE PushInFlight
  <2> SUFFICES ASSUME open
               PROVE  /\ Cardinality(InFlight) = IF syncing THEN 1 ELSE 0
                      /\ pending => syncing
    BY DEF PushInFlight
  <2> DEFINE own == OwnPushes(launches)
  <2>1. net \in Seq(Request) /\ syncing \in BOOLEAN
    BY <1>1, TypeFacts DEF FlightInv
  <2>2. InFlight = {i \in 1..Len(net) : net[i] \in own}
    BY <2>1 DEF InFlight, Current, OwnPushes
  <2>3. CASE syncing
    <3>1. PICK i \in 1..Len(net) :
            net[i] \in own /\ \A j \in 1..Len(net) : net[j] \in own => j = i
      BY <1>1, <2>3 DEF FlightInv, Flight, OneOf
    <3>2. InFlight = {i}
      BY <2>2, <3>1
    <3> QED
      BY <2>3, <3>2, FS_Singleton
  <2>4. CASE ~syncing
    <3>1. NoneOf(own, net) /\ ~pending
      BY <1>1, <2>4 DEF FlightInv, Flight
    <3>2. InFlight = {}
      BY <2>2, <3>1 DEF NoneOf
    <3> QED
      BY <2>4, <3>1, <3>2, FS_EmptySet
  <2> QED
    BY <2>3, <2>4
<1> QED
  BY <1>1, FlightAlways, PTL

-----------------------------------------------------------------------------
(* What the server will be asked to store. *)

(* A push of _doSync, and a push that none of those follows among the      *)
(* first n requests.                                                       *)
Counts(r) == r.kind = "push" /\ ~r.seed

Final(reqs, n, i) == reqs[i].kind = "push" /\ \A j \in (i + 1)..n : ~Counts(reqs[j])

(* Whatever of the seeds is aborted, once the first n requests are served  *)
(* the server has store s no older than v.                                 *)
Settled(reqs, n, held, s, v) ==
  /\ \A i \in 1..n : Final(reqs, n, i) => reqs[i].snap[s] >= v
  /\ (\A i \in 1..n : ~Counts(reqs[i])) /\ held # None => held[s] >= v

(* Only the first n requests matter. *)
LEMMA SettledPrefix ==
  ASSUME NEW reqs, NEW q, NEW n \in Nat, NEW held, NEW s, NEW v,
         \A i \in 1..n : q[i] = reqs[i], Settled(reqs, n, held, s, v)
  PROVE  Settled(q, n, held, s, v)
<1>1. \A i \in 1..n : \A j \in (i + 1)..n : j \in 1..n
  OBVIOUS
<1>2. \A i \in 1..n : Final(q, n, i) => Final(reqs, n, i)
  BY <1>1 DEF Final
<1> QED
  BY <1>2 DEF Settled

(* The last push of _doSync decides. *)
LEMMA SettledByPush ==
  ASSUME NEW reqs \in Seq(Request), NEW r \in Request, Counts(r),
         NEW held, NEW s, NEW v, r.snap[s] >= v
  PROVE  Settled(Append(reqs, r), Len(reqs) + 1, held, s, v)
<1> DEFINE q == Append(reqs, r)
           n == Len(reqs)
<1>1. /\ \A i \in 1..n : q[i] = reqs[i]
      /\ q[n + 1] = r /\ n \in Nat
  BY Sent
<1> HIDE DEF q, n
<1>2. n + 1 \in 1..(n + 1) /\ \A i \in 1..(n + 1) : i # n + 1 => n + 1 \in (i + 1)..(n + 1)
  BY <1>1
<1>3. \A i \in 1..(n + 1) : Final(q, n + 1, i) => i = n + 1
  BY <1>1, <1>2 DEF Final
<1>4. Settled(q, n + 1, held, s, v)
  BY <1>1, <1>2, <1>3 DEF Settled
<1> QED
  BY <1>4 DEF q, n

LEMMA SettledByOther ==
  ASSUME NEW reqs \in Seq(Request), NEW r \in Request, ~Counts(r),
         NEW held, NEW s, NEW v, r.kind = "push" => r.snap[s] >= v,
         Settled(reqs, Len(reqs), held, s, v)
  PROVE  Settled(Append(reqs, r), Len(reqs) + 1, held, s, v)
<1> DEFINE q == Append(reqs, r)
           n == Len(reqs)
<1>1. /\ \A i \in 1..n : q[i] = reqs[i]
      /\ q[n + 1] = r /\ n \in Nat
  BY Sent
<1>2. Settled(reqs, n, held, s, v)
  OBVIOUS
<1> HIDE DEF q, n
<1>3. \A i \in 1..n : i \in 1..(n + 1) /\ \A j \in (i + 1)..n : j \in (i + 1)..(n + 1) /\ j \in 1..n
  BY <1>1
<1>4. \A i \in 1..(n + 1) : i = n + 1 \/ i \in 1..n
  BY <1>1
<1>5. \A i \in 1..n : Final(q, n + 1, i) => Final(reqs, n, i)
  BY <1>1, <1>3 DEF Final
<1>6. \A i \in 1..(n + 1) : Final(q, n + 1, i) => q[i].snap[s] >= v
  <2> SUFFICES ASSUME NEW i \in 1..(n + 1), Final(q, n + 1, i) PROVE q[i].snap[s] >= v
    OBVIOUS
  <2>1. CASE i = n + 1
    BY <1>1, <2>1 DEF Final
  <2>2. CASE i \in 1..n
    BY <1>1, <1>2, <1>5, <2>2 DEF Settled
  <2> QED
    BY <1>4, <2>1, <2>2
<1>7. (\A i \in 1..(n + 1) : ~Counts(q[i])) => \A i \in 1..n : ~Counts(reqs[i])
  BY <1>1, <1>3
<1>8. Settled(q, n + 1, held, s, v)
  BY <1>2, <1>6, <1>7 DEF Settled
<1> QED
  BY <1>8 DEF q, n

(* The first request is served. *)
LEMMA SettledByAnswer ==
  ASSUME NEW reqs \in Seq(Request), reqs # <<>>, NEW n \in 1..Len(reqs),
         NEW held, NEW s, NEW v, Settled(reqs, n, held, s, v)
  PROVE  /\ Head(reqs).kind = "push" => Settled(Tail(reqs), n - 1, Head(reqs).snap, s, v)
         /\ Head(reqs).kind = "fetch" => Settled(Tail(reqs), n - 1, held, s, v)
<1> DEFINE q == Tail(reqs)
           r == Head(reqs)
<1>1. /\ \A i \in 1..(n - 1) : q[i] = reqs[i + 1]
      /\ r = reqs[1] /\ n \in Nat /\ 1 \in 1..n
  <2>1. /\ \A i \in 1..(Len(reqs) - 1) : q[i] = reqs[i + 1]
        /\ r = reqs[1] /\ Len(reqs) \in Nat
    BY Answered
  <2> HIDE DEF q, r
  <2> QED
    BY <2>1
<1> HIDE DEF q, r
<1>2. \A i \in 1..(n - 1) : i + 1 \in 1..n
  BY <1>1
<1>3. \A i \in 1..(n - 1) : \A j \in (i + 2)..n : j - 1 \in (i + 1)..(n - 1) /\ (j - 1) + 1 = j
                                                  /\ j - 1 \in 1..(n - 1)
  BY <1>1
<1>4. \A i \in 1..(n - 1) : Final(q, n - 1, i) => Final(reqs, n, i + 1)
  <2> SUFFICES ASSUME NEW i \in 1..(n - 1), Final(q, n - 1, i) PROVE Final(reqs, n, i + 1)
    OBVIOUS
  <2>1. ASSUME NEW j \in (i + 2)..n PROVE ~Counts(reqs[j])
    <3>1. j - 1 \in (i + 1)..(n - 1) /\ q[j - 1] = reqs[j]
      BY <1>1, <1>3
    <3> QED
      BY <3>1 DEF Final
  <2>2. (i + 1) + 1 = i + 2 /\ reqs[i + 1].kind = "push"
    BY <1>1 DEF Final
  <2> QED
    BY <2>1, <2>2 DEF Final
<1>5. \A i \in 1..(n - 1) : Final(q, n - 1, i) => q[i].snap[s] >= v
  BY <1>1, <1>2, <1>4 DEF Settled
<1>6. ASSUME \A i \in 1..(n - 1) : ~Counts(q[i])
      PROVE  \A j \in (1 + 1)..n : ~Counts(reqs[j])
  <2> SUFFICES ASSUME NEW j \in (1 + 1)..n PROVE ~Counts(reqs[j])
    OBVIOUS
  <2>1. j - 1 \in 1..(n - 1) /\ (j - 1) + 1 = j
    BY <1>1
  <2> QED
    BY <1>1, <1>6, <2>1
<1>7. ASSUME r.kind = "push" PROVE Settled(q, n - 1, r.snap, s, v)
  <2>1. ASSUME \A i \in 1..(n - 1) : ~Counts(q[i]) PROVE r.snap[s] >= v
    <3>1. Final(reqs, n, 1)
      BY <1>1, <1>6, <1>7, <2>1 DEF Final
    <3> QED
      BY <1>1, <3>1 DEF Settled
  <2> QED
    BY <1>5, <2>1 DEF Settled
<1>8. ASSUME r.kind = "fetch" PROVE Settled(q, n - 1, held, s, v)
  <2>1. ASSUME \A i \in 1..(n - 1) : ~Counts(q[i]), held # None PROVE held[s] >= v
    <3>1. \A i \in 1..n : i = 1 \/ i \in (1 + 1)..n
      BY <1>1
    <3>2. ~Counts(r)
      BY <1>8 DEF Counts
    <3>3. \A i \in 1..n : ~Counts(reqs[i])
      BY <1>1, <1>6, <2>1, <3>1, <3>2
    <3> QED
      BY <2>1, <3>3 DEF Settled
  <2> QED
    BY <1>5, <2>1 DEF Settled
<1> QED
  BY <1>7, <1>8 DEF q, r

(* A request that is no push of _doSync is aborted. *)
LEMMA SettledByAbort ==
  ASSUME NEW reqs \in Seq(Request), NEW k \in 1..Len(reqs), ~Counts(reqs[k]),
         NEW held, NEW s, NEW v, Settled(reqs, Len(reqs), held, s, v)
  PROVE  Settled(RemoveAt(reqs, k), Len(reqs) - 1, held, s, v)
<1> DEFINE q == RemoveAt(reqs, k)
           n == Len(reqs)
           at(i) == IF i < k THEN i ELSE i + 1
<1>1. n \in Nat /\ \A i \in 1..(n - 1) : q[i] = reqs[at(i)]
  BY Aborted
<1>2. Settled(reqs, n, held, s, v) /\ k \in 1..n
  OBVIOUS
<1> HIDE DEF q, n
<1>3. \A i \in 1..(n - 1) : at(i) \in 1..n
  BY <1>1, <1>2
<1>4. \A j \in 1..n : j # k => \E i \in 1..(n - 1) : at(i) = j
  <2> SUFFICES ASSUME NEW j \in 1..n, j # k PROVE \E i \in 1..(n - 1) : at(i) = j
    OBVIOUS
  <2>1. CASE j < k
    <3>1. j \in 1..(n - 1) /\ at(j) = j
      BY <1>1, <1>2, <2>1
    <3> QED
      BY <3>1
  <2>2. CASE j > k
    <3>1. j - 1 \in 1..(n - 1) /\ at(j - 1) = j
      BY <1>1, <1>2, <2>2
    <3> QED
      BY <3>1
  <2> QED
    BY <1>2, <2>1, <2>2
<1>5. ASSUME NEW i \in 1..(n - 1), Final(q, n - 1, i) PROVE Final(reqs, n, at(i))
  <2>1. ASSUME NEW j \in (at(i) + 1)..n PROVE ~Counts(reqs[j])
    <3>1. CASE j = k
      BY <3>1
    <3>2. CASE j # k
      <4>1. j \in 1..n
        BY <1>1, <1>3
      <4>2. PICK m \in 1..(n - 1) : at(m) = j
        BY <1>4, <3>2, <4>1
      <4>3. m \in (i + 1)..(n - 1)
        BY <1>1, <1>2, <4>2
      <4> QED
        BY <1>1, <1>5, <4>2, <4>3 DEF Final
    <3> QED
      BY <3>1, <3>2
  <2>2. reqs[at(i)].kind = "push"
    BY <1>1, <1>5 DEF Final
  <2> QED
    BY <2>1, <2>2 DEF Final
<1>6. \A i \in 1..(n - 1) : Final(q, n - 1, i) => q[i].snap[s] >= v
  <2> SUFFICES ASSUME NEW i \in 1..(n - 1), Final(q, n - 1, i) PROVE q[i].snap[s] >= v
    OBVIOUS
  <2>1. Final(reqs, n, at(i)) /\ at(i) \in 1..n
    BY <1>3, <1>5
  <2>2. q[i] = reqs[at(i)]
    BY <1>1
  <2> HIDE DEF at
  <2> QED
    BY <1>2, <2>1, <2>2 DEF Settled
<1>7. ASSUME \A i \in 1..(n - 1) : ~Counts(q[i]) PROVE \A j \in 1..n : ~Counts(reqs[j])
  <2> SUFFICES ASSUME NEW j \in 1..n, j # k PROVE ~Counts(reqs[j])
    OBVIOUS
  <2>1. PICK m \in 1..(n - 1) : at(m) = j
    BY <1>4
  <2> QED
    BY <1>1, <1>7, <2>1
<1>8. Settled(q, n - 1, held, s, v)
  BY <1>2, <1>6, <1>7 DEF Settled
<1> QED
  BY <1>8 DEF q, n

-----------------------------------------------------------------------------
(* Nothing is closed too early, and no request fails. *)

(* The fetch of the open page is on its way while loadAndApply waits for   *)
(* it, and no other is; a push that does not outlive its page is of the    *)
(* page that is open.                                                      *)
FetchWaitedFor(ld, reqs) ==
  IF ld.pc = "fetching" THEN OneOf(Fetches, reqs) ELSE NoneOf(Fetches, reqs)

PushesAlive(op, l, reqs) ==
  \A i \in 1..Len(reqs) : Counts(reqs[i]) /\ ~reqs[i].keepalive => op /\ reqs[i].launch = l

CurrentFetch(l, reqs) ==
  \A i \in 1..Len(reqs) : reqs[i].kind = "fetch" => reqs[i].launch = l

(* What the browser keeps is on its way to the server or there, or will be *)
(* pushed by the open page.                                                *)
Saved(s) ==
  load.pc # "applying" =>
    (open /\ (timer \/ pending)) \/ Settled(net, Len(net), server, s, local[s])

(* So is what the page started from, before its fetch is served. *)
AskedAfter(reqs, held, s, v) ==
  \A f \in 1..Len(reqs) : reqs[f].kind = "fetch" => Settled(reqs, f - 1, held, s, v)

AnsweredFresh(ld, s, v) ==
  ld.pc = "answered" /\ ld.snap # None => ld.snap[s] >= v

Clean == ~interrupted /\ faults = 0

CleanInv ==
  Clean =>
    /\ FetchWaitedFor(load, net) /\ CurrentFetch(launches, net) /\ PushesAlive(open, launches, net)
    /\ \A s \in Stores \ Quiet :
         Saved(s) /\ AskedAfter(net, server, s, opened[s]) /\ AnsweredFresh(load, s, opened[s])

IInv == FlightInv /\ CleanInv

(* A push is sent: no fetch is before it that was not before.              *)
LEMMA PushSent ==
  ASSUME NEW reqs \in Seq(Request), NEW r \in Request, r.kind = "push"
  PROVE  /\ \A ld : FetchWaitedFor(ld, reqs) => FetchWaitedFor(ld, Append(reqs, r))
         /\ \A l : CurrentFetch(l, reqs) => CurrentFetch(l, Append(reqs, r))
         /\ \A op, l : PushesAlive(op, l, reqs) /\ (Counts(r) /\ ~r.keepalive => op /\ r.launch = l)
              => PushesAlive(op, l, Append(reqs, r))
         /\ \A held, s, v : AskedAfter(reqs, held, s, v) => AskedAfter(Append(reqs, r), held, s, v)
<1> DEFINE q == Append(reqs, r)
           n == Len(reqs)
<1>1. /\ Len(q) = n + 1 /\ \A i \in 1..n : q[i] = reqs[i]
      /\ q[n + 1] = r /\ n \in Nat
  BY Sent
<1>2. r \notin Fetches
  BY DEF Fetches
<1>3. /\ NoneOf(Fetches, reqs) => NoneOf(Fetches, q)
      /\ OneOf(Fetches, reqs) => OneOf(Fetches, q)
  BY <1>2, CountSent
<1> HIDE DEF q, n
<1>4. \A i \in 1..(n + 1) : i = n + 1 \/ i \in 1..n
  BY <1>1
<1>5. \A ld : FetchWaitedFor(ld, reqs) => FetchWaitedFor(ld, q)
  BY <1>3 DEF FetchWaitedFor
<1>6. \A l : CurrentFetch(l, reqs) => CurrentFetch(l, q)
  BY <1>1, <1>4 DEF CurrentFetch, n
<1>7. ASSUME NEW op, NEW l, PushesAlive(op, l, reqs),
             Counts(r) /\ ~r.keepalive => op /\ r.launch = l
      PROVE  PushesAlive(op, l, q)
  BY <1>1, <1>4, <1>7 DEF PushesAlive, n
<1>8. ASSUME NEW held, NEW s, NEW v, AskedAfter(reqs, held, s, v)
      PROVE  AskedAfter(q, held, s, v)
  <2> SUFFICES ASSUME NEW f \in 1..Len(q), q[f].kind = "fetch"
               PROVE  Settled(q, f - 1, held, s, v)
    BY DEF AskedAfter
  <2>1. f \in 1..n /\ reqs[f].kind = "fetch"
    BY <1>1, <1>4
  <2>2. Settled(reqs, f - 1, held, s, v)
    BY <1>8, <2>1 DEF AskedAfter, n
  <2>3. f - 1 \in Nat /\ \A i \in 1..(f - 1) : i \in 1..n
    BY <1>1, <2>1
  <2>4. \A i \in 1..(f - 1) : q[i] = reqs[i]
    BY <1>1, <2>3
  <2> QED
    BY <2>2, <2>3, <2>4, SettledPrefix
<1> QED
  BY <1>5, <1>6, <1>7, <1>8 DEF q

(* The push of _doSync carries what the browser keeps. *)
LEMMA PutSent ==
  ASSUME TypeInv, open, NEW reqs \in Seq(Request), NEW op \in BOOLEAN, NEW keepalive \in BOOLEAN,
         op \/ keepalive, FetchWaitedFor(load, reqs), CurrentFetch(launches, reqs),
         PushesAlive(op, launches, reqs)
  PROVE  LET q == Append(reqs, Put(FALSE, keepalive))
         IN  /\ FetchWaitedFor(load, q) /\ CurrentFetch(launches, q) /\ PushesAlive(op, launches, q)
             /\ \A held, s, v : AskedAfter(reqs, held, s, v) => AskedAfter(q, held, s, v)
             /\ \A s \in Stores : \A held : Settled(q, Len(q), held, s, local[s])
<1> DEFINE r == Put(FALSE, keepalive)
           q == Append(reqs, r)
<1>1. /\ r \in Request /\ r.kind = "push" /\ r.snap = local /\ r.seed = FALSE
      /\ r.keepalive = keepalive /\ r.launch = launches
  BY PutIsRequest
<1> HIDE DEF r
<1>2. Len(q) = Len(reqs) + 1
  BY <1>1, Sent
<1>3. Counts(r)
  BY <1>1 DEF Counts
<1>4. /\ FetchWaitedFor(load, q) /\ CurrentFetch(launches, q)
      /\ \A held, s, v : AskedAfter(reqs, held, s, v) => AskedAfter(q, held, s, v)
  BY <1>1, PushSent
<1>5. PushesAlive(op, launches, q)
  <2>1. Counts(r) /\ ~r.keepalive => op /\ r.launch = launches
    BY <1>1
  <2> QED
    BY <1>1, <2>1, PushSent
<1>6. ASSUME NEW s \in Stores, NEW held PROVE Settled(q, Len(q), held, s, local[s])
  <2>1. local[s] \in Int /\ r.snap[s] >= local[s]
    BY <1>1, TypeFacts, PrefsAssumption DEF Snapshot
  <2>2. Settled(q, Len(reqs) + 1, held, s, local[s])
    BY <1>1, <1>3, <2>1, SettledByPush
  <2> QED
    BY <1>2, <2>2
<1> QED
  BY <1>4, <1>5, <1>6 DEF r

(* The first request is served. *)
LEMMA FirstServed ==
  ASSUME NEW reqs \in Seq(Request), reqs # <<>>
  PROVE  /\ \A l : CurrentFetch(l, reqs) => CurrentFetch(l, Tail(reqs))
         /\ \A op, l : PushesAlive(op, l, reqs) => PushesAlive(op, l, Tail(reqs))
         /\ Head(reqs).kind = "push" =>
              /\ \A ld : FetchWaitedFor(ld, reqs) => FetchWaitedFor(ld, Tail(reqs))
              /\ \A held, s, v : AskedAfter(reqs, held, s, v)
                   => AskedAfter(Tail(reqs), Head(reqs).snap, s, v)
<1> DEFINE q == Tail(reqs)
           n == Len(reqs)
<1>1. /\ Len(q) = n - 1 /\ \A i \in 1..Len(q) : q[i] = reqs[i + 1]
      /\ n \in Nat /\ n >= 1
  BY Answered
<1>2. \A i \in 1..(n - 1) : i + 1 \in 1..n
  BY <1>1
<1>3. ASSUME Head(reqs).kind = "push"
      PROVE  /\ NoneOf(Fetches, reqs) => NoneOf(Fetches, q)
             /\ OneOf(Fetches, reqs) => OneOf(Fetches, q)
  <2>1. Head(reqs) \notin Fetches
    BY <1>3 DEF Fetches
  <2> QED
    BY <2>1, CountAnswered
<1>4. ASSUME Head(reqs).kind = "push", NEW held, NEW s, NEW v, AskedAfter(reqs, held, s, v),
             NEW f \in 1..Len(q), q[f].kind = "fetch"
      PROVE  Settled(q, f - 1, Head(reqs).snap, s, v)
  <2> HIDE DEF q
  <2>1. f + 1 \in 1..n /\ reqs[f + 1].kind = "fetch" /\ (f + 1) - 1 = f /\ f \in 1..n
    BY <1>1, <1>2, <1>4
  <2>2. Settled(reqs, f, held, s, v)
    BY <1>4, <2>1 DEF AskedAfter
  <2>3. Settled(Tail(reqs), f - 1, Head(reqs).snap, s, v)
    BY <1>4, <2>1, <2>2, SettledByAnswer
  <2> QED
    BY <2>3 DEF q
<1> HIDE DEF q
<1>5. \A l : CurrentFetch(l, reqs) => CurrentFetch(l, q)
  BY <1>1, <1>2 DEF CurrentFetch
<1>6. \A op, l : PushesAlive(op, l, reqs) => PushesAlive(op, l, q)
  BY <1>1, <1>2 DEF PushesAlive
<1>7. ASSUME Head(reqs).kind = "push", NEW ld, FetchWaitedFor(ld, reqs)
      PROVE  FetchWaitedFor(ld, q)
  BY <1>3, <1>7 DEF FetchWaitedFor
<1>8. ASSUME Head(reqs).kind = "push", NEW held, NEW s, NEW v, AskedAfter(reqs, held, s, v)
      PROVE  AskedAfter(q, Head(reqs).snap, s, v)
  BY <1>4, <1>8 DEF AskedAfter
<1> QED
  BY <1>5, <1>6, <1>7, <1>8 DEF q

(* Without a fetch on its way nothing has been asked for. *)
LEMMA NothingAsked ==
  ASSUME NEW reqs \in Seq(Request), NoneOf(Fetches, reqs)
  PROVE  /\ \A l : CurrentFetch(l, reqs)
         /\ \A held, s, v : AskedAfter(reqs, held, s, v)
<1>1. \A i \in 1..Len(reqs) : reqs[i] \in Request
  OBVIOUS
<1>2. \A i \in 1..Len(reqs) : reqs[i].kind # "fetch"
  BY <1>1 DEF NoneOf, Fetches
<1> QED
  BY <1>2 DEF CurrentFetch, AskedAfter

-----------------------------------------------------------------------------
(* The steps. *)

CleanStore(s) ==
  Saved(s) /\ AskedAfter(net, server, s, opened[s]) /\ AnsweredFresh(load, s, opened[s])

CleanNet ==
  FetchWaitedFor(load, net) /\ CurrentFetch(launches, net) /\ PushesAlive(open, launches, net)

LEMMA CleanFacts ==
  ASSUME IInv, Clean
  PROVE  CleanNet /\ \A s \in Stores \ Quiet : CleanStore(s)
BY DEF IInv, CleanInv, CleanNet, CleanStore

(* What DoSync of an open page leaves. *)
LEMMA DoSyncClean ==
  ASSUME IInv, Clean, open, NEW keepalive \in BOOLEAN, DoSync(net, keepalive)
  PROVE  /\ FetchWaitedFor(load, net') /\ CurrentFetch(launches, net')
         /\ PushesAlive(open, launches, net')
         /\ \A s \in Stores \ Quiet :
              /\ AskedAfter(net', server, s, opened[s])
              /\ pending' \/ Settled(net', Len(net'), server, s, local[s])
<1>1. CleanNet /\ \A s \in Stores \ Quiet : CleanStore(s)
  BY CleanFacts
<1>2. TypeInv /\ net \in Seq(Request)
  BY TypeFacts DEF IInv, FlightInv
<1>3. CASE syncing
  <2>1. net' = net /\ pending' = TRUE
    BY <1>3 DEF DoSync
  <2> QED
    BY <1>1, <2>1 DEF CleanNet, CleanStore
<1>4. CASE ~syncing
  <2> DEFINE q == Append(net, Put(FALSE, keepalive))
  <2>1. net' = q
    BY <1>4 DEF DoSync
  <2>2. open \in BOOLEAN /\ (open \/ keepalive)
    BY <1>2, TypeFacts
  <2>3. /\ FetchWaitedFor(load, q) /\ CurrentFetch(launches, q) /\ PushesAlive(open, launches, q)
        /\ \A held, s, v : AskedAfter(net, held, s, v) => AskedAfter(q, held, s, v)
        /\ \A s \in Stores : \A held : Settled(q, Len(q), held, s, local[s])
    BY <1>1, <1>2, <2>2, PutSent DEF CleanNet
  <2> HIDE DEF q
  <2> QED
    BY <1>1, <2>1, <2>3 DEF CleanStore
<1> QED
  BY <1>3, <1>4

LEMMA HideClean ==
  ASSUME IInv, Clean, Hide \/ TimerFires
  PROVE  CleanInv'
<1>1. CleanNet /\ \A s \in Stores \ Quiet : CleanStore(s)
  BY CleanFacts
<1>2. /\ open /\ UNCHANGED <<local, server, open, launches, load, opened>>
      /\ timer' = FALSE
  BY DEF Hide, TimerFires, Flush
<1>3. \E keepalive \in BOOLEAN : DoSync(net, keepalive)
  BY DEF Hide, TimerFires, Flush
<1>4. /\ FetchWaitedFor(load, net') /\ CurrentFetch(launches, net')
      /\ PushesAlive(open, launches, net')
      /\ \A s \in Stores \ Quiet :
           /\ AskedAfter(net', server, s, opened[s])
           /\ pending' \/ Settled(net', Len(net'), server, s, local[s])
  BY <1>2, <1>3, DoSyncClean
<1>5. ASSUME NEW s \in Stores \ Quiet
      PROVE  Saved(s)' /\ AskedAfter(net', server', s, opened'[s]) /\ AnsweredFresh(load', s, opened'[s])
  BY <1>1, <1>2, <1>4 DEF CleanStore, Saved
<1> QED
  BY <1>2, <1>4, <1>5 DEF CleanInv

(* A page that is closed with nothing under way leaves its last push, if   *)
(* one was due, as a keepalive.                                            *)
LEMMA CloseClean ==
  ASSUME IInv, Close
  PROVE  CleanInv'
<1> SUFFICES ASSUME Clean' PROVE CleanInv'
  BY DEF CleanInv
<1>1. Clean /\ ~syncing /\ load.pc = "done"
  BY DEF Close, Clean
<1>2. CleanNet /\ \A s \in Stores \ Quiet : CleanStore(s)
  BY <1>1, CleanFacts
<1>3. TypeInv /\ net \in Seq(Request)
  BY TypeFacts DEF IInv, FlightInv
<1>4. /\ open /\ UNCHANGED <<local, server, launches, opened>>
      /\ open' = FALSE /\ load'.pc = "done" /\ Flush
  BY DEF Close, Loaded
<1>5. NoneOf(OwnPushes(launches), net) /\ ~pending
  BY <1>1, <1>4 DEF IInv, FlightInv, Flight
<1>6. PushesAlive(FALSE, launches, net)
  <2>1. ASSUME NEW i \in 1..Len(net), Counts(net[i]), ~net[i].keepalive PROVE FALSE
    <3>1. net[i] \in Request /\ net[i] \notin OwnPushes(launches)
      BY <1>3, <1>5 DEF NoneOf
    <3>2. net[i].launch = launches
      BY <1>2, <2>1 DEF CleanNet, PushesAlive
    <3> QED
      BY <2>1, <3>1, <3>2 DEF Counts, OwnPushes
  <2> QED
    BY <2>1 DEF PushesAlive
<1>7. /\ FetchWaitedFor(load, net') /\ CurrentFetch(launches, net')
      /\ PushesAlive(FALSE, launches, net')
      /\ \A s \in Stores \ Quiet :
           /\ AskedAfter(net', server, s, opened[s])
           /\ Settled(net', Len(net'), server, s, local[s])
  <2>1. CASE timer
    <3> DEFINE q == Append(net, Put(FALSE, TRUE))
    <3>1. net' = q
      BY <1>1, <1>4, <2>1 DEF Flush, DoSync
    <3>2. /\ FetchWaitedFor(load, q) /\ CurrentFetch(launches, q) /\ PushesAlive(FALSE, launches, q)
          /\ \A held, s, v : AskedAfter(net, held, s, v) => AskedAfter(q, held, s, v)
          /\ \A s \in Stores : \A held : Settled(q, Len(q), held, s, local[s])
      BY <1>2, <1>3, <1>4, <1>6, PutSent DEF CleanNet
    <3> HIDE DEF q
    <3> QED
      BY <1>2, <3>1, <3>2 DEF CleanStore
  <2>2. CASE ~timer
    <3>1. net' = net
      BY <1>4, <2>2 DEF Flush
    <3>2. \A s \in Stores \ Quiet : Settled(net, Len(net), server, s, local[s])
      BY <1>1, <1>2, <1>5, <2>2 DEF CleanStore, Saved
    <3> QED
      BY <1>2, <1>6, <3>1, <3>2 DEF CleanNet, CleanStore
  <2> QED
    BY <2>1, <2>2
<1>8. FetchWaitedFor(load', net')
  BY <1>1, <1>4, <1>7 DEF FetchWaitedFor
<1>9. ASSUME NEW s \in Stores \ Quiet
      PROVE  Saved(s)' /\ AskedAfter(net', server', s, opened'[s]) /\ AnsweredFresh(load', s, opened'[s])
  BY <1>4, <1>7 DEF Saved, AnsweredFresh
<1> QED
  BY <1>4, <1>7, <1>8, <1>9 DEF CleanInv

(* What the browser keeps is settled when the page is opened, and so is    *)
(* what the page starts from before its fetch is served.                   *)
LEMMA OpenClean ==
  ASSUME IInv, Clean, Open
  PROVE  CleanInv'
<1> DEFINE r == [kind |-> "fetch", launch |-> launches + 1]
           n == Len(net)
<1>1. CleanNet /\ \A s \in Stores \ Quiet : CleanStore(s)
  BY CleanFacts
<1>2. TypeInv /\ net \in Seq(Request) /\ ~open /\ load.pc = "done" /\ launches \in 0..MaxLaunches
  BY TypeFacts DEF IInv, FlightInv, TypeInv, TypeOK, Open
<1>3. /\ net' = Append(net, r) /\ launches' = launches + 1 /\ open' = TRUE
      /\ load' = [pc |-> "fetching", snap |-> None] /\ opened' = local
      /\ UNCHANGED <<local, server>>
  BY DEF Open
<1>4. r \in Request /\ r \in Fetches /\ ~Counts(r) /\ r.launch = launches + 1 /\ r.kind = "fetch"
  <2>1. launches + 1 \in 1..MaxLaunches
    BY <1>2, PrefsAssumption DEF Open
  <2> QED
    BY <2>1 DEF Request, Fetches, Counts
<1> HIDE DEF r
<1>5. NoneOf(Fetches, net)
  BY <1>1, <1>2 DEF CleanNet, FetchWaitedFor
<1>6. /\ Len(net') = n + 1 /\ \A i \in 1..n : net'[i] = net[i]
      /\ net'[n + 1] = r /\ n \in Nat
  BY <1>2, <1>3, <1>4, Sent
<1>7. OneOf(Fetches, net')
  BY <1>2, <1>3, <1>4, <1>5, CountSent
<1>8. \A i \in 1..n : net[i].kind # "fetch"
  BY <1>2, <1>5 DEF NoneOf, Fetches
<1> HIDE DEF n
<1>9. \A i \in 1..(n + 1) : i = n + 1 \/ i \in 1..n
  BY <1>6
<1>10. CurrentFetch(launches', net')
  BY <1>3, <1>4, <1>6, <1>8, <1>9 DEF CurrentFetch
<1>11. PushesAlive(open', launches', net')
  BY <1>1, <1>2, <1>4, <1>6, <1>9 DEF CleanNet, PushesAlive, n
<1>12. ASSUME NEW s \in Stores \ Quiet
       PROVE  Saved(s)' /\ AskedAfter(net', server', s, opened'[s]) /\ AnsweredFresh(load', s, opened'[s])
  <2>1. Settled(net, n, server, s, local[s])
    BY <1>1, <1>2 DEF CleanStore, Saved, n
  <2>2. Settled(net', n + 1, server, s, local[s])
    BY <1>2, <1>3, <1>4, <2>1, SettledByOther DEF n
  <2>3. Settled(net', n, server, s, local[s])
    BY <1>6, <2>1, SettledPrefix
  <2>4. \A f \in 1..(n + 1) : net'[f].kind = "fetch" => f - 1 = n
    BY <1>6, <1>8, <1>9
  <2>5. AskedAfter(net', server, s, local[s])
    BY <1>6, <2>3, <2>4 DEF AskedAfter
  <2>6. Saved(s)'
    BY <1>3, <1>6, <2>2 DEF Saved
  <2>7. AnsweredFresh(load', s, opened'[s])
    BY <1>3 DEF AnsweredFresh
  <2> QED
    BY <1>3, <2>5, <2>6, <2>7
<1> QED
  BY <1>3, <1>7, <1>10, <1>11, <1>12 DEF CleanInv, FetchWaitedFor

(* The browser aborts nothing but a seed. *)
LEMMA AbortClean ==
  ASSUME IInv, Clean, Abort
  PROVE  CleanInv'
<1>1. CleanNet /\ \A s \in Stores \ Quiet : CleanStore(s)
  BY CleanFacts
<1>2. TypeInv /\ net \in Seq(Request) /\ ~open /\ load.pc = "done"
  BY TypeFacts DEF IInv, FlightInv, TypeInv, TypeOK, Abort
<1>3. PICK k \in 1..Len(net) :
        (net[k].kind = "push" => ~net[k].keepalive) /\ net' = RemoveAt(net, k)
  BY DEF Abort
<1>4. UNCHANGED <<local, server, open, launches, timer, pending, load, opened>>
  BY DEF Abort, page
<1>5. ~Counts(net[k])
  BY <1>1, <1>2, <1>3 DEF CleanNet, PushesAlive, Counts
<1>6. /\ net' \in Seq(Request) /\ Len(net') = Len(net) - 1 /\ Len(net) \in Nat
      /\ \A i \in 1..(Len(net) - 1) : net'[i] = net[IF i < k THEN i ELSE i + 1]
  BY <1>2, <1>3, Aborted
<1>7. \A i \in 1..Len(net') : \E j \in 1..Len(net) : net'[i] = net[j]
  <2>1. \A i \in 1..Len(net') : (IF i < k THEN i ELSE i + 1) \in 1..Len(net)
    BY <1>6
  <2>2. \A i \in 1..Len(net') : net'[i] = net[IF i < k THEN i ELSE i + 1]
    BY <1>6
  <2> QED
    BY <2>1, <2>2
<1>8. NoneOf(Fetches, net')
  BY <1>1, <1>2, <1>7 DEF CleanNet, FetchWaitedFor, NoneOf
<1>9. /\ CurrentFetch(launches, net')
      /\ \A held, s, v : AskedAfter(net', held, s, v)
  BY <1>6, <1>8, NothingAsked
<1>10. PushesAlive(open, launches, net')
  BY <1>1, <1>7 DEF CleanNet, PushesAlive
<1>11. ASSUME NEW s \in Stores \ Quiet PROVE Settled(net', Len(net'), server, s, local[s])
  <2>1. Settled(net, Len(net), server, s, local[s])
    BY <1>1, <1>2 DEF CleanStore, Saved
  <2> QED
    BY <1>2, <1>3, <1>5, <1>6, <2>1, SettledByAbort
<1>12. \A s \in Stores \ Quiet : Saved(s)' /\ AnsweredFresh(load', s, opened'[s])
  BY <1>2, <1>4, <1>11 DEF Saved, AnsweredFresh
<1> QED
  BY <1>2, <1>4, <1>8, <1>9, <1>10, <1>12 DEF CleanInv, FetchWaitedFor

(* A change of a store that triggers syncs has the page push. *)
LEMMA ChangeClean ==
  ASSUME IInv, Clean, NEW c \in Stores, Change(c)
  PROVE  CleanInv'
<1>1. CleanNet /\ \A s \in Stores \ Quiet : CleanStore(s)
  BY CleanFacts
<1>2. /\ open /\ timer' = (timer \/ c \notin Quiet) /\ local' = [local EXCEPT ![c] = changes + 1]
      /\ UNCHANGED <<server, open, launches, pending, net, load, opened>>
  BY DEF Change
<1>3. local \in [Stores -> 0..MaxChanges]
  BY TypeFacts DEF IInv, FlightInv, Snapshot
<1>4. ASSUME NEW s \in Stores \ Quiet PROVE Saved(s)'
  <2>1. CASE c = s
    BY <1>2, <2>1 DEF Saved
  <2>2. CASE c # s
    <3>1. local'[s] = local[s]
      BY <1>2, <1>3, <2>2
    <3>2. Saved(s)
      BY <1>1 DEF CleanStore
    <3> QED
      BY <1>2, <3>1, <3>2 DEF Saved
  <2> QED
    BY <2>1, <2>2
<1>5. \A s \in Stores \ Quiet :
        AskedAfter(net', server', s, opened'[s]) /\ AnsweredFresh(load', s, opened'[s])
  BY <1>1, <1>2 DEF CleanStore
<1>6. FetchWaitedFor(load', net') /\ CurrentFetch(launches', net') /\ PushesAlive(open', launches', net')
  BY <1>1, <1>2 DEF CleanNet
<1> QED
  BY <1>4, <1>5, <1>6 DEF CleanInv

(* A push is stored; another one that was asked for meanwhile is sent. *)
LEMMA ServePushClean ==
  ASSUME IInv, Clean, ServePush
  PROVE  CleanInv'
<1> DEFINE r == Head(net)
           t == Tail(net)
<1>1. CleanNet /\ \A s \in Stores \ Quiet : CleanStore(s)
  BY CleanFacts
<1>2. TypeInv /\ net \in Seq(Request) /\ net # <<>>
  BY TypeFacts DEF IInv, FlightInv, ServePush
<1>3. /\ r.kind = "push" /\ server' = r.snap /\ PushEnds(r)
      /\ UNCHANGED <<local, load, opened, open, launches, timer>>
  BY DEF ServePush, PushEnds
<1>4. /\ t \in Seq(Request) /\ Len(t) = Len(net) - 1 /\ Len(net) \in 1..Len(net)
  BY <1>2, Answered
<1>5. /\ FetchWaitedFor(load, t) /\ CurrentFetch(launches, t) /\ PushesAlive(open, launches, t)
      /\ \A s \in Stores \ Quiet : AskedAfter(t, r.snap, s, opened[s])
  BY <1>1, <1>2, <1>3, FirstServed DEF CleanNet, CleanStore
<1>6. \A s, v : Settled(net, Len(net), server, s, v) => Settled(t, Len(t), r.snap, s, v)
  BY <1>2, <1>3, <1>4, SettledByAnswer
<1> HIDE DEF r, t
<1>7. CASE net' = t /\ (pending' = pending \/ ~pending)
  <2>1. \A s \in Stores \ Quiet : Saved(s)'
    <3> SUFFICES ASSUME NEW s \in Stores \ Quiet PROVE Saved(s)'
      OBVIOUS
    <3>1. Saved(s)
      BY <1>1 DEF CleanStore
    <3>2. Settled(net, Len(net), server, s, local[s]) => Settled(net', Len(net'), server', s, local'[s])
      BY <1>3, <1>6, <1>7
    <3> QED
      BY <1>3, <1>7, <3>1, <3>2 DEF Saved
  <2> QED
    BY <1>1, <1>3, <1>5, <1>7, <2>1 DEF CleanInv, CleanStore
<1>8. CASE open /\ net' = Append(t, Put(FALSE, FALSE))
  <2> DEFINE q == Append(t, Put(FALSE, FALSE))
  <2>1. /\ FetchWaitedFor(load, q) /\ CurrentFetch(launches, q) /\ PushesAlive(open, launches, q)
        /\ \A held, s, v : AskedAfter(t, held, s, v) => AskedAfter(q, held, s, v)
        /\ \A s \in Stores : \A held : Settled(q, Len(q), held, s, local[s])
    <3>1. open \in BOOLEAN /\ FALSE \in BOOLEAN /\ (open \/ FALSE)
      BY <1>8, <1>2, TypeFacts
    <3> QED
      BY <1>2, <1>4, <1>5, <1>8, <3>1, PutSent
  <2> HIDE DEF q
  <2>2. net' = q
    BY <1>8 DEF q
  <2>3. \A s \in Stores \ Quiet : Saved(s)' /\ AskedAfter(net', server', s, opened'[s])
    BY <1>3, <1>5, <2>1, <2>2 DEF Saved
  <2> QED
    BY <1>1, <1>3, <2>1, <2>2, <2>3 DEF CleanInv, CleanStore
<1>9. \/ net' = t /\ (pending' = pending \/ ~pending)
      \/ open /\ net' = Append(t, Put(FALSE, FALSE))
  BY <1>3 DEF PushEnds, Current, t
<1> QED
  BY <1>7, <1>8, <1>9

(* The fetch is answered with what the server holds by now. *)
LEMMA ServeFetchClean ==
  ASSUME IInv, Clean, ServeFetch
  PROVE  CleanInv'
<1> DEFINE r == Head(net)
           t == Tail(net)
<1>1. CleanNet /\ \A s \in Stores \ Quiet : CleanStore(s)
  BY CleanFacts
<1>2. TypeInv /\ net \in Seq(Request) /\ net # <<>>
  BY TypeFacts DEF IInv, FlightInv, ServeFetch
<1>3. /\ r.kind = "fetch" /\ net' = t
      /\ load' = IF Current(r) THEN [pc |-> "answered", snap |-> server] ELSE load
      /\ UNCHANGED <<local, server, opened, open, launches, timer, pending>>
  BY DEF ServeFetch, FetchEnds, page
<1>4. /\ t \in Seq(Request) /\ Len(t) = Len(net) - 1 /\ Len(net) \in 1..Len(net)
      /\ r = net[1] /\ 1 \in 1..Len(net) /\ r \in Request
  BY <1>2, Answered
<1>5. CurrentFetch(launches, t) /\ PushesAlive(open, launches, t)
  BY <1>1, <1>2, FirstServed DEF CleanNet
<1>6. \A s, v : Settled(net, Len(net), server, s, v) => Settled(t, Len(t), server, s, v)
  BY <1>2, <1>3, <1>4, SettledByAnswer
<1>7. r \in Fetches
  BY <1>3, <1>4 DEF Fetches
<1>8. load.pc = "fetching" /\ OneOf(Fetches, net)
  BY <1>1, <1>4, <1>7 DEF CleanNet, FetchWaitedFor, NoneOf
<1>9. NoneOf(Fetches, t)
  BY <1>2, <1>7, <1>8, CountAnswered
<1>10. Current(r)
  BY <1>1, <1>2, <1>3, <1>4, <1>8, TypeFacts DEF CleanNet, CurrentFetch, Current
<1> HIDE DEF r, t
<1>11. load' = [pc |-> "answered", snap |-> server]
  BY <1>3, <1>10
<1>12. ASSUME NEW s \in Stores \ Quiet
       PROVE  Saved(s)' /\ AnsweredFresh(load', s, opened'[s])
  <2>1. Saved(s)'
    <3>1. Saved(s)
      BY <1>1 DEF CleanStore
    <3>2. Settled(net, Len(net), server, s, local[s]) => Settled(net', Len(net'), server', s, local'[s])
      BY <1>3, <1>6
    <3> QED
      BY <1>3, <1>8, <3>1, <3>2 DEF Saved
  <2>2. Settled(net, 0, server, s, opened[s])
    <3>1. AskedAfter(net, server, s, opened[s])
      BY <1>1 DEF CleanStore
    <3>2. Settled(net, 1 - 1, server, s, opened[s])
      BY <1>3, <1>4, <3>1 DEF AskedAfter
    <3> QED
      BY <3>2
  <2>3. server # None => server[s] >= opened[s]
    BY <2>2 DEF Settled
  <2> QED
    BY <1>3, <1>11, <2>1, <2>3 DEF AnsweredFresh
<1>13. \A s \in Stores \ Quiet : AskedAfter(net', server', s, opened'[s])
  BY <1>3, <1>4, <1>9, NothingAsked
<1> QED
  BY <1>3, <1>5, <1>9, <1>11, <1>12, <1>13 DEF CleanInv, FetchWaitedFor

(* A seed carries what the browser keeps, and counts for no page. *)
LEMMA SeedClean ==
  ASSUME IInv, Clean, Seed
  PROVE  CleanInv'
<1> DEFINE r == Put(TRUE, FALSE)
           q == Append(net, r)
<1>1. CleanNet /\ \A s \in Stores \ Quiet : CleanStore(s)
  BY CleanFacts
<1>2. TypeInv /\ net \in Seq(Request) /\ open /\ load.pc = "answered"
  BY TypeFacts DEF IInv, FlightInv, Seed
<1>3. /\ net' = q /\ load'.pc = "done"
      /\ UNCHANGED <<local, server, opened, open, launches, timer, pending>>
  BY DEF Seed, Loaded, page
<1>4. r \in Request /\ r.kind = "push" /\ r.snap = local /\ ~Counts(r)
  <2>1. TRUE \in BOOLEAN /\ FALSE \in BOOLEAN
    OBVIOUS
  <2> QED
    BY <1>2, <2>1, PutIsRequest DEF Counts
<1> HIDE DEF r
<1>5. Len(q) = Len(net) + 1
  BY <1>2, <1>4, Sent
<1>6. /\ FetchWaitedFor(load, q) /\ CurrentFetch(launches, q)
      /\ \A held, s, v : AskedAfter(net, held, s, v) => AskedAfter(q, held, s, v)
  BY <1>1, <1>2, <1>4, PushSent DEF CleanNet
<1>7. PushesAlive(open, launches, q)
  BY <1>1, <1>2, <1>4, PushSent DEF CleanNet
<1>8. ASSUME NEW s \in Stores \ Quiet, Settled(net, Len(net), server, s, local[s])
      PROVE  Settled(q, Len(q), server, s, local[s])
  <2>1. r.snap[s] >= local[s]
    BY <1>2, <1>4, TypeFacts, PrefsAssumption DEF Snapshot
  <2>2. Settled(q, Len(net) + 1, server, s, local[s])
    BY <1>2, <1>4, <1>8, <2>1, SettledByOther
  <2> QED
    BY <1>5, <2>2
<1> HIDE DEF q
<1>9. ASSUME NEW s \in Stores \ Quiet
      PROVE  Saved(s)' /\ AskedAfter(net', server', s, opened'[s]) /\ AnsweredFresh(load', s, opened'[s])
  <2>1. Saved(s) /\ AskedAfter(net, server, s, opened[s])
    BY <1>1 DEF CleanStore
  <2>2. Saved(s)'
    BY <1>2, <1>3, <1>8, <2>1 DEF Saved
  <2> QED
    BY <1>3, <1>6, <2>1, <2>2 DEF AnsweredFresh
<1>10. FetchWaitedFor(load', net')
  BY <1>2, <1>3, <1>6 DEF FetchWaitedFor
<1> QED
  BY <1>3, <1>6, <1>7, <1>9, <1>10 DEF CleanInv

LEMMA ApplyEarlyClean ==
  ASSUME IInv, Clean, ApplyEarly
  PROVE  CleanInv'
<1>1. CleanNet /\ \A s \in Stores \ Quiet : CleanStore(s)
  BY CleanFacts
<1>2. load.pc = "answered" /\ load'.pc = "applying"
  BY DEF ApplyEarly, IInv, FlightInv, TypeInv, TypeOK
<1>3. UNCHANGED <<server, opened, open, launches, timer, pending, net>>
  BY DEF ApplyEarly, page
<1>4. \A s \in Stores \ Quiet :
        Saved(s)' /\ AskedAfter(net', server', s, opened'[s]) /\ AnsweredFresh(load', s, opened'[s])
  BY <1>1, <1>2, <1>3 DEF CleanStore, Saved, AnsweredFresh
<1> QED
  BY <1>1, <1>2, <1>3, <1>4 DEF CleanNet, CleanInv, FetchWaitedFor

(* The snapshot that was applied is pushed again, for the stores that      *)
(* trigger a sync when they are given it.                                  *)
LEMMA ApplyLateClean ==
  ASSUME IInv, Clean, ApplyLate, Resaving # {}
  PROVE  CleanInv'
<1>1. CleanNet /\ \A s \in Stores \ Quiet : CleanStore(s)
  BY CleanFacts
<1>2. load.pc = "applying" /\ load'.pc = "done" /\ timer' = TRUE /\ open
  BY TypeFacts DEF ApplyLate, IInv, FlightInv, Loaded
<1>3. UNCHANGED <<server, opened, open, launches, pending, net>>
  BY DEF ApplyLate
<1>4. \A s \in Stores \ Quiet :
        Saved(s)' /\ AskedAfter(net', server', s, opened'[s]) /\ AnsweredFresh(load', s, opened'[s])
  BY <1>1, <1>2, <1>3 DEF CleanStore, Saved, AnsweredFresh
<1> QED
  BY <1>1, <1>2, <1>3, <1>4 DEF CleanNet, CleanInv, FetchWaitedFor

(* Whatever fails, from then on the run is not a clean one. *)
LEMMA FailNotClean ==
  ASSUME TypeInv, Fail
  PROVE  ~Clean'
BY PrefsAssumption DEF Fail, Clean, TypeInv, TypeOK

LEMMA InitCleanInv == Init => CleanInv
<1> SUFFICES ASSUME Init PROVE CleanInv
  OBVIOUS
<1>1. net = <<>> /\ load.pc = "done" /\ 1..Len(net) = {} /\ Len(net) = 0
  BY DEF Init, Loaded
<1>2. FetchWaitedFor(load, net) /\ CurrentFetch(launches, net) /\ PushesAlive(open, launches, net)
  BY <1>1 DEF FetchWaitedFor, CurrentFetch, PushesAlive, NoneOf
<1>3. ASSUME NEW s \in Stores \ Quiet
      PROVE  Saved(s) /\ AskedAfter(net, server, s, opened[s]) /\ AnsweredFresh(load, s, opened[s])
  <2>1. server # None => server[s] >= local[s]
    BY DEF Init
  <2>2. Settled(net, Len(net), server, s, local[s])
    BY <1>1, <2>1 DEF Settled
  <2> QED
    BY <1>1, <2>2 DEF Saved, AskedAfter, AnsweredFresh
<1> QED
  BY <1>2, <1>3 DEF CleanInv

LEMMA NextCleanInv ==
  ASSUME IInv, [Next]_vars, Resaving # {}
  PROVE  CleanInv'
<1>1. CASE Close
  BY <1>1, CloseClean
<1>2. CASE Fail
  BY <1>2, FailNotClean DEF CleanInv, IInv, FlightInv
<1>3. CASE UNCHANGED vars
  BY <1>3 DEF vars, page, IInv, CleanInv, Clean, Saved
<1>4. CASE Next /\ ~Close /\ ~Fail /\ Clean'
  <2>1. UNCHANGED <<interrupted, faults>>
    BY <1>4 DEF Next, Open, Hide, Abort, TimerFires, Change, ServePush, ServeFetch, Seed,
                ApplyEarly, ApplyLate
  <2>2. Clean
    BY <1>4, <2>1 DEF Clean
  <2> QED
    BY <1>4, <2>2, OpenClean, HideClean, AbortClean, ChangeClean, ServePushClean,
       ServeFetchClean, SeedClean, ApplyEarlyClean, ApplyLateClean DEF Next
<1>5. ~Clean' => CleanInv'
  BY DEF CleanInv
<1> QED
  BY <1>1, <1>2, <1>3, <1>4, <1>5

(* The debounced push, the flush and its keepalive do save the last        *)
(* changes: if no page was closed with a push under way or before it had   *)
(* loaded, and no request failed, the snapshot that loadAndApply is given  *)
(* is never older than what the browser kept.  This needs a store that     *)
(* triggers a sync when a snapshot is applied to it, as accessibility      *)
(* does.                                                                   *)
THEOREM CleanCloseSaves ==
  ASSUME Resaving # {}
  PROVE  Spec => []CleanCloseKeeps
<1>1. Init => IInv
  BY InitFlightInv, InitCleanInv DEF IInv
<1>2. IInv /\ [Next]_vars => IInv'
  BY NextFlightInv, NextCleanInv DEF IInv
<1>3. IInv => CleanCloseKeeps
  BY DEF IInv, CleanInv, Clean, AnsweredFresh, CleanCloseKeeps
<1> QED
  BY <1>1, <1>2, <1>3, PTL DEF Spec

====
