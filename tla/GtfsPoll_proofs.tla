--------------------------- MODULE GtfsPoll_proofs ---------------------------
(***************************************************************************)
(* Proofs about GtfsPoll, for any feeds, vehicles, answers, backoff, ring  *)
(* size, clock and numbers of cycles and restarts.                         *)
(***************************************************************************)
EXTENDS GtfsPoll, WellFoundedInduction, TLAPS

\* Every set of natural numbers that is not empty has a least element.
LEMMA LeastNat ==
  ASSUME NEW T, T \subseteq Nat, T # {}
  PROVE  \E x \in T : \A y \in T : x <= y
<1>1. IsWellFoundedOn(OpToRel(<, Nat), Nat)
  BY NatLessThanWellFounded
<1>2. PICK x \in T : \A y \in T : ~ (<<y, x>> \in OpToRel(<, Nat))
  BY <1>1, WFMin
<1>3. \A y \in T : ~(y < x)
  BY <1>2 DEF OpToRel
<1> QED
  BY <1>3

\* One that is bounded has a greatest element, too.
LEMMA GreatestNat ==
  ASSUME NEW M \in Nat, NEW T, T \subseteq 0..M, T # {}
  PROVE  \E x \in T : \A y \in T : y <= x
<1> DEFINE U == {M - x : x \in T}
<1>1. U # {}
  OBVIOUS
<1>2. \A x \in T : M - x \in Nat
  OBVIOUS
<1>3. U \subseteq Nat
  BY <1>2
<1>4. PICK u \in U : \A v \in U : u <= v
  BY <1>1, <1>3, LeastNat
<1>5. PICK x \in T : u = M - x
  BY <1>4
<1>6. \A y \in T : u <= M - y
  BY <1>4
<1> QED
  BY <1>5, <1>6

\* What the latest timestamp of a vehicle is.
LEMMA NewestFacts ==
  ASSUME NEW ps, ps \subseteq Positions, NEW k \in Slots
  PROVE  /\ Newest(ps, k) \in {0} \cup Stamps
         /\ \A p \in ps : Slot(p) = k => p.at <= Newest(ps, k)
         /\ Newest(ps, k) # 0 => \E p \in ps : Slot(p) = k /\ p.at = Newest(ps, k)
<1> DEFINE ts == {p.at : p \in {q \in ps : Slot(q) = k}} \cup {0}
<1>1. MaxNow + 1 \in Nat /\ ts # {}
  BY ClockAssumption
<1>2. \A p \in ps : p.at \in Stamps
  BY DEF Positions
<1>3. ts \subseteq {0} \cup Stamps
  BY <1>2
<1>4. {0} \cup Stamps = 0..(MaxNow + 1)
  BY ClockAssumption DEF Stamps
<1>5. \E t \in ts : \A u \in ts : u <= t
  <2> HIDE DEF ts
  <2> QED
    BY <1>1, <1>3, <1>4, GreatestNat
<1> DEFINE n == CHOOSE t \in ts : \A u \in ts : u <= t
<1>6. n \in ts /\ \A u \in ts : u <= n
  <2> HIDE DEF ts
  <2> QED
    BY <1>5
<1>7. Newest(ps, k) = n
  BY DEF Newest
<1> HIDE DEF n
<1> QED
  BY <1>3, <1>6, <1>7

\* A product with the same factor keeps the order.
LEMMA TimesMono ==
  ASSUME NEW a \in Nat, NEW b \in Nat, NEW c \in Nat, a <= b
  PROVE  a * c \in Nat /\ b * c \in Nat /\ a * c <= b * c
OBVIOUS

\* A Duration that fits is not wrapped, and the others end within the width.
LEMMA WrapFacts ==
  ASSUME NEW x \in Nat
  PROVE  Wrap(x) \in -Half..(Half - 1) /\ (x < Half => Wrap(x) = x)
<1>1. Half \in Nat /\ Half > 0
  BY WidthAssumption, BackoffAssumption, TimesMono
<1> DEFINE y == x + Half
           w == 2 * Half
<1>2. y \in Nat /\ w \in Nat /\ w > 0
  BY <1>1
<1>3. y % w \in 0..(w - 1)
  <2> HIDE DEF y, w
  <2> QED
    BY <1>2
<1>4. y < w => y % w = y
  <2> HIDE DEF y, w
  <2> QED
    BY <1>2
<1> QED
  BY <1>1, <1>3, <1>4 DEF Wrap

\* The pause before the next attempt.
LEMMA WaitFacts ==
  ASSUME NEW n \in 0..(maxPollAttempts - 1), NEW h \in RetryAfters \cup {NoHeader}
  PROVE  LET w == WaitFor(n, h)
         IN  /\ w \in -Half..(Half - 1)
             /\ w <= Cap * Second
             /\ h = NoHeader => w >= Initial * Second
             /\ h # NoHeader /\ h * Second < Half => w >= Lesser(h, Cap) * Second
<1>1. /\ Initial \in Nat /\ Cap \in Nat /\ Second \in Nat /\ Half \in Nat
      /\ Initial <= Cap /\ Cap * Second < Half /\ Cap * Second \in Nat
  BY WidthAssumption, BackoffAssumption, TimesMono
<1>2. CASE h = NoHeader
  <2>1. Shifted(n) \in Nat /\ Initial <= Shifted(n)
    BY ShiftAssumption
  <2> DEFINE l == Lesser(Shifted(n), Cap)
  <2>2. l \in Nat /\ Initial <= l /\ l <= Cap
    BY <1>1, <2>1 DEF Lesser
  <2>3. WaitFor(n, h) = l * Second
    BY <1>2 DEF WaitFor, duration
  <2> HIDE DEF l
  <2>4. l * Second \in Nat /\ Initial * Second <= l * Second /\ l * Second <= Cap * Second
    BY <1>1, <2>2, TimesMono
  <2>5. l * Second \in -Half..(Half - 1)
    BY <1>1, <2>4
  <2> QED
    BY <1>2, <2>3, <2>4, <2>5
<1>3. CASE h # NoHeader
  <2>1. h \in Nat
    BY <1>1, <1>3, HeaderAssumption
  <2>2. h * Second \in Nat
    BY <1>1, <2>1, TimesMono
  <2> DEFINE x == h * Second
             c == Cap * Second
             w == Wrap(x)
  <2>3. WaitFor(n, h) = Lesser(w, c)
    BY <1>3 DEF WaitFor
  <2>4. w \in -Half..(Half - 1) /\ (x < Half => w = x)
    BY <2>2, WrapFacts
  <2>5. x < Half => Lesser(h, Cap) * Second <= x /\ Lesser(h, Cap) * Second <= c
    <3>1. Lesser(h, Cap) \in Nat /\ Lesser(h, Cap) <= h /\ Lesser(h, Cap) <= Cap
      BY <1>1, <2>1 DEF Lesser
    <3> QED
      BY <1>1, <2>1, <3>1, TimesMono
  <2>6. x \in Nat /\ c \in Nat /\ c < Half
    BY <1>1, <2>2
  <2>7. Lesser(h, Cap) * Second \in Nat
    <3>1. Lesser(h, Cap) \in Nat
      BY <1>1, <2>1 DEF Lesser
    <3> QED
      BY <1>1, <3>1, TimesMono
  <2> HIDE DEF x, c, w
  <2>8. /\ Lesser(w, c) \in -Half..(Half - 1) /\ Lesser(w, c) <= c
        /\ x < Half => Lesser(w, c) >= Lesser(h, Cap) * Second
    <3> DEFINE m == Lesser(h, Cap) * Second
    <3>1. m \in Nat /\ (x < Half => m <= x /\ m <= c)
      BY <2>5, <2>7
    <3> HIDE DEF m
    <3>2. /\ Lesser(w, c) \in -Half..(Half - 1) /\ Lesser(w, c) <= c
          /\ x < Half => Lesser(w, c) >= m
      BY <1>1, <2>4, <2>6, <3>1 DEF Lesser
    <3> QED
      BY <3>2 DEF m
  <2> QED
    BY <1>3, <2>3, <2>8 DEF x, c
<1> QED
  BY <1>2, <1>3

-----------------------------------------------------------------------------
(* The views *)

\* A step that leaves the pipeline alone.
LEMMA SamePipe ==
  ASSUME SeenState, RingState, StoredState, UNCHANGED pipeVars
  PROVE  SeenState' /\ RingState' /\ StoredState'
<1>1. UNCHANGED <<vehicleSeen, ingestBuf, mem, store, ingested, restored>>
  BY DEF pipeVars
<1>2. SeenState'
  BY <1>1 DEF SeenState
<1>3. RingState'
  BY <1>1 DEF RingState
<1>4. StoredState'
  BY <1>1 DEF StoredState, Shadowed
<1> QED
  BY <1>2, <1>3, <1>4

\* The ring takes a record at its front and drops what is too much at its end.
LEMMA recordIngestFacts ==
  ASSUME TypeOK, NEW p \in Positions
  PROVE  /\ recordIngest(p) \in Seq(Positions)
         /\ Len(recordIngest(p)) = Lesser(Len(ingestBuf) + 1, ingestCap)
         /\ recordIngest(p)[1] = p
         /\ \A i \in 2..Len(recordIngest(p)) : recordIngest(p)[i] = ingestBuf[i - 1]
<1> DEFINE buf == <<p>> \o ingestBuf
           n == Lesser(Len(buf), ingestCap)
<1>1. ingestBuf \in Seq(Positions) /\ ingestCap \in Nat /\ ingestCap >= 1
  BY CapAssumption DEF TypeOK
<1>2. /\ buf \in Seq(Positions) /\ Len(buf) = Len(ingestBuf) + 1 /\ Len(ingestBuf) \in Nat
      /\ buf[1] = p /\ \A i \in 2..Len(buf) : buf[i] = ingestBuf[i - 1]
  BY <1>1
<1>3. n \in Nat /\ n >= 1 /\ n <= Len(buf)
  BY <1>1, <1>2 DEF Lesser
<1>4. recordIngest(p) = SubSeq(buf, 1, n)
  BY DEF recordIngest
<1> HIDE DEF buf, n
<1>5. /\ SubSeq(buf, 1, n) \in Seq(Positions)
      /\ Len(SubSeq(buf, 1, n)) = n
      /\ \A i \in 1..n : SubSeq(buf, 1, n)[i] = buf[i]
  BY <1>2, <1>3
<1> QED
  BY <1>2, <1>3, <1>4, <1>5 DEF n

\* One position of Write: the views follow.
LEMMA PutFacts ==
  ASSUME TypeOK, Put, NEW p, p = all[puts + 1]
  PROVE  /\ p \in Positions /\ Slot(p) \in Slots
         /\ mem' = mem \cup {p}
         /\ vehicleSeen' \in [Slots -> {0} \cup Stamps]
         /\ \A k \in Slots :
               vehicleSeen'[k] = IF k = Slot(p) THEN Latest(vehicleSeen[k], p.at)
                                                ELSE vehicleSeen[k]
         /\ ingestBuf' = recordIngest(p)
         /\ ingested' = Append(ingested, p)
         /\ UNCHANGED <<store, restored, all>>
<1>1. all \in Seq(Positions) /\ puts \in 0..Len(all) /\ puts < Len(all)
  BY DEF TypeOK, Put
<1>2. puts + 1 \in 1..Len(all)
  BY <1>1
<1>3. p \in Positions
  BY <1>1, <1>2
<1>4. Slot(p) \in Slots /\ p.at \in Stamps
  BY <1>3 DEF Positions, Slot, Slots
<1>5. vehicleSeen' = [vehicleSeen EXCEPT ![Slot(p)] = Latest(vehicleSeen[Slot(p)], p.at)]
  BY DEF Put
<1>6. vehicleSeen \in [Slots -> {0} \cup Stamps]
  BY DEF TypeOK
<1>7. Latest(vehicleSeen[Slot(p)], p.at) \in {0} \cup Stamps
  BY <1>4, <1>6 DEF Latest
<1> QED
  BY <1>3, <1>4, <1>5, <1>6, <1>7 DEF Put

\* A put keeps vehicleSeen the latest, the ring the most recent, and what is
\* buffered seen.
LEMMA PutViews ==
  ASSUME TypeOK, SeenState, RingState, StoredState, Put
  PROVE  SeenState' /\ RingState' /\ StoredState'
<1>1. PICK p : p = all[puts + 1]
  OBVIOUS
<1>2. /\ p \in Positions /\ Slot(p) \in Slots
      /\ mem' = mem \cup {p}
      /\ \A k \in Slots :
            vehicleSeen'[k] = IF k = Slot(p) THEN Latest(vehicleSeen[k], p.at)
                                             ELSE vehicleSeen[k]
      /\ ingestBuf' = recordIngest(p)
      /\ ingested' = Append(ingested, p)
      /\ UNCHANGED <<store, restored>>
  BY <1>1, PutFacts
<1>3. /\ p.at \in Nat
      /\ \A k \in Slots : vehicleSeen[k] \in Nat /\ restored[k] \in Nat
  BY <1>2, ClockAssumption DEF Positions, Stamps, TypeOK
<1>4. /\ ingested \in Seq(Positions) /\ Len(ingested) \in Nat
      /\ DOMAIN ingested = 1..Len(ingested)
  BY DEF TypeOK
<1>5. /\ Len(ingested') = Len(ingested) + 1
      /\ DOMAIN ingested' = 1..(Len(ingested) + 1)
      /\ \A i \in 1..Len(ingested) : ingested'[i] = ingested[i]
      /\ ingested'[Len(ingested) + 1] = p
  BY <1>2, <1>4
<1>6. \A k \in Slots : /\ vehicleSeen[k] <= vehicleSeen'[k] /\ vehicleSeen'[k] \in Nat
                       /\ k = Slot(p) => p.at <= vehicleSeen'[k]
  BY <1>2, <1>3 DEF Latest
<1>7. SeenState'
  <2> SUFFICES ASSUME NEW k \in Slots
               PROVE  /\ restored[k] <= vehicleSeen'[k]
                      /\ \A i \in DOMAIN ingested' :
                            Slot(ingested'[i]) = k => ingested'[i].at <= vehicleSeen'[k]
                      /\ \/ vehicleSeen'[k] = restored[k]
                         \/ \E i \in DOMAIN ingested' :
                               Slot(ingested'[i]) = k /\ ingested'[i].at = vehicleSeen'[k]
    BY <1>2 DEF SeenState
  <2>1. restored[k] <= vehicleSeen'[k]
    BY <1>3, <1>6 DEF SeenState
  <2>2. ASSUME NEW i \in DOMAIN ingested', Slot(ingested'[i]) = k
        PROVE  ingested'[i].at <= vehicleSeen'[k]
    <3>1. CASE i \in 1..Len(ingested)
      <4>1. ingested[i] \in Positions /\ ingested'[i] = ingested[i]
        BY <1>4, <1>5, <3>1
      <4>2. ingested[i].at \in Nat
        BY <4>1, ClockAssumption DEF Positions, Stamps
      <4>3. ingested[i].at <= vehicleSeen[k]
        BY <1>4, <2>2, <3>1, <4>1 DEF SeenState
      <4> QED
        BY <1>3, <1>6, <4>1, <4>2, <4>3
    <3>2. CASE i = Len(ingested) + 1
      BY <1>5, <1>6, <2>2, <3>2
    <3> QED
      BY <1>4, <1>5, <3>1, <3>2
  <2>3. CASE vehicleSeen'[k] = vehicleSeen[k]
    <3>1. \/ vehicleSeen[k] = restored[k]
          \/ \E i \in DOMAIN ingested : Slot(ingested[i]) = k /\ ingested[i].at = vehicleSeen[k]
      BY DEF SeenState
    <3>2. \A i \in DOMAIN ingested : i \in DOMAIN ingested' /\ ingested'[i] = ingested[i]
      BY <1>4, <1>5
    <3> QED
      BY <2>1, <2>2, <2>3, <3>1, <3>2
  <2>4. CASE vehicleSeen'[k] # vehicleSeen[k]
    <3>1. k = Slot(p) /\ vehicleSeen'[k] = p.at
      BY <1>2, <2>4 DEF Latest
    <3>2. Len(ingested) + 1 \in DOMAIN ingested'
      BY <1>4, <1>5
    <3> QED
      BY <1>5, <2>1, <2>2, <3>1, <3>2
  <2> QED
    BY <2>3, <2>4
<1>8. RingState'
  <2> DEFINE buf == recordIngest(p)
             n == Len(ingested)
  <2>1. /\ Len(buf) = Lesser(Len(ingestBuf) + 1, ingestCap)
        /\ buf[1] = p
        /\ \A i \in 2..Len(buf) : buf[i] = ingestBuf[i - 1]
    BY <1>2, recordIngestFacts
  <2>2. /\ ingestBuf' = buf /\ Len(ingestBuf) \in Nat /\ ingestCap \in Nat /\ ingestCap >= 1
    BY <1>2, CapAssumption DEF TypeOK
  <2>3. /\ Len(ingestBuf) = Lesser(n, ingestCap)
        /\ \A i \in 1..Len(ingestBuf) : ingestBuf[i] = ingested[n + 1 - i]
    BY DEF RingState
  <2>4. n \in Nat
    BY <1>4
  <2> HIDE DEF buf
  <2>5. Len(buf) = Lesser(n + 1, ingestCap) /\ Len(buf) \in Nat
        /\ Len(buf) <= Len(ingestBuf) + 1 /\ Len(ingestBuf) <= n
    BY <2>1, <2>2, <2>3, <2>4 DEF Lesser
  <2>6. ASSUME NEW i \in 1..Len(buf) PROVE buf[i] = ingested'[n + 2 - i]
    <3>1. CASE i = 1
      BY <1>5, <2>1, <2>4, <3>1
    <3>2. CASE i \in 2..Len(buf)
      <4>1. buf[i] = ingestBuf[i - 1] /\ i - 1 \in 1..Len(ingestBuf)
        BY <2>1, <2>2, <2>5, <3>2
      <4>2. ingestBuf[i - 1] = ingested[n + 1 - (i - 1)]
        BY <2>3, <4>1
      <4>3. n + 1 - (i - 1) = n + 2 - i /\ n + 2 - i \in 1..n
        BY <2>2, <2>4, <2>5, <4>1
      <4> QED
        BY <1>5, <4>1, <4>2, <4>3
    <3> QED
      BY <2>5, <3>1, <3>2
  <2>7. Len(ingested') + 1 = n + 2
    BY <1>5, <2>4
  <2> HIDE DEF n
  <2>8. Len(ingested') = n + 1
    BY <1>5 DEF n
  <2>9. ASSUME NEW i \in 1..Len(buf) PROVE buf[i] = ingested'[Len(ingested') + 1 - i]
    <3>1. Len(ingested') + 1 - i = n + 2 - i
      BY <2>4, <2>7
    <3> QED
      BY <2>6, <3>1
  <2> QED
    BY <2>2, <2>5, <2>8, <2>9 DEF RingState
<1>9. StoredState'
  <2>1. ASSUME NEW q \in mem \cup store PROVE Slot(q) \in Slots /\ q.at \in Nat
    BY <2>1, ClockAssumption DEF TypeOK, Positions, Slot, Slots, Stamps
  <2>2. ASSUME NEW q \in mem' PROVE q.at <= vehicleSeen'[Slot(q)]
    <3>1. CASE q \in mem
      <4>1. q.at <= vehicleSeen[Slot(q)]
        BY <3>1 DEF StoredState
      <4> QED
        BY <1>3, <1>6, <2>1, <3>1, <4>1
    <3>2. CASE q = p
      BY <1>2, <1>6, <3>2
    <3> QED
      BY <1>2, <3>1, <3>2
  <2>3. ASSUME NEW q \in store PROVE q.at <= vehicleSeen'[Slot(q)] \/ Shadowed(q)'
    <3>1. q.at <= vehicleSeen[Slot(q)] \/ Shadowed(q)
      BY DEF StoredState
    <3>2. Shadowed(q) => Shadowed(q)'
      BY <1>2 DEF Shadowed
    <3> QED
      BY <1>3, <1>6, <2>1, <3>1, <3>2
  <2> QED
    BY <1>2, <2>2, <2>3 DEF StoredState
<1> QED
  BY <1>7, <1>8, <1>9

\* A flush, of all agencies or of some, moves seen positions to the store.
LEMMA FlushViews ==
  ASSUME SeenState, RingState, StoredState, NEW done, Flushed(done),
         UNCHANGED <<vehicleSeen, ingestBuf, ingested, restored>>
  PROVE  SeenState' /\ RingState' /\ StoredState'
<1>1. SeenState' /\ RingState'
  BY DEF SeenState, RingState
<1>2. mem' \subseteq mem /\ store \subseteq store' /\ store' \subseteq store \cup mem
  BY DEF Flushed
<1>3. StoredState'
  BY <1>2 DEF StoredState, Shadowed
<1> QED
  BY <1>1, <1>3

\* A process starts with the latest committed position of each identifier that
\* is found in a key.
LEMMA RestartViews ==
  ASSUME TypeOK, Restart
  PROVE  /\ SeenState' /\ RingState' /\ StoredState'
         /\ store' \subseteq Positions
         /\ vehicleSeen' \in [Slots -> {0} \cup Stamps]
<1>1. store' \subseteq Positions /\ mem' = {}
  BY DEF Restart, TypeOK
<1>2. PICK w \in {f \in [Agencies \X {KeyID[v] : v \in Vehicles} -> Vehicles] :
                    \A a \in Agencies, v \in Vehicles :
                       LET best == f[<<a, KeyID[v]>>]
                       IN  /\ KeyID[best] = KeyID[v]
                           /\ Newest(store', <<a, v>>) <= Newest(store', <<a, best>>)} :
             vehicleSeen' = [k \in Slots |-> IF k[2] = w[<<k[1], KeyID[k[2]]>>]
                                             THEN Newest(store', k) ELSE 0]
  BY DEF Restart, Hydrations
<1>3. ASSUME NEW k \in Slots
      PROVE  /\ k[1] \in Agencies /\ k[2] \in Vehicles /\ k = <<k[1], k[2]>>
             /\ Newest(store', k) \in {0} \cup Stamps
             /\ \A p \in store' : Slot(p) = k => p.at <= Newest(store', k)
             /\ Newest(store', k) # 0 =>
                   \E p \in store' : Slot(p) = k /\ p.at = Newest(store', k)
  <2>1. k[1] \in Agencies /\ k[2] \in Vehicles /\ k = <<k[1], k[2]>>
    BY DEF Slots
  <2> QED
    BY <1>1, <2>1, NewestFacts
<1>4. vehicleSeen' \in [Slots -> {0} \cup Stamps]
  BY <1>2, <1>3
<1>5. /\ ingested' = <<>> /\ ingestBuf' = <<>> /\ restored' = vehicleSeen'
  BY DEF Restart
<1>6. SeenState'
  <2>1. \A k \in Slots : vehicleSeen'[k] \in Nat
    BY <1>4, ClockAssumption DEF Stamps
  <2> QED
    BY <1>5, <2>1 DEF SeenState
<1>7. RingState'
  BY <1>5, CapAssumption DEF RingState, Lesser
<1>8. ASSUME NEW p \in store' PROVE p.at <= vehicleSeen'[Slot(p)] \/ Shadowed(p)'
  <2> DEFINE a == p.agency
             v == p.vehicle
             best == w[<<a, KeyID[v]>>]
  <2>1. a \in Agencies /\ v \in Vehicles /\ p.at \in Stamps
    BY <1>1 DEF Positions
  <2>2. <<a, KeyID[v]>> \in Agencies \X {KeyID[u] : u \in Vehicles}
    BY <2>1
  <2>3. best \in Vehicles /\ KeyID[best] = KeyID[v]
        /\ Newest(store', <<a, v>>) <= Newest(store', <<a, best>>)
    BY <2>1, <2>2
  <2>4. /\ Slot(p) = <<a, v>> /\ <<a, v>> \in Slots /\ <<a, best>> \in Slots
        /\ <<a, v>>[1] = a /\ <<a, v>>[2] = v
    BY <2>1, <2>3 DEF Slot, Slots
  <2>5. p.at <= Newest(store', <<a, v>>)
    BY <1>3, <2>4
  <2>6. vehicleSeen'[<<a, v>>] = IF v = best THEN Newest(store', <<a, v>>) ELSE 0
    BY <1>2, <2>4
  <2> HIDE DEF best
  <2>7. CASE v = best
    BY <2>4, <2>5, <2>6, <2>7
  <2>8. CASE v # best
    <3>1. /\ Newest(store', <<a, v>>) \in Nat /\ Newest(store', <<a, best>>) \in Nat
          /\ p.at \in Nat /\ p.at >= 1
      BY <1>3, <2>1, <2>4, ClockAssumption DEF Stamps
    <3>2. Newest(store', <<a, best>>) # 0
      BY <2>3, <2>5, <3>1
    <3>3. PICK q \in store' : Slot(q) = <<a, best>>
      BY <1>3, <2>4, <3>2
    <3>4. q.agency = a /\ q.vehicle = best
      BY <3>3 DEF Slot
    <3> QED
      BY <2>3, <2>8, <3>4 DEF Shadowed
  <2> QED
    BY <2>7, <2>8
<1> QED
  BY <1>1, <1>4, <1>6, <1>7, <1>8 DEF StoredState

-----------------------------------------------------------------------------
(* The cycle *)

\* parseFeedMessage returns positions of the feed that was polled.
LEMMA ParseFacts ==
  ASSUME TypeOK, Polling, NEW body \in Bodies
  PROVE  parseFeedMessage(body) \in Seq(Positions)
<1> DEFINE kept == ValidEntities(body)
           parsed == [i \in DOMAIN kept |->
                        [agency |-> Feed, vehicle |-> kept[i].vehicle,
                         at |-> IF kept[i].at = 0 THEN now ELSE kept[i].at]]
<1>1. kept \in Seq(Entities)
  BY BodiesAssumption
<1>2. Feed \in Agencies
  <2>1. Feeds \in Seq(Agencies) /\ Len(results) \in Nat /\ Len(results) < Len(Feeds)
    BY FeedsAssumption DEF TypeOK, Polling
  <2>2. Len(results) + 1 \in 1..Len(Feeds)
    BY <2>1
  <2> QED
    BY <2>1, <2>2 DEF Feed
<1>3. now \in Stamps
  BY ClockAssumption DEF TypeOK, Stamps
<1>4. DOMAIN kept = 1..Len(kept) /\ Len(kept) \in Nat
  BY <1>1
<1>5. ASSUME NEW i \in DOMAIN kept
      PROVE  [agency |-> Feed, vehicle |-> kept[i].vehicle,
              at |-> IF kept[i].at = 0 THEN now ELSE kept[i].at] \in Positions
  <2>1. kept[i] \in Entities
    BY <1>1, <1>4
  <2> QED
    BY <1>2, <1>3, <2>1 DEF Entities, Positions
<1> HIDE DEF kept
<1>6. parsed \in Seq(Positions)
  BY <1>4, <1>5
<1> QED
  BY <1>6 DEF parseFeedMessage, kept

\* The elements of two sequences, one after the other.
LEMMA ElementsOfConcat ==
  ASSUME NEW S, NEW s \in Seq(S), NEW t \in Seq(S)
  PROVE  Elements(s \o t) = Elements(s) \cup Elements(t)
<1>1. /\ Len(s) \in Nat /\ Len(t) \in Nat
      /\ DOMAIN s = 1..Len(s) /\ DOMAIN t = 1..Len(t)
      /\ DOMAIN (s \o t) = 1..(Len(s) + Len(t))
      /\ \A i \in 1..Len(s) : (s \o t)[i] = s[i]
      /\ \A i \in 1..Len(t) : (s \o t)[Len(s) + i] = t[i]
  OBVIOUS
<1>2. ASSUME NEW x \in Elements(s \o t) PROVE x \in Elements(s) \cup Elements(t)
  <2>1. PICK i \in 1..(Len(s) + Len(t)) : x = (s \o t)[i]
    BY <1>1, <1>2 DEF Elements
  <2>2. CASE i \in 1..Len(s)
    BY <1>1, <2>1, <2>2 DEF Elements
  <2>3. CASE i > Len(s)
    <3>1. i - Len(s) \in 1..Len(t) /\ Len(s) + (i - Len(s)) = i
      BY <1>1, <2>1, <2>3
    <3>2. x = t[i - Len(s)]
      BY <1>1, <2>1, <3>1
    <3> QED
      BY <1>1, <3>1, <3>2 DEF Elements
  <2> QED
    BY <1>1, <2>1, <2>2, <2>3
<1>3. ASSUME NEW x \in Elements(s) PROVE x \in Elements(s \o t)
  <2>1. PICK i \in 1..Len(s) : x = s[i]
    BY <1>1, <1>3 DEF Elements
  <2>2. i \in 1..(Len(s) + Len(t)) /\ x = (s \o t)[i]
    BY <1>1, <2>1
  <2> QED
    BY <1>1, <2>2 DEF Elements
<1>4. ASSUME NEW x \in Elements(t) PROVE x \in Elements(s \o t)
  <2>1. PICK i \in 1..Len(t) : x = t[i]
    BY <1>1, <1>4 DEF Elements
  <2>2. Len(s) + i \in 1..(Len(s) + Len(t)) /\ x = (s \o t)[Len(s) + i]
    BY <1>1, <2>1
  <2> QED
    BY <1>1, <2>2 DEF Elements
<1> QED
  BY <1>2, <1>3, <1>4

\* PollSequential goes on to the next feed.
LEMMA ResultFacts ==
  ASSUME TypeOK, Len(results) < Len(Feeds), NEW r \in {"ok", "error"}, Result(r)
  PROVE  /\ results' \in Seq({"ok", "error"}) /\ Len(results') <= Len(Feeds)
         /\ phase' = "fetch" /\ attempt' \in 0..(maxPollAttempts - 1)
         /\ wait' \in -Half..(Half - 1) /\ header' = NoHeader
<1>1. /\ results \in Seq({"ok", "error"}) /\ Len(results) \in Nat /\ Len(Feeds) \in Nat
      /\ results' = Append(results, r)
  BY FeedsAssumption DEF TypeOK, Result
<1>2. results' \in Seq({"ok", "error"}) /\ Len(results') = Len(results) + 1
  BY <1>1
<1>3. Half \in Nat /\ Half > 0
  BY WidthAssumption, BackoffAssumption, TimesMono
<1> QED
  BY <1>1, <1>2, <1>3, AttemptsAssumption DEF Result

\* The parts of the invariant that a cycle is about.
CycleInv == TypeOK /\ CycleState /\ RateLimitRespected

\* A feed answers.
LEMMA FetchedInv ==
  ASSUME CycleInv, NEW body \in Bodies, Fetched(body)
  PROVE  CycleInv'
<1>1. TypeOK /\ Polling /\ phase = "fetch" /\ Len(results) < Len(Feeds) /\ puts = 0
  BY DEF CycleInv, CycleState, Fetched, Polling
<1> DEFINE q == parseFeedMessage(body)
<1>2. q \in Seq(Positions) /\ all \in Seq(Positions)
  BY <1>1, ParseFacts DEF TypeOK
<1>3. /\ Result("ok") /\ all' = all \o q /\ found' = found \cup Elements(q)
      /\ UNCHANGED <<now, ctxDone, puts, pipeVars, lastPoll, cycles, restarts>>
  BY DEF Fetched
<1> HIDE DEF q
<1>4. all' \in Seq(Positions) /\ found' = Elements(all')
  BY <1>2, <1>3, ElementsOfConcat DEF CycleInv, CycleState
<1>5. /\ results' \in Seq({"ok", "error"}) /\ Len(results') <= Len(Feeds)
      /\ phase' = "fetch" /\ attempt' \in 0..(maxPollAttempts - 1)
      /\ wait' \in -Half..(Half - 1) /\ header' = NoHeader
  BY <1>1, <1>3, ResultFacts
<1>6. puts' = 0 /\ 0 \in 0..Len(all')
  BY <1>1, <1>3, <1>4
<1>7. TypeOK'
  BY <1>1, <1>3, <1>4, <1>5, <1>6 DEF TypeOK, pipeVars
<1> QED
  BY <1>4, <1>5, <1>6, <1>7 DEF CycleInv, CycleState, RateLimitRespected

\* A feed fails, or the process is told to stop in a pause.
LEMMA FetchFailsInv ==
  ASSUME CycleInv, FetchFails
  PROVE  CycleInv'
<1>1. TypeOK /\ Len(results) < Len(Feeds) /\ puts = 0 /\ found = Elements(all)
  BY DEF CycleInv, CycleState, FetchFails, Polling
<1>2. /\ Result("error")
      /\ UNCHANGED <<now, ctxDone, all, puts, found, pipeVars, lastPoll>>
  BY DEF FetchFails
<1>3. /\ results' \in Seq({"ok", "error"}) /\ Len(results') <= Len(Feeds)
      /\ phase' = "fetch" /\ attempt' \in 0..(maxPollAttempts - 1)
      /\ wait' \in -Half..(Half - 1) /\ header' = NoHeader
  BY <1>1, <1>2, ResultFacts
<1>4. TypeOK'
  BY <1>1, <1>2, <1>3 DEF TypeOK, pipeVars
<1> QED
  BY <1>1, <1>2, <1>3, <1>4 DEF CycleInv, CycleState, RateLimitRespected

\* A feed answers with 429.
LEMMA RateLimitedInv ==
  ASSUME CycleInv, NEW h \in RetryAfters, RateLimited(h)
  PROVE  CycleInv'
<1>1. TypeOK /\ Len(results) < Len(Feeds) /\ puts = 0 /\ found = Elements(all)
  BY DEF CycleInv, CycleState, RateLimited, Polling
<1>2. UNCHANGED <<now, ctxDone, all, puts, found, pipeVars, lastPoll>>
  BY DEF RateLimited
<1>3. CASE attempt = maxPollAttempts - 1
  <2>1. Result("error")
    BY <1>3 DEF RateLimited
  <2>2. /\ results' \in Seq({"ok", "error"}) /\ Len(results') <= Len(Feeds)
        /\ phase' = "fetch" /\ attempt' \in 0..(maxPollAttempts - 1)
        /\ wait' \in -Half..(Half - 1) /\ header' = NoHeader
    BY <1>1, <2>1, ResultFacts
  <2>3. TypeOK'
    BY <1>1, <1>2, <2>2 DEF TypeOK, pipeVars
  <2> QED
    BY <1>1, <1>2, <2>2, <2>3 DEF CycleInv, CycleState, RateLimitRespected
<1>4. CASE attempt # maxPollAttempts - 1
  <2>1. /\ phase' = "wait" /\ wait' = WaitFor(attempt, h) /\ header' = h
        /\ attempt' = attempt + 1 /\ results' = results
    BY <1>4 DEF RateLimited
  <2>2. attempt \in 0..(maxPollAttempts - 1) /\ attempt' \in 0..(maxPollAttempts - 1)
    BY <1>1, <1>4, <2>1, AttemptsAssumption DEF TypeOK
  <2>3. /\ wait' \in -Half..(Half - 1)
        /\ wait' <= Cap * Second
        /\ h = NoHeader => wait' >= Initial * Second
        /\ h # NoHeader /\ h * Second < Half => wait' >= Lesser(h, Cap) * Second
    BY <2>1, <2>2, WaitFacts
  <2>4. TypeOK'
    BY <1>1, <1>2, <2>1, <2>2, <2>3 DEF TypeOK, pipeVars
  <2>5. RateLimitRespected'
    BY <2>1, <2>3 DEF RateLimitRespected
  <2> QED
    BY <1>1, <1>2, <2>1, <2>4, <2>5 DEF CycleInv, CycleState
<1> QED
  BY <1>3, <1>4

\* A pause is over, a cycle begins, or the feeds of one have been polled.
LEMMA ControlInv ==
  ASSUME CycleInv, Retry \/ StartPoll \/ Collected
  PROVE  CycleInv'
<1>1. TypeOK /\ CycleState
  BY DEF CycleInv
<1>2. Half \in Nat /\ Half > 0
  BY WidthAssumption, BackoffAssumption, TimesMono
<1>3. CASE Retry
  <2>1. TypeOK'
    BY <1>1, <1>2, <1>3 DEF TypeOK, Retry, pipeVars
  <2> QED
    BY <1>1, <1>3, <2>1 DEF CycleInv, CycleState, RateLimitRespected, Retry
<1>4. CASE StartPoll
  <2>1. /\ <<>> \in Seq({"ok", "error"}) /\ <<>> \in Seq(Positions)
        /\ Len(<<>>) = 0 /\ Len(Feeds) \in Nat /\ Elements(<<>>) = {}
    BY FeedsAssumption DEF Elements
  <2>2. TypeOK'
    BY <1>1, <1>4, <2>1, AttemptsAssumption DEF TypeOK, StartPoll, pipeVars
  <2> QED
    BY <1>4, <2>1, <2>2 DEF CycleInv, CycleState, RateLimitRespected, StartPoll
<1>5. CASE Collected
  <2>1. /\ phase = "fetch" /\ Len(results) = Len(Feeds) /\ phase' \in {"idle", "write"}
        /\ lastPoll' \in {lastPoll, now}
        /\ UNCHANGED <<now, ctxDone, results, attempt, wait, header, all, puts, found, pipeVars>>
    BY <1>5 DEF Collected
  <2>2. lastPoll' \in 0..MaxNow
    BY <1>1, <2>1, ClockAssumption DEF TypeOK
  <2>3. TypeOK'
    BY <1>1, <2>1, <2>2 DEF TypeOK, pipeVars
  <2>4. puts = 0
    BY <1>1, <2>1 DEF CycleState
  <2> QED
    BY <1>1, <2>1, <2>3, <2>4 DEF CycleInv, CycleState, RateLimitRespected
<1> QED
  BY <1>3, <1>4, <1>5

\* Write puts one position.
LEMMA PutInv ==
  ASSUME CycleInv, Put
  PROVE  CycleInv'
<1>1. TypeOK /\ CycleState /\ phase = "write"
  BY DEF CycleInv, Put
<1>2. PICK p : p = all[puts + 1]
  OBVIOUS
<1>3. /\ p \in Positions
      /\ mem' = mem \cup {p}
      /\ vehicleSeen' \in [Slots -> {0} \cup Stamps]
      /\ ingestBuf' = recordIngest(p)
      /\ ingested' = Append(ingested, p)
      /\ UNCHANGED <<store, restored, all>>
  BY <1>1, <1>2, PutFacts
<1>4. /\ puts \in Nat /\ Len(all) \in Nat /\ puts < Len(all) /\ puts' = puts + 1
      /\ UNCHANGED <<now, ctxDone, phase, results, attempt, wait, header, found, lastPoll>>
  BY <1>1 DEF TypeOK, Put
<1>5. ingestBuf' \in Seq(Positions) /\ ingested' \in Seq(Positions)
  BY <1>1, <1>3, recordIngestFacts DEF TypeOK
<1>6. puts' \in 0..Len(all')
  BY <1>3, <1>4
<1>7. TypeOK'
  BY <1>1, <1>3, <1>4, <1>5, <1>6 DEF TypeOK
<1>8. ASSUME NEW i \in 1..puts' PROVE all'[i] \in mem' \cup store'
  <2>1. CASE i = puts + 1
    BY <1>2, <1>3, <2>1
  <2>2. CASE i \in 1..puts
    BY <1>1, <1>3, <2>2 DEF CycleState
  <2> QED
    BY <1>4, <2>1, <2>2
<1> QED
  BY <1>1, <1>3, <1>4, <1>7, <1>8 DEF CycleInv, CycleState, RateLimitRespected

\* A write ends, or a process does.
LEMMA EndInv ==
  ASSUME CycleInv, PollComplete \/ WriteFails \/ Restart
  PROVE  CycleInv'
<1>1. TypeOK /\ CycleState
  BY DEF CycleInv
<1>2. CASE PollComplete \/ WriteFails
  <2>1. /\ phase' = "idle" /\ lastPoll' \in {lastPoll, now}
        /\ UNCHANGED <<now, ctxDone, results, attempt, wait, header, all, puts, found,
                       vehicleSeen, ingestBuf, ingested, restored>>
    BY <1>2 DEF PollComplete, WriteFails
  <2>2. mem' \subseteq Positions /\ store' \subseteq Positions
    BY <1>1, <1>2 DEF PollComplete, WriteFails, Flushed, TypeOK
  <2>3. lastPoll' \in 0..MaxNow
    BY <1>1, <2>1, ClockAssumption DEF TypeOK
  <2>4. TypeOK'
    BY <1>1, <2>1, <2>2, <2>3 DEF TypeOK
  <2> QED
    BY <1>1, <2>1, <2>4 DEF CycleInv, CycleState, RateLimitRespected
<1>3. CASE Restart
  <2>1. /\ <<>> \in Seq({"ok", "error"}) /\ <<>> \in Seq(Positions)
        /\ Len(<<>>) = 0 /\ Len(Feeds) \in Nat /\ Elements(<<>>) = {}
    BY FeedsAssumption DEF Elements
  <2>2. Half \in Nat /\ Half > 0
    BY WidthAssumption, BackoffAssumption, TimesMono
  <2>3. store' \subseteq Positions /\ vehicleSeen' \in [Slots -> {0} \cup Stamps]
    BY <1>1, <1>3, RestartViews
  <2>4. /\ now' = now /\ mem' = {} /\ restored' = vehicleSeen'
        /\ ingestBuf' = <<>> /\ ingested' = <<>> /\ lastPoll' = 0
        /\ phase' = "idle" /\ ctxDone' = FALSE
        /\ results' = <<>> /\ attempt' = 0 /\ wait' = 0 /\ header' = NoHeader
        /\ all' = <<>> /\ puts' = 0 /\ found' = {}
    BY <1>3 DEF Restart
  <2>5. /\ now' \in 1..MaxNow /\ lastPoll' \in 0..MaxNow /\ ctxDone' \in BOOLEAN
        /\ attempt' \in 0..(maxPollAttempts - 1) /\ wait' \in -Half..(Half - 1)
        /\ Len(results') <= Len(Feeds) /\ puts' \in 0..Len(all')
    <3>1. now \in 1..MaxNow /\ MaxNow \in Nat /\ maxPollAttempts \in Nat \ {0}
      BY <1>1, AttemptsAssumption, ClockAssumption DEF TypeOK
    <3>2. Len(results') = 0 /\ Len(all') = 0
      BY <2>1, <2>4
    <3>3. 0 \in 0..(maxPollAttempts - 1) /\ 0 \in -Half..(Half - 1) /\ 0 \in 0..MaxNow
      BY <2>2, <3>1
    <3>4. Len(results') <= Len(Feeds) /\ puts' \in 0..Len(all')
      BY <2>1, <2>4, <3>2
    <3> QED
      BY <2>4, <3>1, <3>3, <3>4
  <2>6. TypeOK'
    BY <2>1, <2>3, <2>4, <2>5 DEF TypeOK
  <2> QED
    BY <2>1, <2>4, <2>6 DEF CycleInv, CycleState, RateLimitRespected
<1> QED
  BY <1>2, <1>3

\* The signal and the clock.
LEMMA EnvironmentInv ==
  ASSUME CycleInv, Cancel \/ Tick
  PROVE  CycleInv'
<1>1. TypeOK /\ CycleState /\ RateLimitRespected
  BY DEF CycleInv
<1>2. /\ now' \in 1..MaxNow /\ ctxDone' \in BOOLEAN
      /\ UNCHANGED <<phase, results, attempt, wait, header, all, puts, found, pipeVars, lastPoll>>
  <2>1. now \in 1..MaxNow /\ ctxDone \in BOOLEAN /\ MaxNow \in Nat
    BY <1>1, ClockAssumption DEF TypeOK
  <2>2. CASE Cancel
    BY <2>1, <2>2 DEF Cancel, pollVars
  <2>3. CASE Tick
    BY <2>1, <2>3 DEF Tick, pollVars
  <2> QED
    BY <2>2, <2>3
<1>3. TypeOK'
  BY <1>1, <1>2 DEF TypeOK, pipeVars
<1> QED
  BY <1>1, <1>2, <1>3 DEF CycleInv, CycleState, RateLimitRespected, pipeVars

-----------------------------------------------------------------------------
(* The theorems *)

\* The inductive invariant holds when the first process starts.
LEMMA InitInv == Init => IInv
<1> SUFFICES ASSUME Init PROVE IInv
  OBVIOUS
<1>1. /\ <<>> \in Seq({"ok", "error"}) /\ <<>> \in Seq(Positions)
      /\ Len(<<>>) = 0 /\ Len(Feeds) \in Nat /\ Elements(<<>>) = {}
  BY FeedsAssumption DEF Elements
<1>2. Half \in Nat /\ Half > 0
  BY WidthAssumption, BackoffAssumption, TimesMono
<1>3. /\ now = 1 /\ ctxDone = FALSE /\ phase = "idle" /\ results = <<>> /\ attempt = 0
      /\ wait = 0 /\ header = NoHeader /\ all = <<>> /\ puts = 0 /\ found = {}
      /\ vehicleSeen = [k \in Slots |-> 0] /\ restored = [k \in Slots |-> 0]
      /\ ingestBuf = <<>> /\ lastPoll = 0 /\ mem = {} /\ store = {} /\ ingested = <<>>
  BY DEF Init
<1>4. TypeOK
  <2>1. /\ 1 \in 1..MaxNow /\ 0 \in 0..MaxNow /\ 0 \in 0..(maxPollAttempts - 1)
        /\ 0 \in -Half..(Half - 1)
    BY <1>2, AttemptsAssumption, ClockAssumption
  <2>2. Len(results) <= Len(Feeds) /\ puts \in 0..Len(all)
    BY <1>1, <1>3
  <2>3. /\ vehicleSeen \in [Slots -> {0} \cup Stamps]
        /\ restored \in [Slots -> {0} \cup Stamps]
    BY <1>3
  <2> QED
    BY <1>1, <1>3, <2>1, <2>2, <2>3 DEF TypeOK
<1>5. CycleState /\ RateLimitRespected
  BY <1>1, <1>3 DEF CycleState, RateLimitRespected
<1>6. SeenState /\ StoredState
  BY <1>3 DEF SeenState, StoredState
<1>7. RingState
  BY <1>1, <1>3, CapAssumption DEF RingState, Lesser
<1> QED
  BY <1>4, <1>5, <1>6, <1>7 DEF IInv

\* Every step preserves the inductive invariant.
LEMMA NextInv == IInv /\ [Next]_vars => IInv'
<1> SUFFICES ASSUME IInv, [Next]_vars PROVE IInv'
  OBVIOUS
<1>1. TypeOK /\ CycleInv /\ SeenState /\ RingState /\ StoredState
  BY DEF IInv, CycleInv
<1>2. ASSUME CycleInv', SeenState', RingState', StoredState' PROVE IInv'
  BY <1>2 DEF IInv, CycleInv
<1>3. ASSUME CycleInv', UNCHANGED pipeVars PROVE IInv'
  BY <1>1, <1>2, <1>3, SamePipe
<1>4. ASSUME NEW body \in Bodies, Fetched(body) PROVE IInv'
  BY <1>1, <1>3, <1>4, FetchedInv DEF Fetched
<1>5. CASE FetchFails
  BY <1>1, <1>3, <1>5, FetchFailsInv DEF FetchFails
<1>6. ASSUME NEW h \in RetryAfters, RateLimited(h) PROVE IInv'
  BY <1>1, <1>3, <1>6, RateLimitedInv DEF RateLimited
<1>7. CASE Retry \/ StartPoll \/ Collected
  BY <1>1, <1>3, <1>7, ControlInv DEF Retry, StartPoll, Collected
<1>8. CASE Put
  BY <1>1, <1>2, <1>8, PutInv, PutViews
<1>9. CASE PollComplete \/ WriteFails
  <2>1. PICK done : Flushed(done)
    BY <1>9 DEF PollComplete, WriteFails
  <2>2. UNCHANGED <<vehicleSeen, ingestBuf, ingested, restored>>
    BY <1>9 DEF PollComplete, WriteFails
  <2> QED
    BY <1>1, <1>2, <1>9, <2>1, <2>2, EndInv, FlushViews
<1>10. CASE Restart
  BY <1>1, <1>2, <1>10, EndInv, RestartViews
<1>11. CASE Cancel \/ Tick
  BY <1>1, <1>3, <1>11, EnvironmentInv DEF Cancel, Tick
<1>12. CASE UNCHANGED vars
  <2>1. CycleInv'
    BY <1>1, <1>12 DEF vars, CycleInv, TypeOK, CycleState, RateLimitRespected
  <2> QED
    BY <1>3, <1>12, <2>1 DEF vars, pipeVars
<1> QED
  BY <1>4, <1>5, <1>6, <1>7, <1>8, <1>9, <1>10, <1>11, <1>12 DEF Next, Cycle

\* The inductive invariant: what a cycle has parsed and written, what the views
\* were made of, and what the next process will find.
THEOREM Invariance == Spec => []IInv
<1> QED
  BY InitInv, NextInv, PTL DEF Spec

\* Every variable keeps its type: the pauses stay within a Duration.
THEOREM TypeCorrect == Spec => []TypeOK
<1>1. IInv => TypeOK
  BY DEF IInv
<1> QED
  BY <1>1, Invariance, PTL

\* waitFor of the poller: a pause is never longer than Backoff.Max, and never
\* shorter than the upstream asked for unless that is more than Backoff.Max or
\* does not fit into a Duration.
THEOREM PausesRespected == Spec => []RateLimitRespected
<1>1. IInv => RateLimitRespected
  BY DEF IInv
<1> QED
  BY <1>1, Invariance, PTL

\* LivePositionsFor shows a vehicle exactly when a position of it, ingested or
\* restored, is within the window: late and repeated positions do no harm.
THEOREM LiveExact == Spec => []LiveIsNewest
<1>1. ASSUME IInv PROVE LiveIsNewest
  <2>1. /\ now \in Int /\ Window \in Int
        /\ \A k \in Slots : vehicleSeen[k] \in Nat /\ restored[k] \in Nat /\ k[1] \in Agencies
    BY <1>1, ClockAssumption DEF IInv, TypeOK, Stamps, Slots
  <2>2. \A i \in DOMAIN ingested : ingested[i].at \in Nat \ {0}
    <3>1. \A i \in DOMAIN ingested : ingested[i] \in Positions
      BY <1>1 DEF IInv, TypeOK
    <3> QED
      BY <3>1, ClockAssumption DEF Positions, Stamps
  <2> DEFINE ts(k) == {restored[k]} \cup {p.at : p \in {q \in Elements(ingested) : Slot(q) = k}}
  <2>3. ASSUME NEW k \in Slots, NEW t \in ts(k) PROVE t \in Nat /\ t <= vehicleSeen[k]
    <3>1. CASE t = restored[k]
      BY <1>1, <2>1, <3>1 DEF IInv, SeenState
    <3>2. CASE t # restored[k]
      <4>1. PICK i \in DOMAIN ingested : Slot(ingested[i]) = k /\ t = ingested[i].at
        BY <2>3, <3>2 DEF Elements
      <4> QED
        BY <1>1, <2>2, <4>1 DEF IInv, SeenState
    <3> QED
      BY <3>1, <3>2
  <2>4. ASSUME NEW k \in Slots PROVE vehicleSeen[k] \in ts(k)
    BY <1>1 DEF IInv, SeenState, Elements
  <2> HIDE DEF ts
  <2>5. ASSUME NEW k \in Slots
        PROVE  /\ k[1] \in Agencies
               /\ (vehicleSeen[k] # 0 /\ now - vehicleSeen[k] <= Window)
                  <=> \E t \in ts(k) : t # 0 /\ now - t <= Window
    <3>1. ASSUME NEW t \in ts(k), t # 0, now - t <= Window
          PROVE  vehicleSeen[k] # 0 /\ now - vehicleSeen[k] <= Window
      <4>1. t \in Nat /\ t <= vehicleSeen[k] /\ vehicleSeen[k] \in Nat
        BY <2>1, <2>3
      <4> QED
        BY <2>1, <3>1, <4>1
    <3> QED
      BY <2>1, <2>4, <3>1
  <2>6. LivePositionsFor(Agencies) =
           {k \in Slots : \E t \in ts(k) : t # 0 /\ now - t <= Window}
    BY <2>5 DEF LivePositionsFor
  <2> QED
    BY <2>6 DEF LiveIsNewest, ts
<1> QED
  BY <1>1, Invariance, PTL

\* RecentIngestForRegion has the last ingestCap positions written, backwards.
THEOREM RingExact == Spec => []RingIsRecent
<1>1. ASSUME IInv PROVE RingIsRecent
  <2> DEFINE last == [i \in 1..Lesser(Len(ingested), ingestCap) |->
                         ingested[Len(ingested) + 1 - i]]
  <2>1. /\ ingestBuf \in Seq(Positions) /\ Len(ingestBuf) = Lesser(Len(ingested), ingestCap)
        /\ \A i \in 1..Len(ingestBuf) : ingestBuf[i] = ingested[Len(ingested) + 1 - i]
    BY <1>1 DEF IInv, TypeOK, RingState
  <2>2. ingestBuf = [i \in 1..Len(ingestBuf) |-> ingestBuf[i]]
    BY <2>1
  <2>3. ingestBuf = last
    BY <2>1, <2>2
  <2> HIDE DEF last
  <2>4. \A A \in SUBSET Agencies : RecentIngest(A) = OfAgencies(last, A)
    BY <2>3 DEF RecentIngest
  <2> QED
    BY <2>4 DEF RingIsRecent, last
<1> QED
  BY <1>1, Invariance, PTL

\* hydrateFromSnapshot: no vehicle falls behind what is committed, unless
\* another vehicle is taken for it.
THEOREM LiveHydrated == Spec => []LiveSurvivesRestart
<1>1. ASSUME IInv PROVE LiveSurvivesRestart
  <2> SUFFICES ASSUME NEW k \in Slots, ~(Newest(store, k) <= vehicleSeen[k])
               PROVE  \E v \in Vehicles \ {k[2]} :
                         KeyID[v] = KeyID[k[2]] /\ Newest(store, <<k[1], v>>) # 0
    BY DEF LiveSurvivesRestart
  <2>1. store \subseteq Positions /\ vehicleSeen[k] \in Nat
    BY <1>1, ClockAssumption DEF IInv, TypeOK, Stamps
  <2>2. Newest(store, k) \in Nat /\ Newest(store, k) # 0
    BY <2>1, NewestFacts, ClockAssumption DEF Stamps
  <2>3. PICK p \in store : Slot(p) = k /\ p.at = Newest(store, k)
    BY <2>1, <2>2, NewestFacts
  <2>4. Shadowed(p)
    BY <1>1, <2>3 DEF IInv, StoredState
  <2>5. PICK q \in store : /\ q.agency = p.agency /\ q.vehicle # p.vehicle
                           /\ KeyID[q.vehicle] = KeyID[p.vehicle]
    BY <2>4 DEF Shadowed
  <2>6. /\ k[1] = p.agency /\ k[2] = p.vehicle
        /\ q.vehicle \in Vehicles /\ q.agency \in Agencies /\ q.at \in Stamps
    BY <2>1, <2>3, <2>5 DEF Slot, Positions
  <2>7. <<k[1], q.vehicle>> \in Slots /\ Slot(q) = <<k[1], q.vehicle>>
    BY <2>5, <2>6 DEF Slots, Slot
  <2>8. q.at <= Newest(store, <<k[1], q.vehicle>>)
        /\ Newest(store, <<k[1], q.vehicle>>) \in {0} \cup Stamps
    BY <2>1, <2>7, NewestFacts
  <2>9. Newest(store, <<k[1], q.vehicle>>) # 0
    BY <2>6, <2>8, ClockAssumption DEF Stamps
  <2> QED
    BY <2>5, <2>6, <2>9
<1> QED
  BY <1>1, Invariance, PTL

\* runPoll marks a cycle as polled only when every feed was tried and whatever
\* any of them answered is committed.
THEOREM PolledCommitted == Spec => PolledIsCommitted
<1> DEFINE A == lastPoll' # lastPoll /\ lastPoll' # 0 =>
                   Len(results) = Len(Feeds) /\ found \subseteq store'
<1>1. ASSUME IInv, [Next]_vars PROVE [A]_vars
  <2> SUFFICES ASSUME Next, lastPoll' # lastPoll, lastPoll' # 0
               PROVE  Len(results) = Len(Feeds) /\ found \subseteq store'
    BY <1>1
  <2>1. TypeOK /\ CycleState
    BY <1>1 DEF IInv
  <2>2. Collected \/ PollComplete
    BY DEF Next, Cycle, Fetched, FetchFails, RateLimited, Retry, StartPoll, Put, WriteFails,
           Restart, Cancel, Tick
  <2>3. CASE Collected
    <3>1. all = <<>> /\ Len(results) = Len(Feeds)
      BY <2>3 DEF Collected
    <3>2. found = {}
      BY <2>1, <3>1 DEF CycleState, Elements
    <3> QED
      BY <3>1, <3>2
  <2>4. CASE PollComplete
    <3>1. /\ phase = "write" /\ puts = Len(all)
          /\ store' = store \cup {p \in mem : p.agency \in Agencies}
      BY <2>4 DEF PollComplete, Flushed
    <3>2. mem \cup store \subseteq store'
      BY <2>1, <3>1 DEF TypeOK, Positions
    <3>3. DOMAIN all = 1..puts
      BY <2>1, <3>1 DEF TypeOK
    <3>4. found \subseteq mem \cup store
      BY <2>1, <3>1, <3>3 DEF CycleState, Elements
    <3> QED
      BY <2>1, <3>1, <3>2, <3>4 DEF CycleState
  <2> QED
    BY <2>2, <2>3, <2>4
<1> QED
  BY <1>1, Invariance, PTL DEF Spec, PolledIsCommitted

=============================================================================
