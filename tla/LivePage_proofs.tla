--------------------------- MODULE LivePage_proofs ---------------------------
(***************************************************************************)
(* Proofs about LivePage, for any regions, lengths of lists, numbers of    *)
(* requests, streams and lists.  The theorems assume of the constants that *)
(* the first region is one and that the length of lists is a number.       *)
(***************************************************************************)
EXTENDS LivePage, TLAPS

LOCAL WF == INSTANCE WellFoundedInduction

\* Every set of natural numbers that is not empty has a least element.
LEMMA LeastNat ==
  ASSUME NEW T, T \subseteq Nat, T # {}
  PROVE  \E x \in T : \A y \in T : x <= y
<1>1. WF!IsWellFoundedOn(WF!OpToRel(<, Nat), Nat)
  BY WF!NatLessThanWellFounded
<1>2. PICK x \in T : \A y \in T : ~ (<<y, x>> \in WF!OpToRel(<, Nat))
  BY <1>1, WF!WFMin
<1>3. \A y \in T : ~(y < x)
  BY <1>2 DEF WF!OpToRel
<1> QED
  BY <1>3

\* Induction up to n, for a set of numbers.
LEMMA UpTo ==
  ASSUME NEW n \in Nat, NEW P, 0 \in P, \A i \in 1..n : i - 1 \in P => i \in P
  PROVE  \A i \in 0..n : i \in P
<1> DEFINE T == (0..n) \ P
<1>1. CASE T # {}
  <2>a. T \subseteq Nat
    OBVIOUS
  <2>b. \E x \in T : \A y \in T : x <= y
    <3> HIDE DEF T
    <3> QED
      BY <1>1, <2>a, LeastNat
  <2>1. PICK x \in T : \A y \in T : x <= y
    BY <2>b
  <2>2. x \in 1..n
    BY <2>1
  <2>3. x - 1 \notin T
    BY <2>1, <2>2
  <2> QED
    BY <2>1, <2>2, <2>3
<1> QED
  BY <1>1

-----------------------------------------------------------------------------
(* One animation frame *)

\* What drawing one chunk of one list does to a map.
LEMMA DrawFacts ==
  ASSUME MaxChunks \in Nat,
         NEW m \in Maps, m.onmap \subseteq m.markers,
         NEW d \in Lists
  PROVE  /\ Draw(m, d) \in Maps
         /\ Draw(m, d).region = m.region
         /\ Draw(m, d).onmap \subseteq Draw(m, d).markers
<1>1. CASE d.i < d.n
  <2> DEFINE v == <<d.region, d.i + 1>>
  <2>1. v \in AllChunks
    BY <1>1 DEF Lists, AllChunks
  <2>2. Draw(m, d) = updateVehicle(m, v)
    BY <1>1 DEF Draw
  <2> HIDE DEF v
  <2> DEFINE o == IF v \notin m.markers /\ v[1] = m.region THEN m.onmap \cup {v} ELSE m.onmap
  <2>3. Draw(m, d) = [m EXCEPT !.markers = @ \cup {v}, !.onmap = o]
    BY <2>2 DEF updateVehicle
  <2>4. o \subseteq m.onmap \cup {v}
    OBVIOUS
  <2> HIDE DEF o
  <2> QED
    BY <2>1, <2>3, <2>4 DEF Maps
<1>2. CASE ~(d.i < d.n)
  <2>1. Draw(m, d) = Finished(m, d)
    BY <1>2 DEF Draw
  <2> QED
    BY <2>1 DEF Finished, Maps
<1> QED
  BY <1>1, <1>2

\* A frame leaves a map a map, and with one list it is one step of drawing.
LEMMA DrawnFacts ==
  ASSUME MaxChunks \in Nat,
         NEW m \in Maps, m.onmap \subseteq m.markers,
         NEW ds \in Seq(Lists)
  PROVE  /\ Drawn(m, ds) \in Maps
         /\ Drawn(m, ds).region = m.region
         /\ Drawn(m, ds).onmap \subseteq Drawn(m, ds).markers
         /\ Len(ds) = 1 => Drawn(m, ds) = Draw(m, ds[1])
<1> DEFINE n == Len(ds)
           X == {x \in Maps : x.region = m.region /\ x.onmap \subseteq x.markers}
           Rec(f, k) == f = [i \in 0..k |-> IF i = 0 THEN m ELSE Draw(f[i - 1], ds[i])]
<1>1. n \in Nat /\ m \in X
  OBVIOUS
<1>2. \A i \in 1..n : ds[i] \in Lists
  OBVIOUS
<1>3. \A x \in X, i \in 1..n : Draw(x, ds[i]) \in X
  BY <1>2, DrawFacts
<1>4. \E f : Rec(f, n)
  <2> DEFINE P == {k \in 0..n : \E f : Rec(f, k)}
  <2>1. 0 \in P
    <3>1. Rec([i \in 0..0 |-> m], 0)
      OBVIOUS
    <3> HIDE DEF Rec, n
    <3>2. \E f : Rec(f, 0)
      BY <3>1
    <3> QED
      BY <1>1, <3>2
  <2>2. ASSUME NEW k \in 1..n, k - 1 \in P PROVE k \in P
    <3>1. PICK h : Rec(h, k - 1)
      BY <2>2
    <3> DEFINE g == [i \in 0..k |-> IF i = k THEN Draw(h[k - 1], ds[k]) ELSE h[i]]
    <3>2. \A i \in 0..k : g[i] = IF i = 0 THEN m ELSE Draw(g[i - 1], ds[i])
      BY <1>1, <3>1
    <3>3. Rec(g, k)
      BY <3>2
    <3> HIDE DEF Rec, g
    <3>4. \E f : Rec(f, k)
      BY <3>3
    <3> QED
      BY <1>1, <3>4
  <2> HIDE DEF P, n
  <2>3. \A i \in 0..n : i \in P
    BY <1>1, <2>1, <2>2, UpTo
  <2>4. n \in P
    BY <1>1, <2>3
  <2> HIDE DEF Rec
  <2> QED
    BY <2>4 DEF P
<1> DEFINE g == CHOOSE f : Rec(f, n)
<1>5. Rec(g, n)
  BY <1>4
<1>6. Drawn(m, ds) = g[n]
  BY DEF Drawn
<1> HIDE DEF g
<1>7. g[0] = m /\ \A i \in 1..n : g[i] = Draw(g[i - 1], ds[i])
  BY <1>1, <1>5
<1>8. \A i \in 0..n : g[i] \in X
  <2> DEFINE P == {k \in 0..n : g[k] \in X}
  <2>1. 0 \in P
    BY <1>1, <1>7
  <2>2. ASSUME NEW k \in 1..n, k - 1 \in P PROVE k \in P
    <3>1. g[k - 1] \in X /\ k - 1 \in 0..n
      BY <2>2
    <3>2. g[k] = Draw(g[k - 1], ds[k])
      BY <1>7
    <3> HIDE DEF X, n
    <3>3. g[k] \in X
      BY <1>3, <3>1, <3>2
    <3> QED
      BY <1>1, <3>3
  <2> HIDE DEF P
  <2>3. \A i \in 0..n : i \in P
    BY <1>1, <2>1, <2>2, UpTo
  <2> QED
    BY <2>3 DEF P
<1>9. Drawn(m, ds) \in X
  BY <1>1, <1>6, <1>8
<1>10. Len(ds) = 1 => Drawn(m, ds) = Draw(m, ds[1])
  BY <1>6, <1>7
<1> QED
  BY <1>9, <1>10

\* The lists that remain are lists, none of them alone unless there was one,
\* and a single list remains, one chunk further, unless it is finished.
LEMMA RemainingFacts ==
  ASSUME MaxChunks \in Nat,
         NEW ds \in Seq(Lists), \A i \in DOMAIN ds : ds[i].i <= ds[i].n
  PROVE  /\ Remaining(ds) \in Seq(Lists)
         /\ \A i \in DOMAIN Remaining(ds) : Remaining(ds)[i].i <= Remaining(ds)[i].n
         /\ (\A i \in DOMAIN ds : ~ds[i].alone)
               => \A i \in DOMAIN Remaining(ds) : ~Remaining(ds)[i].alone
         /\ Len(ds) = 1 =>
               Remaining(ds) = IF ds[1].i < ds[1].n
                               THEN <<[ds[1] EXCEPT !.i = @ + 1]>> ELSE <<>>
<1> DEFINE n == Len(ds)
           some == \E i \in DOMAIN ds : ds[i].alone
           L == {d \in Lists : d.i <= d.n /\ (d.alone => some)}
           Step(r, d) == IF d.i < d.n THEN Append(r, [d EXCEPT !.i = @ + 1]) ELSE r
           Rec(f, k) == f = [i \in 0..k |-> IF i = 0 THEN <<>> ELSE Step(f[i - 1], ds[i])]
<1>1. n \in Nat
  OBVIOUS
<1>2. \A i \in 1..n : ds[i] \in L
  OBVIOUS
<1>3. ASSUME NEW d \in L, d.i < d.n PROVE [d EXCEPT !.i = @ + 1] \in L
  <2>1. d \in Lists /\ d.i <= d.n /\ (d.alone => some)
    BY <1>3
  <2> HIDE DEF some
  <2> DEFINE e == [d EXCEPT !.i = @ + 1]
  <2>2. e \in Lists /\ e.i <= e.n /\ e.alone = d.alone
    <3>1. d.i \in 0..MaxChunks /\ d.n \in 0..MaxChunks
      BY <2>1 DEF Lists
    <3>2. d.i + 1 \in 0..MaxChunks /\ d.i + 1 <= d.n
      BY <1>3, <3>1
    <3>3. e.i = d.i + 1 /\ e.n = d.n
      BY <2>1 DEF Lists
    <3>4. e.alone = d.alone
      BY <2>1 DEF Lists
    <3>5. e \in Lists
      BY <2>1, <3>2 DEF Lists
    <3> QED
      BY <3>2, <3>3, <3>4, <3>5
  <2> HIDE DEF e
  <2>3. e \in L
    BY <2>1, <2>2
  <2> QED
    BY <2>3 DEF e
<1>4. \A r \in Seq(L), i \in 1..n : Step(r, ds[i]) \in Seq(L)
  <2> SUFFICES ASSUME NEW r \in Seq(L), NEW i \in 1..n PROVE Step(r, ds[i]) \in Seq(L)
    OBVIOUS
  <2>1. ds[i].i < ds[i].n => [ds[i] EXCEPT !.i = @ + 1] \in L
    BY <1>2, <1>3
  <2> HIDE DEF L
  <2> QED
    BY <2>1
<1>5. \E f : Rec(f, n)
  <2> DEFINE P == {k \in 0..n : \E f : Rec(f, k)}
  <2>1. 0 \in P
    <3>1. Rec([i \in 0..0 |-> <<>>], 0)
      OBVIOUS
    <3> HIDE DEF Rec, n
    <3>2. \E f : Rec(f, 0)
      BY <3>1
    <3> QED
      BY <1>1, <3>2
  <2>2. ASSUME NEW k \in 1..n, k - 1 \in P PROVE k \in P
    <3> HIDE DEF Step
    <3>1. PICK h : Rec(h, k - 1)
      BY <2>2
    <3> DEFINE g == [i \in 0..k |-> IF i = k THEN Step(h[k - 1], ds[k]) ELSE h[i]]
    <3>2. \A i \in 0..k : g[i] = IF i = 0 THEN <<>> ELSE Step(g[i - 1], ds[i])
      BY <1>1, <3>1
    <3>3. Rec(g, k)
      BY <3>2
    <3> HIDE DEF Rec, g
    <3>4. \E f : Rec(f, k)
      BY <3>3
    <3> QED
      BY <1>1, <3>4
  <2> HIDE DEF P, n
  <2>3. \A i \in 0..n : i \in P
    BY <1>1, <2>1, <2>2, UpTo
  <2>4. n \in P
    BY <1>1, <2>3
  <2> HIDE DEF Rec
  <2> QED
    BY <2>4 DEF P
<1> DEFINE g == CHOOSE f : Rec(f, n)
<1>6. Rec(g, n)
  BY <1>5
<1>7. Remaining(ds) = g[n]
  BY DEF Remaining
<1> HIDE DEF g, L
<1>8. g[0] = <<>> /\ \A i \in 1..n : g[i] = Step(g[i - 1], ds[i])
  <2> HIDE DEF Step
  <2> QED
    BY <1>1, <1>6
<1>9. \A i \in 0..n : g[i] \in Seq(L)
  <2> DEFINE P == {k \in 0..n : g[k] \in Seq(L)}
  <2>1. 0 \in P
    <3>1. g[0] = <<>>
      BY <1>8
    <3>2. g[0] \in Seq(L)
      BY <3>1
    <3> HIDE DEF n
    <3> QED
      BY <1>1, <3>2
  <2>2. ASSUME NEW k \in 1..n, k - 1 \in P PROVE k \in P
    <3> HIDE DEF Step
    <3> QED
      BY <1>4, <1>8, <2>2
  <2> HIDE DEF P
  <2>3. \A i \in 0..n : i \in P
    BY <1>1, <2>1, <2>2, UpTo
  <2> QED
    BY <2>3 DEF P
<1>10. Remaining(ds) \in Seq(L)
  BY <1>1, <1>7, <1>9
<1>11. \A i \in DOMAIN Remaining(ds) : Remaining(ds)[i] \in L
  BY <1>10
<1>12. Remaining(ds) \in Seq(Lists)
  BY <1>10, <1>11 DEF L
<1>13. Len(ds) = 1 =>
          Remaining(ds) = IF ds[1].i < ds[1].n
                          THEN <<[ds[1] EXCEPT !.i = @ + 1]>> ELSE <<>>
  <2> SUFFICES ASSUME Len(ds) = 1
               PROVE  Remaining(ds) = IF ds[1].i < ds[1].n
                                      THEN <<[ds[1] EXCEPT !.i = @ + 1]>> ELSE <<>>
    OBVIOUS
  <2>1. Remaining(ds) = Step(<<>>, ds[1])
    <3> HIDE DEF Step
    <3>1. g[1] = Step(g[1 - 1], ds[1]) /\ g[0] = <<>>
      BY <1>8
    <3> QED
      BY <1>7, <3>1
  <2> QED
    BY <2>1
<1> QED
  BY <1>11, <1>12, <1>13 DEF L

-----------------------------------------------------------------------------
(* Sequences of answers and of lists *)

\* The answers that are left when one has arrived.
LEMMA RemoveAtFacts ==
  ASSUME NEW S, NEW s \in Seq(S), NEW i \in DOMAIN s
  PROVE  /\ RemoveAt(s, i) \in Seq(S)
         /\ Len(RemoveAt(s, i)) = Len(s) - 1
         /\ \A j \in 1..(Len(s) - 1) :
               RemoveAt(s, i)[j] = IF j < i THEN s[j] ELSE s[j + 1]
<1> DEFINE a == SubSeq(s, 1, i - 1)
           b == SubSeq(s, i + 1, Len(s))
<1>1. i \in 1..Len(s) /\ Len(s) \in Nat
  OBVIOUS
<1>2. a \in Seq(S) /\ Len(a) = i - 1 /\ \A j \in 1..(i - 1) : a[j] = s[j]
  BY <1>1
<1>3. b \in Seq(S) /\ Len(b) = Len(s) - i /\ \A j \in 1..(Len(s) - i) : b[j] = s[i + j]
  BY <1>1
<1>4. RemoveAt(s, i) = a \o b
  BY DEF RemoveAt
<1> HIDE DEF a, b
<1>5. a \o b \in Seq(S) /\ Len(a \o b) = Len(s) - 1
  BY <1>1, <1>2, <1>3
<1>6. ASSUME NEW j \in 1..(Len(s) - 1) PROVE (a \o b)[j] = IF j < i THEN s[j] ELSE s[j + 1]
  <2>1. CASE j < i
    BY <1>1, <1>2, <1>3, <2>1
  <2>2. CASE ~(j < i)
    <3>1. (a \o b)[j] = b[j - (i - 1)]
      BY <1>1, <1>2, <1>3, <2>2
    <3>2. j - (i - 1) \in 1..(Len(s) - i) /\ i + (j - (i - 1)) = j + 1
      BY <1>1, <2>2
    <3> QED
      BY <1>3, <2>2, <3>1, <3>2
  <2> QED
    BY <2>1, <2>2
<1> QED
  BY <1>4, <1>5, <1>6

\* Lists that are outdated are the same lists, and not alone.
LEMMA OutdatedFacts ==
  ASSUME TypeOK
  PROVE  /\ Outdated \in Seq(Lists) /\ Len(Outdated) = Len(renders)
         /\ \A i \in 1..Len(renders) : Outdated[i].i <= Outdated[i].n /\ ~Outdated[i].alone
<1>1. renders \in Seq(Lists) /\ \A i \in 1..Len(renders) : renders[i].i <= renders[i].n
  BY DEF TypeOK
<1>2. ASSUME NEW d \in Lists
      PROVE  /\ [d EXCEPT !.alone = FALSE] \in Lists
             /\ [d EXCEPT !.alone = FALSE].i = d.i /\ [d EXCEPT !.alone = FALSE].n = d.n
             /\ ~[d EXCEPT !.alone = FALSE].alone
  BY DEF Lists
<1>3. \A i \in 1..Len(renders) : Outdated[i] = [renders[i] EXCEPT !.alone = FALSE]
  <2>1. \A i \in DOMAIN renders : Outdated[i] = [renders[i] EXCEPT !.alone = FALSE]
    BY Zenon DEF Outdated
  <2>2. DOMAIN renders = 1..Len(renders)
    BY <1>1
  <2> QED
    BY <2>1, <2>2, Zenon
<1>4. Outdated \in Seq(Lists) /\ Len(Outdated) = Len(renders)
  BY <1>1, <1>2 DEF Outdated
<1>5. ASSUME NEW i \in 1..Len(renders)
      PROVE  Outdated[i].i <= Outdated[i].n /\ ~Outdated[i].alone
  <2>1. renders[i] \in Lists /\ renders[i].i <= renders[i].n
    BY <1>1
  <2> QED
    BY <1>2, <1>3, <2>1
<1> QED
  BY <1>4, <1>5

\* A new connection: the lists being drawn are outdated, nothing is settled.
LEMMA ConnectFacts ==
  ASSUME TypeOK, connectStream
  PROVE  /\ stream' \in [phase : {"connecting"}, region : Regions]
         /\ renders' \in Seq(Lists) /\ \A i \in DOMAIN renders' : renders'[i].i <= renders'[i].n
         /\ settled' = FALSE /\ mishap' = FALSE
         /\ AgreeState' /\ DrawState'
<1>1. /\ renders' = Outdated /\ settled' = FALSE /\ mishap' = FALSE
      /\ stream' = [stream EXCEPT !.phase = "connecting"]
  BY DEF connectStream
<1>2. stream' \in [phase : {"connecting"}, region : Regions]
  BY <1>1 DEF TypeOK
<1>3. renders' \in Seq(Lists) /\ \A i \in DOMAIN renders' : renders'[i].i <= renders'[i].n /\ ~renders'[i].alone
  BY <1>1, OutdatedFacts
<1>4. stream'.phase = "connecting"
  BY <1>2
<1>5. AgreeState'
  BY <1>4 DEF AgreeState
<1>6. DrawState'
  BY <1>1, <1>3 DEF DrawState
<1> QED
  BY <1>1, <1>2, <1>3, <1>5, <1>6

-----------------------------------------------------------------------------
(* One lemma for each action *)

LEMMA InitInv ==
  ASSUME FirstRegion \in Regions, MaxChunks \in Nat, Init
  PROVE  IInv
<1>1. TypeOK
  <2>1. page \in Maps /\ page.onmap \subseteq page.markers /\ session \in Regions
    BY DEF Init, Maps
  <2>2. /\ posts \in [Regions -> Nat] /\ stored \in [Regions -> Nat]
        /\ gets \in [load : Nat, sync : Nat]
    BY DEF Init
  <2>3. /\ answers \in Seq([kind : Kinds, region : Regions]) /\ renders \in Seq(Lists)
        /\ \A i \in DOMAIN renders : renders[i].i <= renders[i].n
    BY DEF Init
  <2>4. /\ stream \in [phase : {"unloaded", "closed", "connecting", "served", "open"}, region : Regions]
        /\ list \in 0..MaxChunks
    BY DEF Init
  <2>5. settled \in BOOLEAN /\ mishap \in BOOLEAN
    BY DEF Init
  <2> QED
    BY <2>1, <2>2, <2>3, <2>4, <2>5 DEF TypeOK
<1>2. AgreeState
  BY DEF Init, AgreeState
<1>3. DrawState
  BY DEF Init, DrawState
<1> QED
  BY <1>1, <1>2, <1>3 DEF IInv

LEMMA OpenPageInv ==
  ASSUME IInv, OpenPage
  PROVE  IInv'
<1> USE DEF IInv, OpenPage, requestVars, mapVars
<1>1. TypeOK'
  BY DEF TypeOK, Maps
<1>2. AgreeState'
  BY DEF TypeOK, AgreeState
<1>3. DrawState'
  BY DEF TypeOK, DrawState
<1> QED
  BY <1>1, <1>2, <1>3

LEMMA StreamServedInv ==
  ASSUME IInv, StreamServed
  PROVE  IInv'
<1> USE DEF IInv, StreamServed, requestVars, mapVars
<1>1. TypeOK'
  BY DEF TypeOK
<1>2. AgreeState'
  BY DEF TypeOK, AgreeState
<1>3. DrawState'
  BY DEF TypeOK, DrawState
<1> QED
  BY <1>1, <1>2, <1>3

LEMMA onopenInv ==
  ASSUME IInv, onopen
  PROVE  IInv'
<1> USE DEF IInv, onopen, requestVars, mapVars
<1>1. TypeOK'
  <2>1. gets' \in [load : Nat, sync : Nat]
    BY DEF TypeOK
  <2>2. stream' \in [phase : {"open"}, region : Regions]
    BY DEF TypeOK
  <2> QED
    BY <2>1, <2>2 DEF TypeOK
<1>2. AgreeState'
  BY DEF TypeOK, AgreeState, Replaced
<1>3. DrawState'
  BY DEF TypeOK, DrawState
<1> QED
  BY <1>1, <1>2, <1>3

LEMMA BreakInv ==
  ASSUME IInv, Break
  PROVE  IInv'
<1>1. TypeOK'
  BY ConnectFacts DEF IInv, Break, requestVars, TypeOK
<1> QED
  BY <1>1, ConnectFacts DEF IInv, Break

LEMMA SnapshotInv ==
  ASSUME MaxChunks \in Nat, IInv, NEW n \in 0..MaxChunks, Snapshot(n)
  PROVE  IInv'
<1> DEFINE d == [region |-> stream.region, n |-> n, i |-> 0, alone |-> renders = <<>>]
<1>1. /\ renders' = Append(Outdated, d) /\ list' = n /\ settled' = FALSE
      /\ stream.phase = "open"
      /\ UNCHANGED <<session, page, posts, stored, gets, answers, stream, mishap>>
  BY DEF Snapshot, requestVars
<1>2. TypeOK
  BY DEF IInv
<1>3. d \in Lists /\ d.i <= d.n /\ d.n = n /\ d.i = 0 /\ d.region = stream.region
  BY <1>2 DEF TypeOK, Lists
<1>4. d.alone => Len(renders) = 0
  <2>1. d.alone <=> renders = <<>>
    OBVIOUS
  <2>2. renders = <<>> => Len(renders) = 0
    OBVIOUS
  <2> QED
    BY <2>1, <2>2, Zenon
<1> HIDE DEF d
<1>5. /\ Outdated \in Seq(Lists) /\ Len(Outdated) = Len(renders)
      /\ \A i \in 1..Len(renders) : Outdated[i].i <= Outdated[i].n /\ ~Outdated[i].alone
  BY <1>2, OutdatedFacts
<1>6. /\ renders' \in Seq(Lists) /\ Len(renders') = Len(renders) + 1
      /\ \A i \in 1..Len(renders) : renders'[i] = Outdated[i]
      /\ renders'[Len(renders) + 1] = d
  BY <1>1, <1>3, <1>5
<1>7. Len(renders) \in Nat /\ DOMAIN renders' = 1..(Len(renders) + 1)
  BY <1>2, <1>6 DEF TypeOK
<1>8. \A i \in DOMAIN renders' : renders'[i].i <= renders'[i].n
  BY <1>3, <1>5, <1>6, <1>7
<1>9. TypeOK'
  BY <1>1, <1>2, <1>6, <1>8 DEF TypeOK
<1>10. AgreeState'
  BY <1>1 DEF IInv, AgreeState, Replaced
<1>11. ASSUME NEW i \in DOMAIN renders', renders'[i].alone
       PROVE  renders'[i] = d /\ Len(renders') = 1
  BY <1>4, <1>5, <1>6, <1>7, <1>11
<1>12. Chunks(stream.region, 0) = {}
  BY DEF Chunks
<1>13. DrawState'
  BY <1>1, <1>3, <1>11, <1>12 DEF DrawState
<1> QED
  BY <1>9, <1>10, <1>13 DEF IInv

LEMMA FrameInv ==
  ASSUME MaxChunks \in Nat, IInv, Frame
  PROVE  IInv'
<1>1. /\ renders # <<>> /\ page' = Drawn(page, renders) /\ renders' = Remaining(renders)
      /\ settled' = \E i \in DOMAIN renders : renders[i].alone /\ renders[i].i = renders[i].n
      /\ UNCHANGED <<session, posts, stored, gets, answers, stream, list, mishap>>
  BY DEF Frame, requestVars
<1>2. TypeOK
  BY DEF IInv
<1>3. /\ page \in Maps /\ page.onmap \subseteq page.markers
      /\ renders \in Seq(Lists) /\ \A i \in DOMAIN renders : renders[i].i <= renders[i].n
  BY <1>2 DEF TypeOK
<1>4. /\ page' \in Maps /\ page'.region = page.region /\ page'.onmap \subseteq page'.markers
      /\ Len(renders) = 1 => page' = Draw(page, renders[1])
  BY <1>1, <1>3, DrawnFacts
<1>5. /\ renders' \in Seq(Lists) /\ \A i \in DOMAIN renders' : renders'[i].i <= renders'[i].n
      /\ (\A i \in DOMAIN renders : ~renders[i].alone) => \A i \in DOMAIN renders' : ~renders'[i].alone
      /\ Len(renders) = 1 =>
            renders' = IF renders[1].i < renders[1].n
                       THEN <<[renders[1] EXCEPT !.i = @ + 1]>> ELSE <<>>
  BY <1>1, <1>3, RemainingFacts
<1>6. settled' \in BOOLEAN
  BY <1>1
<1>7. TypeOK'
  BY <1>1, <1>2, <1>4, <1>5, <1>6 DEF TypeOK
<1>8. AgreeState'
  BY <1>1, <1>4 DEF IInv, AgreeState, Replaced
<1>9. CASE \A i \in DOMAIN renders : ~renders[i].alone
  <2>1. settled' = FALSE /\ \A i \in DOMAIN renders' : ~renders'[i].alone
    BY <1>1, <1>5, <1>9
  <2>2. DrawState'
    BY <2>1 DEF DrawState
  <2> QED
    BY <1>7, <1>8, <2>2 DEF IInv
<1>10. CASE \E i \in DOMAIN renders : renders[i].alone
  <2> DEFINE d == renders[1]
  <2>1. PICK i \in DOMAIN renders : renders[i].alone
    BY <1>10
  <2>2. /\ stream.phase = "open" /\ Len(renders) = 1
        /\ renders[i].region = stream.region /\ renders[i].n = list
        /\ Chunks(stream.region, renders[i].i) \subseteq page.markers
    BY <2>1 DEF IInv, DrawState
  <2>3. i = 1 /\ DOMAIN renders = {1}
    BY <1>3, <2>2
  <2>4. /\ d \in Lists /\ d.alone /\ d.i <= d.n
        /\ d.region = stream.region /\ d.n = list
        /\ Chunks(stream.region, d.i) \subseteq page.markers
    BY <1>3, <2>1, <2>2, <2>3
  <2>5. d.i \in Nat /\ d.n \in Nat
    BY <2>4 DEF Lists
  <2>6. page' = Draw(page, d)
    BY <1>4, <2>2
  <2>7. settled' <=> d.i = d.n
    BY <1>1, <2>3, <2>4
  <2> HIDE DEF d
  <2>8. CASE d.i < d.n
    <3>1. renders' = <<[d EXCEPT !.i = @ + 1]>>
      BY <1>5, <2>2, <2>8 DEF d
    <3> DEFINE e == [d EXCEPT !.i = @ + 1]
    <3>2. e.i = d.i + 1 /\ e.n = d.n /\ e.region = d.region
      BY <2>4 DEF Lists
    <3> HIDE DEF e
    <3>3. Len(renders') = 1 /\ DOMAIN renders' = {1} /\ renders'[1] = e
      BY <3>1 DEF e
    <3>4. page'.markers = page.markers \cup {<<d.region, d.i + 1>>}
      BY <1>3, <2>6, <2>8 DEF Draw, updateVehicle, Maps
    <3>5. Chunks(stream.region, e.i) \subseteq page'.markers
      <4> SUFFICES ASSUME NEW k \in 1..(d.i + 1) PROVE <<stream.region, k>> \in page'.markers
        BY <3>2 DEF Chunks
      <4>1. CASE k = d.i + 1
        BY <2>4, <3>4, <4>1
      <4>2. CASE k # d.i + 1
        <5>1. k \in 1..d.i
          BY <2>5, <4>2
        <5>2. <<stream.region, k>> \in Chunks(stream.region, d.i)
          BY <5>1 DEF Chunks
        <5> QED
          BY <2>4, <3>4, <5>2
      <4> QED
        BY <4>1, <4>2
    <3>6. ~settled'
      BY <2>5, <2>7, <2>8
    <3>7. DrawState'
      BY <1>1, <2>2, <2>4, <3>2, <3>3, <3>5, <3>6 DEF DrawState
    <3> QED
      BY <1>7, <1>8, <3>7 DEF IInv
  <2>9. CASE ~(d.i < d.n)
    <3>1. renders' = <<>>
      BY <1>5, <2>2, <2>9 DEF d
    <3>2. d.i = d.n
      BY <2>4, <2>5, <2>9
    <3>3. page' = Finished(page, d)
      BY <2>6, <2>9 DEF Draw
    <3>4. page.markers \cap Chunks(d.region, d.n) = Chunks(stream.region, list)
      BY <2>4, <3>2
    <3>5. /\ page'.markers = Chunks(stream.region, list)
          /\ page'.onmap = {v \in page'.markers : v[1] = page'.region}
      BY <1>3, <3>3, <3>4 DEF Finished, Maps
    <3>6. DrawState'
      BY <1>1, <2>2, <3>1, <3>5 DEF DrawState
    <3> QED
      BY <1>7, <1>8, <3>6 DEF IInv
  <2> QED
    BY <2>8, <2>9
<1> QED
  BY <1>9, <1>10

LEMMA switchRegionInv ==
  ASSUME IInv, NEW r \in Regions, switchRegion(r)
  PROVE  IInv'
<1> USE DEF IInv, switchRegion, requestVars, mapVars
<1>1. TypeOK'
  BY DEF TypeOK
<1>2. AgreeState'
  BY DEF AgreeState, Replaced
<1>3. DrawState'
  BY DEF DrawState
<1> QED
  BY <1>1, <1>2, <1>3

LEMMA PostStoredInv ==
  ASSUME IInv, NEW r \in Regions, PostStored(r)
  PROVE  IInv'
<1> USE DEF IInv, PostStored, requestVars, mapVars
<1>1. TypeOK'
  BY DEF TypeOK
<1>2. AgreeState'
  <2>1. stored'[r] > 0
    BY DEF TypeOK
  <2>2. Replaced'
    BY <2>1 DEF Replaced
  <2> QED
    BY <2>2 DEF AgreeState
<1>3. DrawState'
  BY DEF DrawState
<1> QED
  BY <1>1, <1>2, <1>3

LEMMA PostServedInv ==
  ASSUME IInv, NEW r \in Regions, PostServed(r)
  PROVE  IInv'
<1> USE DEF IInv, PostServed, requestVars, mapVars
<1>0. /\ answers' \in Seq([kind : Kinds, region : Regions])
      /\ Len(answers') \in DOMAIN answers' /\ answers'[Len(answers')].kind = "post"
  BY DEF TypeOK, Kinds
<1>1. TypeOK'
  BY <1>0 DEF TypeOK
<1>2. AgreeState'
  BY <1>0 DEF AgreeState, Replaced
<1>3. DrawState'
  BY DEF DrawState
<1> QED
  BY <1>1, <1>2, <1>3

LEMMA PostFailsInv ==
  ASSUME IInv, NEW r \in Regions, PostFails(r)
  PROVE  IInv'
<1> USE DEF IInv, PostFails, requestVars, mapVars
<1>1. TypeOK'
  <2>1. posts \in [Regions -> Nat] /\ stored \in [Regions -> Nat] /\ mishap \in BOOLEAN
    BY DEF TypeOK
  <2>2. posts' \in [Regions -> Nat] /\ stored' \in [Regions -> Nat]
    BY <2>1
  <2>3. mishap' \in BOOLEAN
    BY <2>1
  <2> QED
    BY <2>2, <2>3 DEF TypeOK
<1>2. AgreeState'
  <2>1. CASE mishap' = TRUE
    BY <2>1 DEF AgreeState
  <2>2. CASE UNCHANGED <<stored, mishap>>
    BY <2>2 DEF AgreeState, Replaced
  <2> QED
    BY <2>1, <2>2
<1>3. DrawState'
  BY DEF DrawState
<1> QED
  BY <1>1, <1>2, <1>3

\* An answer carries a region.
LEMMA AnswerFacts ==
  ASSUME TypeOK, NEW i \in DOMAIN answers
  PROVE  /\ answers \in Seq([kind : Kinds, region : Regions])
         /\ answers[i].region \in Regions
<1> DEFINE S == [kind : Kinds, region : Regions]
<1>1. answers \in Seq(S)
  BY DEF TypeOK
<1>2. answers[i] \in S
  <2> HIDE DEF S
  <2> QED
    BY <1>1
<1> QED
  BY <1>1, <1>2

LEMMA GetServedInv ==
  ASSUME IInv, NEW k \in {"load", "sync"}, GetServed(k)
  PROVE  IInv'
<1> DEFINE w == [kind |-> k, region |-> session]
           L == Len(answers)
<1>1. /\ gets[k] > 0 /\ gets' = [gets EXCEPT ![k] = @ - 1]
      /\ answers' = Append(answers, w)
      /\ UNCHANGED <<session, page, posts, stored, stream, renders, list, settled, mishap>>
  BY DEF GetServed, mapVars
<1>2. TypeOK
  BY DEF IInv
<1>3. w \in [kind : Kinds, region : Regions] /\ w.kind = k /\ w.region = session
  BY <1>2 DEF TypeOK, Kinds
<1> HIDE DEF w
<1>4. answers \in Seq([kind : Kinds, region : Regions]) /\ L \in Nat
  BY <1>2 DEF TypeOK
<1>5. /\ answers' \in Seq([kind : Kinds, region : Regions]) /\ Len(answers') = L + 1
      /\ \A i \in 1..L : answers'[i] = answers[i]
      /\ answers'[L + 1] = w /\ answers' # <<>>
  BY <1>1, <1>3, <1>4
<1>6. gets \in [load : Nat, sync : Nat] /\ gets' \in [load : Nat, sync : Nat]
  <2>1. gets \in [load : Nat, sync : Nat]
    BY <1>2 DEF TypeOK
  <2> QED
    BY <1>1, <2>1
<1>7. TypeOK'
  BY <1>1, <1>2, <1>5, <1>6 DEF TypeOK
<1>8. DrawState'
  BY <1>1 DEF IInv, DrawState
<1>9. AgreeState'
  <2> SUFFICES ASSUME ~mishap', ~Replaced' PROVE AgreeState'
    BY DEF AgreeState
  <2>1. k = "sync"
    BY <1>3, <1>4, <1>5 DEF Replaced
  <2>2. ~Replaced /\ ~mishap
    BY <1>1, <1>4, <1>5 DEF Replaced
  <2>3. gets.sync > 0
    BY <1>1, <2>1
  <2>4. stream.phase \in {"served", "open"} => session = stream.region
    BY <2>2, <2>3 DEF IInv, AgreeState
  <2>5. answers'[Len(answers')].region = session
    BY <1>3, <1>5
  <2> QED
    BY <1>1, <1>5, <2>4, <2>5 DEF AgreeState
<1> QED
  BY <1>7, <1>8, <1>9 DEF IInv

LEMMA GetFailsInv ==
  ASSUME IInv, NEW k \in {"load", "sync"}, GetFails(k)
  PROVE  IInv'
<1>1. /\ gets[k] > 0 /\ gets' = [gets EXCEPT ![k] = @ - 1]
      /\ UNCHANGED <<session, page, posts, stored, answers, list>>
  BY DEF GetFails
<1>2. TypeOK
  BY DEF IInv
<1>3. gets \in [load : Nat, sync : Nat] /\ gets' \in [load : Nat, sync : Nat]
  BY <1>1, <1>2 DEF TypeOK
<1>4. CASE k = "load" /\ connectStream
  <2>1. TypeOK'
    BY <1>1, <1>2, <1>3, <1>4, ConnectFacts DEF TypeOK
  <2> QED
    BY <1>2, <1>4, <2>1, ConnectFacts DEF IInv
<1>5. CASE mishap' = (mishap \/ k = "sync") /\ UNCHANGED <<stream, renders, settled>>
  <2>1. TypeOK'
    BY <1>1, <1>2, <1>3, <1>5 DEF TypeOK
  <2>2. DrawState'
    BY <1>1, <1>5 DEF IInv, DrawState
  <2>3. AgreeState'
    <3>1. CASE k = "sync"
      BY <1>5, <3>1 DEF AgreeState
    <3>2. CASE k = "load"
      <4>1. gets'.sync = gets.sync
        BY <1>1, <1>3, <3>2
      <4>2. mishap' <=> mishap
        BY <1>2, <1>5, <3>2 DEF TypeOK
      <4> QED
        BY <1>1, <1>5, <4>1, <4>2 DEF IInv, AgreeState, Replaced
    <3> QED
      BY <3>1, <3>2
  <2> QED
    BY <2>1, <2>2, <2>3 DEF IInv
<1> QED
  BY <1>4, <1>5 DEF GetFails

LEMMA SyncedInv ==
  ASSUME IInv, NEW i \in DOMAIN answers, Synced(i)
  PROVE  IInv'
<1> DEFINE w == answers[i]
           L == Len(answers)
<1>1. /\ w.kind = "sync" /\ answers' = RemoveAt(answers, i)
      /\ page' = [page EXCEPT !.region = w.region]
      /\ settled' = (settled /\ w.region = page.region)
      /\ mishap' = (mishap \/ i > 1)
      /\ UNCHANGED <<session, posts, stored, gets, stream, renders, list>>
  BY DEF Synced
<1>2. TypeOK
  BY DEF IInv
<1>3. answers \in Seq([kind : Kinds, region : Regions]) /\ L \in Nat /\ i \in 1..L
  BY <1>2 DEF TypeOK
<1>4. w.region \in Regions
  BY <1>2, AnswerFacts
<1>5. /\ answers' \in Seq([kind : Kinds, region : Regions]) /\ Len(answers') = L - 1
      /\ \A j \in 1..(L - 1) : answers'[j] = IF j < i THEN answers[j] ELSE answers[j + 1]
  BY <1>1, <1>3, RemoveAtFacts
<1>6. /\ page \in Maps /\ page' \in Maps /\ page'.region = w.region
      /\ page'.markers = page.markers /\ page'.onmap = page.onmap
  BY <1>1, <1>2, <1>4 DEF TypeOK, Maps
<1>7. TypeOK'
  <2>1. settled' \in BOOLEAN /\ mishap' \in BOOLEAN
    BY <1>1
  <2> QED
    BY <1>1, <1>2, <1>5, <1>6, <2>1 DEF TypeOK
<1>8. DrawState'
  <2>1. settled' => settled /\ page'.region = page.region
    BY <1>1, <1>6
  <2> QED
    BY <1>1, <1>6, <2>1 DEF IInv, DrawState
<1>9. AgreeState'
  <2> SUFFICES ASSUME ~mishap', ~Replaced' PROVE AgreeState'
    BY DEF AgreeState
  <2>1. ~mishap /\ ~(i > 1)
    BY <1>1
  <2>2. i = 1
    BY <1>3, <2>1
  <2>3. ~Replaced
    <3> SUFFICES ASSUME NEW j \in 1..L PROVE answers[j].kind = "sync"
      BY <1>1, <1>3 DEF Replaced
    <3>1. CASE j = 1
      BY <1>1, <2>2, <3>1
    <3>2. CASE j # 1
      <4>1. j - 1 \in 1..(L - 1) /\ answers'[j - 1] = answers[j]
        BY <1>3, <1>5, <2>2, <3>2
      <4>2. j - 1 \in DOMAIN answers'
        BY <1>5, <4>1
      <4> QED
        BY <4>1, <4>2 DEF Replaced
    <3> QED
      BY <3>1, <3>2
  <2>4. ASSUME stream.phase = "open", gets.sync = 0
        PROVE  answers[L].region = stream.region
    BY <1>3, <2>1, <2>3, <2>4 DEF IInv, AgreeState
  <2>5. ASSUME stream.phase = "open", gets.sync = 0, answers' = <<>>
        PROVE  page'.region = stream.region
    <3>1. L = 1
      BY <1>3, <1>5, <2>5
    <3> QED
      BY <1>6, <2>2, <2>4, <2>5, <3>1
  <2>6. ASSUME stream.phase = "open", gets.sync = 0, answers' # <<>>
        PROVE  answers'[Len(answers')].region = stream.region
    <3>1. L - 1 \in 1..(L - 1)
      BY <1>3, <1>5, <2>6
    <3>2. answers'[L - 1] = answers[L]
      BY <1>3, <1>5, <2>2, <3>1
    <3> QED
      BY <1>5, <2>4, <2>6, <3>2
  <2>7. /\ stream.phase = "served" => session = stream.region
        /\ stream.phase = "open" /\ gets.sync > 0 => session = stream.region
    BY <2>1, <2>3 DEF IInv, AgreeState
  <2> QED
    BY <1>1, <2>5, <2>6, <2>7 DEF AgreeState
<1> QED
  BY <1>7, <1>8, <1>9 DEF IInv

LEMMA LoadedInv ==
  ASSUME IInv, NEW i \in DOMAIN answers, Loaded(i)
  PROVE  IInv'
<1>1. TypeOK /\ connectStream
  BY DEF IInv, Loaded
<1>2. answers \in Seq([kind : Kinds, region : Regions]) /\ answers[i].region \in Regions
  BY <1>1, AnswerFacts
<1>3. answers' \in Seq([kind : Kinds, region : Regions])
  BY <1>2, RemoveAtFacts DEF Loaded
<1>4. page' \in Maps /\ page'.onmap \subseteq page'.markers
  BY <1>1, <1>2 DEF Loaded, TypeOK, Maps
<1>5. TypeOK'
  BY <1>1, <1>3, <1>4, ConnectFacts DEF TypeOK, Loaded
<1> QED
  BY <1>1, <1>5, ConnectFacts DEF IInv

LEMMA SwitchedInv ==
  ASSUME IInv, NEW i \in DOMAIN answers, Switched(i)
  PROVE  IInv'
<1>1. TypeOK /\ connectStream
  BY DEF IInv, Switched
<1>2. answers \in Seq([kind : Kinds, region : Regions]) /\ answers[i].region \in Regions
  BY <1>1, AnswerFacts
<1>3. answers' \in Seq([kind : Kinds, region : Regions])
  BY <1>2, RemoveAtFacts DEF Switched
<1>4. page' \in Maps /\ page'.onmap \subseteq page'.markers
  BY <1>1, <1>2 DEF Switched, TypeOK, Maps
<1>5. TypeOK'
  BY <1>1, <1>3, <1>4, ConnectFacts DEF TypeOK, Switched
<1> QED
  BY <1>1, <1>5, ConnectFacts DEF IInv

LEMMA ElsewhereInv ==
  ASSUME IInv, NEW r \in Regions, Elsewhere(r)
  PROVE  IInv'
<1> USE DEF IInv, Elsewhere, requestVars, mapVars
<1>1. TypeOK'
  BY DEF TypeOK
<1>2. AgreeState'
  BY DEF TypeOK, AgreeState, Replaced
<1>3. DrawState'
  BY DEF DrawState
<1> QED
  BY <1>1, <1>2, <1>3

LEMMA AnsweredInv ==
  ASSUME IInv, Answered
  PROVE  IInv'
<1>1. DOMAIN gets = {"load", "sync"}
  BY DEF IInv, TypeOK
<1> QED
  BY <1>1, GetServedInv, GetFailsInv, PostStoredInv, PostServedInv, PostFailsInv,
     SyncedInv, LoadedInv, SwitchedInv DEF Answered

\* Every step of the live map, of other tabs and of the session keeps the
\* invariant, whichever requests are answered in which order.
LEMMA NextInv ==
  ASSUME MaxChunks \in Nat, IInv, [Next]_vars
  PROVE  IInv'
<1>1. CASE Next
  BY <1>1, OpenPageInv, StreamServedInv, onopenInv, BreakInv, FrameInv, SnapshotInv,
     AnsweredInv, switchRegionInv, ElsewhereInv DEF Next
<1>2. CASE UNCHANGED vars
  BY <1>2 DEF vars, IInv, TypeOK, AgreeState, Replaced, DrawState
<1> QED
  BY <1>1, <1>2

-----------------------------------------------------------------------------
(* The theorems *)

\* The live map's page, its requests, its stream and the lists it draws always
\* satisfy the inductive invariant.
THEOREM Invariance ==
  ASSUME FirstRegion \in Regions, MaxChunks \in Nat
  PROVE  Spec => []IInv
<1>1. Init => IInv
  BY InitInv
<1>2. IInv /\ [Next]_vars => IInv'
  BY NextInv
<1> QED
  BY <1>1, <1>2, PTL DEF Spec

\* The page names the region its stream was served with.
LEMMA AgreesFromInv ==
  ASSUME IInv
  PROVE  PageAgrees
<1> SUFFICES ASSUME Quiet, ~mishap PROVE page.region = stream.region
  BY DEF PageAgrees
<1>1. /\ gets.sync = 0 /\ answers = <<>> /\ stream.phase = "open"
      /\ \A r \in Regions : stored[r] = 0
  BY DEF Quiet, IInv, TypeOK
<1>2. ~Replaced
  BY <1>1 DEF Replaced
<1> QED
  BY <1>1, <1>2 DEF IInv, AgreeState

\* The map shows the newest list.
LEMMA LatestFromInv ==
  ASSUME IInv
  PROVE  MapIsLatest
<1> SUFFICES ASSUME Quiet, ~mishap, settled, renders = <<>>
             PROVE  page.onmap = Chunks(stream.region, list)
  BY DEF MapIsLatest
<1>1. page.region = stream.region
  BY AgreesFromInv DEF PageAgrees
<1>2. /\ page.markers = Chunks(stream.region, list)
      /\ page.onmap = {v \in page.markers : v[1] = page.region}
  BY DEF IInv, DrawState
<1>3. \A v \in Chunks(stream.region, list) : v[1] = stream.region
  BY DEF Chunks
<1> QED
  BY <1>1, <1>2, <1>3

=============================================================================
