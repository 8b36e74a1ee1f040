---------------------------- MODULE Pages_proofs ----------------------------
(***************************************************************************)
(* Proofs about the replay and the pages, for any agencies, regions,       *)
(* vehicles, timestamps, page sizes, and any number of changes, streams    *)
(* and switches.                                                           *)
(*                                                                         *)
(* What holds of a feed, a drain, a stream or a catalogue is first shown   *)
(* of values: the operators ending in At are the parts of the invariant    *)
(* with the variables as parameters.                                       *)
(***************************************************************************)
EXTENDS Pages, FiniteSetTheorems, TLAPS

LP == INSTANCE LivePage_proofs WITH page <- tab, posts <- tabPosts, stream <- tabStream

-----------------------------------------------------------------------------
(* Numbers *)

\* The least element of a set of natural numbers.
LEMMA MinFacts ==
  ASSUME NEW S, S \subseteq Nat, S # {}
  PROVE  Min(S) \in S /\ \A y \in S : Min(S) <= y
<1>1. \E x \in S : \A y \in S : x <= y
  BY LP!LeastNat
<1> QED
  BY <1>1 DEF Min

\* The lesser of two numbers.
LEMMA MinOfTwo ==
  ASSUME NEW x \in Int, NEW y \in Int
  PROVE  Min({x, y}) = IF x <= y THEN x ELSE y
<1> DEFINE z == IF x <= y THEN x ELSE y
<1>1. z \in {x, y} /\ \A u \in {x, y} : z <= u
  OBVIOUS
<1>2. \A v \in {x, y} : (\A u \in {x, y} : v <= u) => v = z
  OBVIOUS
<1> HIDE DEF z
<1>3. Min({x, y}) \in {x, y} /\ \A u \in {x, y} : Min({x, y}) <= u
  BY <1>1 DEF Min
<1>4. Min({x, y}) = z
  BY <1>2, <1>3
<1> QED
  BY <1>4 DEF z

\* A second is a natural number.
LEMMA TruncateNat ==
  ASSUME NEW t \in Times
  PROVE  Truncate(t) \in Nat
<1>1. t \in Nat /\ Sub \in Nat /\ Sub > 0
  BY TimeAssumption
<1>2. t \div Sub \in Nat
  BY <1>1
<1>3. \A x, y \in Nat : x * y \in Nat
  OBVIOUS
<1> QED
  BY <1>1, <1>2, <1>3 DEF Truncate

-----------------------------------------------------------------------------
(* Drains *)

\* FeedState of the feeds f, trimmed up to o.
FeedAt(f, o) ==
    /\ f \in [Agencies -> Seq(Mutations)] /\ o \in Counts
    /\ \A a \in Agencies :
          /\ o[a] <= Len(f[a])
          /\ \A n \in DOMAIN f[a] : f[a][n].agency = a /\ f[a][n].n = n

\* What DrainState says of an open feed.
OpenAt(f, o, d) ==
    d.cursor # Unopened =>
       /\ d.todo # <<>> /\ Head(d.todo) \in Agencies
       /\ d.first # Unopened
       /\ d.first <= o[Head(d.todo)] /\ d.first <= d.cursor
       /\ d.cursor <= Len(f[Head(d.todo)])

\* What it says of the agencies.
TodoAt(d, r) ==
    /\ Len(d.todo) <= Len(AgenciesOf[r])
    /\ \A i \in DOMAIN d.todo :
          d.todo[i] = AgenciesOf[r][Len(AgenciesOf[r]) - Len(d.todo) + i]

CommittedAt(f, c) == \A a \in Agencies : c[a] <= Len(f[a])

DrainAt(f, o, d, r, c) == CommittedAt(f, c) /\ TodoAt(d, r) /\ OpenAt(f, o, d)

\* The first drain of a region.
LEMMA DrainBegins ==
  ASSUME NEW r \in Regions
  PROVE  /\ Drain(r) \in Drains /\ TodoAt(Drain(r), r)
         /\ Drain(r).cursor = Unopened
         /\ Visited(Drain(r), r) = {}
<1>1. AgenciesOf[r] \in Seq(Range(AgenciesOf[r])) /\ Range(AgenciesOf[r]) \subseteq AgencyNames
  BY RegionAssumption DEF AgencyNames
<1>2. AgenciesOf[r] \in Seq(AgencyNames)
  BY <1>1
<1>3. /\ Drain(r).todo = AgenciesOf[r] /\ Drain(r).cursor = Unopened
      /\ Drain(r) \in Drains
  BY <1>2 DEF Drain, Drains, Cursors
<1>4. TodoAt(Drain(r), r)
  BY <1>2, <1>3 DEF TodoAt
<1>5. Visited(Drain(r), r) = {}
  BY <1>2, <1>3 DEF Visited
<1> QED
  BY <1>3, <1>4, <1>5

\* NextAgency leaves the first agency still to visit behind, which was not
\* visited before.
LEMMA NextAgencyFacts ==
  ASSUME NEW r \in Regions, NEW d \in Drains, d.todo # <<>>, TodoAt(d, r)
  PROVE  /\ NextAgency(d) \in Drains
         /\ NextAgency(d).cursor = Unopened /\ NextAgency(d).todo = Tail(d.todo)
         /\ TodoAt(NextAgency(d), r)
         /\ Visited(NextAgency(d), r) = Visited(d, r) \cup {Head(d.todo)}
         /\ Head(d.todo) \in Range(AgenciesOf[r])
         /\ Head(d.todo) \notin Visited(d, r)
<1> DEFINE A == AgenciesOf[r]
           e == NextAgency(d)
           k == Len(A) - Len(d.todo)
<1>1. A \in Seq(Range(A)) /\ \A i, j \in DOMAIN A : A[i] = A[j] => i = j
  BY RegionAssumption DEF IsInjective
<1>2. d.todo \in Seq(AgencyNames)
  BY DEF Drains
<1>3. Tail(d.todo) \in Seq(AgencyNames)
  BY <1>2
<1>4. e \in Drains /\ e.cursor = Unopened /\ e.todo = Tail(d.todo)
  BY <1>3 DEF NextAgency, Drains, Cursors, Unopened
<1> HIDE DEF e
<1>5. /\ Len(A) \in Nat /\ DOMAIN A = 1..Len(A)
      /\ Len(d.todo) \in Nat /\ DOMAIN d.todo = 1..Len(d.todo) /\ Len(d.todo) > 0
      /\ Len(e.todo) = Len(d.todo) - 1 /\ DOMAIN e.todo = 1..(Len(d.todo) - 1)
      /\ \A i \in 1..(Len(d.todo) - 1) : e.todo[i] = d.todo[i + 1]
  BY <1>1, <1>2, <1>4
<1>6. /\ Len(d.todo) <= Len(A)
      /\ \A i \in 1..Len(d.todo) : d.todo[i] = A[k + i]
  BY <1>5 DEF TodoAt
<1>7. Head(d.todo) = A[k + 1] /\ k + 1 \in 1..Len(A) /\ k \in Nat
  <2>1. Head(d.todo) = d.todo[1]
    BY <1>2, <1>5
  <2>2. 1 \in 1..Len(d.todo)
    BY <1>5
  <2>3. d.todo[1] = A[k + 1]
    BY <1>6, <2>2
  <2>4. k + 1 \in 1..Len(A) /\ k \in Nat
    <3>1. \A x, y \in Nat : y > 0 /\ y <= x => (x - y) + 1 \in 1..x /\ x - y \in Nat
      OBVIOUS
    <3>2. Len(A) \in Nat /\ Len(d.todo) \in Nat /\ Len(d.todo) > 0 /\ Len(d.todo) <= Len(A)
      BY <1>5, <1>6
    <3> QED
      BY <3>1, <3>2, Zenon
  <2> QED
    BY <2>1, <2>3, <2>4
<1>8. TodoAt(e, r)
  <2>1. Len(e.todo) <= Len(A)
    BY <1>5, <1>6
  <2>2. ASSUME NEW i \in DOMAIN e.todo PROVE e.todo[i] = A[Len(A) - Len(e.todo) + i]
    <3>0. i \in 1..(Len(d.todo) - 1)
      BY <1>5
    <3>1. i + 1 \in 1..Len(d.todo) /\ e.todo[i] = d.todo[i + 1]
      BY <1>5, <3>0
    <3>2. k + (i + 1) = Len(A) - Len(e.todo) + i
      <4>1. Len(e.todo) = Len(d.todo) - 1 /\ Len(d.todo) \in Nat /\ Len(A) \in Nat /\ i \in Int
        BY <1>5, <3>0
      <4>2. \A x, y \in Nat, z \in Int : (x - y) + (z + 1) = x - (y - 1) + z
        OBVIOUS
      <4> QED
        BY <4>1, <4>2, Zenon
    <3> QED
      BY <1>6, <3>1, <3>2
  <2> QED
    BY <2>1, <2>2 DEF TodoAt
<1>9. Visited(d, r) = {A[i] : i \in 1..k} /\ Visited(e, r) = {A[i] : i \in 1..(k + 1)}
  <2>1. Len(A) - Len(e.todo) = k + 1
    BY <1>5
  <2> QED
    BY <2>1 DEF Visited
<1> HIDE DEF k, A
<1>10. {A[i] : i \in 1..(k + 1)} = {A[i] : i \in 1..k} \cup {A[k + 1]}
  BY <1>7
<1>11. A[k + 1] \notin {A[i] : i \in 1..k}
  BY <1>1, <1>5, <1>7
<1>12. A[k + 1] \in Range(A)
  BY <1>5, <1>7 DEF Range
<1> QED
  BY <1>4, <1>7, <1>8, <1>9, <1>10, <1>11, <1>12 DEF e, A

\* When nothing is left to visit, every agency of the region has been visited.
LEMMA AllVisited ==
  ASSUME NEW r \in Regions, NEW d \in Drains, d.todo = <<>>
  PROVE  Visited(d, r) = Range(AgenciesOf[r])
<1>1. AgenciesOf[r] \in Seq(Range(AgenciesOf[r]))
  BY RegionAssumption
<1>2. Len(AgenciesOf[r]) - Len(d.todo) = Len(AgenciesOf[r])
  BY <1>1
<1>3. DOMAIN AgenciesOf[r] = 1..Len(AgenciesOf[r])
  BY <1>1
<1> QED
  BY <1>2, <1>3 DEF Visited, Range

\* Opening the feed and moving the cursor leave the agencies alone.
LEMMA CursorMoved ==
  ASSUME NEW r, NEW d, NEW e, TodoAt(d, r), e.todo = d.todo
  PROVE  TodoAt(e, r) /\ Visited(e, r) = Visited(d, r)
BY DEF TodoAt, Visited

-----------------------------------------------------------------------------
(* What a stream has found *)

WantedAt(s, m) == s.to # 0 => m.at <= s.to

FoundAt(s) ==
    \A m \in s.mutations : m.agency \in Range(AgenciesOf[s.region]) /\ WantedAt(s, m)

VisitedAt(f, o, s) ==
    \A a \in Visited(s.drain, s.region) \cap Agencies :
       \A n \in (o[a] + 1)..s.committed[a] :
          WantedAt(s, f[a][n]) => f[a][n] \in s.mutations

ReadAt(f, s) ==
    s.drain.cursor # Unopened =>
       \A n \in (s.drain.first + 1)..s.drain.cursor :
          WantedAt(s, f[Head(s.drain.todo)][n]) => f[Head(s.drain.todo)][n] \in s.mutations

MutAt(f, o, s) ==
    /\ DrainAt(f, o, s.drain, s.region, s.committed)
    /\ s.phase # "drain" => s.drain.todo = <<>>
    /\ FoundAt(s) /\ VisitedAt(f, o, s) /\ ReadAt(f, s)

\* The streams s and t are the same request, still draining.
SameDrain(s, t) ==
    /\ s \in Streams /\ t \in Streams
    /\ s.phase = "drain" /\ t.phase = "drain"
    /\ t.region = s.region /\ t.to = s.to /\ t.committed = s.committed

\* A feed is skipped that has no changes.
LEMMA SkipAt ==
  ASSUME NEW f, NEW o, NEW s, NEW t, FeedAt(f, o), SameDrain(s, t), MutAt(f, o, s),
         s.drain.todo # <<>>,
         Head(s.drain.todo) \in Agencies => f[Head(s.drain.todo)] = <<>>,
         t.drain = NextAgency(s.drain), t.mutations = s.mutations
  PROVE  MutAt(f, o, t)
<1> DEFINE d == s.drain
           h == Head(d.todo)
<1>1. d \in Drains /\ s.region \in Regions /\ s.committed \in Counts
  BY DEF SameDrain, Streams
<1>2. /\ CommittedAt(f, s.committed) /\ TodoAt(d, s.region) /\ OpenAt(f, o, d)
      /\ FoundAt(s) /\ VisitedAt(f, o, s)
  BY DEF MutAt, DrainAt
<1>3. /\ t.drain.cursor = Unopened /\ TodoAt(t.drain, s.region)
      /\ Visited(t.drain, s.region) = Visited(d, s.region) \cup {h}
  BY <1>1, <1>2, NextAgencyFacts
<1>4. DrainAt(f, o, t.drain, t.region, t.committed)
  BY <1>2, <1>3 DEF DrainAt, OpenAt, SameDrain
<1>5. FoundAt(t)
  BY <1>2 DEF FoundAt, WantedAt, SameDrain
<1>6. ReadAt(f, t)
  BY <1>3 DEF ReadAt
<1>7. VisitedAt(f, o, t)
  <2> SUFFICES ASSUME NEW a \in Visited(t.drain, t.region) \cap Agencies,
                      NEW n \in (o[a] + 1)..t.committed[a], WantedAt(t, f[a][n])
               PROVE  f[a][n] \in t.mutations
    BY DEF VisitedAt
  <2>1. CASE a = h
    <3>1. Len(f[a]) = 0
      BY <2>1
    <3>2. s.committed[a] <= 0 /\ s.committed[a] \in Nat /\ o[a] \in Nat
      BY <1>1, <1>2, <3>1 DEF CommittedAt, Counts, FeedAt
    <3>3. n \in (o[a] + 1)..s.committed[a]
      BY DEF SameDrain
    <3> QED
      BY <3>2, <3>3
  <2>2. CASE a # h
    <3>1. a \in Visited(d, s.region) \cap Agencies /\ n \in (o[a] + 1)..s.committed[a]
      BY <1>3, <2>2 DEF SameDrain
    <3>2. WantedAt(s, f[a][n])
      BY DEF WantedAt, SameDrain
    <3> QED
      BY <1>2, <3>1, <3>2 DEF VisitedAt
  <2> QED
    BY <2>1, <2>2
<1> QED
  BY <1>4, <1>5, <1>6, <1>7 DEF MutAt, SameDrain

\* A feed is opened at its oldest change.
LEMMA OpenedAt ==
  ASSUME NEW f, NEW o, NEW s, NEW t, FeedAt(f, o), SameDrain(s, t), MutAt(f, o, s),
         s.drain.todo # <<>>, Head(s.drain.todo) \in Agencies,
         t.drain = [s.drain EXCEPT !.first = o[Head(s.drain.todo)], !.cursor = o[Head(s.drain.todo)]],
         t.mutations = s.mutations
  PROVE  MutAt(f, o, t)
<1> DEFINE d == s.drain
           h == Head(d.todo)
<1>1. d \in Drains /\ s.region \in Regions
  BY DEF SameDrain, Streams
<1>2. /\ CommittedAt(f, s.committed) /\ TodoAt(d, s.region)
      /\ FoundAt(s) /\ VisitedAt(f, o, s)
  BY DEF MutAt, DrainAt
<1>3. o[h] \in Nat /\ o[h] <= Len(f[h])
  BY DEF FeedAt, Counts
<1>4. /\ t.drain.first = o[h] /\ t.drain.cursor = o[h] /\ t.drain.todo = d.todo
      /\ TodoAt(t.drain, s.region) /\ Visited(t.drain, s.region) = Visited(d, s.region)
  <2>1. t.drain = [d EXCEPT !.first = o[h], !.cursor = o[h]]
    OBVIOUS
  <2> HIDE DEF d, h
  <2>2. t.drain.first = o[h] /\ t.drain.cursor = o[h] /\ t.drain.todo = d.todo
    BY <1>1, <2>1 DEF Drains
  <2> QED
    BY <1>2, <2>2, CursorMoved
<1>5. OpenAt(f, o, t.drain)
  BY <1>3, <1>4 DEF OpenAt, Unopened
<1>6. DrainAt(f, o, t.drain, t.region, t.committed)
  BY <1>2, <1>4, <1>5 DEF DrainAt, SameDrain
<1>7. FoundAt(t)
  BY <1>2 DEF FoundAt, WantedAt, SameDrain
<1>8. ReadAt(f, t)
  BY <1>3, <1>4 DEF ReadAt
<1>9. VisitedAt(f, o, t)
  BY <1>2, <1>4 DEF VisitedAt, WantedAt, SameDrain
<1> QED
  BY <1>6, <1>7, <1>8, <1>9 DEF MutAt, SameDrain

\* A page is read, up to the change number e: what is wanted of it is added,
\* and the cursor is at e, or the feed is left when e is its end.
LEMMA PageReadAt ==
  ASSUME NEW f, NEW o, NEW s, NEW t, FeedAt(f, o), SameDrain(s, t), MutAt(f, o, s),
         s.drain.cursor # Unopened,
         NEW e \in Nat, s.drain.cursor <= e, e <= Len(f[Head(s.drain.todo)]),
         t.drain = IF e = Len(f[Head(s.drain.todo)]) THEN NextAgency(s.drain)
                   ELSE [s.drain EXCEPT !.cursor = e],
         t.mutations = s.mutations \cup
            {m \in {f[Head(s.drain.todo)][n] : n \in (s.drain.cursor + 1)..e} : WantedAt(s, m)}
  PROVE  MutAt(f, o, t)
<1> DEFINE d == s.drain
           h == Head(d.todo)
<1>1. d \in Drains /\ s.region \in Regions /\ s.committed \in Counts
  BY DEF SameDrain, Streams
<1>2. /\ CommittedAt(f, s.committed) /\ TodoAt(d, s.region) /\ OpenAt(f, o, d)
      /\ FoundAt(s) /\ VisitedAt(f, o, s) /\ ReadAt(f, s)
  BY DEF MutAt, DrainAt
<1>3. /\ d.todo # <<>> /\ h \in Agencies /\ d.first \in Nat /\ d.cursor \in Nat
      /\ d.first <= o[h] /\ d.first <= d.cursor
  BY <1>1, <1>2 DEF OpenAt, Drains, Cursors
<1>4. /\ NextAgency(d).cursor = Unopened /\ TodoAt(NextAgency(d), s.region)
      /\ Visited(NextAgency(d), s.region) = Visited(d, s.region) \cup {h}
      /\ h \in Range(AgenciesOf[s.region])
  BY <1>1, <1>2, <1>3, NextAgencyFacts
<1>5. f[h] \in Seq(Mutations) /\ o[h] \in Nat /\ \A n \in 1..Len(f[h]) : f[h][n].agency = h
  BY <1>3 DEF FeedAt, Counts
<1> HIDE DEF d, h
<1>6. \A n \in (d.cursor + 1)..e : n \in 1..Len(f[h])
  BY <1>3, <1>5 DEF d, h
<1>7. FoundAt(t)
  <2> SUFFICES ASSUME NEW m \in t.mutations
               PROVE  m.agency \in Range(AgenciesOf[s.region]) /\ WantedAt(s, m)
    BY DEF FoundAt, WantedAt, SameDrain
  <2>1. CASE m \in s.mutations
    BY <1>2, <2>1 DEF FoundAt
  <2>2. CASE m \notin s.mutations
    <3>1. PICK n \in (d.cursor + 1)..e : m = f[h][n] /\ WantedAt(s, m)
      BY <2>2 DEF d, h
    <3> QED
      BY <1>4, <1>5, <1>6, <3>1
  <2> QED
    BY <2>1, <2>2
<1>8. \A n \in (d.first + 1)..e : WantedAt(s, f[h][n]) => f[h][n] \in t.mutations
  <2> SUFFICES ASSUME NEW n \in (d.first + 1)..e, WantedAt(s, f[h][n])
               PROVE  f[h][n] \in t.mutations
    OBVIOUS
  <2>1. CASE n <= d.cursor
    <3>1. n \in (d.first + 1)..d.cursor
      BY <1>3, <2>1
    <3> QED
      BY <1>2, <1>3, <3>1 DEF ReadAt, d, h
  <2>2. CASE ~(n <= d.cursor)
    <3>1. n \in (d.cursor + 1)..e
      BY <1>3, <2>2
    <3> QED
      BY <3>1 DEF d, h
  <2> QED
    BY <2>1, <2>2
<1>9. \A a \in Visited(d, s.region) \cap Agencies : \A n \in (o[a] + 1)..s.committed[a] :
         WantedAt(s, f[a][n]) => f[a][n] \in t.mutations
  BY <1>2 DEF VisitedAt, d
<1>10. CASE e = Len(f[h])
  <2>1. t.drain = NextAgency(d)
    BY <1>10 DEF d, h
  <2>2. DrainAt(f, o, t.drain, t.region, t.committed)
    BY <1>2, <1>4, <2>1 DEF DrainAt, OpenAt, SameDrain
  <2>3. ReadAt(f, t)
    BY <1>4, <2>1 DEF ReadAt
  <2>4. s.committed[h] <= e /\ s.committed[h] \in Nat
    BY <1>1, <1>2, <1>3, <1>10 DEF CommittedAt, Counts
  <2>5. \A n \in (o[h] + 1)..s.committed[h] : n \in (d.first + 1)..e
    BY <1>3, <1>5, <2>4
  <2>6. VisitedAt(f, o, t)
    <3> SUFFICES ASSUME NEW a \in Visited(t.drain, s.region) \cap Agencies,
                        NEW n \in (o[a] + 1)..s.committed[a], WantedAt(s, f[a][n])
                 PROVE  f[a][n] \in t.mutations
      BY DEF VisitedAt, WantedAt, SameDrain
    <3>1. CASE a = h
      BY <1>8, <2>5, <3>1
    <3>2. CASE a # h
      BY <1>4, <1>9, <2>1, <3>2
    <3> QED
      BY <3>1, <3>2
  <2> QED
    BY <1>7, <2>2, <2>3, <2>6 DEF MutAt, SameDrain
<1>11. CASE e # Len(f[h])
  <2>1. t.drain = [d EXCEPT !.cursor = e]
    BY <1>11 DEF d, h
  <2>2. t.drain.first = d.first /\ t.drain.cursor = e /\ t.drain.todo = d.todo
    BY <1>1, <2>1 DEF Drains
  <2>3. /\ t.drain.first = d.first /\ t.drain.cursor = e /\ t.drain.todo = d.todo
        /\ TodoAt(t.drain, s.region) /\ Visited(t.drain, s.region) = Visited(d, s.region)
    BY <1>2, <2>2, CursorMoved
  <2>4. Head(t.drain.todo) = h
    BY <2>3 DEF h
  <2>5. OpenAt(f, o, t.drain)
    BY <1>3, <2>3, <2>4 DEF OpenAt, Unopened, h, d
  <2>6. DrainAt(f, o, t.drain, t.region, t.committed)
    BY <1>2, <2>3, <2>5 DEF DrainAt, SameDrain
  <2>7. ReadAt(f, t)
    BY <1>8, <2>3, <2>4 DEF ReadAt, WantedAt, SameDrain
  <2>8. VisitedAt(f, o, t)
    BY <1>9, <2>3 DEF VisitedAt, WantedAt, SameDrain
  <2> QED
    BY <1>7, <2>6, <2>7, <2>8 DEF MutAt, SameDrain
<1> QED
  BY <1>10, <1>11

\* The feeds g, trimmed up to p, come after f and o.
GrowsAt(f, o, g, p) ==
    \A a \in Agencies :
       /\ Len(f[a]) <= Len(g[a]) /\ o[a] <= p[a]
       /\ \A n \in 1..Len(f[a]) : g[a][n] = f[a][n]

\* A drain goes on in feeds that have grown.
LEMMA DrainGrows ==
  ASSUME NEW f, NEW o, NEW g, NEW p, FeedAt(f, o), FeedAt(g, p), GrowsAt(f, o, g, p),
         NEW d \in Drains, NEW r \in Regions, NEW c \in Counts, DrainAt(f, o, d, r, c)
  PROVE  DrainAt(g, p, d, r, c)
<1>1. \A a \in Agencies : /\ Len(f[a]) \in Nat /\ Len(g[a]) \in Nat
                          /\ o[a] \in Nat /\ p[a] \in Nat /\ c[a] \in Nat
  BY DEF FeedAt, Counts
<1>2. CommittedAt(g, c)
  BY <1>1 DEF DrainAt, CommittedAt, GrowsAt
<1>3. OpenAt(g, p, d)
  <2> SUFFICES ASSUME d.cursor # Unopened
               PROVE  /\ d.todo # <<>> /\ Head(d.todo) \in Agencies /\ d.first # Unopened
                      /\ d.first <= p[Head(d.todo)] /\ d.first <= d.cursor
                      /\ d.cursor <= Len(g[Head(d.todo)])
    BY DEF OpenAt
  <2> DEFINE h == Head(d.todo)
  <2>1. /\ d.todo # <<>> /\ h \in Agencies /\ d.first # Unopened
        /\ d.first <= o[h] /\ d.first <= d.cursor /\ d.cursor <= Len(f[h])
    BY DEF DrainAt, OpenAt
  <2>2. d.first \in Int /\ d.cursor \in Int
    BY DEF Drains, Cursors, Unopened
  <2>3. Len(f[h]) <= Len(g[h]) /\ o[h] <= p[h]
    BY <2>1 DEF GrowsAt
  <2> HIDE DEF h
  <2>4. d.first <= p[h] /\ d.cursor <= Len(g[h])
    BY <1>1, <2>1, <2>2, <2>3
  <2> QED
    BY <2>1, <2>4 DEF h
<1> QED
  BY <1>2, <1>3 DEF DrainAt

\* What has been found of the feeds is what they held, also when they grow.
LEMMA MutGrows ==
  ASSUME NEW f, NEW o, NEW g, NEW p, FeedAt(f, o), FeedAt(g, p), GrowsAt(f, o, g, p),
         NEW s \in Streams, MutAt(f, o, s)
  PROVE  MutAt(g, p, s)
<1> DEFINE d == s.drain
           h == Head(d.todo)
<1>1. d \in Drains /\ s.region \in Regions /\ s.committed \in Counts
  BY DEF Streams
<1>2. \A a \in Agencies : /\ Len(f[a]) \in Nat /\ Len(g[a]) \in Nat
                          /\ o[a] \in Nat /\ p[a] \in Nat /\ s.committed[a] \in Nat
  BY <1>1 DEF FeedAt, Counts
<1>3. DrainAt(g, p, d, s.region, s.committed)
  BY <1>1, DrainGrows DEF MutAt
<1>4. VisitedAt(g, p, s)
  <2> SUFFICES ASSUME NEW a \in Visited(d, s.region) \cap Agencies,
                      NEW n \in (p[a] + 1)..s.committed[a], WantedAt(s, g[a][n])
               PROVE  g[a][n] \in s.mutations
    BY DEF VisitedAt
  <2>1. s.committed[a] <= Len(f[a]) /\ o[a] <= p[a]
    BY DEF MutAt, DrainAt, CommittedAt, GrowsAt
  <2>2. n \in (o[a] + 1)..s.committed[a] /\ n \in 1..Len(f[a])
    BY <1>2, <2>1
  <2>3. g[a][n] = f[a][n]
    BY <2>2 DEF GrowsAt
  <2> QED
    BY <2>2, <2>3 DEF MutAt, VisitedAt
<1>5. ReadAt(g, s)
  <2> SUFFICES ASSUME d.cursor # Unopened, NEW n \in (d.first + 1)..d.cursor,
                      WantedAt(s, g[h][n])
               PROVE  g[h][n] \in s.mutations
    BY DEF ReadAt
  <2>1. h \in Agencies /\ d.first # Unopened /\ d.cursor <= Len(f[h])
    BY DEF MutAt, DrainAt, OpenAt
  <2>2. d.first \in Nat /\ d.cursor \in Nat
    BY <1>1, <2>1 DEF Drains, Cursors
  <2> HIDE DEF d, h
  <2>3. n \in 1..Len(f[h])
    BY <1>2, <2>1, <2>2
  <2>4. g[h][n] = f[h][n]
    BY <2>1, <2>3 DEF GrowsAt
  <2> QED
    BY <2>4 DEF MutAt, ReadAt, d, h
<1> QED
  BY <1>3, <1>4, <1>5 DEF MutAt

\* A commit appends a change that carries its place.
LEMMA CommitGrows ==
  ASSUME FeedAt(feed, oldest), NEW a \in Agencies, NEW v \in Vehicles, NEW t \in Times,
         Commit(a, v, t)
  PROVE  FeedAt(feed', oldest') /\ GrowsAt(feed, oldest, feed', oldest')
<1> DEFINE m == [agency |-> a, vehicle |-> v, at |-> t, n |-> Len(feed[a]) + 1]
<1>1. feed \in [Agencies -> Seq(Mutations)] /\ oldest \in Counts /\ oldest' = oldest
  BY DEF FeedAt, Commit
<1>2. feed[a] \in Seq(Mutations) /\ Len(feed[a]) \in Nat
  BY <1>1
<1>3. m \in Mutations /\ m.agency = a /\ m.n = Len(feed[a]) + 1
  BY <1>2 DEF Mutations
<1>4. feed' = [feed EXCEPT ![a] = Append(feed[a], m)]
  BY DEF Commit
<1> HIDE DEF m
<1>5. Append(feed[a], m) \in Seq(Mutations)
  BY <1>2, <1>3
<1>6. feed' \in [Agencies -> Seq(Mutations)]
  BY <1>1, <1>4, <1>5
<1>7. feed'[a] = Append(feed[a], m) /\ \A b \in Agencies : b # a => feed'[b] = feed[b]
  BY <1>1, <1>4
<1>8. /\ Len(feed'[a]) = Len(feed[a]) + 1 /\ DOMAIN feed'[a] = 1..(Len(feed[a]) + 1)
      /\ feed'[a][Len(feed[a]) + 1] = m
      /\ \A n \in 1..Len(feed[a]) : feed'[a][n] = feed[a][n]
  BY <1>2, <1>3, <1>7
<1>9. DOMAIN feed[a] = 1..Len(feed[a])
  BY <1>2
<1>10. \A n \in DOMAIN feed'[a] : feed'[a][n].agency = a /\ feed'[a][n].n = n
  <2> TAKE n \in DOMAIN feed'[a]
  <2>1. CASE n = Len(feed[a]) + 1
    BY <1>3, <1>8, <2>1
  <2>2. CASE n # Len(feed[a]) + 1
    <3>1. n \in 1..Len(feed[a])
      BY <1>2, <1>8, <2>2
    <3> QED
      BY <1>8, <1>9, <3>1 DEF FeedAt
  <2> QED
    BY <2>1, <2>2
<1>11. \A b \in Agencies : oldest[b] \in Nat /\ Len(feed[b]) \in Nat /\ oldest[b] <= Len(feed[b])
  BY DEF FeedAt, Counts
<1>12. FeedAt(feed', oldest')
  <2>1. \A b \in Agencies : oldest'[b] <= Len(feed'[b])
    BY <1>1, <1>7, <1>8, <1>11
  <2>2. \A b \in Agencies : \A n \in DOMAIN feed'[b] : feed'[b][n].agency = b /\ feed'[b][n].n = n
    BY <1>7, <1>10 DEF FeedAt
  <2> QED
    BY <1>1, <1>6, <2>1, <2>2 DEF FeedAt
<1>13. GrowsAt(feed, oldest, feed', oldest')
  BY <1>1, <1>7, <1>8, <1>11 DEF GrowsAt
<1> QED
  BY <1>12, <1>13

\* Retention removes a change.
LEMMA TrimGrows ==
  ASSUME FeedAt(feed, oldest), NEW a \in Agencies, Trim(a)
  PROVE  FeedAt(feed', oldest') /\ GrowsAt(feed, oldest, feed', oldest')
<1>1. \A b \in Agencies : oldest[b] \in Nat /\ Len(feed[b]) \in Nat /\ oldest[b] <= Len(feed[b])
  BY DEF FeedAt, Counts
<1>2. /\ feed' = feed /\ oldest \in [Agencies -> Nat]
      /\ oldest' = [oldest EXCEPT ![a] = oldest[a] + 1] /\ oldest[a] + 1 < Len(feed[a])
  BY DEF Trim, FeedAt, Counts
<1>3. \A b \in Agencies : oldest'[b] = IF b = a THEN oldest[b] + 1 ELSE oldest[b]
  BY <1>2
<1>4. oldest' \in [Agencies -> Nat]
  BY <1>1, <1>2
<1>5. \A b \in Agencies : oldest'[b] <= Len(feed[b]) /\ oldest[b] <= oldest'[b]
  BY <1>1, <1>2, <1>3
<1>6. FeedAt(feed', oldest')
  BY <1>2, <1>4, <1>5 DEF FeedAt, Counts
<1>7. GrowsAt(feed, oldest, feed', oldest')
  BY <1>1, <1>2, <1>5 DEF GrowsAt
<1> QED
  BY <1>6, <1>7

-----------------------------------------------------------------------------
(* Frames *)

PassedAt(s) ==
    {m \in s.mutations :
       Truncate(m.at) \notin s.frames \/ (s.sent /\ Truncate(m.at) = Min(s.frames))}

\* The frames to come are later than those merged.
OrderAt(s) ==
    /\ s.frames \subseteq FrameTimes(s.mutations)
    /\ s.sent => s.phase = "play" /\ s.frames # {}
    /\ \A m \in s.mutations, f \in s.frames : Truncate(m.at) \in s.frames \/ Truncate(m.at) < f

\* merged has one position of each vehicle of P, of its last second.
MergedAt(merged, P) ==
    /\ merged \subseteq P
    /\ \A m, k \in merged : SameVehicle(m, k) => m = k
    /\ \A m \in P : \E k \in merged : SameVehicle(m, k) /\ Truncate(m.at) <= Truncate(k.at)

FrameStateAt(s) ==
    IF s.phase = "drain"
    THEN s.merged = {} /\ ~s.sent
    ELSE OrderAt(s) /\ MergedAt(s.merged, PassedAt(s))

BucketAt(s) == {m \in s.mutations : Truncate(m.at) = Min(s.frames)}

\* ms is a result of storing the bucket in merged.
MergeOf(s, ms) ==
    \E last \in SUBSET BucketAt(s) :
       /\ ms = {m \in s.merged : \A k \in BucketAt(s) : ~SameVehicle(m, k)} \cup last
       /\ \A m \in BucketAt(s) : \E k \in last : SameVehicle(m, k)
       /\ \A m, k \in last : SameVehicle(m, k) => m = k

\* The seconds of a stream are natural numbers; so the next frame is the first.
LEMMA FrameFacts ==
  ASSUME NEW s \in Streams
  PROVE  /\ \A m \in s.mutations : Truncate(m.at) \in Nat
         /\ s.frames \subseteq Nat
         /\ s.frames # {} => Min(s.frames) \in s.frames /\ \A f \in s.frames : Min(s.frames) <= f
<1>1. \A m \in s.mutations : m.at \in Times
  BY DEF Streams, Mutations
<1>2. s.frames \subseteq Nat
  BY DEF Streams
<1> QED
  BY <1>1, <1>2, TruncateNat, MinFacts

\* What a merge leaves is right for the bucket and what was merged before: a
\* position that gives way to one of the bucket is of an earlier second.
LEMMA MergeFacts ==
  ASSUME NEW s \in Streams, s.frames # {}, ~s.sent, OrderAt(s), MergedAt(s.merged, PassedAt(s)),
         NEW ms, MergeOf(s, ms)
  PROVE  MergedAt(ms, PassedAt(s) \cup BucketAt(s)) /\ ms \subseteq s.mutations
<1> DEFINE B == BucketAt(s)
           P == PassedAt(s)
           kept == {m \in s.merged : \A k \in B : ~SameVehicle(m, k)}
<1>1. PICK last \in SUBSET B :
         /\ ms = kept \cup last
         /\ \A m \in B : \E k \in last : SameVehicle(m, k)
         /\ \A m, k \in last : SameVehicle(m, k) => m = k
  BY DEF MergeOf
<1>2. P \subseteq s.mutations /\ B \subseteq s.mutations /\ s.merged \subseteq P
  BY DEF PassedAt, BucketAt, MergedAt
<1>3. ms \subseteq P \cup B
  BY <1>1, <1>2
<1>4. ASSUME NEW m \in ms, NEW k \in ms, SameVehicle(m, k) PROVE m = k
  <2>1. SameVehicle(k, m)
    BY <1>4 DEF SameVehicle
  <2>2. CASE m \in kept /\ k \in kept
    BY <1>4, <2>2 DEF MergedAt
  <2>3. CASE m \in last /\ k \in last
    BY <1>1, <1>4, <2>3
  <2>4. CASE m \in kept /\ k \in last
    BY <1>1, <1>4, <2>4
  <2>5. CASE m \in last /\ k \in kept
    BY <1>1, <2>1, <2>5
  <2> QED
    BY <1>1, <2>2, <2>3, <2>4, <2>5
<1>5. ASSUME NEW m \in B PROVE \E k \in ms : SameVehicle(m, k) /\ Truncate(m.at) <= Truncate(k.at)
  <2>1. PICK k \in last : SameVehicle(m, k)
    BY <1>1
  <2>2. k \in ms /\ Truncate(m.at) = Truncate(k.at) /\ Truncate(k.at) \in Nat
    BY <1>1, <1>2, FrameFacts DEF BucketAt
  <2> QED
    BY <2>1, <2>2
<1>6. ASSUME NEW m \in P PROVE \E k \in ms : SameVehicle(m, k) /\ Truncate(m.at) <= Truncate(k.at)
  <2>1. PICK k \in s.merged : SameVehicle(m, k) /\ Truncate(m.at) <= Truncate(k.at)
    BY DEF MergedAt
  <2>2. CASE k \in kept
    BY <1>1, <2>1, <2>2
  <2>3. CASE k \notin kept
    <3>1. PICK b \in B : SameVehicle(k, b)
      BY <2>3
    <3>2. PICK l \in last : SameVehicle(b, l)
      BY <1>1
    <3>3. SameVehicle(m, l)
      BY <2>1, <3>1, <3>2 DEF SameVehicle
    <3>4. k \in s.mutations /\ Truncate(k.at) \notin s.frames
      BY <1>2 DEF PassedAt
    <3>5. Truncate(l.at) = Min(s.frames) /\ l \in s.mutations
      BY <1>2 DEF BucketAt
    <3>6. Min(s.frames) \in s.frames
      BY FrameFacts
    <3>7. Truncate(k.at) < Truncate(l.at)
      BY <3>4, <3>5, <3>6 DEF OrderAt
    <3>8. Truncate(m.at) \in Nat /\ Truncate(k.at) \in Nat /\ Truncate(l.at) \in Nat
      BY <1>2, <3>4, <3>5, FrameFacts
    <3>9. Truncate(m.at) <= Truncate(l.at)
      BY <2>1, <3>7, <3>8
    <3> QED
      BY <1>1, <3>3, <3>9
  <2> QED
    BY <2>2, <2>3
<1>7. \A m \in P \cup B : \E k \in ms : SameVehicle(m, k) /\ Truncate(m.at) <= Truncate(k.at)
  BY <1>5, <1>6
<1>8. MergedAt(ms, P \cup B)
  BY <1>3, <1>4, <1>7 DEF MergedAt
<1> QED
  BY <1>2, <1>3, <1>8

\* Every second is still to come when the frames have been built.
LEMMA BuildFrames ==
  ASSUME NEW s \in Streams, NEW t \in Streams, s.phase = "drain", FrameStateAt(s),
         t.phase = "fold", t.mutations = s.mutations, t.merged = s.merged, t.sent = s.sent,
         t.frames = FrameTimes(s.mutations)
  PROVE  FrameStateAt(t)
<1>1. t.merged = {} /\ ~t.sent
  BY DEF FrameStateAt
<1>2. \A m \in t.mutations : Truncate(m.at) \in t.frames
  BY DEF FrameTimes
<1>3. OrderAt(t)
  BY <1>1, <1>2 DEF OrderAt
<1>4. PassedAt(t) = {}
  BY <1>1, <1>2 DEF PassedAt
<1> QED
  BY <1>1, <1>3, <1>4 DEF FrameStateAt, MergedAt

\* The order holds without the first frame.
LEMMA OrderRest ==
  ASSUME NEW s \in Streams, NEW t \in Streams, s.frames # {}, OrderAt(s),
         t.mutations = s.mutations, t.frames = s.frames \ {Min(s.frames)}, ~t.sent
  PROVE  OrderAt(t)
<1>1. t.frames \subseteq FrameTimes(t.mutations)
  BY DEF OrderAt
<1>2. ASSUME NEW m \in t.mutations, NEW f \in t.frames
      PROVE  Truncate(m.at) \in t.frames \/ Truncate(m.at) < f
  <2>1. f \in s.frames /\ f # Min(s.frames)
    OBVIOUS
  <2>2. Min(s.frames) <= f /\ Min(s.frames) \in Nat /\ f \in Nat
    BY <2>1, FrameFacts
  <2>3. Min(s.frames) < f
    BY <2>1, <2>2
  <2>4. Truncate(m.at) \in s.frames \/ Truncate(m.at) < f
    BY <2>1 DEF OrderAt
  <2> QED
    BY <2>3, <2>4
<1> QED
  BY <1>1, <1>2 DEF OrderAt

\* A frame is merged without being sent.
LEMMA FoldFrames ==
  ASSUME NEW s \in Streams, NEW t \in Streams, s.phase # "drain", t.phase # "drain", FrameStateAt(s),
         s.frames # {}, ~s.sent, ~t.sent, t.mutations = s.mutations, MergeOf(s, t.merged),
         t.frames = s.frames \ {Min(s.frames)}
  PROVE  FrameStateAt(t)
<1>1. OrderAt(s) /\ MergedAt(s.merged, PassedAt(s))
  BY DEF FrameStateAt
<1>2. OrderAt(t)
  BY <1>1, OrderRest
<1>3. PassedAt(t) = PassedAt(s) \cup BucketAt(s)
  BY FrameFacts DEF PassedAt, BucketAt
<1> QED
  BY <1>1, <1>2, <1>3, MergeFacts DEF FrameStateAt

\* A frame is merged and sent.
LEMMA SendFrames ==
  ASSUME NEW s \in Streams, NEW t \in Streams, s.phase # "drain", t.phase = "play", FrameStateAt(s),
         s.frames # {}, ~s.sent, t.sent, t.mutations = s.mutations, MergeOf(s, t.merged),
         t.frames = s.frames
  PROVE  FrameStateAt(t)
<1>1. OrderAt(s) /\ MergedAt(s.merged, PassedAt(s))
  BY DEF FrameStateAt
<1>2. OrderAt(t)
  BY <1>1 DEF OrderAt
<1>3. PassedAt(t) = PassedAt(s) \cup BucketAt(s)
  BY FrameFacts DEF PassedAt, BucketAt
<1> QED
  BY <1>1, <1>2, <1>3, MergeFacts DEF FrameStateAt

\* The frame sent is done with.
LEMMA ProgressFrames ==
  ASSUME NEW s \in Streams, NEW t \in Streams, s.phase # "drain", t.phase # "drain", FrameStateAt(s),
         s.sent, ~t.sent, t.mutations = s.mutations, t.merged = s.merged,
         t.frames = s.frames \ {Min(s.frames)}
  PROVE  FrameStateAt(t)
<1>1. OrderAt(s) /\ MergedAt(s.merged, PassedAt(s)) /\ s.frames # {}
  BY DEF FrameStateAt, OrderAt
<1>2. OrderAt(t)
  BY <1>1, OrderRest
<1>3. PassedAt(t) = PassedAt(s)
  BY <1>1, FrameFacts DEF PassedAt
<1> QED
  BY <1>1, <1>2, <1>3 DEF FrameStateAt

\* The page has had a frame no earlier than those that are done with.
PlayAt(s, last) ==
    /\ s.phase # "play" => s.from \in {0, last}
    /\ s.phase # "drain" =>
          \A m \in s.mutations : Truncate(m.at) \in s.frames \/ Truncate(m.at) <= last

\* A frame before the start is no later than the page's last one.
LEMMA FoldPlays ==
  ASSUME NEW s \in Streams, NEW t \in Streams, NEW last \in Nat, PlayAt(s, last),
         s.phase = "fold", t.phase = "fold", t.from = s.from, t.mutations = s.mutations,
         s.frames # {}, s.from # 0, Min(s.frames) < s.from,
         t.frames = s.frames \ {Min(s.frames)}
  PROVE  PlayAt(t, last)
<1>1. s.from = last
  BY DEF PlayAt
<1>2. Min(s.frames) <= last
  <2>1. Min(s.frames) \in Nat
    BY FrameFacts
  <2> QED
    BY <1>1, <2>1
<1> QED
  BY <1>1, <1>2 DEF PlayAt

\* The frame whose time the page is sent is its last one.
LEMMA ProgressPlays ==
  ASSUME NEW s \in Streams, NEW t \in Streams,
         s.phase = "play", t.phase = "play", t.mutations = s.mutations,
         s.frames # {}, OrderAt(s), t.frames = s.frames \ {Min(s.frames)}
  PROVE  PlayAt(t, Min(s.frames))
<1>1. Min(s.frames) \in s.frames /\ Min(s.frames) \in Nat
  BY FrameFacts
<1>2. ASSUME NEW m \in t.mutations
      PROVE  Truncate(m.at) \in t.frames \/ Truncate(m.at) <= Min(s.frames)
  <2>1. Truncate(m.at) \in Nat
    BY FrameFacts
  <2>2. Truncate(m.at) \in s.frames \/ Truncate(m.at) < Min(s.frames)
    BY <1>1 DEF OrderAt
  <2> QED
    BY <1>1, <2>1, <2>2
<1> QED
  BY <1>2 DEF PlayAt

-----------------------------------------------------------------------------
(* The catalogue *)

\* Min and Max are the only least and greatest elements.
LEMMA MinIs ==
  ASSUME NEW S, S \subseteq Nat, NEW x \in S, \A y \in S : x <= y
  PROVE  Min(S) = x
<1>1. Min(S) \in S /\ \A y \in S : Min(S) <= y
  BY MinFacts
<1>2. Min(S) <= x /\ x <= Min(S) /\ x \in Nat /\ Min(S) \in Nat
  BY <1>1
<1> QED
  BY <1>2

LEMMA MaxIs ==
  ASSUME NEW S, S \subseteq Nat, NEW x \in S, \A y \in S : y <= x
  PROVE  Max(S) = x
<1>0. \A y \in S : x >= y
  OBVIOUS
<1>1. Max(S) \in S /\ \A y \in S : Max(S) >= y
  BY <1>0 DEF Max
<1>2. Max(S) >= x /\ Max(S) <= x /\ x \in Nat /\ Max(S) \in Nat
  BY <1>1
<1> QED
  BY <1>2

\* A bounded set of numbers has a greatest element.
LEMMA MaxFacts ==
  ASSUME NEW S, S \subseteq Nat, S # {}, NEW b \in Nat, \A y \in S : y <= b
  PROVE  Max(S) \in S /\ \A y \in S : y <= Max(S)
<1> DEFINE U == {u \in Nat : \A y \in S : y <= u}
<1>1. U \subseteq Nat /\ b \in U
  OBVIOUS
<1> HIDE DEF U
<1>2. PICK x \in U : \A u \in U : x <= u
  BY <1>1, LP!LeastNat
<1>3. x \in Nat /\ \A y \in S : y <= x
  BY DEF U
<1>4. x \in S
  <2> SUFFICES ASSUME x \notin S PROVE FALSE
    OBVIOUS
  <2>1. \A y \in S : y <= x - 1
    BY <1>3
  <2>2. PICK y \in S : TRUE
    OBVIOUS
  <2>3. x - 1 \in Nat
    BY <1>3, <2>1, <2>2
  <2>4. x - 1 \in U
    BY <2>1, <2>3 DEF U
  <2>5. x <= x - 1
    BY <1>2, <2>4
  <2> QED
    BY <1>3, <2>5
<1>5. Max(S) = x
  BY <1>3, <1>4, MaxIs
<1> QED
  BY <1>3, <1>4, <1>5

\* The changes lo + 1 to hi of agency a, and their times.
SpanAt(f, a, lo, hi) == {f[a][n] : n \in (lo + 1)..hi}
TimesAt(f, a, lo, hi) == {m.at : m \in {k \in SpanAt(f, a, lo, hi) : k.vehicle \notin ColonIDs}}

SummaryAt(f, a, e, lo, hi) ==
    /\ e.count = hi - lo
    /\ e.from = IF TimesAt(f, a, lo, hi) = {} THEN 0 ELSE Min(TimesAt(f, a, lo, hi))
    /\ e.to = IF TimesAt(f, a, lo, hi) = {} THEN 0 ELSE Max(TimesAt(f, a, lo, hi))

\* There are as many changes as numbers, since each carries its own.
LEMMA SpanCount ==
  ASSUME NEW f, NEW o, FeedAt(f, o), NEW a \in Agencies,
         NEW lo \in Nat, NEW hi \in Nat, lo <= hi, hi <= Len(f[a])
  PROVE  Cardinality(SpanAt(f, a, lo, hi)) = hi - lo
<1> DEFINE I == (lo + 1)..hi
           T == SpanAt(f, a, lo, hi)
           g == [n \in I |-> f[a][n]]
<1>1. f[a] \in Seq(Mutations) /\ DOMAIN f[a] = 1..Len(f[a])
  BY DEF FeedAt
<1>2. \A n \in I : n \in DOMAIN f[a]
  BY <1>1
<1>3. \A n \in I : f[a][n].n = n
  BY <1>2 DEF FeedAt
<1>4. g \in [I -> T] /\ \A y \in T : \E n \in I : g[n] = y
  BY DEF SpanAt
<1>5. \A m, n \in I : g[m] = g[n] => m = n
  <2> TAKE m, n \in I
  <2>1. g[m] = f[a][m] /\ g[n] = f[a][n]
    OBVIOUS
  <2> QED
    BY <1>3, <2>1
<1> HIDE DEF g, T, I
<1>6. g \in Surjection(I, T)
  BY <1>4 DEF Surjection
<1>7. g \in Injection(I, T)
  BY <1>4, <1>5 DEF Injection, IsInjective
<1>8. IsFiniteSet(I) /\ Cardinality(I) = IF lo + 1 > hi THEN 0 ELSE hi - (lo + 1) + 1
  <2>1. lo + 1 \in Int /\ hi \in Int
    OBVIOUS
  <2> QED
    BY <2>1, FS_Interval DEF I
<1>9. Cardinality(T) = Cardinality(I)
  BY <1>6, <1>7, <1>8, FS_Surjection
<1> QED
  BY <1>8, <1>9 DEF T

\* The times of changes are positive numbers, and bounded.
LEMMA SpanTimes ==
  ASSUME NEW f, NEW o, FeedAt(f, o), NEW a \in Agencies,
         NEW lo \in Nat, NEW hi \in Nat, hi <= Len(f[a])
  PROVE  /\ SpanAt(f, a, lo, hi) \subseteq Mutations
         /\ TimesAt(f, a, lo, hi) \subseteq Nat \ {0}
         /\ \E b \in Nat : \A t \in TimesAt(f, a, lo, hi) : t <= b
<1>1. f[a] \in Seq(Mutations) /\ Len(f[a]) \in Nat
  BY DEF FeedAt
<1>2. \A n \in 1..Len(f[a]) : f[a][n] \in Mutations
  BY <1>1
<1>3. \A n \in (lo + 1)..hi : n \in 1..Len(f[a])
  BY <1>1
<1>4. SpanAt(f, a, lo, hi) \subseteq Mutations
  BY <1>2, <1>3 DEF SpanAt
<1>5. \A m \in Mutations : m.at \in Nat \ {0}
  <2> TAKE m \in Mutations
  <2>1. m.at \in Times
    BY DEF Mutations
  <2> QED
    BY <2>1, TimeAssumption
<1>6. TimesAt(f, a, lo, hi) \subseteq Nat \ {0}
  BY <1>4, <1>5 DEF TimesAt
<1> DEFINE P == {k \in Nat : \E b \in Nat : \A n \in 1..k : n <= Len(f[a]) => f[a][n].at <= b}
<1>7. 0 \in P
  OBVIOUS
<1>8. ASSUME NEW k \in 1..Len(f[a]), k - 1 \in P PROVE k \in P
  <2>1. PICK b \in Nat : \A n \in 1..(k - 1) : n <= Len(f[a]) => f[a][n].at <= b
    BY <1>8
  <2> DEFINE t == f[a][k].at
             c == IF b <= t THEN t ELSE b
  <2>2. \A n \in 1..Len(f[a]) : f[a][n].at \in Nat
    BY <1>2, <1>5
  <2>3. t \in Nat
    BY <2>2
  <2>4. c \in Nat /\ b <= c /\ t <= c
    BY <2>3
  <2> HIDE DEF c
  <2>5. \A n \in 1..k : n <= Len(f[a]) => f[a][n].at <= c
    <3> SUFFICES ASSUME NEW n \in 1..k, n <= Len(f[a]) PROVE f[a][n].at <= c
      OBVIOUS
    <3>1. CASE n = k
      BY <2>4, <3>1
    <3>2. CASE n # k
      <4>1. n \in 1..(k - 1) /\ n \in 1..Len(f[a])
        BY <1>1, <3>2
      <4>2. f[a][n].at <= b /\ f[a][n].at \in Nat
        BY <2>1, <2>2, <4>1
      <4> QED
        BY <2>4, <4>2
    <3> QED
      BY <3>1, <3>2
  <2>6. k \in Nat
    OBVIOUS
  <2> QED
    BY <2>4, <2>5, <2>6
<1> HIDE DEF P
<1>9. Len(f[a]) \in P
  <2>1. \A i \in 0..Len(f[a]) : i \in P
    BY <1>1, <1>7, <1>8, LP!UpTo
  <2> QED
    BY <1>1, <2>1
<1>10. PICK b \in Nat : \A n \in 1..Len(f[a]) : n <= Len(f[a]) => f[a][n].at <= b
  BY <1>9 DEF P
<1>11. \A n \in 1..Len(f[a]) : f[a][n].at <= b
  BY <1>1, <1>10
<1>12. \A m \in SpanAt(f, a, lo, hi) : m.at <= b
  BY <1>3, <1>11 DEF SpanAt
<1>13. \A t \in TimesAt(f, a, lo, hi) : t <= b
  BY <1>12 DEF TimesAt
<1> QED
  BY <1>4, <1>6, <1>13

\* An entry without changes.
LEMMA SummaryNone ==
  ASSUME NEW f, NEW a, NEW x \in Nat
  PROVE  SummaryAt(f, a, NoEntry, x, x)
<1>1. SpanAt(f, a, x, x) = {}
  BY DEF SpanAt
<1>2. TimesAt(f, a, x, x) = {}
  BY <1>1 DEF TimesAt
<1> QED
  BY <1>2 DEF SummaryAt, NoEntry

\* The numbers of an entry are natural numbers.
LEMMA SummaryType ==
  ASSUME NEW f, NEW o, FeedAt(f, o), NEW a \in Agencies, NEW e,
         NEW lo \in Nat, NEW hi \in Nat, lo <= hi, hi <= Len(f[a]), SummaryAt(f, a, e, lo, hi)
  PROVE  e.count \in Nat /\ e.from \in Nat /\ e.to \in Nat
<1> DEFINE T == TimesAt(f, a, lo, hi)
<1>1. T \subseteq Nat /\ \E b \in Nat : \A t \in T : t <= b
  BY SpanTimes
<1>2. /\ e.count = hi - lo
      /\ e.from = IF T = {} THEN 0 ELSE Min(T)
      /\ e.to = IF T = {} THEN 0 ELSE Max(T)
  BY DEF SummaryAt
<1> HIDE DEF T
<1>3. T # {} => Min(T) \in Nat /\ Max(T) \in Nat
  BY <1>1, MinFacts, MaxFacts
<1> QED
  BY <1>2, <1>3

\* The times of a page are those of its keys that are not zero.
LEMMA PageTimes ==
  ASSUME NEW f, NEW o, FeedAt(f, o), NEW a \in Agencies,
         NEW lo \in Nat, NEW hi \in Nat, hi <= Len(f[a])
  PROVE  {KeyTime(m) : m \in SpanAt(f, a, lo, hi)} \ {0} = TimesAt(f, a, lo, hi)
<1> DEFINE S == SpanAt(f, a, lo, hi)
<1>1. \A m \in S : m.vehicle \notin ColonIDs => m.at # 0
  <2>1. TimesAt(f, a, lo, hi) \subseteq Nat \ {0}
    BY SpanTimes
  <2> QED
    BY <2>1 DEF TimesAt
<1> HIDE DEF S
<1>2. {KeyTime(m) : m \in S} \ {0} \subseteq {m.at : m \in {k \in S : k.vehicle \notin ColonIDs}}
  BY DEF KeyTime
<1>3. {m.at : m \in {k \in S : k.vehicle \notin ColonIDs}} \subseteq {KeyTime(m) : m \in S} \ {0}
  BY <1>1 DEF KeyTime
<1> QED
  BY <1>2, <1>3 DEF S, TimesAt

\* The first and the last time of two sets together.
LEMMA TimesJoined ==
  ASSUME NEW S, NEW T, S \subseteq Nat \ {0}, T \subseteq Nat \ {0},
         NEW b \in Nat, \A t \in S \cup T : t <= b,
         NEW from, from = IF S = {} THEN 0 ELSE Min(S),
         NEW to, to = IF S = {} THEN 0 ELSE Max(S)
  PROVE  /\ (IF T = {} THEN from ELSE Min(T \cup ({from} \ {0})))
               = IF S \cup T = {} THEN 0 ELSE Min(S \cup T)
         /\ Max({to} \cup T) = IF S \cup T = {} THEN 0 ELSE Max(S \cup T)
<1>1. S # {} => /\ Min(S) \in S /\ \A y \in S : Min(S) <= y
                /\ Max(S) \in S /\ \A y \in S : y <= Max(S)
  BY MinFacts, MaxFacts
<1>2. T # {} => /\ Min(T) \in T /\ \A y \in T : Min(T) <= y
                /\ Max(T) \in T /\ \A y \in T : y <= Max(T)
  BY MinFacts, MaxFacts
<1>3. CASE T = {}
  <2>1. CASE S = {}
    <3>1. Max({0}) = 0
      BY MaxIs
    <3>2. {to} \cup T = {0} /\ S \cup T = {}
      BY <1>3, <2>1
    <3> QED
      BY <1>3, <2>1, <3>1, <3>2
  <2>2. CASE S # {}
    <3>1. {to} \cup T = {to} /\ to = Max(S) /\ S \cup T = S /\ from = Min(S)
      BY <1>3, <2>2
    <3>2. to \in Nat /\ to <= to
      BY <1>1, <2>2, <3>1
    <3>3. Max({to}) = to
      BY <3>2, MaxIs
    <3> QED
      BY <1>3, <2>2, <3>1, <3>3
  <2> QED
    BY <2>1, <2>2
<1>4. CASE T # {} /\ S = {}
  <2>1. T \cup ({from} \ {0}) = T /\ S \cup T = T /\ {to} \cup T = {0} \cup T
    BY <1>4
  <2>2. Max(T) \in {0} \cup T /\ \A y \in {0} \cup T : y <= Max(T)
    <3>1. Max(T) \in T /\ Max(T) \in Nat /\ \A y \in T : y <= Max(T)
      BY <1>2, <1>4
    <3>2. 0 <= Max(T)
      BY <3>1
    <3> QED
      BY <3>1, <3>2, Zenon
  <2>3. {0} \cup T \subseteq Nat
    OBVIOUS
  <2>4. Max({0} \cup T) = Max(T)
    BY <2>2, <2>3, MaxIs
  <2> QED
    BY <1>4, <2>1, <2>4
<1>5. CASE T # {} /\ S # {}
  <2> DEFINE U == S \cup T
             x == Min(U)
             y == Max(U)
  <2>1. U \subseteq Nat /\ U # {}
    BY <1>5
  <2> HIDE DEF U
  <2>2. x \in U /\ (\A u \in U : x <= u) /\ y \in U /\ (\A u \in U : u <= y)
    <3>1. \A u \in U : u <= b
      BY DEF U
    <3> QED
      BY <2>1, <3>1, MinFacts, MaxFacts
  <2> HIDE DEF x, y
  <2>3. from = Min(S) /\ to = Max(S) /\ from \in S /\ to \in S /\ from # 0
    BY <1>1, <1>5
  <2>4. T \cup ({from} \ {0}) = T \cup {from} /\ T \cup {from} \subseteq U /\ {to} \cup T \subseteq U
    BY <2>3 DEF U
  <2>5. \A s \in S : from <= s /\ s <= to
    BY <1>1, <1>5, <2>3
  <2>6. x \in T \cup {from}
    <3>1. CASE x \in T
      BY <3>1
    <3>2. CASE x \in S
      <4>1. from <= x /\ x <= from /\ x \in Nat /\ from \in Nat
        BY <2>1, <2>2, <2>3, <2>4, <2>5, <3>2
      <4> QED
        BY <4>1
    <3> QED
      BY <2>2, <3>1, <3>2 DEF U
  <2>7. y \in {to} \cup T
    <3>1. CASE y \in T
      BY <3>1
    <3>2. CASE y \in S
      <4>1. to <= y /\ y <= to /\ y \in Nat /\ to \in Nat
        BY <2>1, <2>2, <2>3, <2>4, <2>5, <3>2
      <4> QED
        BY <4>1
    <3> QED
      BY <2>2, <3>1, <3>2 DEF U
  <2>8. Min(T \cup {from}) = x
    <3>1. T \cup {from} \subseteq Nat /\ \A u \in T \cup {from} : x <= u
      BY <2>1, <2>2, <2>4
    <3> QED
      BY <2>6, <3>1, MinIs
  <2>9. Max({to} \cup T) = y
    <3>1. {to} \cup T \subseteq Nat /\ \A u \in {to} \cup T : u <= y
      BY <2>1, <2>2, <2>4
    <3> QED
      BY <2>7, <3>1, MaxIs
  <2> QED
    BY <1>5, <2>1, <2>4, <2>8, <2>9 DEF U, x, y
<1> QED
  BY <1>3, <1>4, <1>5

\* What Summarize makes of the changes up to mid and the page up to hi.
LEMMA SummaryPage ==
  ASSUME NEW f, NEW o, FeedAt(f, o), NEW a \in Agencies, NEW e \in Entries,
         NEW lo \in Nat, NEW mid \in Nat, NEW hi \in Nat, lo <= mid, mid <= hi, hi <= Len(f[a]),
         SummaryAt(f, a, e, lo, mid)
  PROVE  /\ Summarize(e, SpanAt(f, a, mid, hi)) \in Entries
         /\ SummaryAt(f, a, Summarize(e, SpanAt(f, a, mid, hi)), lo, hi)
<1> DEFINE S == TimesAt(f, a, lo, mid)
           T == TimesAt(f, a, mid, hi)
           page1 == SpanAt(f, a, mid, hi)
           g == Summarize(e, page1)
           from == IF T = {} THEN e.from ELSE Min(T \cup ({e.from} \ {0}))
           to == Max({e.to} \cup T)
           count == e.count + Cardinality(page1)
<1>1. Len(f[a]) \in Nat
  BY DEF FeedAt
<1>2. {KeyTime(m) : m \in page1} \ {0} = T
  BY PageTimes
<1>3. g = [e EXCEPT !.count = count, !.from = from, !.to = to]
  BY <1>2 DEF Summarize
<1>4. Cardinality(page1) = hi - mid
  BY SpanCount
<1>5. e.count = mid - lo /\ count = hi - lo
  BY <1>4 DEF SummaryAt
<1>6. SpanAt(f, a, lo, hi) = SpanAt(f, a, lo, mid) \cup page1
  <2>1. (lo + 1)..hi = ((lo + 1)..mid) \cup ((mid + 1)..hi)
    OBVIOUS
  <2> QED
    BY <2>1 DEF SpanAt
<1>7. TimesAt(f, a, lo, hi) = S \cup T
  BY <1>6 DEF TimesAt
<1>8. S \subseteq Nat \ {0} /\ T \subseteq Nat \ {0}
  <2>1. mid <= Len(f[a])
    BY <1>1
  <2> QED
    BY <2>1, SpanTimes
<1>9. PICK b \in Nat : \A t \in S \cup T : t <= b
  BY <1>7, SpanTimes
<1>10. /\ e.from = IF S = {} THEN 0 ELSE Min(S)
       /\ e.to = IF S = {} THEN 0 ELSE Max(S)
  BY DEF SummaryAt
<1>11. /\ from = IF S \cup T = {} THEN 0 ELSE Min(S \cup T)
       /\ to = IF S \cup T = {} THEN 0 ELSE Max(S \cup T)
  <2> HIDE DEF S, T
  <2> QED
    BY <1>8, <1>9, <1>10, TimesJoined
<1> HIDE DEF from, to, count, g
<1>12. g.count = count /\ g.from = from /\ g.to = to /\ g.first = e.first /\ g.last = e.last
  BY <1>3 DEF Entries
<1>13. SummaryAt(f, a, g, lo, hi)
  BY <1>5, <1>7, <1>11, <1>12 DEF SummaryAt
<1>14. lo <= hi
  OBVIOUS
<1>15. g.count \in Nat /\ g.from \in Nat /\ g.to \in Nat
  BY <1>13, <1>14, SummaryType
<1>16. g \in Entries
  BY <1>3, <1>12, <1>15 DEF Entries
<1> QED
  BY <1>13, <1>16 DEF g

\* What CatalogState says of one agency.
EntryAt(f, o, c, a) ==
    LET e == c.entries[a]
    IN  IF a \in Visited(c.drain, c.region)
        THEN /\ e.first <= o[a] /\ e.first <= e.last
             /\ c.committed[a] <= e.last /\ e.last <= Len(f[a])
             /\ SummaryAt(f, a, e, e.first, e.last)
        ELSE IF c.drain.cursor # Unopened /\ a = Head(c.drain.todo)
        THEN SummaryAt(f, a, e, c.drain.first, c.drain.cursor)
        ELSE e = NoEntry

CatAt(f, o, c) ==
    /\ DrainAt(f, o, c.drain, c.region, c.committed)
    /\ c.phase = "answered" => c.drain.todo = <<>>
    /\ \A a \in Agencies : EntryAt(f, o, c, a)

\* The catalogues c and k are the same request, still draining.
SameRequest(c, k) ==
    /\ c \in Catalogs /\ k \in Catalogs
    /\ c.phase = "drain" /\ k.phase = "drain"
    /\ k.region = c.region /\ k.committed = c.committed

\* A catalogue is of what the feeds held, also when they grow.
LEMMA SummaryGrows ==
  ASSUME NEW f, NEW o, NEW g, NEW p, FeedAt(f, o), GrowsAt(f, o, g, p), NEW a \in Agencies,
         NEW e, NEW lo \in Nat, NEW hi \in Nat, hi <= Len(f[a]), SummaryAt(f, a, e, lo, hi)
  PROVE  SummaryAt(g, a, e, lo, hi)
<1>1. Len(f[a]) \in Nat
  BY DEF FeedAt
<1>2. \A n \in (lo + 1)..hi : n \in 1..Len(f[a])
  BY <1>1
<1>3. \A n \in (lo + 1)..hi : g[a][n] = f[a][n]
  BY <1>2 DEF GrowsAt
<1>4. SpanAt(g, a, lo, hi) = SpanAt(f, a, lo, hi)
  BY <1>3 DEF SpanAt
<1> QED
  BY <1>4 DEF SummaryAt, TimesAt

LEMMA CatGrows ==
  ASSUME NEW f, NEW o, NEW g, NEW p, FeedAt(f, o), FeedAt(g, p), GrowsAt(f, o, g, p),
         NEW c \in Catalogs, CatAt(f, o, c)
  PROVE  CatAt(g, p, c)
<1> DEFINE d == c.drain
<1>1. d \in Drains /\ c.region \in Regions /\ c.committed \in Counts /\ c.entries \in [Agencies -> Entries]
  BY DEF Catalogs
<1>2. DrainAt(g, p, d, c.region, c.committed)
  BY <1>1, DrainGrows DEF CatAt
<1>3. ASSUME NEW a \in Agencies PROVE EntryAt(g, p, c, a)
  <2> DEFINE e == c.entries[a]
  <2>1. EntryAt(f, o, c, a)
    BY DEF CatAt
  <2>2. /\ Len(f[a]) \in Nat /\ Len(g[a]) \in Nat /\ o[a] \in Nat /\ p[a] \in Nat
        /\ Len(f[a]) <= Len(g[a]) /\ o[a] <= p[a]
    BY DEF FeedAt, Counts, GrowsAt
  <2>3. e \in Entries
    BY <1>1
  <2>4. e.first \in Nat /\ e.last \in Nat
    BY <2>3 DEF Entries
  <2> HIDE DEF e
  <2>5. CASE a \in Visited(d, c.region)
    <3>1. /\ e.first <= o[a] /\ e.first <= e.last
          /\ c.committed[a] <= e.last /\ e.last <= Len(f[a])
          /\ SummaryAt(f, a, e, e.first, e.last)
      BY <2>1, <2>5 DEF EntryAt, e
    <3>2. SummaryAt(g, a, e, e.first, e.last)
      BY <2>4, <3>1, SummaryGrows
    <3>3. e.first <= p[a] /\ e.last <= Len(g[a])
      BY <2>2, <2>4, <3>1
    <3> QED
      BY <2>5, <3>1, <3>2, <3>3 DEF EntryAt, e
  <2>6. CASE a \notin Visited(d, c.region) /\ d.cursor # Unopened /\ a = Head(d.todo)
    <3>1. SummaryAt(f, a, e, d.first, d.cursor)
      BY <2>1, <2>6 DEF EntryAt, e
    <3>2. d.first # Unopened /\ d.cursor <= Len(f[a])
      BY <2>6 DEF CatAt, DrainAt, OpenAt
    <3>3. d.first \in Nat /\ d.cursor \in Nat
      BY <1>1, <2>6, <3>2 DEF Drains, Cursors
    <3>4. SummaryAt(g, a, e, d.first, d.cursor)
      BY <3>1, <3>2, <3>3, SummaryGrows
    <3> QED
      BY <2>6, <3>4 DEF EntryAt, e
  <2>7. CASE a \notin Visited(d, c.region) /\ ~(d.cursor # Unopened /\ a = Head(d.todo))
    BY <2>1, <2>7 DEF EntryAt
  <2> QED
    BY <2>5, <2>6, <2>7
<1> QED
  BY <1>2, <1>3 DEF CatAt

\* A catalogue begins without entries.
LEMMA CatBegins ==
  ASSUME NEW f, NEW o, FeedAt(f, o), NEW c \in Catalogs, c.phase = "drain",
         c.drain = Drain(c.region), c.entries = [a \in Agencies |-> NoEntry],
         c.committed = [a \in Agencies |-> Len(f[a])]
  PROVE  CatAt(f, o, c)
<1>1. /\ TodoAt(c.drain, c.region) /\ c.drain.cursor = Unopened
      /\ Visited(c.drain, c.region) = {}
  BY DrainBegins DEF Catalogs
<1>2. DrainAt(f, o, c.drain, c.region, c.committed)
  <2>1. \A a \in Agencies : c.committed[a] <= Len(f[a])
    BY DEF FeedAt
  <2> QED
    BY <1>1, <2>1 DEF DrainAt, CommittedAt, OpenAt
<1>3. \A a \in Agencies : EntryAt(f, o, c, a)
  BY <1>1 DEF EntryAt
<1> QED
  BY <1>2, <1>3 DEF CatAt

\* A feed is skipped that has no changes: its entry stays empty.
LEMMA CatSkip ==
  ASSUME NEW f, NEW o, FeedAt(f, o), NEW c, NEW k, SameRequest(c, k), CatAt(f, o, c),
         c.drain.todo # <<>>, c.drain.cursor = Unopened,
         Head(c.drain.todo) \in Agencies => f[Head(c.drain.todo)] = <<>>,
         k.drain = NextAgency(c.drain), k.entries = c.entries
  PROVE  CatAt(f, o, k)
<1> DEFINE d == c.drain
           h == Head(d.todo)
<1>1. d \in Drains /\ c.region \in Regions /\ c.committed \in Counts
  BY DEF SameRequest, Catalogs
<1>2. CommittedAt(f, c.committed) /\ TodoAt(d, c.region) /\ \A a \in Agencies : EntryAt(f, o, c, a)
  BY DEF CatAt, DrainAt
<1>3. /\ k.drain.cursor = Unopened /\ TodoAt(k.drain, c.region)
      /\ Visited(k.drain, c.region) = Visited(d, c.region) \cup {h}
      /\ h \notin Visited(d, c.region)
  BY <1>1, <1>2, NextAgencyFacts
<1>4. DrainAt(f, o, k.drain, k.region, k.committed)
  BY <1>2, <1>3 DEF DrainAt, OpenAt, SameRequest
<1>5. ASSUME NEW a \in Agencies PROVE EntryAt(f, o, k, a)
  <2>1. EntryAt(f, o, c, a) /\ k.entries[a] = c.entries[a] /\ k.region = c.region /\ k.committed = c.committed
    BY <1>2 DEF SameRequest
  <2>2. CASE a = h
    <3>1. k.entries[a] = NoEntry
      BY <1>3, <2>1, <2>2 DEF EntryAt
    <3>2. f[a] = <<>> /\ o[a] \in Nat /\ c.committed[a] <= Len(f[a])
      BY <1>2, <2>2 DEF FeedAt, Counts, CommittedAt
    <3>3. Len(f[a]) = 0
      BY <3>2
    <3>4. SummaryAt(f, a, NoEntry, 0, 0)
      BY SummaryNone
    <3>5. NoEntry.first = 0 /\ NoEntry.last = 0
      BY DEF NoEntry
    <3> QED
      BY <1>3, <2>1, <2>2, <3>1, <3>2, <3>3, <3>4, <3>5 DEF EntryAt
  <2>3. CASE a # h
    <3>1. a \in Visited(k.drain, c.region) <=> a \in Visited(d, c.region)
      BY <1>3, <2>3
    <3> QED
      BY <1>3, <2>1, <2>3, <3>1 DEF EntryAt
  <2> QED
    BY <2>2, <2>3
<1> QED
  BY <1>4, <1>5 DEF CatAt, SameRequest

\* A feed is opened at its oldest change: of it nothing has been counted.
LEMMA CatOpen ==
  ASSUME NEW f, NEW o, FeedAt(f, o), NEW c, NEW k, SameRequest(c, k), CatAt(f, o, c),
         c.drain.todo # <<>>, c.drain.cursor = Unopened, Head(c.drain.todo) \in Agencies,
         k.drain = [c.drain EXCEPT !.first = o[Head(c.drain.todo)], !.cursor = o[Head(c.drain.todo)]],
         k.entries = c.entries
  PROVE  CatAt(f, o, k)
<1> DEFINE d == c.drain
           h == Head(d.todo)
<1>1. d \in Drains /\ c.region \in Regions
  BY DEF SameRequest, Catalogs
<1>2. CommittedAt(f, c.committed) /\ TodoAt(d, c.region) /\ \A a \in Agencies : EntryAt(f, o, c, a)
  BY DEF CatAt, DrainAt
<1>3. o[h] \in Nat /\ o[h] <= Len(f[h])
  BY DEF FeedAt, Counts
<1>4. /\ k.drain.first = o[h] /\ k.drain.cursor = o[h] /\ k.drain.todo = d.todo
      /\ TodoAt(k.drain, c.region) /\ Visited(k.drain, c.region) = Visited(d, c.region)
  <2>1. k.drain = [d EXCEPT !.first = o[h], !.cursor = o[h]]
    OBVIOUS
  <2> HIDE DEF d, h
  <2>2. k.drain.first = o[h] /\ k.drain.cursor = o[h] /\ k.drain.todo = d.todo
    BY <1>1, <2>1 DEF Drains
  <2> QED
    BY <1>2, <2>2, CursorMoved
<1>5. DrainAt(f, o, k.drain, k.region, k.committed)
  BY <1>2, <1>3, <1>4 DEF DrainAt, OpenAt, Unopened, SameRequest
<1>6. h \notin Visited(d, c.region)
  BY <1>1, <1>2, NextAgencyFacts
<1>7. ASSUME NEW a \in Agencies PROVE EntryAt(f, o, k, a)
  <2>1. EntryAt(f, o, c, a) /\ k.entries[a] = c.entries[a] /\ k.region = c.region /\ k.committed = c.committed
    BY <1>2 DEF SameRequest
  <2>2. CASE a = h
    <3>1. k.entries[a] = NoEntry
      BY <1>6, <2>1, <2>2 DEF EntryAt
    <3>2. SummaryAt(f, a, NoEntry, o[h], o[h])
      BY <1>3, SummaryNone
    <3> QED
      BY <1>3, <1>4, <1>6, <2>1, <2>2, <3>1, <3>2 DEF EntryAt, Unopened
  <2>3. CASE a # h
    BY <1>4, <2>1, <2>3 DEF EntryAt
  <2> QED
    BY <2>2, <2>3
<1> QED
  BY <1>5, <1>7 DEF CatAt, SameRequest

\* A page is read, up to the change number e, and counted.
LEMMA CatPage ==
  ASSUME NEW f, NEW o, FeedAt(f, o), NEW c, NEW k, SameRequest(c, k), CatAt(f, o, c),
         c.drain.cursor # Unopened,
         NEW e \in Nat, c.drain.cursor <= e, e <= Len(f[Head(c.drain.todo)]),
         k.drain = IF e = Len(f[Head(c.drain.todo)]) THEN NextAgency(c.drain)
                   ELSE [c.drain EXCEPT !.cursor = e],
         \A a \in Agencies : a # Head(c.drain.todo) => k.entries[a] = c.entries[a],
         NEW x, k.entries[Head(c.drain.todo)] = x,
         x.first = c.drain.first, x.last = e,
         SummaryAt(f, Head(c.drain.todo), x, c.drain.first, e)
  PROVE  CatAt(f, o, k)
<1> DEFINE d == c.drain
           h == Head(d.todo)
<1>1. d \in Drains /\ c.region \in Regions /\ c.committed \in Counts
  BY DEF SameRequest, Catalogs
<1>2. /\ CommittedAt(f, c.committed) /\ TodoAt(d, c.region) /\ OpenAt(f, o, d)
      /\ \A a \in Agencies : EntryAt(f, o, c, a)
  BY DEF CatAt, DrainAt
<1>3. /\ d.todo # <<>> /\ h \in Agencies /\ d.first \in Nat /\ d.cursor \in Nat
      /\ d.first <= o[h] /\ d.first <= d.cursor
  BY <1>1, <1>2 DEF OpenAt, Drains, Cursors
<1>4. /\ NextAgency(d).cursor = Unopened /\ TodoAt(NextAgency(d), c.region)
      /\ Visited(NextAgency(d), c.region) = Visited(d, c.region) \cup {h}
      /\ h \notin Visited(d, c.region)
  BY <1>1, <1>2, <1>3, NextAgencyFacts
<1>5. /\ \A a \in Agencies : a # h => k.entries[a] = c.entries[a]
      /\ k.entries[h] = x /\ x.first = d.first /\ x.last = e /\ SummaryAt(f, h, x, d.first, e)
      /\ k.region = c.region /\ k.committed = c.committed /\ d.first <= e
  BY <1>3 DEF SameRequest
<1>6. ASSUME NEW a \in Agencies, a # h
      PROVE  IF a \in Visited(d, c.region)
             THEN /\ k.entries[a].first <= o[a] /\ k.entries[a].first <= k.entries[a].last
                  /\ c.committed[a] <= k.entries[a].last /\ k.entries[a].last <= Len(f[a])
                  /\ SummaryAt(f, a, k.entries[a], k.entries[a].first, k.entries[a].last)
             ELSE k.entries[a] = NoEntry
  BY <1>2, <1>5, <1>6 DEF EntryAt
<1>7. CASE e = Len(f[h])
  <2>1. k.drain = NextAgency(d)
    BY <1>7
  <2>2. c.committed[h] <= e
    BY <1>2, <1>3, <1>7 DEF CommittedAt
  <2>3. DrainAt(f, o, k.drain, k.region, k.committed)
    BY <1>2, <1>4, <1>5, <2>1 DEF DrainAt, OpenAt
  <2>4. ASSUME NEW a \in Agencies PROVE EntryAt(f, o, k, a)
    <3> HIDE DEF d, h
    <3>1. CASE a = h
      BY <1>3, <1>4, <1>5, <1>7, <2>1, <2>2, <3>1 DEF EntryAt
    <3>2. CASE a # h
      <4>1. a \in Visited(k.drain, k.region) <=> a \in Visited(d, c.region)
        BY <1>4, <1>5, <2>1, <3>2
      <4> QED
        BY <1>4, <1>5, <1>6, <2>1, <3>2, <4>1 DEF EntryAt
    <3> QED
      BY <3>1, <3>2
  <2> QED
    BY <2>3, <2>4 DEF CatAt, SameRequest
<1>8. CASE e # Len(f[h])
  <2>1. k.drain = [d EXCEPT !.cursor = e]
    BY <1>8
  <2> HIDE DEF d, h
  <2>2. k.drain.first = d.first /\ k.drain.cursor = e /\ k.drain.todo = d.todo
    BY <1>1, <2>1 DEF Drains
  <2>3. TodoAt(k.drain, c.region) /\ Visited(k.drain, c.region) = Visited(d, c.region)
    BY <1>2, <2>2, CursorMoved
  <2>4. Head(k.drain.todo) = h
    BY <2>2 DEF h
  <2>5. OpenAt(f, o, k.drain)
    BY <1>3, <1>5, <2>2, <2>4 DEF OpenAt, Unopened, d, h
  <2>6. DrainAt(f, o, k.drain, k.region, k.committed)
    BY <1>2, <1>5, <2>3, <2>5 DEF DrainAt
  <2>7. ASSUME NEW a \in Agencies PROVE EntryAt(f, o, k, a)
    <3>1. CASE a = h
      BY <1>4, <1>5, <2>2, <2>3, <2>4, <3>1 DEF EntryAt, Unopened
    <3>2. CASE a # h
      BY <1>5, <1>6, <2>3, <2>4, <3>2 DEF EntryAt
    <3> QED
      BY <3>1, <3>2
  <2> QED
    BY <2>6, <2>7 DEF CatAt, SameRequest
<1> QED
  BY <1>7, <1>8

-----------------------------------------------------------------------------
(* The invariant by the variables it is about *)

FeedPart == FeedAt(feed, oldest)

StreamPart ==
    \/ stream = Idle
    \/ stream \in Streams /\ MutAt(feed, oldest, stream) /\ FrameStateAt(stream)

CatalogPart ==
    \/ catalog = Idle
    \/ catalog \in Catalogs /\ CatAt(feed, oldest, catalog)

PageType ==
    /\ page \in [region : Regions, lastFrameAt : Nat, stop : {"disabled", "Stop", "Resume"},
                 markers : SUBSET Mutations]
    /\ posts \in [Regions -> Nat] /\ refused \in BOOLEAN

PagePart == PageType /\ RegionShown /\ (Source => PlayAt(stream, page.lastFrameAt))

LEMMA InvByParts ==
  IInv <=> FeedPart /\ StreamPart /\ CatalogPart /\ PagePart
<1>1. FeedState /\ feed \in [Agencies -> Seq(Mutations)] /\ oldest \in Counts <=> FeedPart
  BY DEF FeedState, FeedPart, FeedAt
<1>2. MutationState <=> MutAt(feed, oldest, stream)
  <2>1. DrainState(stream.drain, stream.region, stream.committed)
        <=> DrainAt(feed, oldest, stream.drain, stream.region, stream.committed)
    BY DEF DrainState, DrainAt, CommittedAt, TodoAt, OpenAt
  <2> QED
    BY <2>1 DEF MutationState, MutAt, FoundAt, VisitedAt, ReadAt, Wanted, WantedAt
<1>3. FrameState <=> FrameStateAt(stream)
  BY DEF FrameState, FrameStateAt, OrderAt, MergedAt, Passed, PassedAt, FrameAt
<1>4. PlayState <=> PlayAt(stream, page.lastFrameAt)
  BY DEF PlayState, PlayAt
<1>5. CatalogState <=> CatAt(feed, oldest, catalog)
  <2>1. DrainState(catalog.drain, catalog.region, catalog.committed)
        <=> DrainAt(feed, oldest, catalog.drain, catalog.region, catalog.committed)
    BY DEF DrainState, DrainAt, CommittedAt, TodoAt, OpenAt
  <2>2. \A a, e, lo, hi : Summary(a, e, lo, hi) <=> SummaryAt(feed, a, e, lo, hi)
    BY DEF Summary, SummaryAt, TimesAt, SpanAt
  <2> QED
    BY <2>1, <2>2 DEF CatalogState, CatAt, EntryAt
<1> QED
  BY <1>1, <1>2, <1>3, <1>4, <1>5, Zenon
  DEF IInv, TypeOK, StreamPart, CatalogPart, PagePart, PageType

LEMMA InvByPartsPrime ==
  IInv' <=> FeedPart' /\ StreamPart' /\ CatalogPart' /\ PagePart'
<1>1. FeedState' /\ feed' \in [Agencies -> Seq(Mutations)] /\ oldest' \in Counts <=> FeedPart'
  BY DEF FeedState, FeedPart, FeedAt
<1>2. MutationState' <=> MutAt(feed', oldest', stream')
  <2>1. DrainState(stream.drain, stream.region, stream.committed)'
        <=> DrainAt(feed', oldest', stream'.drain, stream'.region, stream'.committed)
    BY DEF DrainState, DrainAt, CommittedAt, TodoAt, OpenAt
  <2> QED
    BY <2>1 DEF MutationState, MutAt, FoundAt, VisitedAt, ReadAt, Wanted, WantedAt
<1>3. FrameState' <=> FrameStateAt(stream')
  BY DEF FrameState, FrameStateAt, OrderAt, MergedAt, Passed, PassedAt, FrameAt
<1>4. PlayState' <=> PlayAt(stream', page'.lastFrameAt)
  BY DEF PlayState, PlayAt
<1>5. CatalogState' <=> CatAt(feed', oldest', catalog')
  <2>1. DrainState(catalog.drain, catalog.region, catalog.committed)'
        <=> DrainAt(feed', oldest', catalog'.drain, catalog'.region, catalog'.committed)
    BY DEF DrainState, DrainAt, CommittedAt, TodoAt, OpenAt
  <2>2. \A a, e, lo, hi : Summary(a, e, lo, hi)' <=> SummaryAt(feed', a, e, lo, hi)
    BY DEF Summary, SummaryAt, TimesAt, SpanAt
  <2> QED
    BY <2>1, <2>2 DEF CatalogState, CatAt, EntryAt
<1> QED
  BY <1>1, <1>2, <1>3, <1>4, <1>5, Zenon
  DEF IInv, TypeOK, StreamPart, CatalogPart, PagePart, PageType

\* A stream is idle or has a state.
LEMMA StreamPhase ==
  ASSUME StreamPart, ~In("idle")
  PROVE  /\ stream \in Streams /\ MutAt(feed, oldest, stream) /\ FrameStateAt(stream)
         /\ stream.phase \in {"drain", "fold", "play"}
BY DEF StreamPart, In, Idle, Streams

-----------------------------------------------------------------------------
(* The steps of a stream *)

\* A commit and a trim leave what has been read valid.
LEMMA StoreStep ==
  ASSUME FeedPart, StreamPart, CatalogPart, Store
  PROVE  FeedPart' /\ StreamPart' /\ CatalogPart' /\ UNCHANGED <<stream, catalog>>
<1>1. FeedAt(feed', oldest') /\ GrowsAt(feed, oldest, feed', oldest')
  BY CommitGrows, TrimGrows DEF Store, FeedPart
<1>2. UNCHANGED <<stream, catalog>>
  BY DEF Store, Commit, Trim
<1>3. StreamPart'
  BY <1>1, <1>2, MutGrows DEF StreamPart, FeedPart
<1>4. CatalogPart'
  BY <1>1, <1>2, CatGrows DEF CatalogPart, FeedPart
<1> QED
  BY <1>1, <1>2, <1>3, <1>4 DEF FeedPart

\* A new stream has found nothing yet.
LEMMA OpenedStep ==
  ASSUME FeedPart, NEW by \in {"page", "client"}, NEW r \in Regions, NEW from \in Nat, NEW to \in Nat,
         StreamOpened(by, r, from, to), UNCHANGED feedVars
  PROVE  /\ StreamPart' /\ stream' \in Streams
         /\ stream'.phase = "drain" /\ stream'.by = by /\ stream'.region = r /\ stream'.from = from
<1> DEFINE c == [a \in Agencies |-> Len(feed[a])]
           s == stream'
<1>1. /\ s.phase = "drain" /\ s.by = by /\ s.region = r /\ s.from = from /\ s.to = to
      /\ s.drain = Drain(r) /\ s.mutations = {} /\ s.frames = {} /\ s.merged = {}
      /\ s.sent = FALSE /\ s.committed = c
  BY DEF StreamOpened
<1>2. c \in Counts
  BY DEF FeedPart, FeedAt, Counts
<1>3. /\ Drain(r) \in Drains /\ TodoAt(Drain(r), r)
      /\ Drain(r).cursor = Unopened /\ Visited(Drain(r), r) = {}
  BY DrainBegins
<1>4. s \in Streams
  BY <1>2, <1>3 DEF StreamOpened, Streams
<1> HIDE DEF s
<1>5. DrainAt(feed, oldest, s.drain, s.region, s.committed)
  <2>1. \A a \in Agencies : Len(feed[a]) \in Nat
    BY DEF FeedPart, FeedAt
  <2>2. CommittedAt(feed, s.committed)
    BY <1>1, <2>1 DEF CommittedAt
  <2> QED
    BY <1>1, <1>3, <2>2 DEF DrainAt, OpenAt
<1>6. MutAt(feed, oldest, s)
  BY <1>1, <1>3, <1>5 DEF MutAt, FoundAt, VisitedAt, ReadAt
<1>7. FrameStateAt(s)
  BY <1>1 DEF FrameStateAt
<1> QED
  BY <1>1, <1>4, <1>6, <1>7 DEF StreamPart, feedVars, s

\* What a step of the handler leaves alone.
Kept(s, t) ==
    /\ t \in Streams /\ t.by = s.by /\ t.region = s.region /\ t.from = s.from
    /\ t.to = s.to /\ t.committed = s.committed

LEMMA NextFeedStep ==
  ASSUME FeedPart, StreamPart, NextFeed
  PROVE  /\ StreamPart' /\ Kept(stream, stream')
         /\ stream.phase = "drain" /\ stream'.phase = "drain"
<1> DEFINE s == stream
           t == stream'
           d == s.drain
<1>1. stream.phase = "drain" /\ ~In("idle")
  BY DEF NextFeed, In
<1>2. s \in Streams /\ MutAt(feed, oldest, s) /\ FrameStateAt(s)
  BY <1>1, StreamPhase
<1>3. d \in Drains /\ s.region \in Regions /\ TodoAt(d, s.region)
  BY <1>2 DEF Streams, MutAt, DrainAt
<1>4. feed' = feed /\ oldest' = oldest
  BY DEF NextFeed, feedVars
<1>5. ASSUME NEW e \in Drains, t = [s EXCEPT !.drain = e]
      PROVE  /\ Kept(s, t) /\ SameDrain(s, t) /\ t.drain = e /\ t.mutations = s.mutations
             /\ FrameStateAt(t)
  <2>1. /\ t \in Streams /\ t.by = s.by /\ t.region = s.region /\ t.from = s.from
        /\ t.to = s.to /\ t.committed = s.committed /\ t.phase = s.phase
        /\ t.drain = e /\ t.mutations = s.mutations /\ t.merged = s.merged /\ t.sent = s.sent
    BY <1>2, <1>5 DEF Streams
  <2> QED
    BY <1>1, <1>2, <2>1 DEF Kept, SameDrain, FrameStateAt
<1>6. CASE Skips(d) /\ t = [s EXCEPT !.drain = NextAgency(d)]
  <2>1. /\ d.todo # <<>> /\ d.cursor = Unopened
        /\ Head(d.todo) \in Agencies => feed[Head(d.todo)] = <<>>
    BY <1>6 DEF Skips, Draining
  <2>2. NextAgency(d) \in Drains
    BY <1>3, <2>1, NextAgencyFacts
  <2>3. /\ Kept(s, t) /\ SameDrain(s, t) /\ t.drain = NextAgency(d) /\ t.mutations = s.mutations
        /\ FrameStateAt(t)
    BY <1>5, <1>6, <2>2
  <2>4. MutAt(feed, oldest, t)
    BY <1>2, <2>1, <2>3, SkipAt DEF FeedPart
  <2> QED
    BY <1>1, <1>4, <2>3, <2>4 DEF StreamPart, SameDrain
<1>7. CASE Opens(d) /\ t = [s EXCEPT !.drain = Opened(d)]
  <2>1. d.todo # <<>> /\ Head(d.todo) \in Agencies
    BY <1>7 DEF Opens, Draining
  <2> DEFINE x == oldest[Head(d.todo)]
  <2>2. x \in Nat
    BY <2>1 DEF FeedPart, FeedAt, Counts
  <2>3. Opened(d) = [d EXCEPT !.first = x, !.cursor = x]
    BY DEF Opened
  <2>4. Opened(d) \in Drains
    <3> HIDE DEF d, x
    <3> QED
      BY <1>3, <2>2, <2>3 DEF Drains, Cursors
  <2>5. /\ Kept(s, t) /\ SameDrain(s, t) /\ t.drain = Opened(d) /\ t.mutations = s.mutations
        /\ FrameStateAt(t)
    BY <1>5, <1>7, <2>4
  <2>6. MutAt(feed, oldest, t)
    BY <1>2, <2>1, <2>3, <2>5, OpenedAt DEF FeedPart
  <2> QED
    BY <1>1, <1>4, <2>5, <2>6 DEF StreamPart, SameDrain
<1> QED
  BY <1>6, <1>7 DEF NextFeed

\* The end of a page is in the feed, and no earlier than its beginning.
LEMMA PageEndFacts ==
  ASSUME FeedPart, NEW d \in Drains, OpenAt(feed, oldest, d), d.cursor # Unopened
  PROVE  /\ d.todo # <<>> /\ Head(d.todo) \in Agencies /\ d.first \in Nat /\ d.cursor \in Nat
         /\ d.first <= d.cursor /\ Len(feed[Head(d.todo)]) \in Nat
         /\ PageEnd(d) \in Nat /\ d.cursor <= PageEnd(d) /\ PageEnd(d) <= Len(feed[Head(d.todo)])
         /\ Page(d) = SpanAt(feed, Head(d.todo), d.cursor, PageEnd(d))
<1> DEFINE h == Head(d.todo)
<1>1. d.todo # <<>> /\ h \in Agencies /\ d.first # Unopened /\ d.first <= d.cursor /\ d.cursor <= Len(feed[h])
  BY DEF OpenAt
<1>2. d.first \in Nat /\ d.cursor \in Nat
  BY <1>1 DEF Drains, Cursors
<1>3. Len(feed[h]) \in Nat
  BY <1>1 DEF FeedPart, FeedAt
<1>4. PageSize \in Nat
  BY PageAssumption
<1> HIDE DEF h
<1>5. Min({d.cursor + PageSize, Len(feed[h])}) =
         IF d.cursor + PageSize <= Len(feed[h]) THEN d.cursor + PageSize ELSE Len(feed[h])
  <2>1. d.cursor + PageSize \in Int /\ Len(feed[h]) \in Int
    BY <1>2, <1>3, <1>4
  <2> QED
    BY <2>1, MinOfTwo
<1>6. PageEnd(d) = IF d.cursor + PageSize <= Len(feed[h]) THEN d.cursor + PageSize ELSE Len(feed[h])
  BY <1>5 DEF PageEnd, h
<1>7. PageEnd(d) \in Nat /\ d.cursor <= PageEnd(d) /\ PageEnd(d) <= Len(feed[h])
  BY <1>1, <1>2, <1>3, <1>4, <1>6
<1>8. Page(d) = SpanAt(feed, h, d.cursor, PageEnd(d))
  BY DEF Page, SpanAt, h
<1> QED
  BY <1>1, <1>2, <1>3, <1>7, <1>8 DEF h

\* The drain after a page.
LEMMA AfterPageFacts ==
  ASSUME FeedPart, NEW r \in Regions, NEW d \in Drains, TodoAt(d, r), OpenAt(feed, oldest, d),
         d.cursor # Unopened
  PROVE  /\ AfterPage(d) \in Drains
         /\ AfterPage(d) = IF PageEnd(d) = Len(feed[Head(d.todo)]) THEN NextAgency(d)
                           ELSE [d EXCEPT !.cursor = PageEnd(d)]
<1>1. d.todo # <<>> /\ PageEnd(d) \in Nat
  BY PageEndFacts
<1>2. NextAgency(d) \in Drains
  BY <1>1, NextAgencyFacts
<1>3. [d EXCEPT !.cursor = PageEnd(d)] \in Drains
  BY <1>1 DEF Drains, Cursors
<1> QED
  BY <1>2, <1>3 DEF AfterPage, CaughtUp

LEMMA ReadPageStep ==
  ASSUME FeedPart, StreamPart, ReadPage
  PROVE  /\ StreamPart' /\ Kept(stream, stream')
         /\ stream.phase = "drain" /\ stream'.phase = "drain"
<1> DEFINE s == stream
           t == stream'
           d == s.drain
           h == Head(d.todo)
           ms == s.mutations \cup {m \in Page(d) : Wanted(m)}
<1>1. stream.phase = "drain" /\ ~In("idle")
  BY DEF ReadPage, In
<1>2. s \in Streams /\ MutAt(feed, oldest, s) /\ FrameStateAt(s)
  BY <1>1, StreamPhase
<1>3. d \in Drains /\ s.region \in Regions /\ TodoAt(d, s.region) /\ OpenAt(feed, oldest, d)
  BY <1>2 DEF Streams, MutAt, DrainAt
<1>4. feed' = feed /\ oldest' = oldest
  BY DEF ReadPage, feedVars
<1>5. d.cursor # Unopened
  BY DEF ReadPage, Reads
<1>6. /\ h \in Agencies /\ d.cursor \in Nat /\ PageEnd(d) \in Nat /\ d.cursor <= PageEnd(d)
      /\ PageEnd(d) <= Len(feed[h]) /\ Page(d) = SpanAt(feed, h, d.cursor, PageEnd(d))
  BY <1>3, <1>5, PageEndFacts
<1>7. /\ AfterPage(d) \in Drains
      /\ AfterPage(d) = IF PageEnd(d) = Len(feed[h]) THEN NextAgency(d)
                        ELSE [d EXCEPT !.cursor = PageEnd(d)]
  BY <1>3, <1>5, AfterPageFacts
<1>8. Page(d) \subseteq Mutations
  BY <1>6, SpanTimes DEF FeedPart
<1>9. ms \subseteq Mutations
  BY <1>2, <1>8 DEF Streams
<1>10. ms = s.mutations \cup {m \in {feed[h][n] : n \in (d.cursor + 1)..PageEnd(d)} : WantedAt(s, m)}
  BY <1>6 DEF SpanAt, Wanted, WantedAt
<1>11. t = [s EXCEPT !.mutations = ms, !.drain = AfterPage(d)]
  BY DEF ReadPage
<1> HIDE DEF ms
<1>12. /\ t \in Streams /\ t.by = s.by /\ t.region = s.region /\ t.from = s.from
       /\ t.to = s.to /\ t.committed = s.committed /\ t.phase = s.phase
       /\ t.drain = AfterPage(d) /\ t.mutations = ms /\ t.merged = s.merged /\ t.sent = s.sent
  BY <1>2, <1>7, <1>9, <1>11 DEF Streams
<1>13. Kept(s, t) /\ SameDrain(s, t) /\ FrameStateAt(t)
  BY <1>1, <1>2, <1>12 DEF Kept, SameDrain, FrameStateAt
<1>14. MutAt(feed, oldest, t)
  BY <1>2, <1>5, <1>6, <1>7, <1>10, <1>12, <1>13, PageReadAt DEF FeedPart
<1> QED
  BY <1>1, <1>4, <1>12, <1>13, <1>14 DEF StreamPart

\* Behind the drain what has been found stays.
LEMMA FoundKept ==
  ASSUME NEW f, NEW o, NEW s, NEW t, MutAt(f, o, s), Kept(s, t),
         t.drain = s.drain, t.mutations = s.mutations, s.drain.todo = <<>>
  PROVE  MutAt(f, o, t)
BY DEF MutAt, Kept, FoundAt, VisitedAt, ReadAt, WantedAt

LEMMA BuildStep ==
  ASSUME StreamPart, Build
  PROVE  /\ StreamPart' /\ Kept(stream, stream')
         /\ stream.phase = "drain" /\ stream'.phase = "fold"
         /\ stream'.mutations = stream.mutations /\ stream'.frames = FrameTimes(stream.mutations)
<1> DEFINE s == stream
           t == stream'
<1>1. stream.phase = "drain" /\ ~In("idle") /\ s.drain.todo = <<>>
  BY DEF Build, In, Draining
<1>2. s \in Streams /\ MutAt(feed, oldest, s) /\ FrameStateAt(s)
  BY <1>1, StreamPhase
<1>3. FrameTimes(s.mutations) \subseteq Nat
  BY <1>2, FrameFacts DEF FrameTimes
<1>4. t = [s EXCEPT !.phase = "fold", !.frames = FrameTimes(s.mutations)]
  BY DEF Build
<1>5. /\ t \in Streams /\ t.by = s.by /\ t.region = s.region /\ t.from = s.from
      /\ t.to = s.to /\ t.committed = s.committed /\ t.phase = "fold"
      /\ t.drain = s.drain /\ t.mutations = s.mutations /\ t.merged = s.merged /\ t.sent = s.sent
      /\ t.frames = FrameTimes(s.mutations)
  BY <1>2, <1>3, <1>4 DEF Streams
<1>6. FrameStateAt(t)
  BY <1>1, <1>2, <1>5, BuildFrames
<1>7. Kept(s, t) /\ MutAt(feed, oldest, t)
  BY <1>1, <1>2, <1>5, FoundKept DEF Kept
<1> QED
  BY <1>1, <1>5, <1>6, <1>7 DEF StreamPart, Build, feedVars

\* The results of a merge.
LEMMA MergesFacts ==
  ASSUME NEW ms \in Merges
  PROVE  MergeOf(stream, ms)
BY DEF Merges, MergeOf, Bucket, BucketAt, FrameAt

LEMMA FoldStep ==
  ASSUME StreamPart, Fold
  PROVE  /\ StreamPart' /\ Kept(stream, stream') /\ stream \in Streams
         /\ stream.phase = "fold" /\ stream'.phase = "fold" /\ stream.frames # {}
         /\ stream.from # 0 /\ Min(stream.frames) < stream.from
         /\ stream'.mutations = stream.mutations
         /\ stream'.frames = stream.frames \ {Min(stream.frames)}
<1> DEFINE s == stream
           t == stream'
<1>1. /\ s.phase = "fold" /\ ~In("idle") /\ s.frames # {}
      /\ s.from # 0 /\ Min(s.frames) < s.from
  BY DEF Fold, In, MoreFrames, BeforeStart, FrameAt
<1>2. s \in Streams /\ MutAt(feed, oldest, s) /\ FrameStateAt(s)
  BY <1>1, StreamPhase
<1>3. PICK ms \in Merges : t = [s EXCEPT !.merged = ms, !.frames = s.frames \ {FrameAt}]
  BY DEF Fold
<1>4. ms \subseteq s.merged \cup s.mutations
  BY DEF Merges, Bucket
<1>5. ms \subseteq Mutations
  BY <1>2, <1>4 DEF Streams
<1>6. s.frames \ {Min(s.frames)} \subseteq Nat
  BY <1>2 DEF Streams
<1>7. /\ t \in Streams /\ t.by = s.by /\ t.region = s.region /\ t.from = s.from
      /\ t.to = s.to /\ t.committed = s.committed /\ t.phase = s.phase
      /\ t.drain = s.drain /\ t.mutations = s.mutations /\ t.merged = ms /\ t.sent = s.sent
      /\ t.frames = s.frames \ {Min(s.frames)}
  BY <1>2, <1>3, <1>5, <1>6 DEF Streams, FrameAt
<1>8. Kept(s, t) /\ MutAt(feed, oldest, t)
  <2>1. s.drain.todo = <<>>
    BY <1>1, <1>2 DEF MutAt
  <2> QED
    BY <1>2, <1>7, <2>1, FoundKept DEF Kept
<1>9. ~s.sent
  BY <1>1, <1>2 DEF FrameStateAt, OrderAt
<1>10. FrameStateAt(t)
  BY <1>1, <1>2, <1>7, <1>9, MergesFacts, FoldFrames
<1> QED
  BY <1>1, <1>2, <1>7, <1>8, <1>10 DEF StreamPart, Fold, feedVars

LEMMA PlayStep ==
  ASSUME StreamPart, Play
  PROVE  /\ StreamPart' /\ Kept(stream, stream')
         /\ stream.phase = "fold" /\ stream'.phase = "play"
         /\ stream'.mutations = stream.mutations /\ stream'.frames = stream.frames
<1> DEFINE s == stream
           t == stream'
<1>1. s.phase = "fold" /\ ~In("idle") /\ t = [s EXCEPT !.phase = "play"]
  BY DEF Play, In, Step
<1>2. s \in Streams /\ MutAt(feed, oldest, s) /\ FrameStateAt(s)
  BY <1>1, StreamPhase
<1>3. /\ t \in Streams /\ t.by = s.by /\ t.region = s.region /\ t.from = s.from
      /\ t.to = s.to /\ t.committed = s.committed /\ t.phase = "play"
      /\ t.drain = s.drain /\ t.mutations = s.mutations /\ t.merged = s.merged /\ t.sent = s.sent
      /\ t.frames = s.frames
  BY <1>1, <1>2 DEF Streams
<1>4. Kept(s, t) /\ MutAt(feed, oldest, t)
  <2>1. s.drain.todo = <<>>
    BY <1>1, <1>2 DEF MutAt
  <2> QED
    BY <1>2, <1>3, <2>1, FoundKept DEF Kept
<1>5. FrameStateAt(t)
  BY <1>1, <1>2, <1>3 DEF FrameStateAt, OrderAt, PassedAt
<1> QED
  BY <1>1, <1>3, <1>4, <1>5 DEF StreamPart, Play, feedVars

\* merged goes to the client; it holds mutations that were found.
LEMMA SendVehiclesStep ==
  ASSUME StreamPart, SendVehicles
  PROVE  /\ StreamPart' /\ Kept(stream, stream')
         /\ stream.phase = "play" /\ stream'.phase = "play"
         /\ stream'.mutations = stream.mutations /\ stream'.frames = stream.frames
         /\ stream'.merged \subseteq stream.mutations /\ stream.mutations \subseteq Mutations
         /\ \A m \in stream.mutations : m.agency \in Range(AgenciesOf[stream.region])
<1> DEFINE s == stream
           t == stream'
<1>1. s.phase = "play" /\ ~In("idle") /\ s.frames # {} /\ ~s.sent
  BY DEF SendVehicles, In, MoreFrames
<1>2. s \in Streams /\ MutAt(feed, oldest, s) /\ FrameStateAt(s)
  BY <1>1, StreamPhase
<1>3. PICK ms \in Merges : t = [s EXCEPT !.merged = ms, !.sent = TRUE]
  BY DEF SendVehicles
<1>4. ms \subseteq s.mutations /\ s.mutations \subseteq Mutations
  <2>1. OrderAt(s) /\ MergedAt(s.merged, PassedAt(s))
    BY <1>1, <1>2 DEF FrameStateAt
  <2> QED
    BY <1>1, <1>2, <2>1, MergesFacts, MergeFacts DEF Streams
<1>5. /\ t \in Streams /\ t.by = s.by /\ t.region = s.region /\ t.from = s.from
      /\ t.to = s.to /\ t.committed = s.committed /\ t.phase = s.phase
      /\ t.drain = s.drain /\ t.mutations = s.mutations /\ t.merged = ms /\ t.sent
      /\ t.frames = s.frames
  BY <1>2, <1>3, <1>4 DEF Streams
<1>6. Kept(s, t) /\ MutAt(feed, oldest, t)
  <2>1. s.drain.todo = <<>>
    BY <1>1, <1>2 DEF MutAt
  <2> QED
    BY <1>2, <1>5, <2>1, FoundKept DEF Kept
<1>7. FrameStateAt(t)
  BY <1>1, <1>2, <1>5, MergesFacts, SendFrames
<1>8. \A m \in s.mutations : m.agency \in Range(AgenciesOf[s.region])
  BY <1>2 DEF MutAt, FoundAt
<1> QED
  BY <1>1, <1>4, <1>5, <1>6, <1>7, <1>8 DEF StreamPart, SendVehicles, feedVars

LEMMA SendProgressStep ==
  ASSUME StreamPart, SendProgress
  PROVE  /\ StreamPart' /\ Kept(stream, stream') /\ stream \in Streams
         /\ stream.phase = "play" /\ stream'.phase = "play" /\ stream.frames # {} /\ OrderAt(stream)
         /\ stream'.mutations = stream.mutations
         /\ stream'.frames = stream.frames \ {Min(stream.frames)}
<1> DEFINE s == stream
           t == stream'
<1>1. s.phase = "play" /\ ~In("idle") /\ s.sent
  BY DEF SendProgress, In
<1>2. s \in Streams /\ MutAt(feed, oldest, s) /\ FrameStateAt(s)
  BY <1>1, StreamPhase
<1>3. OrderAt(s) /\ s.frames # {}
  BY <1>1, <1>2 DEF FrameStateAt, OrderAt
<1>4. t = [s EXCEPT !.sent = FALSE, !.frames = s.frames \ {Min(s.frames)}]
  BY DEF SendProgress, FrameAt
<1>5. s.frames \ {Min(s.frames)} \subseteq Nat
  BY <1>2 DEF Streams
<1>6. /\ t \in Streams /\ t.by = s.by /\ t.region = s.region /\ t.from = s.from
      /\ t.to = s.to /\ t.committed = s.committed /\ t.phase = s.phase
      /\ t.drain = s.drain /\ t.mutations = s.mutations /\ t.merged = s.merged /\ ~t.sent
      /\ t.frames = s.frames \ {Min(s.frames)}
  BY <1>2, <1>4, <1>5 DEF Streams
<1>7. Kept(s, t) /\ MutAt(feed, oldest, t)
  <2>1. s.drain.todo = <<>>
    BY <1>1, <1>2 DEF MutAt
  <2> QED
    BY <1>2, <1>6, <2>1, FoundKept DEF Kept
<1>8. FrameStateAt(t)
  BY <1>1, <1>2, <1>6, ProgressFrames
<1> QED
  BY <1>1, <1>2, <1>3, <1>6, <1>7, <1>8 DEF StreamPart, SendProgress, feedVars

-----------------------------------------------------------------------------
(* The steps of the catalogue *)

LEMMA CatalogPhase ==
  ASSUME CatalogPart, catalog.phase # "idle"
  PROVE  catalog \in Catalogs /\ CatAt(feed, oldest, catalog)
BY DEF CatalogPart, Idle

LEMMA CatalogRequestStep ==
  ASSUME FeedPart, NEW r \in Regions, CatalogRequest(r)
  PROVE  CatalogPart'
<1> DEFINE c == [a \in Agencies |-> Len(feed[a])]
           k == catalog'
<1>1. k = [phase |-> "drain", region |-> r, drain |-> Drain(r),
           entries |-> [a \in Agencies |-> NoEntry], committed |-> c]
  BY DEF CatalogRequest
<1>2. c \in Counts
  BY DEF FeedPart, FeedAt, Counts
<1>3. Drain(r) \in Drains
  BY DrainBegins
<1>4. [a \in Agencies |-> NoEntry] \in [Agencies -> Entries]
  <2>1. NoEntry \in Entries
    BY DEF NoEntry, Entries
  <2> QED
    BY <2>1
<1> HIDE DEF c
<1>5. /\ k \in Catalogs /\ k.phase = "drain" /\ k.drain = Drain(k.region)
      /\ k.entries = [a \in Agencies |-> NoEntry] /\ k.committed = c
  BY <1>1, <1>2, <1>3, <1>4 DEF Catalogs
<1>6. CatAt(feed, oldest, k)
  BY <1>5, CatBegins DEF FeedPart, c
<1> QED
  BY <1>5, <1>6 DEF CatalogPart, CatalogRequest, feedVars

LEMMA CatalogFeedStep ==
  ASSUME FeedPart, CatalogPart, CatalogFeed
  PROVE  CatalogPart'
<1> DEFINE c == catalog
           k == catalog'
           d == c.drain
<1>1. c.phase = "drain" /\ c \in Catalogs /\ CatAt(feed, oldest, c)
  BY CatalogPhase DEF CatalogFeed
<1>2. d \in Drains /\ c.region \in Regions /\ TodoAt(d, c.region)
  BY <1>1 DEF Catalogs, CatAt, DrainAt
<1>3. ASSUME NEW e \in Drains, k = [c EXCEPT !.drain = e]
      PROVE  SameRequest(c, k) /\ k.drain = e /\ k.entries = c.entries
  <2>1. /\ k \in Catalogs /\ k.phase = c.phase /\ k.region = c.region
        /\ k.committed = c.committed /\ k.drain = e /\ k.entries = c.entries
    BY <1>1, <1>3 DEF Catalogs
  <2> QED
    BY <1>1, <2>1 DEF SameRequest
<1>4. CASE Skips(d) /\ k = [c EXCEPT !.drain = NextAgency(d)]
  <2>1. /\ d.todo # <<>> /\ d.cursor = Unopened
        /\ Head(d.todo) \in Agencies => feed[Head(d.todo)] = <<>>
    BY <1>4 DEF Skips, Draining
  <2>2. NextAgency(d) \in Drains
    BY <1>2, <2>1, NextAgencyFacts
  <2>3. SameRequest(c, k) /\ k.drain = NextAgency(d) /\ k.entries = c.entries
    BY <1>3, <1>4, <2>2
  <2>4. CatAt(feed, oldest, k)
    BY <1>1, <2>1, <2>3, CatSkip DEF FeedPart
  <2> QED
    BY <2>3, <2>4 DEF CatalogPart, CatalogFeed, feedVars, SameRequest
<1>5. CASE Opens(d) /\ k = [c EXCEPT !.drain = Opened(d)]
  <2>1. d.todo # <<>> /\ d.cursor = Unopened /\ Head(d.todo) \in Agencies
    BY <1>5 DEF Opens, Draining
  <2> DEFINE x == oldest[Head(d.todo)]
  <2>2. x \in Nat
    BY <2>1 DEF FeedPart, FeedAt, Counts
  <2>3. Opened(d) = [d EXCEPT !.first = x, !.cursor = x]
    BY DEF Opened
  <2>4. Opened(d) \in Drains
    <3> HIDE DEF d, x
    <3> QED
      BY <1>2, <2>2, <2>3 DEF Drains, Cursors
  <2>5. SameRequest(c, k) /\ k.drain = Opened(d) /\ k.entries = c.entries
    BY <1>3, <1>5, <2>4
  <2>6. CatAt(feed, oldest, k)
    BY <1>1, <2>1, <2>3, <2>5, CatOpen DEF FeedPart
  <2> QED
    BY <2>5, <2>6 DEF CatalogPart, CatalogFeed, feedVars, SameRequest
<1> QED
  BY <1>4, <1>5 DEF CatalogFeed

LEMMA CatalogPageStep ==
  ASSUME FeedPart, CatalogPart, CatalogPage
  PROVE  CatalogPart'
<1> DEFINE c == catalog
           k == catalog'
           d == c.drain
           h == Head(d.todo)
           g == Summarize(c.entries[h], Page(d))
           x == [g EXCEPT !.first = d.first, !.last = PageEnd(d)]
<1>1. c.phase = "drain" /\ c \in Catalogs /\ CatAt(feed, oldest, c)
  BY CatalogPhase DEF CatalogPage
<1>2. /\ d \in Drains /\ c.region \in Regions /\ TodoAt(d, c.region) /\ OpenAt(feed, oldest, d)
      /\ c.entries \in [Agencies -> Entries]
  BY <1>1 DEF Catalogs, CatAt, DrainAt
<1>3. d.cursor # Unopened
  BY DEF CatalogPage, Reads
<1>4. /\ d.todo # <<>> /\ h \in Agencies /\ d.first \in Nat /\ d.cursor \in Nat /\ d.first <= d.cursor
      /\ PageEnd(d) \in Nat /\ d.cursor <= PageEnd(d) /\ PageEnd(d) <= Len(feed[h])
      /\ Page(d) = SpanAt(feed, h, d.cursor, PageEnd(d))
  BY <1>2, <1>3, PageEndFacts
<1>5. /\ AfterPage(d) \in Drains
      /\ AfterPage(d) = IF PageEnd(d) = Len(feed[h]) THEN NextAgency(d)
                        ELSE [d EXCEPT !.cursor = PageEnd(d)]
  BY <1>2, <1>3, AfterPageFacts
<1>6. h \notin Visited(d, c.region)
  BY <1>2, <1>4, NextAgencyFacts
<1>7. SummaryAt(feed, h, c.entries[h], d.first, d.cursor)
  <2>1. EntryAt(feed, oldest, c, h)
    BY <1>1, <1>4 DEF CatAt
  <2> QED
    BY <1>3, <1>6, <2>1 DEF EntryAt
<1>8. g \in Entries /\ SummaryAt(feed, h, g, d.first, PageEnd(d))
  <2>1. c.entries[h] \in Entries
    BY <1>2, <1>4
  <2> HIDE DEF d, h
  <2> QED
    BY <1>4, <1>7, <2>1, SummaryPage DEF FeedPart
<1>9. k = [c EXCEPT !.entries[h] = x, !.drain = AfterPage(d)]
  BY DEF CatalogPage
<1> HIDE DEF g
<1>10. /\ x \in Entries /\ x.first = d.first /\ x.last = PageEnd(d)
       /\ x.count = g.count /\ x.from = g.from /\ x.to = g.to
  BY <1>4, <1>8 DEF Entries
<1> HIDE DEF x, d, h
<1>11. SummaryAt(feed, h, x, d.first, PageEnd(d))
  BY <1>8, <1>10 DEF SummaryAt
<1>12. k = [c EXCEPT !.entries = [c.entries EXCEPT ![h] = x], !.drain = AfterPage(d)]
  BY <1>1, <1>9 DEF Catalogs
<1> DEFINE y == [c.entries EXCEPT ![h] = x]
<1>13. y \in [Agencies -> Entries] /\ y[h] = x /\ \A a \in Agencies : a # h => y[a] = c.entries[a]
  BY <1>2, <1>4, <1>10
<1>14. k = [c EXCEPT !.entries = y, !.drain = AfterPage(d)]
  BY <1>12
<1> HIDE DEF y
<1>15. /\ k \in Catalogs /\ k.phase = c.phase /\ k.region = c.region
       /\ k.committed = c.committed /\ k.drain = AfterPage(d) /\ k.entries = y
  BY <1>1, <1>5, <1>13, <1>14 DEF Catalogs
<1>16. SameRequest(c, k)
  BY <1>1, <1>15 DEF SameRequest
<1>17. CatAt(feed, oldest, k)
  BY <1>1, <1>3, <1>4, <1>5, <1>10, <1>11, <1>13, <1>15, <1>16, CatPage DEF FeedPart, d, h
<1> QED
  BY <1>15, <1>17 DEF CatalogPart, CatalogPage, feedVars

LEMMA CatalogStep ==
  ASSUME FeedPart, CatalogPart, Catalog
  PROVE  CatalogPart' /\ UNCHANGED <<feedVars, stream>>
<1>1. UNCHANGED <<feedVars, stream>>
  BY DEF Catalog, CatalogRequest, CatalogFeed, CatalogPage, CatalogAnswered, CatalogFails
<1>2. CASE CatalogAnswered
  <2>1. catalog \in Catalogs /\ CatAt(feed, oldest, catalog) /\ catalog.drain.todo = <<>>
    BY <1>2, CatalogPhase DEF CatalogAnswered, Draining
  <2>2. catalog' = [catalog EXCEPT !.phase = "answered"]
    BY <1>2 DEF CatalogAnswered
  <2>3. /\ catalog' \in Catalogs /\ catalog'.region = catalog.region
        /\ catalog'.drain = catalog.drain /\ catalog'.entries = catalog.entries
        /\ catalog'.committed = catalog.committed
    BY <2>1, <2>2 DEF Catalogs
  <2>4. CatAt(feed, oldest, catalog')
    BY <2>1, <2>3 DEF CatAt, EntryAt
  <2> QED
    BY <1>1, <2>3, <2>4 DEF CatalogPart, feedVars
<1>3. CASE CatalogFails
  BY <1>3 DEF CatalogFails, CatalogPart
<1> QED
  BY <1>1, <1>2, <1>3, CatalogRequestStep, CatalogFeedStep, CatalogPageStep DEF Catalog

-----------------------------------------------------------------------------
(* The steps of the page *)

ReplayInv == FeedPart /\ StreamPart /\ CatalogPart /\ PagePart

\* The feeds and the catalogue are as they were.
LEMMA OthersKept ==
  ASSUME FeedPart, CatalogPart, UNCHANGED <<feedVars, catalog>>
  PROVE  FeedPart' /\ CatalogPart'
BY DEF FeedPart, CatalogPart, feedVars

\* The page is as it was, and so is what matters of its stream.
LEMMA PageKept ==
  ASSUME PagePart, UNCHANGED pageVars,
         Source' => Source /\ stream'.region = stream.region,
         Source' => PlayAt(stream', page.lastFrameAt)
  PROVE  PagePart'
<1>1. UNCHANGED <<page, posts, refused>>
  BY DEF pageVars
<1>2. PageType'
  BY <1>1 DEF PagePart, PageType
<1>3. RegionShown'
  BY <1>1 DEF PagePart, RegionShown
<1> QED
  BY <1>1, <1>2, <1>3 DEF PagePart

\* A stream of the page starts at the beginning or at the page's last frame.
LEMMA StartStep ==
  ASSUME ReplayInv, NEW from \in {0, page.lastFrameAt}, startReplay(from)
  PROVE  ReplayInv'
<1>1. FeedPart' /\ CatalogPart'
  BY OthersKept DEF startReplay, ReplayInv
<1>2. /\ page \in [region : Regions, lastFrameAt : Nat, stop : {"disabled", "Stop", "Resume"},
                   markers : SUBSET Mutations]
      /\ page' = [page EXCEPT !.stop = "Stop"] /\ posts' = posts /\ refused' = refused
      /\ posts \in [Regions -> Nat] /\ refused \in BOOLEAN
  BY DEF ReplayInv, PagePart, PageType, startReplay
<1>3. /\ page'.region = page.region /\ page'.lastFrameAt = page.lastFrameAt
      /\ page'.markers = page.markers /\ page.region \in Regions /\ page.lastFrameAt \in Nat
      /\ page' \in [region : Regions, lastFrameAt : Nat, stop : {"disabled", "Stop", "Resume"},
                    markers : SUBSET Mutations]
  BY <1>2
<1>4. /\ StreamPart' /\ stream'.phase = "drain" /\ stream'.region = page.region
      /\ stream'.from = from
  <2>1. from \in Nat /\ 0 \in Nat
    BY <1>3
  <2> QED
    BY <1>3, <2>1, OpenedStep DEF startReplay, ReplayInv
<1>5. PageType'
  BY <1>2, <1>3 DEF PageType
<1>6. RegionShown'
  BY <1>2, <1>3, <1>4 DEF RegionShown, ReplayInv, PagePart
<1>7. PlayAt(stream', page'.lastFrameAt)
  BY <1>3, <1>4 DEF PlayAt
<1> QED
  BY <1>1, <1>4, <1>5, <1>6, <1>7 DEF ReplayInv, PagePart

\* The stream of another client does not concern the page.
LEMMA ClientStep ==
  ASSUME ReplayInv, Client, UNCHANGED pageVars
  PROVE  ReplayInv'
<1>1. PICK r \in Regions, from \in Froms, to \in Tos : Request(r, from, to)
  BY DEF Client
<1>2. FeedPart' /\ CatalogPart'
  BY <1>1, OthersKept DEF Request, ReplayInv
<1>3. StreamPart' /\ stream'.by = "client"
  BY <1>1, LimitsAssumption, OpenedStep DEF Request, ReplayInv
<1>4. PagePart'
  BY <1>3, PageKept DEF ReplayInv, Source
<1> QED
  BY <1>2, <1>3, <1>4 DEF ReplayInv

\* A step of the handler that the page does not see.
LEMMA HandlerStep ==
  ASSUME ReplayInv, Handler, UNCHANGED pageVars
  PROVE  ReplayInv'
<1>1. FeedPart' /\ CatalogPart'
  BY OthersKept DEF Handler, NextFeed, ReadPage, Build, Fold, Play, ReplayInv
<1>2. page.lastFrameAt \in Nat
  BY DEF ReplayInv, PagePart, PageType
<1>3. ASSUME Kept(stream, stream'), stream.phase # "idle",
             PlayAt(stream, page.lastFrameAt) => PlayAt(stream', page.lastFrameAt)
      PROVE  PagePart'
  <2>1. Source' => Source /\ stream'.region = stream.region
    BY <1>3 DEF Source, In, Kept
  <2>2. Source => PlayAt(stream, page.lastFrameAt)
    BY DEF ReplayInv, PagePart
  <2> QED
    BY <1>3, <2>1, <2>2, PageKept DEF ReplayInv
<1>4. CASE NextFeed \/ ReadPage
  <2>1. /\ StreamPart' /\ Kept(stream, stream')
        /\ stream.phase = "drain" /\ stream'.phase = "drain"
    BY <1>4, NextFeedStep, ReadPageStep DEF ReplayInv
  <2>2. PlayAt(stream, page.lastFrameAt) => PlayAt(stream', page.lastFrameAt)
    BY <2>1 DEF PlayAt, Kept
  <2> QED
    BY <1>1, <1>3, <2>1, <2>2 DEF ReplayInv
<1>5. CASE Build
  <2>1. /\ StreamPart' /\ Kept(stream, stream')
        /\ stream.phase = "drain" /\ stream'.phase = "fold"
        /\ stream'.mutations = stream.mutations /\ stream'.frames = FrameTimes(stream.mutations)
    BY <1>5, BuildStep DEF ReplayInv
  <2>2. PlayAt(stream, page.lastFrameAt) => PlayAt(stream', page.lastFrameAt)
    BY <2>1 DEF PlayAt, Kept, FrameTimes
  <2> QED
    BY <1>1, <1>3, <2>1, <2>2 DEF ReplayInv
<1>6. CASE Fold
  <2>1. /\ StreamPart' /\ Kept(stream, stream') /\ stream \in Streams
        /\ stream.phase = "fold" /\ stream'.phase = "fold" /\ stream.frames # {}
        /\ stream.from # 0 /\ Min(stream.frames) < stream.from
        /\ stream'.mutations = stream.mutations
        /\ stream'.frames = stream.frames \ {Min(stream.frames)}
    BY <1>6, FoldStep DEF ReplayInv
  <2>2. PlayAt(stream, page.lastFrameAt) => PlayAt(stream', page.lastFrameAt)
    BY <1>2, <2>1, FoldPlays DEF Kept
  <2> QED
    BY <1>1, <1>3, <2>1, <2>2 DEF ReplayInv
<1>7. CASE Play
  <2>1. /\ StreamPart' /\ Kept(stream, stream')
        /\ stream.phase = "fold" /\ stream'.phase = "play"
        /\ stream'.mutations = stream.mutations /\ stream'.frames = stream.frames
    BY <1>7, PlayStep DEF ReplayInv
  <2>2. PlayAt(stream, page.lastFrameAt) => PlayAt(stream', page.lastFrameAt)
    BY <2>1 DEF PlayAt, Kept
  <2> QED
    BY <1>1, <1>3, <2>1, <2>2 DEF ReplayInv
<1> QED
  BY <1>4, <1>5, <1>6, <1>7 DEF Handler

\* The map shows a frame of the page's own stream.
LEMMA VehiclesStep ==
  ASSUME ReplayInv, VehiclesEvent
  PROVE  ReplayInv'
<1>1. FeedPart' /\ CatalogPart'
  BY OthersKept DEF VehiclesEvent, SendVehicles, ReplayInv
<1>2. /\ StreamPart' /\ Kept(stream, stream')
      /\ stream.phase = "play" /\ stream'.phase = "play"
      /\ stream'.mutations = stream.mutations /\ stream'.frames = stream.frames
      /\ stream'.merged \subseteq stream.mutations /\ stream.mutations \subseteq Mutations
      /\ \A m \in stream.mutations : m.agency \in Range(AgenciesOf[stream.region])
  BY SendVehiclesStep DEF VehiclesEvent, ReplayInv
<1>3. Source' <=> Source
  BY <1>2 DEF Source, In, Kept
<1>4. /\ page \in [region : Regions, lastFrameAt : Nat, stop : {"disabled", "Stop", "Resume"},
                   markers : SUBSET Mutations]
      /\ posts' = posts /\ refused' = refused /\ posts \in [Regions -> Nat] /\ refused \in BOOLEAN
      /\ RegionShown /\ (Source => PlayAt(stream, page.lastFrameAt))
  BY DEF ReplayInv, PagePart, PageType, VehiclesEvent
<1>5. CASE ~Source
  <2>1. UNCHANGED pageVars
    BY <1>5 DEF VehiclesEvent, pageVars
  <2>2. PagePart'
    BY <1>3, <1>5, <2>1, PageKept DEF ReplayInv
  <2> QED
    BY <1>1, <1>2, <2>2 DEF ReplayInv
<1>6. CASE Source
  <2>1. page' = [page EXCEPT !.markers = stream'.merged]
    BY <1>6 DEF VehiclesEvent
  <2>2. stream'.merged \in SUBSET Mutations
    BY <1>2
  <2>3. /\ page'.region = page.region /\ page'.lastFrameAt = page.lastFrameAt
        /\ page'.markers = stream'.merged
        /\ page' \in [region : Regions, lastFrameAt : Nat, stop : {"disabled", "Stop", "Resume"},
                      markers : SUBSET Mutations]
    BY <1>4, <2>1, <2>2
  <2>4. PageType'
    BY <1>4, <2>3 DEF PageType
  <2>5. PlayAt(stream', page'.lastFrameAt)
    BY <1>2, <1>4, <1>6, <2>3 DEF PlayAt, Kept
  <2>6. RegionShown'
    BY <1>2, <1>4, <1>6, <2>3 DEF RegionShown, Kept
  <2> QED
    BY <1>1, <1>2, <2>4, <2>5, <2>6 DEF ReplayInv, PagePart
<1> QED
  BY <1>5, <1>6

\* The page learns the time of the frame.
LEMMA ProgressStep ==
  ASSUME ReplayInv, ProgressEvent
  PROVE  ReplayInv'
<1>1. FeedPart' /\ CatalogPart'
  BY OthersKept DEF ProgressEvent, SendProgress, ReplayInv
<1>2. /\ StreamPart' /\ Kept(stream, stream') /\ stream \in Streams
      /\ stream.phase = "play" /\ stream'.phase = "play" /\ stream.frames # {} /\ OrderAt(stream)
      /\ stream'.mutations = stream.mutations
      /\ stream'.frames = stream.frames \ {Min(stream.frames)}
  BY SendProgressStep DEF ProgressEvent, ReplayInv
<1>3. Source' <=> Source
  BY <1>2 DEF Source, In, Kept
<1>4. /\ page \in [region : Regions, lastFrameAt : Nat, stop : {"disabled", "Stop", "Resume"},
                   markers : SUBSET Mutations]
      /\ posts' = posts /\ refused' = refused /\ posts \in [Regions -> Nat] /\ refused \in BOOLEAN
      /\ RegionShown
  BY DEF ReplayInv, PagePart, PageType, ProgressEvent
<1>5. CASE ~Source
  <2>1. UNCHANGED pageVars
    BY <1>5 DEF ProgressEvent, pageVars
  <2>2. PagePart'
    BY <1>3, <1>5, <2>1, PageKept DEF ReplayInv
  <2> QED
    BY <1>1, <1>2, <2>2 DEF ReplayInv
<1>6. CASE Source
  <2>1. page' = [page EXCEPT !.lastFrameAt = Min(stream.frames)]
    BY <1>6 DEF ProgressEvent, FrameAt
  <2>2. Min(stream.frames) \in Nat
    BY <1>2, FrameFacts
  <2>3. /\ page'.region = page.region /\ page'.lastFrameAt = Min(stream.frames)
        /\ page'.markers = page.markers
        /\ page' \in [region : Regions, lastFrameAt : Nat, stop : {"disabled", "Stop", "Resume"},
                      markers : SUBSET Mutations]
    BY <1>4, <2>1, <2>2
  <2>4. PageType'
    BY <1>4, <2>3 DEF PageType
  <2>5. PlayAt(stream', page'.lastFrameAt)
    BY <1>2, <2>3, ProgressPlays DEF Kept
  <2>6. RegionShown'
    BY <1>2, <1>4, <1>6, <2>3 DEF RegionShown, Kept
  <2> QED
    BY <1>1, <1>2, <2>4, <2>5, <2>6 DEF ReplayInv, PagePart
<1> QED
  BY <1>5, <1>6

\* Without a stream of its own the page's play state says nothing.
LEMMA StreamClosedStep ==
  ASSUME ReplayInv, StreamClosed
  PROVE  ReplayInv'
<1>1. stream' = Idle /\ UNCHANGED <<feedVars, catalog>>
  BY DEF StreamClosed, SendDone, StreamEnds
<1>2. FeedPart' /\ CatalogPart'
  BY <1>1, OthersKept DEF ReplayInv
<1>3. StreamPart' /\ ~Source'
  BY <1>1 DEF StreamPart, Source, In, Idle
<1>4. /\ page \in [region : Regions, lastFrameAt : Nat, stop : {"disabled", "Stop", "Resume"},
                   markers : SUBSET Mutations]
      /\ posts' = posts /\ refused' = refused /\ posts \in [Regions -> Nat] /\ refused \in BOOLEAN
      /\ RegionShown
  BY DEF ReplayInv, PagePart, PageType, StreamClosed
<1>5. /\ page' \in [region : Regions, lastFrameAt : Nat, stop : {"disabled", "Stop", "Resume"},
                    markers : SUBSET Mutations]
      /\ page'.region = page.region /\ page'.markers = page.markers
  BY <1>4 DEF StreamClosed, resetReplay
<1>6. PageType' /\ RegionShown'
  BY <1>3, <1>4, <1>5 DEF PageType, RegionShown
<1> QED
  BY <1>2, <1>3, <1>6 DEF ReplayInv, PagePart

LEMMA PauseStep ==
  ASSUME ReplayInv, pauseReplay
  PROVE  ReplayInv'
<1>1. stream' = Idle /\ UNCHANGED <<feedVars, catalog>>
  BY DEF pauseReplay
<1>2. FeedPart' /\ CatalogPart'
  BY <1>1, OthersKept DEF ReplayInv
<1>3. StreamPart' /\ ~Source'
  BY <1>1 DEF StreamPart, Source, In, Idle
<1>4. /\ page \in [region : Regions, lastFrameAt : Nat, stop : {"disabled", "Stop", "Resume"},
                   markers : SUBSET Mutations]
      /\ posts' = posts /\ refused' = refused /\ posts \in [Regions -> Nat] /\ refused \in BOOLEAN
      /\ RegionShown
  BY DEF ReplayInv, PagePart, PageType, pauseReplay
<1>5. /\ page' \in [region : Regions, lastFrameAt : Nat, stop : {"disabled", "Stop", "Resume"},
                    markers : SUBSET Mutations]
      /\ page'.region = page.region /\ page'.markers = page.markers
  BY <1>4 DEF pauseReplay
<1>6. PageType' /\ RegionShown'
  BY <1>3, <1>4, <1>5 DEF PageType, RegionShown
<1> QED
  BY <1>2, <1>3, <1>6 DEF ReplayInv, PagePart

\* While a POST is on its way the page may show the old region.
LEMMA SwitchRegionStep ==
  ASSUME ReplayInv, NEW r \in Regions, SwitchRegion(r)
  PROVE  ReplayInv'
<1>1. UNCHANGED <<feedVars, stream, catalog, refused>> /\ page' = [page EXCEPT !.region = r]
  BY DEF SwitchRegion
<1>2. FeedPart' /\ CatalogPart' /\ StreamPart'
  BY <1>1, OthersKept DEF ReplayInv, StreamPart, feedVars
<1>3. /\ page \in [region : Regions, lastFrameAt : Nat, stop : {"disabled", "Stop", "Resume"},
                   markers : SUBSET Mutations]
      /\ posts' = [posts EXCEPT ![r] = @ + 1] /\ posts \in [Regions -> Nat] /\ refused \in BOOLEAN
      /\ (Source => PlayAt(stream, page.lastFrameAt))
  BY DEF ReplayInv, PagePart, PageType, SwitchRegion
<1>4. /\ page' \in [region : Regions, lastFrameAt : Nat, stop : {"disabled", "Stop", "Resume"},
                    markers : SUBSET Mutations]
      /\ page'.lastFrameAt = page.lastFrameAt
  BY <1>1, <1>3
<1>5. PageType' /\ RegionShown'
  BY <1>1, <1>3, <1>4 DEF PageType, RegionShown
<1>6. Source' => PlayAt(stream', page'.lastFrameAt)
  BY <1>1, <1>3, <1>4 DEF Source, In
<1> QED
  BY <1>2, <1>5, <1>6 DEF ReplayInv, PagePart

\* The answer takes markers and stream of the old region away.
LEMMA SwitchAnsweredStep ==
  ASSUME ReplayInv, NEW r \in Regions, SwitchAnswered(r)
  PROVE  ReplayInv'
<1>1. UNCHANGED <<feedVars, catalog, refused>> /\ stream' = IF Source THEN Idle ELSE stream
  BY DEF SwitchAnswered
<1>2. FeedPart' /\ CatalogPart' /\ StreamPart'
  BY <1>1, OthersKept DEF ReplayInv, StreamPart, feedVars
<1>3. ~Source'
  BY <1>1 DEF Source, In, Idle
<1>4. /\ page \in [region : Regions, lastFrameAt : Nat, stop : {"disabled", "Stop", "Resume"},
                   markers : SUBSET Mutations]
      /\ posts' = [posts EXCEPT ![r] = @ - 1] /\ posts[r] > 0 /\ posts \in [Regions -> Nat] /\ refused \in BOOLEAN
  BY DEF ReplayInv, PagePart, PageType, SwitchAnswered
<1>5. /\ page' \in [region : Regions, lastFrameAt : Nat, stop : {"disabled", "Stop", "Resume"},
                    markers : SUBSET Mutations]
      /\ page'.markers = {}
  BY <1>4 DEF SwitchAnswered, resetReplay
<1>6. PageType' /\ RegionShown'
  BY <1>1, <1>3, <1>4, <1>5 DEF PageType, RegionShown
<1> QED
  BY <1>2, <1>3, <1>6 DEF ReplayInv, PagePart

LEMMA SwitchRefusedStep ==
  ASSUME ReplayInv, NEW r \in Regions, SwitchRefused(r)
  PROVE  ReplayInv'
<1>1. UNCHANGED <<feedVars, stream, catalog, page>> /\ refused' = TRUE /\ posts[r] > 0
      /\ posts' = [posts EXCEPT ![r] = @ - 1]
  BY DEF SwitchRefused
<1>2. FeedPart' /\ CatalogPart' /\ StreamPart'
  BY <1>1, OthersKept DEF ReplayInv, StreamPart, feedVars
<1>3. PageType' /\ RegionShown'
  BY <1>1 DEF PageType, RegionShown, ReplayInv, PagePart
<1>4. Source' => PlayAt(stream', page'.lastFrameAt)
  BY <1>1 DEF Source, In, ReplayInv, PagePart
<1> QED
  BY <1>2, <1>3, <1>4 DEF ReplayInv, PagePart

LEMMA ReplayInit ==
  ASSUME PlayerInit
  PROVE  ReplayInv
<1>1. /\ feed = [a \in Agencies |-> <<>>] /\ oldest = [a \in Agencies |-> 0]
      /\ stream = Idle /\ catalog = Idle
      /\ page = [region |-> FirstRegion, lastFrameAt |-> 0, stop |-> "disabled", markers |-> {}]
      /\ posts = [r \in Regions |-> 0] /\ refused = FALSE
  BY DEF PlayerInit, Init
<1>2. FeedPart
  <2>1. feed \in [Agencies -> Seq(Mutations)] /\ oldest \in Counts
    BY <1>1 DEF Counts
  <2>2. \A a \in Agencies : feed[a] = <<>> /\ oldest[a] = 0
    BY <1>1
  <2> QED
    BY <2>1, <2>2 DEF FeedPart, FeedAt
<1>3. PageType /\ RegionShown /\ ~Source
  BY <1>1, FirstAssumption DEF PageType, RegionShown, Source, In, Idle
<1> QED
  BY <1>1, <1>2, <1>3 DEF ReplayInv, StreamPart, CatalogPart, PagePart

LEMMA ReplayNext ==
  ASSUME ReplayInv, [Next]_vars
  PROVE  ReplayInv'
<1>1. CASE Start
  <2>1. CASE PlayClicked
    BY <2>1, StartStep DEF PlayClicked
  <2>2. CASE Resume \/ SpeedChanged
    BY <2>2, StartStep DEF Resume, SpeedChanged
  <2>3. CASE Client /\ UNCHANGED pageVars
    BY <2>3, ClientStep
  <2> QED
    BY <1>1, <2>1, <2>2, <2>3 DEF Start
<1>2. CASE Switch
  BY <1>2, SwitchRegionStep DEF Switch
<1>3. CASE Else
  <2>1. CASE Store /\ UNCHANGED pageVars
    <3>1. FeedPart' /\ StreamPart' /\ CatalogPart' /\ UNCHANGED <<stream, catalog>>
      BY <2>1, StoreStep DEF ReplayInv
    <3>2. PagePart'
      BY <2>1, <3>1, PageKept DEF ReplayInv, PagePart, Source, In
    <3> QED
      BY <3>1, <3>2 DEF ReplayInv
  <2>2. CASE Catalog /\ UNCHANGED pageVars
    <3>1. CatalogPart' /\ UNCHANGED <<feedVars, stream>>
      BY <2>2, CatalogStep DEF ReplayInv
    <3>2. FeedPart' /\ StreamPart'
      BY <3>1 DEF ReplayInv, FeedPart, StreamPart, feedVars
    <3>3. PagePart'
      BY <2>2, <3>1, PageKept DEF ReplayInv, PagePart, Source, In
    <3> QED
      BY <3>1, <3>2, <3>3 DEF ReplayInv
  <2>3. CASE Handler /\ UNCHANGED pageVars
    BY <2>3, HandlerStep
  <2>4. CASE VehiclesEvent \/ ProgressEvent \/ StreamClosed \/ pauseReplay
    BY <2>4, VehiclesStep, ProgressStep, StreamClosedStep, PauseStep
  <2> QED
    BY <1>3, <2>1, <2>2, <2>3, <2>4 DEF Else
<1>4. CASE \E r \in Regions : SwitchAnswered(r) \/ SwitchRefused(r)
  BY <1>4, SwitchAnsweredStep, SwitchRefusedStep
<1>5. CASE UNCHANGED vars
  <2>1. UNCHANGED <<feedVars, stream, catalog>> /\ UNCHANGED pageVars
    BY <1>5 DEF vars, feedVars, pageVars
  <2>2. FeedPart' /\ CatalogPart' /\ StreamPart'
    BY <2>1, OthersKept DEF ReplayInv, StreamPart, feedVars
  <2>3. PagePart'
    BY <2>1, PageKept DEF ReplayInv, PagePart, Source, In
  <2> QED
    BY <2>2, <2>3 DEF ReplayInv
<1> QED
  BY <1>1, <1>2, <1>3, <1>4, <1>5 DEF Next

-----------------------------------------------------------------------------
(* What the invariant implies *)

\* The mutations up to the frame that was sent are those that have been merged.
LEMMA ExactFromInv ==
  ASSUME StreamPart
  PROVE  FrameIsExact
<1> DEFINE s == stream
           seen == {m \in s.mutations : Truncate(m.at) <= FrameAt}
<1> SUFFICES ASSUME In("play"), s.sent
             PROVE  MergedAt(s.merged, seen)
  BY DEF FrameIsExact, MergedAt
<1>1. s.phase = "play" /\ ~In("idle")
  BY DEF In
<1>2. s \in Streams /\ FrameStateAt(s)
  BY <1>1, StreamPhase
<1>3. OrderAt(s) /\ MergedAt(s.merged, PassedAt(s)) /\ s.frames # {}
  BY <1>1, <1>2 DEF FrameStateAt, OrderAt
<1>4. Min(s.frames) \in s.frames /\ Min(s.frames) \in Nat /\ \A f \in s.frames : Min(s.frames) <= f
  BY <1>2, <1>3, FrameFacts
<1>5. ASSUME NEW m \in s.mutations
      PROVE  Truncate(m.at) <= Min(s.frames)
             <=> Truncate(m.at) \notin s.frames \/ Truncate(m.at) = Min(s.frames)
  <2>1. Truncate(m.at) \in Nat
    BY <1>2, FrameFacts
  <2>2. Truncate(m.at) \in s.frames \/ Truncate(m.at) < Min(s.frames)
    BY <1>3, <1>4 DEF OrderAt
  <2> QED
    BY <1>4, <2>1, <2>2
<1>6. seen = PassedAt(s)
  BY <1>5 DEF PassedAt, FrameAt
<1> QED
  BY <1>3, <1>6

LEMMA CompleteFromInv ==
  ASSUME StreamPart
  PROVE  DrainIsComplete
<1> DEFINE s == stream
           inRegion == Range(AgenciesOf[s.region]) \cap Agencies
<1> SUFFICES ASSUME s.phase \in {"fold", "play"}
             PROVE  /\ \A m \in s.mutations : m.agency \in inRegion /\ Wanted(m)
                    /\ \A a \in inRegion : \A n \in (oldest[a] + 1)..s.committed[a] :
                          Wanted(feed[a][n]) => feed[a][n] \in s.mutations
  BY DEF DrainIsComplete
<1>1. s \in Streams /\ MutAt(feed, oldest, s)
  BY StreamPhase DEF In
<1>2. s.drain.todo = <<>> /\ s.drain \in Drains /\ s.region \in Regions /\ s.mutations \subseteq Mutations
  BY <1>1 DEF MutAt, Streams
<1>3. Visited(s.drain, s.region) = Range(AgenciesOf[s.region])
  BY <1>2, AllVisited
<1>4. \A m \in s.mutations : m.agency \in Agencies
  BY <1>2 DEF Mutations
<1> QED
  BY <1>1, <1>3, <1>4 DEF MutAt, FoundAt, VisitedAt, Wanted, WantedAt

LEMMA CatalogFromInv ==
  ASSUME FeedPart, CatalogPart
  PROVE  CatalogIsExact
<1> DEFINE c == catalog
<1> SUFFICES ASSUME c.phase = "answered",
                    NEW a \in Range(AgenciesOf[c.region]) \cap Agencies
             PROVE  LET e == c.entries[a]
                        seen == {feed[a][n] : n \in (e.first + 1)..e.last}
                        ts == {m.at : m \in {k \in seen : k.vehicle \notin ColonIDs}}
                    IN  /\ e.count = Cardinality(seen)
                        /\ e.first <= oldest[a] /\ c.committed[a] <= e.last
                        /\ e.from = IF ts = {} THEN 0 ELSE Min(ts)
                        /\ e.to = IF ts = {} THEN 0 ELSE Max(ts)
  BY DEF CatalogIsExact
<1> DEFINE e == c.entries[a]
<1>1. c \in Catalogs /\ CatAt(feed, oldest, c)
  BY CatalogPhase
<1>2. c.drain.todo = <<>> /\ c.drain \in Drains /\ c.region \in Regions /\ e \in Entries
  BY <1>1 DEF CatAt, Catalogs
<1>3. a \in Visited(c.drain, c.region)
  BY <1>2, AllVisited
<1>4. EntryAt(feed, oldest, c, a)
  BY <1>1 DEF CatAt
<1>5. /\ e.first <= oldest[a] /\ e.first <= e.last
      /\ c.committed[a] <= e.last /\ e.last <= Len(feed[a])
      /\ SummaryAt(feed, a, e, e.first, e.last)
  BY <1>3, <1>4 DEF EntryAt
<1>6. e.first \in Nat /\ e.last \in Nat
  BY <1>2 DEF Entries
<1>7. Cardinality(SpanAt(feed, a, e.first, e.last)) = e.last - e.first
  <2> HIDE DEF e
  <2> QED
    BY <1>5, <1>6, SpanCount DEF FeedPart
<1>8. e.count = Cardinality(SpanAt(feed, a, e.first, e.last))
  BY <1>5, <1>7 DEF SummaryAt
<1> HIDE DEF e
<1>9. LET seen == {feed[a][n] : n \in (e.first + 1)..e.last}
          ts == {m.at : m \in {k \in seen : k.vehicle \notin ColonIDs}}
      IN  /\ e.count = Cardinality(seen)
          /\ e.first <= oldest[a] /\ c.committed[a] <= e.last
          /\ e.from = IF ts = {} THEN 0 ELSE Min(ts)
          /\ e.to = IF ts = {} THEN 0 ELSE Max(ts)
  BY <1>5, <1>8 DEF SummaryAt, TimesAt, SpanAt
<1> QED
  BY <1>9 DEF e

\* Only the time of a frame moves the page's last frame forward, and no second
\* lies between the last frame and the first one still to come.
LEMMA NothingSkipped ==
  ASSUME ReplayInv, [Next]_vars,
         0 < page.lastFrameAt, page.lastFrameAt < page'.lastFrameAt,
         NEW m \in stream.mutations
  PROVE  ~(page.lastFrameAt < Truncate(m.at) /\ Truncate(m.at) < page'.lastFrameAt)
<1>1. /\ page \in [region : Regions, lastFrameAt : Nat, stop : {"disabled", "Stop", "Resume"},
                   markers : SUBSET Mutations]
      /\ page.lastFrameAt \in Nat
  BY DEF ReplayInv, PagePart, PageType
<1>2. page'.lastFrameAt # page.lastFrameAt /\ page'.lastFrameAt # 0
  <2>1. ~(page.lastFrameAt < page.lastFrameAt) /\ ~(page.lastFrameAt < 0)
    BY <1>1
  <2> QED
    BY <2>1
<1>3. ASSUME page' = page \/ \E x : page' = [page EXCEPT !.stop = x] \/ page' = [page EXCEPT !.region = x]
                          \/ page' = [page EXCEPT !.markers = x]
      PROVE  FALSE
  BY <1>1, <1>2, <1>3
<1>4. ASSUME \E x : page' = [resetReplay EXCEPT !.markers = x] \/ page' = resetReplay PROVE FALSE
  BY <1>1, <1>2, <1>4 DEF resetReplay
<1>5. ProgressEvent /\ Source
  <2>1. ~Start
    BY <1>3 DEF Start, PlayClicked, Resume, SpeedChanged, startReplay, pageVars
  <2>2. ~Switch
    BY <1>3 DEF Switch, SwitchRegion
  <2>3. ~(\E r \in Regions : SwitchAnswered(r) \/ SwitchRefused(r))
    BY <1>3, <1>4 DEF SwitchAnswered, SwitchRefused
  <2>4. ~UNCHANGED vars
    BY <1>3 DEF vars
  <2>5. Else => ProgressEvent /\ Source
    <3>1. ~UNCHANGED pageVars
      BY <1>3 DEF pageVars
    <3>2. ~VehiclesEvent
      BY <1>3 DEF VehiclesEvent
    <3>3. ~StreamClosed
      BY <1>3, <1>4 DEF StreamClosed
    <3>4. ~pauseReplay
      BY <1>3 DEF pauseReplay
    <3>5. ProgressEvent => Source
      BY <1>3 DEF ProgressEvent
    <3> QED
      BY <3>1, <3>2, <3>3, <3>4, <3>5 DEF Else
  <2> QED
    BY <2>1, <2>2, <2>3, <2>4, <2>5 DEF Next
<1>6. /\ stream \in Streams /\ stream.phase = "play" /\ stream.frames # {}
  BY <1>5, SendProgressStep DEF ProgressEvent, ReplayInv
<1>7. page'.lastFrameAt = Min(stream.frames)
  BY <1>1, <1>5 DEF ProgressEvent, FrameAt
<1>8. /\ Min(stream.frames) \in Nat /\ \A f \in stream.frames : Min(stream.frames) <= f
      /\ Truncate(m.at) \in Nat
  BY <1>6, FrameFacts
<1>9. Truncate(m.at) \in stream.frames \/ Truncate(m.at) <= page.lastFrameAt
  BY <1>5, <1>6 DEF ReplayInv, PagePart, PlayAt
<1> QED
  BY <1>1, <1>7, <1>8, <1>9

-----------------------------------------------------------------------------
(* The pages together *)

\* Each step of the two tabs is a step of the replay page or leaves it alone.
LEMMA ReplayStep ==
  ASSUME [PagesNext]_<<vars, liveVars>>
  PROVE  [Next]_vars
BY DEF PagesNext, ReplaySwitched, SessionForgotten, LiveWorks, Next

\* Each step is a step of the live map or leaves it alone.
LEMMA LiveStep ==
  ASSUME [PagesNext]_<<vars, liveVars>>
  PROVE  [Live!Next]_(Live!vars)
<1>1. UNCHANGED liveVars => UNCHANGED Live!vars
  BY DEF liveVars, Live!vars
<1>2. (\E r \in Regions : Live!Elsewhere(r)) => Live!Next
  BY DEF Live!Next
<1>3. ReplaySwitched => (\E r \in Regions : Live!Elsewhere(r)) \/ UNCHANGED liveVars
  BY DEF ReplaySwitched
<1>4. SessionForgotten => \E r \in Regions : Live!Elsewhere(r)
  BY FirstAssumption DEF SessionForgotten
<1>5. LiveWorks => Live!Next
  BY DEF LiveWorks, Live!Next
<1>6. Live!Break \/ (\E n \in 0..MaxChunks : Live!Snapshot(n))
      \/ (\E r \in Regions : Live!switchRegion(r)) => Live!Next
  BY DEF Live!Next
<1> QED
  BY <1>1, <1>2, <1>3, <1>4, <1>5, <1>6 DEF PagesNext

\* Live and LP name the same specification: what LivePage_proofs shows of it
\* holds of the live map here.
LEMMA LiveIsLP ==
  /\ Live!Init => LP!Init
  /\ [Live!Next]_(Live!vars) => [LP!Next]_(LP!vars)
  /\ LP!IInv <=> Live!IInv
  /\ LP!IInv' <=> Live!IInv'
<1>1. Live!Init => LP!Init
  BY DEF Live!Init, LP!Init
<1>2. LP!IInv <=> Live!IInv
  BY DEF Live!IInv, LP!IInv, Live!TypeOK, LP!TypeOK, Live!AgreeState, LP!AgreeState,
      Live!DrawState, LP!DrawState, Live!Replaced, LP!Replaced, Live!Maps, LP!Maps,
      Live!Kinds, LP!Kinds, Live!Lists, LP!Lists, Live!AllChunks, LP!AllChunks, Live!Chunks,
      LP!Chunks
<1>3. LP!IInv' <=> Live!IInv'
  BY DEF Live!IInv, LP!IInv, Live!TypeOK, LP!TypeOK, Live!AgreeState, LP!AgreeState,
      Live!DrawState, LP!DrawState, Live!Replaced, LP!Replaced, Live!Maps, LP!Maps,
      Live!Kinds, LP!Kinds, Live!Lists, LP!Lists, Live!AllChunks, LP!AllChunks, Live!Chunks,
      LP!Chunks
<1>4. UNCHANGED Live!vars => UNCHANGED LP!vars
  BY DEF Live!vars, LP!vars
<1>5. Live!OpenPage \/ Live!StreamServed \/ Live!onopen \/ Live!Break => LP!Next
  BY DEF LP!Next, Live!OpenPage, LP!OpenPage, Live!StreamServed, LP!StreamServed,
      Live!onopen, LP!onopen, Live!Break, LP!Break, Live!connectStream, LP!connectStream,
      Live!Outdated, LP!Outdated, Live!requestVars, LP!requestVars, Live!mapVars, LP!mapVars
<1>6. Live!Frame => LP!Next
  BY DEF LP!Next, Live!Frame, LP!Frame, Live!Drawn, LP!Drawn, Live!Remaining, LP!Remaining,
      Live!Draw, LP!Draw, Live!updateVehicle, LP!updateVehicle, Live!Finished, LP!Finished,
      Live!Chunks, LP!Chunks, Live!requestVars, LP!requestVars
<1>7. (\E n \in 0..MaxChunks : Live!Snapshot(n)) => LP!Next
  BY DEF LP!Next, Live!Snapshot, LP!Snapshot, Live!Outdated, LP!Outdated, Live!requestVars,
      LP!requestVars
<1>8. (\E r \in Regions : Live!switchRegion(r) \/ Live!Elsewhere(r)) => LP!Next
  BY DEF LP!Next, Live!switchRegion, LP!switchRegion, Live!Elsewhere, LP!Elsewhere,
      Live!requestVars, LP!requestVars, Live!mapVars, LP!mapVars
<1>9. Live!Answered => LP!Next
  BY DEF LP!Next, Live!Answered, LP!Answered, Live!GetServed, LP!GetServed, Live!GetFails,
      LP!GetFails, Live!PostStored, LP!PostStored, Live!PostServed, LP!PostServed,
      Live!PostFails, LP!PostFails, Live!Synced, LP!Synced, Live!Loaded, LP!Loaded,
      Live!Switched, LP!Switched, Live!connectStream, LP!connectStream, Live!Outdated,
      LP!Outdated, Live!mapVars, LP!mapVars, Live!RemoveAt, LP!RemoveAt
<1>10. Live!Next => LP!Next
  BY <1>5, <1>6, <1>7, <1>8, <1>9 DEF Live!Next
<1> QED
  BY <1>1, <1>2, <1>3, <1>4, <1>10

-----------------------------------------------------------------------------
(* The theorems *)

\* The two tabs together are an implementation of the replay page: the live map
\* and what becomes of the session never interfere with it.
THEOREM ReplayComposed == PagesSpec => Spec
<1>1. PagesInit => PlayerInit
  BY DEF PagesInit
<1>2. [PagesNext]_<<vars, liveVars>> => [Next]_vars
  BY ReplayStep
<1> QED
  BY <1>1, <1>2, PTL DEF PagesSpec, Spec

\* They are an implementation of the live map, too: to the live map the replay
\* page's switches are steps of another tab of its session.
THEOREM LiveComposed == PagesSpec => Live!Spec
<1>1. PagesInit => Live!Init
  BY DEF PagesInit
<1>2. [PagesNext]_<<vars, liveVars>> => [Live!Next]_(Live!vars)
  BY LiveStep
<1> QED
  BY <1>1, <1>2, PTL DEF PagesSpec, Live!Spec

\* The replay page, its streams, the feeds and the catalogue always satisfy the
\* inductive invariant.
THEOREM ReplayInvariance == Spec => []IInv
<1>1. PlayerInit => IInv
  BY ReplayInit, InvByParts DEF ReplayInv
<1>2. IInv /\ [Next]_vars => IInv'
  <2> SUFFICES ASSUME IInv, [Next]_vars PROVE IInv'
    OBVIOUS
  <2>1. ReplayInv
    BY InvByParts DEF ReplayInv
  <2>2. ReplayInv'
    BY <2>1, ReplayNext
  <2> QED
    BY <2>2, InvByPartsPrime DEF ReplayInv
<1> QED
  BY <1>1, <1>2, PTL DEF Spec

\* Both tabs always satisfy their inductive invariants.
THEOREM PagesInvariance == PagesSpec => []PagesIInv
<1>1. Live!Init => Live!IInv
  BY FirstAssumption, ChunksAssumption, LP!InitInv, LiveIsLP
<1>2. Live!IInv /\ [Live!Next]_(Live!vars) => Live!IInv'
  BY ChunksAssumption, LP!NextInv, LiveIsLP
<1>3. Live!Spec => []Live!IInv
  BY <1>1, <1>2, PTL DEF Live!Spec
<1> QED
  BY <1>3, ReplayComposed, LiveComposed, ReplayInvariance, PTL DEF PagesIInv

\* Every frame that is sent shows each vehicle once, at a position of its latest
\* second so far, also after Resume and while the feeds grow.
THEOREM FramesAreExact == PagesSpec => []FrameIsExact
<1>1. IInv => FrameIsExact
  BY InvByParts, ExactFromInv
<1> QED
  BY <1>1, ReplayComposed, ReplayInvariance, PTL

\* Every stream that plays has found what had been committed and not trimmed,
\* and nothing outside its region and interval.
THEOREM DrainsAreComplete == PagesSpec => []DrainIsComplete
<1>1. IInv => DrainIsComplete
  BY InvByParts, CompleteFromInv
<1> QED
  BY <1>1, ReplayComposed, ReplayInvariance, PTL

\* Once its switches are answered the replay page plays and shows the region it
\* names.
THEOREM RegionIsShown == PagesSpec => []RegionShown
<1>1. IInv => RegionShown
  BY DEF IInv
<1> QED
  BY <1>1, ReplayComposed, ReplayInvariance, PTL

\* Every answered catalogue counts and dates one interval of each feed, whatever
\* is written and trimmed while its pages are read.
THEOREM CatalogsAreExact == PagesSpec => []CatalogIsExact
<1>1. IInv => CatalogIsExact
  BY InvByParts, CatalogFromInv
<1> QED
  BY <1>1, ReplayComposed, ReplayInvariance, PTL

\* No step of the page from one frame to a later one passes over a second of
\* what it replays, not even across Stop and Resume or a change of speed.
THEOREM NoFrameIsSkipped == PagesSpec => NoFrameSkipped
<1> DEFINE Continues ==
             0 < page.lastFrameAt /\ page.lastFrameAt < page'.lastFrameAt =>
                \A m \in stream.mutations :
                   ~(page.lastFrameAt < Truncate(m.at) /\ Truncate(m.at) < page'.lastFrameAt)
<1>1. IInv /\ [Next]_vars => [Continues]_vars
  BY InvByParts, NothingSkipped DEF ReplayInv
<1>2. Spec => [][Continues]_vars
  BY <1>1, ReplayInvariance, PTL DEF Spec
<1> QED
  BY <1>2, ReplayComposed, PTL DEF NoFrameSkipped

\* The live map names the region of its stream once its requests are answered,
\* although the replay page switches the session's region.
THEOREM LivePageAgrees == PagesSpec => []PageAgrees
<1>1. Live!IInv => Live!PageAgrees
  BY LP!AgreesFromInv, LiveIsLP DEF LP!PageAgrees, LP!Quiet, Live!PageAgrees, Live!Quiet
<1>2. PagesIInv => PageAgrees
  BY <1>1 DEF PagesIInv, PageAgrees
<1> QED
  BY <1>2, PagesInvariance, PTL

\* The live map shows the vehicles of the newest list, and no others.
THEOREM LiveMapIsLatest == PagesSpec => []MapIsLatest
<1>1. Live!IInv => Live!MapIsLatest
  BY LP!LatestFromInv, LiveIsLP
  DEF LP!MapIsLatest, LP!Quiet, LP!Chunks, Live!MapIsLatest, Live!Quiet, Live!Chunks
<1>2. PagesIInv => MapIsLatest
  BY <1>1 DEF PagesIInv, MapIsLatest
<1> QED
  BY <1>2, PagesInvariance, PTL

=============================================================================
