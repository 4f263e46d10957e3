--------------------------- MODULE WebShownProofs ---------------------------
(***************************************************************************)
(* Proofs that what the page shows is so, or was: cards, previews,         *)
(* messages, events, projects, templates and errors are the server's, in   *)
(* its order, and the graph calls ready what a worker may claim; and that  *)
(* every part of the page keeps its types.  For any number of projects,    *)
(* tickets, messages, events, workers and calls.                           *)
(***************************************************************************)
EXTENDS WebOnceProofs, WellFoundedInduction

-----------------------------------------------------------------------------
(* Numbers, and induction over them with sets for statements.               *)

LEMMA NatOrder == IsWellFoundedOn({ss \in Nat \X Nat: ss[1] < ss[2]}, Nat)
BY NatLessThanWellFounded DEF OpToRel

\* A set of natural numbers that is not empty has a least one.
LEMMA LeastNumber ==
  ASSUME NEW S, S \subseteq Nat, S # {}
  PROVE  \E n \in S: \A m \in S: n <= m
<1> DEFINE R == {ss \in Nat \X Nat: ss[1] < ss[2]}
<1>1. IsWellFoundedOn(R, Nat)
  BY NatOrder
<1> HIDE DEF R
<1>2. PICK n \in S: \A m \in S: ~(<<m, n>> \in R)
  BY <1>1, WFMin
<1>3. \A m \in S: ~(m < n)
  BY <1>2 DEF R
<1>4. n \in Nat /\ \A m \in S: m \in Nat
  OBVIOUS
<1>5. \A m \in S: n <= m
  BY <1>3, <1>4
<1>6. QED BY <1>5

\* Induction, with the set of the numbers a statement holds of.
LEMMA AllNumbers ==
  ASSUME NEW S, 0 \in S, \A n \in Nat: n \in S => n + 1 \in S
  PROVE  Nat \subseteq S
<1> DEFINE T == {n \in Nat: n \notin S}
<1>1. SUFFICES ASSUME T # {} PROVE FALSE
  OBVIOUS
<1>2. PICK n \in T: \A m \in T: n <= m
  BY <1>1, LeastNumber
<1>3. n # 0 /\ n - 1 \in Nat /\ n - 1 \notin T
  BY <1>2
<1>4. QED BY <1>3

\* A bounded one has a greatest.
LEMMA GreatestNumber ==
  ASSUME NEW N \in Nat, NEW S, S \subseteq 0..N, S # {}
  PROVE  \E n \in S: \A m \in S: m <= n
<1> DEFINE T == {N - m: m \in S}
<1>1. \A m \in S: m \in 0..N /\ N - m \in Nat
  OBVIOUS
<1>2. T \subseteq Nat /\ T # {}
  BY <1>1
<1> HIDE DEF T
<1>3. PICK k \in T: \A l \in T: k <= l
  BY <1>2, LeastNumber
<1>4. PICK n \in S: k = N - n
  BY DEF T
<1>5. \A m \in S: N - n <= N - m
  BY <1>3, <1>4 DEF T
<1>6. QED BY <1>1, <1>5

\* What a function makes of a finite set is finite.
LEMMA FiniteImage ==
  ASSUME NEW S, IsFiniteSet(S), NEW g
  PROVE  IsFiniteSet({g[x]: x \in S})
<1> DEFINE T == {g[x]: x \in S}
           h == [x \in S |-> g[x]]
<1>1. h \in Surjection(S, T)
  BY DEF Surjection
<1>2. QED BY <1>1, FS_Surjection

-----------------------------------------------------------------------------
(* Events: what the page shows is in order.                                 *)

\* No two events of a set have the same id; a list of events goes up.
Apart(S) == \A d, e \in S: d.id = e.id => d = e
Rising(s) == \A i, j \in DOMAIN s: i < j => s[i].id < s[j].id
SortsOf(S) == {s \in [1..Cardinality(S) -> S]: Rising(s)}

\* A finite set of events of which no two have the same id can be put in order.
LEMMA EventsInOrder ==
  ASSUME NEW S \in SUBSET Event, IsFiniteSet(S), Apart(S)
  PROVE  SortsOf(S) # {}
<1> DEFINE Sizes == {n \in Nat: \A T \in SUBSET Event:
                        IsFiniteSet(T) /\ Apart(T) /\ Cardinality(T) = n => SortsOf(T) # {}}
<1>1. 0 \in Sizes
  <2>1. ASSUME NEW T \in SUBSET Event, IsFiniteSet(T), Cardinality(T) = 0 PROVE SortsOf(T) # {}
    <3>1. T = {}
      BY <2>1, FS_EmptySet
    <3>2. <<>> \in [1..0 -> T] /\ Rising(<<>>)
      BY DEF Rising
    <3>3. QED BY <2>1, <3>2 DEF SortsOf
  <2>2. QED BY <2>1
<1>2. ASSUME NEW n \in Nat, n \in Sizes PROVE n + 1 \in Sizes
  <2>1. ASSUME NEW T \in SUBSET Event, IsFiniteSet(T), Apart(T), Cardinality(T) = n + 1
        PROVE SortsOf(T) # {}
    <3> DEFINE ids == {e.id: e \in T}
    <3>1. T # {}
      BY <2>1, FS_EmptySet
    <3>2. PICK top \in Nat: ids \subseteq 0..top
      <4>1. MaxEvent + DemoLast \in Nat
        BY EventsAssumption
      <4>2. \A e \in T: e.id \in 0..(MaxEvent + DemoLast)
        BY EventsAssumption DEF Event
      <4>3. ids \subseteq 0..(MaxEvent + DemoLast)
        BY <4>2
      <4>4. QED BY <4>1, <4>3
    <3>3. PICK m \in ids: \A i \in ids: i <= m
      BY <3>1, <3>2, GreatestNumber
    <3>4. PICK e \in T: e.id = m
      OBVIOUS
    <3> DEFINE U == T \ {e}
    <3>5. IsFiniteSet(U) /\ Cardinality(U) = n
      <4>1. IsFiniteSet(U) /\ Cardinality(U) = Cardinality(T) - 1
        BY <2>1, <3>4, FS_RemoveElement
      <4>2. QED BY <2>1, <4>1
    <3>6. Apart(U) /\ U \in SUBSET Event
      BY <2>1 DEF Apart
    <3>7. PICK s \in SortsOf(U): TRUE
      BY <1>2, <3>5, <3>6
    <3> DEFINE t == [i \in 1..(n + 1) |-> IF i <= n THEN s[i] ELSE e]
    <3>8. s \in [1..n -> U] /\ Rising(s)
      BY <3>5 DEF SortsOf
    <3>9. t \in [1..(n + 1) -> T]
      BY <3>8
    <3>10. \A d \in U: d.id < e.id
      <4>1. TAKE d \in U
      <4>2. d.id <= e.id /\ d.id # e.id
        BY <2>1, <3>3, <3>4 DEF Apart
      <4>3. d.id \in Nat /\ e.id \in Nat
        BY EventsAssumption DEF Event
      <4>4. QED BY <4>2, <4>3
    <3>11. ASSUME NEW i \in 1..(n + 1), NEW j \in 1..(n + 1), i < j PROVE t[i].id < t[j].id
      <4>1. i \in 1..n /\ t[i] = s[i]
        BY <3>11
      <4>2. CASE j <= n
        <5>1. j \in 1..n /\ t[j] = s[j]
          BY <3>11, <4>2
        <5>2. QED BY <3>8, <3>11, <4>1, <5>1 DEF Rising
      <4>3. CASE ~(j <= n)
        <5>1. t[j] = e /\ s[i] \in U
          BY <3>8, <4>1, <4>3
        <5>2. QED BY <3>10, <4>1, <5>1
      <4>4. QED BY <4>2, <4>3
    <3> HIDE DEF t
    <3>12. Rising(t)
      BY <3>9, <3>11 DEF Rising
    <3>13. QED BY <2>1, <3>9, <3>12 DEF SortsOf
  <2>2. QED BY <2>1
<1> HIDE DEF Sizes
<1>3. Nat \subseteq Sizes
  BY <1>1, <1>2, AllNumbers
<1>4. Cardinality(S) \in Sizes
  BY <1>3, FS_CardinalityType
<1>5. QED BY <1>4 DEF Sizes

LEMMA InOrderIs ==
  ASSUME NEW S \in SUBSET Event, IsFiniteSet(S), Apart(S)
  PROVE  /\ InOrder(S) \in [1..Cardinality(S) -> S] /\ Rising(InOrder(S))
         /\ InOrder(S) \in Seq(Event) /\ Cardinality(S) \in Nat
<1>1. PICK s \in [1..Cardinality(S) -> S]: Rising(s)
  BY EventsInOrder DEF SortsOf
<1>2. InOrder(S) \in [1..Cardinality(S) -> S] /\ Rising(InOrder(S))
  BY <1>1 DEF InOrder, Rising
<1>3. Cardinality(S) \in Nat
  BY FS_CardinalityType
<1>4. QED BY <1>2, <1>3

\* The events of a list that goes up.
LEMMA RangeApart ==
  ASSUME NEW s \in Seq(Event), Rising(s)
  PROVE  Range(s) \in SUBSET Event /\ IsFiniteSet(Range(s)) /\ Apart(Range(s))
<1>1. DOMAIN s = 1..Len(s) /\ Len(s) \in Nat /\ \A i \in DOMAIN s: s[i] \in Event
  OBVIOUS
<1>2. Range(s) \in SUBSET Event
  BY <1>1 DEF Range
<1>3. IsFiniteSet(DOMAIN s)
  BY <1>1, FS_Interval
<1>4. IsFiniteSet(Range(s))
  BY <1>3, FiniteImage DEF Range
<1>5. ASSUME NEW d \in Range(s), NEW e \in Range(s), d.id = e.id PROVE d = e
  <2>1. PICK i \in DOMAIN s: s[i] = d
    BY DEF Range
  <2>2. PICK j \in DOMAIN s: s[j] = e
    BY DEF Range
  <2>3. d.id \in Nat /\ i \in Nat /\ j \in Nat
    BY <1>1, <1>2, EventsAssumption DEF Event
  <2>4. ~(i < j) /\ ~(j < i)
    BY <1>5, <2>1, <2>2, <2>3 DEF Rising
  <2>5. QED BY <2>1, <2>2, <2>3, <2>4
<1>6. QED BY <1>2, <1>4, <1>5 DEF Apart

\* What is appended has ids that are not there yet, and nothing is lost.
LEMMA MergedInOrder ==
  ASSUME NEW s \in Seq(Event), Rising(s), NEW data \in Seq(Event), Rising(data)
  PROVE  Merged(s, data) \in Seq(Event) /\ Rising(Merged(s, data))
<1> DEFINE new == {e \in Range(data): e.id \notin Known(s)}
           all == Range(s) \cup new
<1>1. /\ Range(s) \in SUBSET Event /\ IsFiniteSet(Range(s)) /\ Apart(Range(s))
      /\ Range(data) \in SUBSET Event /\ IsFiniteSet(Range(data)) /\ Apart(Range(data))
  BY RangeApart
<1>2. IsFiniteSet(new)
  BY <1>1, FS_Subset
<1>3. IsFiniteSet(all) /\ all \in SUBSET Event
  BY <1>1, <1>2, FS_Union
<1>4. \A d \in Range(s): d.id \in Known(s)
  BY DEF Range, Known
<1>5. Apart(all)
  BY <1>1, <1>4 DEF Apart
<1> HIDE DEF all
<1>6. InOrder(all) \in Seq(Event) /\ Rising(InOrder(all))
  BY <1>3, <1>5, InOrderIs
<1>7. QED BY <1>6 DEF Merged, all

\* What the server answers: its events after an id, a page of them.
LEMMA EventsRise ==
  ASSUME ActivityTypeOK, NEW p, NEW after
  PROVE  Events(p, after) \in Seq(Event) /\ Rising(Events(p, after))
<1> DEFINE ids == {n \in 1..Len(journal): journal[n] = p /\ n > after}
           S == {EventAt(i): i \in ids}
           g == [i \in ids |-> EventAt(i)]
<1>1. Len(journal) \in Nat /\ Len(journal) <= MaxEvent
      /\ \A n \in 1..Len(journal): journal[n] \in Projects
  BY DEF ActivityTypeOK
<1>2. \A i \in ids: EventAt(i).id = i /\ EventAt(i) \in Event
  BY <1>1, EventsAssumption DEF EventAt, Event, Sources
<1>3. IsFiniteSet(ids)
  <2>1. IsFiniteSet(1..Len(journal))
    BY <1>1, FS_Interval
  <2>2. ids \in SUBSET (1..Len(journal))
    OBVIOUS
  <2>3. QED BY <2>1, <2>2, FS_Subset
<1>4. IsFiniteSet({g[i]: i \in ids})
  BY <1>3, FiniteImage
<1>5. S = {g[i]: i \in ids}
  OBVIOUS
<1>6. S \in SUBSET Event /\ Apart(S)
  BY <1>2 DEF Apart
<1>7. Events(p, after) = InOrder(S)
  BY DEF Events
<1> HIDE DEF S
<1>8. QED BY <1>4, <1>5, <1>6, <1>7, InOrderIs

LEMMA PageRises ==
  ASSUME NEW s \in Seq(Event), Rising(s), NEW size \in Nat
  PROVE  Page(s, size) \in Seq(Event) /\ Rising(Page(s, size))
<1> DEFINE n == IF Len(s) < size THEN Len(s) ELSE size
           t == SubSeq(s, 1, n)
<1>1. n \in 0..Len(s) /\ Len(s) \in Nat
  OBVIOUS
<1> HIDE DEF n
<1>2. t \in Seq(Event) /\ Len(t) = n /\ \A i \in 1..n: t[i] = s[i]
  BY <1>1
<1>3. DOMAIN t = 1..n /\ 1..n \subseteq DOMAIN s
  BY <1>1, <1>2
<1>4. Rising(t)
  BY <1>2, <1>3 DEF Rising
<1>5. QED BY <1>2, <1>4 DEF Page, n

\* A list that is being answered or shown goes up.
ActivityInv ==
  /\ ActivityTypeOK
  /\ Rising(stream)
  /\ \A c \in Calls: Rising(pull[c].data)

LEMMA PullValues ==
  /\ <<>> \in Seq(Event) /\ Rising(<<>>)
  /\ DemoEvents \in Seq(Event) /\ Rising(DemoEvents)
  /\ NoPull \in PullRecord /\ NoPull.data = <<>>
  /\ \A k \in {"load", "poll"}, p \in Projects, n \in 0..MaxEvent \cup {DemoLast}:
        Pull(k, p, n) \in PullRecord /\ Pull(k, p, n).data = <<>>
<1>1. <<>> \in Seq(Event) /\ Rising(<<>>)
  BY DEF Rising
<1>2. [id |-> DemoLast, of |-> "demo"] \in Event
  BY DEF Event, Sources
<1>3. DemoEvents \in Seq(Event) /\ DOMAIN DemoEvents = {1}
  BY <1>2 DEF DemoEvents
<1>4. Rising(DemoEvents)
  BY <1>3 DEF Rising
<1>5. 0 \in 0..MaxEvent
  BY EventsAssumption
<1>6. NoPull \in PullRecord /\ NoPull.data = <<>>
  BY <1>1, <1>5, DefaultProjectAssumption DEF NoPull, PullRecord
<1>7. ASSUME NEW k \in {"load", "poll"}, NEW p \in Projects,
             NEW n \in 0..MaxEvent \cup {DemoLast}
      PROVE  Pull(k, p, n) \in PullRecord /\ Pull(k, p, n).data = <<>>
  BY <1>6 DEF Pull, PullRecord
<1>8. QED BY <1>1, <1>3, <1>4, <1>6, <1>7

LEMMA ActivityStart == ActivityInit \/ ActivityAside => ActivityInv
<1>1. <<>> \in Seq(Projects) /\ Len(<<>>) = 0 /\ 0 \in 0..MaxEvent /\ 0 <= MaxEvent
  BY EventsAssumption
<1>2. ASSUME ActivityInit PROVE ActivityInv
  <2>1. PICK first \in Calls:
          pull = [c \in Calls |-> IF c = first THEN Pull("load", watched, 0) ELSE NoPull]
    BY <1>2 DEF ActivityInit
  <2>2. /\ Pull("load", watched, 0) \in PullRecord
        /\ Pull("load", watched, 0).data = <<>>
    BY <1>1, <1>2, PullValues DEF ActivityInit
  <2>3. pull \in [Calls -> PullRecord] /\ \A c \in Calls: pull[c].data = <<>>
    BY <2>1, <2>2, PullValues
  <2>4. QED BY <1>1, <1>2, <2>3, PullValues DEF ActivityInit, ActivityInv, ActivityTypeOK
<1>3. ASSUME ActivityAside PROVE ActivityInv
  <2>1. pull \in [Calls -> PullRecord] /\ \A c \in Calls: pull[c].data = <<>>
    BY <1>3, PullValues DEF ActivityAside
  <2>2. QED BY <1>1, <1>3, <2>1, PullValues, DefaultProjectAssumption
            DEF ActivityAside, ActivityInv, ActivityTypeOK
<1>4. QED BY <1>2, <1>3

\* A call changes, and nothing else.
LEMMA PullChanged ==
  ASSUME ActivityInv, NEW c \in Calls, NEW q \in PullRecord, Rising(q.data),
         pull' = [pull EXCEPT ![c] = q]
  PROVE  /\ pull' \in [Calls -> PullRecord]
         /\ \A d \in Calls: Rising(pull'[d].data)
BY DEF ActivityInv, ActivityTypeOK

LEMMA ActivityStep == ActivityInv /\ [ActivityNext]_activityVars => ActivityInv'
<1> SUFFICES ASSUME ActivityInv, [ActivityNext]_activityVars PROVE ActivityInv'
  OBVIOUS
<1>1. ASSUME NEW p \in Projects, LogEvent(p) PROVE ActivityInv'
  <2>1. journal' \in Seq(Projects) /\ Len(journal') <= MaxEvent
    BY <1>1, EventsAssumption DEF LogEvent, ActivityInv, ActivityTypeOK
  <2>2. QED BY <1>1, <2>1 DEF LogEvent, ActivityInv, ActivityTypeOK, Rising
\* A call goes on with a list.
<1>2. ASSUME NEW c \in Calls, NEW at \in {"answered", "failed"}, NEW data \in Seq(Event),
             Rising(data), pull' = [pull EXCEPT ![c].at = at, ![c].data = data],
             UNCHANGED <<journal, watched, stream, cursor, waiting>>
      PROVE  ActivityInv'
  <2> DEFINE q == [pull[c] EXCEPT !.at = at, !.data = data]
  <2>1. pull[c] \in PullRecord
    BY DEF ActivityInv, ActivityTypeOK
  <2>2. q \in PullRecord /\ q.data = data
    BY <1>2, <2>1 DEF PullRecord
  <2>3. pull' = [pull EXCEPT ![c] = q]
    BY <1>2 DEF ActivityInv, ActivityTypeOK
  <2> HIDE DEF q
  <2>4. QED BY <1>2, <2>2, <2>3, PullChanged DEF ActivityInv, ActivityTypeOK, Rising
<1>3. ASSUME NEW c \in Calls, ServePull(c) PROVE ActivityInv'
  <2> DEFINE all == Events(pull[c].project, pull[c].after)
             size == IF pull[c].kind = "load" THEN FirstPage ELSE NextPage
  <2>1. all \in Seq(Event) /\ Rising(all) /\ size \in Nat
    BY EventsRise, EventsAssumption DEF ActivityInv
  <2> HIDE DEF all, size
  <2>2. Page(all, size) \in Seq(Event) /\ Rising(Page(all, size))
    BY <2>1, PageRises
  <2>3. /\ pull' = [pull EXCEPT ![c].at = "answered", ![c].data = Page(all, size)]
        /\ UNCHANGED <<journal, watched, stream, cursor, waiting>>
    BY <1>3 DEF ServePull, all, size
  <2>4. QED BY <1>2, <2>2, <2>3
<1>4. ASSUME NEW c \in Calls, FailPull(c) PROVE ActivityInv'
  <2>1. /\ pull' = [pull EXCEPT ![c].at = "failed", ![c].data = <<>>]
        /\ UNCHANGED <<journal, watched, stream, cursor, waiting>>
    BY <1>4 DEF FailPull
  <2>2. QED BY <1>2, <2>1, PullValues
\* A call that is made.
<1>5. ASSUME NEW c \in Calls, NEW k \in {"load", "poll"}, NEW p \in Projects,
             NEW n \in 0..MaxEvent \cup {DemoLast}, StartPull(c, Pull(k, p, n)),
             watched' \in Projects, waiting' \in BOOLEAN, UNCHANGED <<journal, stream, cursor>>
      PROVE  ActivityInv'
  <2> DEFINE q == Pull(k, p, n)
  <2>1. q \in PullRecord /\ Rising(q.data)
    BY <1>5, PullValues
  <2>2. pull' = [pull EXCEPT ![c] = q]
    BY <1>5 DEF StartPull
  <2> HIDE DEF q
  <2>3. QED BY <1>5, <2>1, <2>2, PullChanged DEF ActivityInv, ActivityTypeOK, Rising
<1>6. ASSUME NEW c \in Calls, NEW p \in Projects, Watch(p, c) PROVE ActivityInv'
  <2>1. 0 \in 0..MaxEvent \cup {DemoLast}
    BY EventsAssumption
  <2>2. QED BY <1>5, <1>6, <2>1 DEF Watch
<1>7. ASSUME NEW c \in Calls, PollEvents(c) PROVE ActivityInv'
  BY <1>5, <1>7 DEF PollEvents, ActivityInv, ActivityTypeOK
\* The page shows a list.
<1>8. ASSUME NEW c \in Calls, PullDone(c), UNCHANGED <<journal, watched>>,
             waiting' \in BOOLEAN,
             \/ UNCHANGED <<stream, cursor>>
             \/ \E s \in Seq(Event): Rising(s) /\ EventsShown(s)
      PROVE  ActivityInv'
  <2>1. pull' \in [Calls -> PullRecord] /\ \A d \in Calls: Rising(pull'[d].data)
    BY <1>8, PullValues, PullChanged DEF PullDone
  <2>2. ASSUME NEW s \in Seq(Event) PROVE LastId(s) \in 0..MaxEvent \cup {DemoLast}
    <3>1. CASE s = <<>>
      BY <3>1, EventsAssumption DEF LastId
    <3>2. CASE s # <<>>
      <4>1. s[Len(s)] \in Event
        BY <3>2
      <4>2. QED BY <3>2, <4>1 DEF LastId, Last, Event
    <3>3. QED BY <3>1, <3>2
  <2>3. /\ stream' \in Seq(Event) /\ Rising(stream')
        /\ cursor' \in 0..MaxEvent \cup {DemoLast}
    BY <1>8, <2>2 DEF EventsShown, ActivityInv, ActivityTypeOK
  <2>4. QED BY <1>8, <2>1, <2>3 DEF ActivityInv, ActivityTypeOK, Rising
<1>9. ASSUME NEW c \in Calls, EventsLoaded(c) \/ EventsPolled(c) PROVE ActivityInv'
  <2>1. pull[c].data \in Seq(Event) /\ Rising(pull[c].data)
        /\ stream \in Seq(Event) /\ Rising(stream)
    BY DEF ActivityInv, ActivityTypeOK, PullRecord
  <2>2. CASE EventsLoaded(c)
    <3>1. \E s \in Seq(Event): Rising(s) /\ EventsShown(s)
      BY <2>1, <2>2, PullValues DEF EventsLoaded
    <3>2. QED BY <1>8, <2>2, <3>1 DEF EventsLoaded
  <2>3. CASE EventsPolled(c)
    <3>1. Merged(stream, pull[c].data) \in Seq(Event) /\ Rising(Merged(stream, pull[c].data))
      BY <2>1, MergedInOrder
    <3>2. \/ UNCHANGED <<stream, cursor>>
          \/ \E s \in Seq(Event): Rising(s) /\ EventsShown(s)
      BY <2>3, <3>1 DEF EventsPolled
    <3>3. waiting' \in BOOLEAN
      BY <2>3 DEF EventsPolled, ActivityInv, ActivityTypeOK
    <3>4. QED BY <1>8, <2>3, <3>2, <3>3 DEF EventsPolled
  <2>4. QED BY <1>9, <2>2, <2>3
<1>10. CASE UNCHANGED activityVars
  BY <1>10 DEF activityVars, ActivityInv, ActivityTypeOK, Rising
<1>11. QED BY <1>1, <1>3, <1>4, <1>6, <1>7, <1>9, <1>10 DEF ActivityNext

-----------------------------------------------------------------------------
(* The board: a card of a project is not newer than the ticket it is of.    *)

RealCards(b) ==
  \A i \in Ids: b[i].of \in Projects => b[i].ver <= server[b[i].of][i].ver

BoardInv ==
  /\ BoardTypeOK
  /\ RealCards(board)
  /\ \A r \in Calls: RealCards(request[r].data) /\ RealCards(request[r].kept)

LEMMA CardValues ==
  /\ Empty \in Boards /\ DemoTickets \in Boards /\ NoCard.ver = 0
  /\ \A i \in Ids: Empty[i] = NoCard /\ DemoTickets[i].ver = 0
  /\ \A k \in Kinds, p \in Projects, i \in Ids, b \in Boards:
        /\ Ask(k, p, i, b) \in RequestRecord
        /\ Ask(k, p, i, b).data = Empty /\ Ask(k, p, i, b).kept = b
<1>1. NoCard.ver = 0 /\ Empty \in Boards /\ \A i \in Ids: Empty[i] = NoCard
  BY DEF NoCard, Empty, Boards
<1>2. DemoTickets \in Boards /\ \A i \in Ids: DemoTickets[i].ver = 0
  BY DEF DemoTickets, Boards, Card
<1>3. ASSUME NEW k \in Kinds, NEW p \in Projects, NEW i \in Ids, NEW b \in Boards
      PROVE  /\ Ask(k, p, i, b) \in RequestRecord
             /\ Ask(k, p, i, b).data = Empty /\ Ask(k, p, i, b).kept = b
  BY <1>1 DEF Ask, RequestRecord
<1>4. QED BY <1>1, <1>2, <1>3

\* What shows no version at all.
LEMMA BlankCards ==
  ASSUME BoardTypeOK
  PROVE  RealCards(Empty) /\ RealCards(DemoTickets)
<1>1. \A p \in Projects, i \in Ids: server[p][i].ver \in Nat
  BY DEF BoardTypeOK
<1>2. QED BY <1>1, CardValues DEF RealCards

\* The tickets only get newer.
LEMMA CardsStayReal ==
  ASSUME BoardTypeOK, NEW p \in Projects, NEW i \in Ids, NEW live \in BOOLEAN, Write(p, i, live)
  PROVE  /\ server' \in [Projects -> [Ids -> [ver: Nat, live: BOOLEAN]]]
         /\ \A q \in Projects, j \in Ids: server[q][j].ver <= server'[q][j].ver
         /\ server'[p][i].ver = server[p][i].ver + 1
         /\ \A b \in Boards: RealCards(b) => RealCards(b)'
<1> DEFINE sheets == [Ids -> [ver: Nat, live: BOOLEAN]]
           fresh == [ver |-> server[p][i].ver + 1, live |-> live]
           table == [server[p] EXCEPT ![i] = fresh]
<1>1. server \in [Projects -> sheets] /\ fresh \in [ver: Nat, live: BOOLEAN]
  BY DEF BoardTypeOK
<1>2. table \in sheets /\ table[i] = fresh /\ \A j \in Ids: j # i => table[j] = server[p][j]
  BY <1>1
<1>3. server' = [server EXCEPT ![p] = table]
  BY <1>1 DEF Write
<1> HIDE DEF table
<1>4. /\ server' \in [Projects -> sheets] /\ server'[p] = table
      /\ \A q \in Projects: q # p => server'[q] = server[q]
  BY <1>1, <1>2, <1>3
<1>5. ASSUME NEW q \in Projects, NEW j \in Ids
      PROVE  /\ server[q][j].ver <= server'[q][j].ver
             /\ server[q][j].ver \in Nat /\ server'[q][j].ver \in Nat
  <2>1. server[q][j].ver \in Nat /\ server'[q][j].ver \in Nat
    BY <1>1, <1>4
  <2>2. server'[q][j] = server[q][j] \/ (q = p /\ j = i /\ server'[q][j] = fresh)
    BY <1>2, <1>4
  <2>3. QED BY <2>1, <2>2
<1>6. ASSUME NEW b \in Boards, RealCards(b) PROVE RealCards(b)'
  <2>1. \A j \in Ids: b[j].of \in Projects => b[j].ver \in Nat
    BY DEF Boards, Card, NoCard
  <2>2. QED BY <1>5, <1>6, <2>1 DEF RealCards
<1>7. server'[p][i].ver = server[p][i].ver + 1
  BY <1>2, <1>4
<1>8. QED BY <1>4, <1>5, <1>6, <1>7

\* The cards of tickets as the server has them, and one among others.
LEMMA CardIsReal ==
  ASSUME BoardTypeOK, NEW p \in Projects, NEW i \in Ids
  PROVE  /\ CardOf(p, i) \in Card /\ CardOf(p, i).of = p
         /\ CardOf(p, i).ver = server[p][i].ver
BY DEF BoardTypeOK, CardOf, Card

LEMMA OneCardReal ==
  ASSUME NEW b \in Boards, RealCards(b), NEW i \in Ids, NEW e \in Card \cup {NoCard},
         e.of \in Projects => e.ver <= server[e.of][i].ver
  PROVE  [b EXCEPT ![i] = e] \in Boards /\ RealCards([b EXCEPT ![i] = e])
<1> DEFINE d == [b EXCEPT ![i] = e]
<1>1. d \in Boards /\ d[i] = e /\ \A j \in Ids: j # i => d[j] = b[j]
  BY DEF Boards
<1> HIDE DEF d
<1>2. RealCards(d)
  BY <1>1 DEF RealCards
<1>3. QED BY <1>1, <1>2 DEF d

LEMMA ViewIsReal ==
  ASSUME BoardTypeOK, NEW p \in Projects
  PROVE  View(p) \in Boards /\ RealCards(View(p))
<1>1. View(p) \in Boards
  BY CardIsReal DEF View, Boards
<1>2. ASSUME NEW i \in Ids, View(p)[i].of \in Projects
      PROVE  View(p)[i].ver <= server[View(p)[i].of][i].ver
  <2>1. server[p][i].ver \in Nat
    BY DEF BoardTypeOK
  <2>2. CASE server[p][i].live
    BY <2>1, <2>2, CardIsReal DEF View
  <2>3. CASE ~server[p][i].live
    <3>1. View(p)[i] = NoCard
      BY <2>3 DEF View
    <3>2. server[NoCard.of][i].ver \in Nat
      BY <1>2, <3>1 DEF BoardTypeOK
    <3>3. QED BY <3>1, <3>2, CardValues
  <2>4. QED BY <2>2, <2>3
<1>3. QED BY <1>1, <1>2 DEF RealCards

\* One list over another.
LEMMA OverIsReal ==
  ASSUME NEW a \in Boards, NEW b \in Boards, RealCards(a), RealCards(b)
  PROVE  LET d == [i \in Ids |-> IF a[i] = NoCard THEN b[i] ELSE a[i]]
         IN  d \in Boards /\ RealCards(d)
BY DEF Boards, RealCards

LEMMA RequestValues ==
  /\ AnyId \in Ids
  /\ \A p \in Projects: /\ Load(p) \in RequestRecord
                         /\ Load(p).data = Empty /\ Load(p).kept = Empty
  /\ NoRequest \in RequestRecord /\ NoRequest.data = Empty /\ NoRequest.kept = Empty
<1>1. AnyId \in Ids
  BY BoardAssumption DEF AnyId
<1>2. ASSUME NEW p \in Projects
      PROVE  /\ Load(p) \in RequestRecord
             /\ Load(p).data = Empty /\ Load(p).kept = Empty
  <2>1. "load" \in Kinds
    BY DEF Kinds, Lists
  <2>2. QED BY <1>1, <2>1, CardValues DEF Load
<1>3. /\ NoRequest \in RequestRecord
      /\ NoRequest.data = Empty /\ NoRequest.kept = Empty
  <2> DEFINE any == CHOOSE p \in Projects: TRUE
             q == Load(any)
  <2>1. any \in Projects
    BY DefaultProjectAssumption
  <2> HIDE DEF any
  <2>2. q \in RequestRecord /\ q.data = Empty /\ q.kept = Empty
    BY <1>2, <2>1
  <2> HIDE DEF q
  <2>3. NoRequest = [q EXCEPT !.at = "free"]
    BY DEF NoRequest, q, any
  <2>4. QED BY <2>2, <2>3 DEF RequestRecord
<1>4. QED BY <1>1, <1>2, <1>3

LEMMA BoardStart == BoardInit \/ BoardAside => BoardInv
<1>1. /\ server \in [Projects -> [Ids -> [ver: Nat, live: BOOLEAN]]]
      /\ board \in Boards /\ selected \in Projects /\ demo \in BOOLEAN
      /\ request \in [Calls -> RequestRecord]
      /\ board = DemoTickets
      /\ \A r \in Calls: request[r].data = Empty /\ request[r].kept = Empty
      => BoardInv
  BY BlankCards DEF BoardInv, BoardTypeOK
<1>2. ASSUME BoardInit PROVE BoardInv
  <2>1. server \in [Projects -> [Ids -> [ver: Nat, live: BOOLEAN]]]
    <3>1. /\ {0} \in SUBSET Nat /\ {FALSE} \in SUBSET BOOLEAN
          /\ {TRUE} \in SUBSET BOOLEAN
      OBVIOUS
    <3>2. \A V \in SUBSET Nat, L \in SUBSET BOOLEAN:
            [ver: V, live: L] \subseteq [ver: Nat, live: BOOLEAN]
      OBVIOUS
    <3>3. /\ [ver: {0}, live: {FALSE}] \subseteq [ver: Nat, live: BOOLEAN]
          /\ [ver: {0}, live: {TRUE}] \subseteq [ver: Nat, live: BOOLEAN]
      BY <3>1, <3>2, Zenon
    <3>4. server \in [Projects -> [Ids -> [ver: {0}, live: {FALSE}] \cup [ver: {0}, live: {TRUE}]]]
      BY <1>2 DEF BoardInit
    <3>5. \A V: \A W: V \subseteq W /\ server \in [Projects -> [Ids -> V]]
                       => server \in [Projects -> [Ids -> W]]
      OBVIOUS
    <3>6. [ver: {0}, live: {FALSE}] \cup [ver: {0}, live: {TRUE}]
            \subseteq [ver: Nat, live: BOOLEAN]
      BY <3>3, Zenon
    <3>7. QED BY <3>4, <3>5, <3>6, Zenon
  <2>2. selected \in Projects
    BY <1>2, BoardAssumption DEF BoardInit
  <2>3. PICK first \in Calls:
          request = [r \in Calls |-> IF r = first THEN Load(selected) ELSE NoRequest]
    BY <1>2 DEF BoardInit
  <2>4. /\ request \in [Calls -> RequestRecord]
        /\ \A r \in Calls: request[r].data = Empty /\ request[r].kept = Empty
    BY <2>2, <2>3, RequestValues
  <2>5. board = DemoTickets /\ board \in Boards /\ demo \in BOOLEAN
    BY <1>2, CardValues DEF BoardInit
  <2>6. QED BY <1>1, <2>1, <2>2, <2>4, <2>5
<1>3. ASSUME BoardAside PROVE BoardInv
  <2>1. server \in [Projects -> [Ids -> [ver: Nat, live: BOOLEAN]]]
    BY <1>3 DEF BoardAside
  <2>2. /\ request \in [Calls -> RequestRecord]
        /\ \A r \in Calls: request[r].data = Empty /\ request[r].kept = Empty
    BY <1>3, RequestValues DEF BoardAside
  <2>3. /\ board = DemoTickets /\ board \in Boards /\ demo \in BOOLEAN
        /\ selected \in Projects
    BY <1>3, CardValues, DefaultProjectAssumption DEF BoardAside
  <2>4. QED BY <1>1, <2>1, <2>2, <2>3
<1>4. QED BY <1>2, <1>3

\* What a step does to the page, and to one call, while the server stands still.
LEMMA BoardMoved ==
  ASSUME BoardInv, UNCHANGED server, board' \in Boards, RealCards(board'),
         selected' \in Projects, demo' \in BOOLEAN,
         \/ UNCHANGED request
         \/ \E r \in Calls, q \in RequestRecord:
               /\ request' = [request EXCEPT ![r] = q]
               /\ RealCards(q.data) /\ RealCards(q.kept)
  PROVE  BoardInv'
<1>1. RealCards(board)'
  BY DEF RealCards
<1>2. /\ request' \in [Calls -> RequestRecord]
      /\ \A r \in Calls: RealCards(request'[r].data) /\ RealCards(request'[r].kept)
  <2>1. CASE UNCHANGED request
    BY <2>1 DEF BoardInv, BoardTypeOK
  <2>2. ASSUME NEW r \in Calls, NEW q \in RequestRecord,
               request' = [request EXCEPT ![r] = q], RealCards(q.data), RealCards(q.kept)
        PROVE  /\ request' \in [Calls -> RequestRecord]
               /\ \A c \in Calls: RealCards(request'[c].data) /\ RealCards(request'[c].kept)
    BY <2>2 DEF BoardInv, BoardTypeOK
  <2>3. QED BY <2>1, <2>2
<1>3. \A r \in Calls: RealCards(request[r].data)' /\ RealCards(request[r].kept)'
  BY <1>2 DEF RealCards
<1>4. BoardTypeOK'
  BY <1>2 DEF BoardInv, BoardTypeOK
<1>5. QED BY <1>1, <1>3, <1>4 DEF BoardInv

LEMMA BoardStep == BoardInv /\ [BoardNext]_boardVars => BoardInv'
<1> SUFFICES ASSUME BoardInv, [BoardNext]_boardVars PROVE BoardInv'
  OBVIOUS
<1>1. /\ BoardTypeOK /\ board \in Boards /\ RealCards(board)
      /\ selected \in Projects /\ demo \in BOOLEAN
      /\ \A r \in Calls: /\ request[r] \in RequestRecord
                          /\ request[r].data \in Boards /\ request[r].kept \in Boards
                          /\ request[r].id \in Ids /\ request[r].project \in Projects
                          /\ RealCards(request[r].data) /\ RealCards(request[r].kept)
  BY DEF BoardInv, BoardTypeOK, RequestRecord
<1>2. /\ RealCards(Empty) /\ RealCards(DemoTickets) /\ Empty \in Boards
      /\ DemoTickets \in Boards
  BY <1>1, BlankCards, CardValues
<1>3. ASSUME NEW p \in Projects, NEW i \in Ids, NEW live \in BOOLEAN, Others(p, i, live)
      PROVE  BoardInv'
  <2>1. /\ server' \in [Projects -> [Ids -> [ver: Nat, live: BOOLEAN]]]
        /\ \A b \in Boards: RealCards(b) => RealCards(b)'
    BY <1>1, <1>3, CardsStayReal DEF Others
  <2>2. UNCHANGED <<board, selected, demo, request>>
    BY <1>3 DEF Others
  <2>3. BoardTypeOK'
    BY <2>1, <2>2 DEF BoardInv, BoardTypeOK
  <2>4. RealCards(board)'
    BY <1>1, <2>1, <2>2 DEF RealCards
  <2>5. \A r \in Calls: RealCards(request[r].data)' /\ RealCards(request[r].kept)'
    BY <1>1, <2>1, <2>2 DEF RealCards
  <2>6. QED BY <2>3, <2>4, <2>5 DEF BoardInv
\* A call goes on.
<1>4. ASSUME NEW r \in Calls, NEW at \in {"free", "sent", "served", "failed"},
             NEW d \in Boards, RealCards(d),
             request' = [request EXCEPT ![r].at = at, ![r].data = d],
             UNCHANGED <<server, board, selected, demo>>
      PROVE  BoardInv'
  <2> DEFINE q == [request[r] EXCEPT !.at = at, !.data = d]
  <2>1. q \in RequestRecord /\ q.data = d /\ q.kept = request[r].kept
    BY <1>1, <1>4 DEF RequestRecord
  <2>2. request' = [request EXCEPT ![r] = q]
    BY <1>1, <1>4 DEF BoardTypeOK
  <2> HIDE DEF q
  <2>3. RealCards(q.data) /\ RealCards(q.kept)
    BY <1>1, <1>4, <2>1
  <2>4. board' \in Boards /\ RealCards(board') /\ selected' \in Projects /\ demo' \in BOOLEAN
    BY <1>1, <1>4 DEF RealCards
  <2>5. QED BY <1>4, <2>1, <2>2, <2>3, <2>4, BoardMoved
<1>5. ASSUME NEW r \in Calls, ServeRead(r) PROVE BoardInv'
  <2> DEFINE q == request[r]
             card1 == [Empty EXCEPT ![q.id] = CardOf(q.project, q.id)]
  <2>1. card1 \in Boards /\ RealCards(card1)
    <3>1. /\ CardOf(q.project, q.id) \in Card /\ CardOf(q.project, q.id).of = q.project
          /\ CardOf(q.project, q.id).ver = server[q.project][q.id].ver
      BY <1>1, CardIsReal
    <3>2. server[q.project][q.id].ver \in Nat
      BY <1>1 DEF BoardTypeOK
    <3>3. QED BY <1>1, <1>2, <3>1, <3>2, OneCardReal
  <2>2. View(q.project) \in Boards /\ RealCards(View(q.project))
    BY <1>1, ViewIsReal
  <2>3. \E d \in Boards: RealCards(d) /\ Serves(r, d)
    BY <1>5, <2>1, <2>2 DEF ServeRead
  <2>4. UNCHANGED <<server, board, selected, demo>>
    BY <1>5 DEF ServeRead
  <2>5. PICK d \in Boards: RealCards(d) /\ Serves(r, d)
    BY <2>3
  <2>6. request' = [request EXCEPT ![r].at = "served", ![r].data = d]
    BY <2>5 DEF Serves
  <2>7. QED BY <1>4, <2>4, <2>5, <2>6
<1>6. ASSUME NEW r \in Calls, ServeWrite(r) PROVE BoardInv'
  <2> DEFINE p == request[r].project
             i == request[r].id
             live == request[r].kind # "delete"
             e == [CardOf(p, i) EXCEPT !.ver = @ + 1]
             d == [Empty EXCEPT ![i] = e]
  <2>1. Write(p, i, live) /\ Serves(r, d) /\ UNCHANGED <<board, selected, demo>>
    BY <1>6 DEF ServeWrite
  <2>2. p \in Projects /\ i \in Ids /\ live \in BOOLEAN
    BY <1>1
  <2>3. /\ server' \in [Projects -> [Ids -> [ver: Nat, live: BOOLEAN]]]
        /\ server'[p][i].ver = server[p][i].ver + 1
        /\ \A b \in Boards: RealCards(b) => RealCards(b)'
    BY <1>1, <2>1, <2>2, CardsStayReal
  <2>4. /\ CardOf(p, i) \in Card /\ CardOf(p, i).of = p /\ CardOf(p, i).ver = server[p][i].ver
        /\ server[p][i].ver \in Nat
    BY <1>1, <2>2, CardIsReal DEF BoardTypeOK
  <2>5. e \in Card /\ e.of = p /\ e.ver = server'[p][i].ver
    BY <2>3, <2>4 DEF Card
  <2> HIDE DEF e, p, i, live
  <2>6. d \in Boards /\ d[i] = e /\ \A j \in Ids: j # i => d[j] = Empty[j]
    BY <1>2, <2>2, <2>5 DEF Boards
  <2> HIDE DEF d
  <2>7. \A j \in Ids: d[j].of \in Projects => d[j].ver <= server'[d[j].of][j].ver
    <3>1. TAKE j \in Ids
    <3>2. \A k \in Projects: server'[k][j].ver \in Nat
      BY <2>3
    <3>3. CASE j = i
      BY <2>3, <2>5, <2>6, <3>2, <3>3
    <3>4. CASE j # i
      BY <2>6, <3>2, <3>4, CardValues
    <3>5. QED BY <3>3, <3>4
  <2>8. request' = [request EXCEPT ![r].at = "served", ![r].data = d]
    BY <2>1 DEF Serves
  <2> DEFINE q == [request[r] EXCEPT !.at = "served", !.data = d]
  <2>9. q \in RequestRecord /\ q.data = d /\ q.kept = request[r].kept
    BY <1>1, <2>6 DEF RequestRecord
  <2>10. request' = [request EXCEPT ![r] = q]
    BY <2>8 DEF BoardInv, BoardTypeOK
  <2> HIDE DEF q
  <2>11. /\ request' \in [Calls -> RequestRecord] /\ request'[r] = q
         /\ \A c \in Calls: c # r => request'[c] = request[c]
    BY <2>9, <2>10 DEF BoardInv, BoardTypeOK
  <2>12. BoardTypeOK'
    BY <1>1, <2>1, <2>3, <2>11 DEF BoardTypeOK
  <2>13. RealCards(board)'
    BY <1>1, <2>1, <2>3 DEF RealCards
  <2>14. \A b \in Boards: RealCards(b) =>
            \A j \in Ids: b[j].of \in Projects => b[j].ver <= server'[b[j].of][j].ver
    BY <2>3 DEF RealCards
  <2>15. ASSUME NEW c \in Calls PROVE RealCards(request[c].data)' /\ RealCards(request[c].kept)'
    <3>1. CASE c = r
      BY <1>1, <2>7, <2>9, <2>11, <2>14, <3>1 DEF RealCards
    <3>2. CASE c # r
      BY <1>1, <2>11, <2>14, <3>2 DEF RealCards
    <3>3. QED BY <3>1, <3>2
  <2>16. QED BY <2>12, <2>13, <2>15 DEF BoardInv
\* A call is over, or another takes its place.
<1>7. ASSUME NEW r \in Calls, NEW q \in RequestRecord, request' = [request EXCEPT ![r] = q],
             RealCards(q.data), RealCards(q.kept), UNCHANGED server,
             selected' \in Projects, demo' \in BOOLEAN, board' \in Boards, RealCards(board')
      PROVE  BoardInv'
  BY <1>7, BoardMoved
<1>8. /\ \A r \in Calls: Done(r) => \E q \in RequestRecord:
            /\ request' = [request EXCEPT ![r] = q] /\ RealCards(q.data) /\ RealCards(q.kept)
      /\ \A r \in Calls: request' = [request EXCEPT ![r] = Load(selected)] =>
            \E q \in RequestRecord:
              /\ request' = [request EXCEPT ![r] = q] /\ RealCards(q.data) /\ RealCards(q.kept)
  BY <1>1, <1>2, RequestValues DEF Done
\* The same for a call that is over or is made again.
<1>9. ASSUME NEW r \in Calls, Done(r) \/ request' = [request EXCEPT ![r] = Load(selected)],
             UNCHANGED <<server, selected>>, demo' \in BOOLEAN,
             board' \in Boards, RealCards(board')
      PROVE  BoardInv'
  BY <1>1, <1>7, <1>8, <1>9
<1>10. ASSUME NEW r \in Calls, Lose(r) PROVE BoardInv'
  <2>1. CASE Done(r)
    BY <1>1, <1>9, <1>10, <2>1 DEF Lose
  <2>2. CASE request' = [request EXCEPT ![r].at = "failed", ![r].data = Empty]
    BY <1>2, <1>4, <1>10, <2>2 DEF Lose
  <2>3. QED BY <1>10, <2>1, <2>2 DEF Lose
\* The user asks for something, on the board as it is or as it is guessed to be.
<1>11. ASSUME NEW r \in Calls, NEW k \in Kinds, NEW p \in Projects, NEW i \in Ids,
              NEW kept \in {Empty, board}, request' = [request EXCEPT ![r] = Ask(k, p, i, kept)],
              UNCHANGED <<server, demo>>, selected' \in Projects,
              board' \in Boards, RealCards(board')
       PROVE  BoardInv'
  <2>1. kept \in Boards /\ RealCards(kept)
    BY <1>1, <1>2
  <2>2. /\ Ask(k, p, i, kept) \in RequestRecord
        /\ Ask(k, p, i, kept).data = Empty /\ Ask(k, p, i, kept).kept = kept
    BY <2>1, CardValues
  <2>3. QED BY <1>1, <1>2, <1>7, <1>11, <2>1, <2>2
<1>12. ASSUME NEW i \in Ids, board[i] # NoCard PROVE Guess(i) => board' \in Boards /\ RealCards(board')
  <2> DEFINE e == [board[i] EXCEPT !.guess = TRUE]
  <2>1. board[i] \in Card
    BY <1>1, <1>12 DEF Boards
  <2>2. e \in Card /\ e.of = board[i].of /\ e.ver = board[i].ver
    BY <2>1 DEF Card
  <2>3. Guess(i) => board' = [board EXCEPT ![i] = e]
    BY <1>1 DEF Guess, Boards
  <2>4. e.of \in Projects => e.ver <= server[e.of][i].ver
    BY <1>1, <2>2 DEF RealCards
  <2> HIDE DEF e
  <2>5. QED BY <1>1, <2>2, <2>3, <2>4, OneCardReal
<1>13. ASSUME NEW r \in Calls, NEW i \in Ids,
              Move(i, r) \/ AssignModel(i, r) \/ UpdateDependsOn(i, r)
       PROVE  BoardInv'
  <2>1. "guess" \in Kinds /\ "one" \in Kinds /\ "depends" \in Kinds
    BY DEF Kinds, Actions
  <2>2. CASE Move(i, r)
    BY <1>1, <1>11, <1>12, <2>1, <2>2 DEF Move
  <2>3. CASE AssignModel(i, r)
    BY <1>1, <1>11, <1>12, <2>1, <2>3 DEF AssignModel
  <2>4. CASE UpdateDependsOn(i, r)
    BY <1>1, <1>11, <2>1, <2>4 DEF UpdateDependsOn
  <2>5. QED BY <1>13, <2>2, <2>3, <2>4
<1>14. ASSUME NEW r \in Calls, NEW i \in Ids, NEW k \in {"one", "delete"}, Act(k, i, r)
       PROVE  BoardInv'
  <2>1. k \in Kinds
    BY DEF Kinds, Actions
  <2>2. QED BY <1>1, <1>11, <1>14, <2>1 DEF Act
<1>15. ASSUME NEW r \in Calls, NEW p \in Projects, NEW i \in Ids, CreateManualTicket(p, i, r)
       PROVE  BoardInv'
  <2>1. "create" \in Kinds
    BY DEF Kinds, Actions
  <2>2. QED BY <1>1, <1>11, <1>15, <2>1 DEF CreateManualTicket
<1>16. ASSUME NEW r \in Calls, Poll(r) PROVE BoardInv'
  <2>1. "refresh" \in Kinds /\ AnyId \in Ids
    BY RequestValues DEF Kinds, Lists
  <2>2. QED BY <1>1, <1>11, <1>16, <2>1 DEF Poll
<1>17. ASSUME NEW r \in Calls, NEW p \in Projects, Select(p, r) PROVE BoardInv'
  <2>1. /\ Load(p) \in RequestRecord /\ RealCards(Load(p).data) /\ RealCards(Load(p).kept)
    BY <1>2, RequestValues
  <2>2. QED BY <1>1, <1>7, <1>17, <2>1 DEF Select
<1>18. ASSUME NEW i \in Ids, ApproveDemo(i) PROVE BoardInv'
  BY <1>1, <1>12, <1>18, BoardMoved DEF ApproveDemo
\* Answers.
<1>19. ASSUME NEW r \in Calls, Loaded(r) \/ LoadFailed(r) PROVE BoardInv'
  <2>1. Done(r) \/ request' = [request EXCEPT ![r] = Load(selected)]
    BY <1>19 DEF Loaded, LoadFailed
  <2>2. /\ UNCHANGED <<server, selected>> /\ demo' \in BOOLEAN
        /\ board' \in Boards /\ RealCards(board')
    BY <1>1, <1>2, <1>19 DEF Loaded, LoadFailed
  <2>3. QED BY <1>9, <2>1, <2>2
<1>20. ASSUME NEW r \in Calls, Refreshed(r) \/ Refused(r) PROVE BoardInv'
  <2>1. /\ Done(r) /\ UNCHANGED <<server, selected, demo>>
        /\ board' \in Boards /\ RealCards(board')
    BY <1>1, <1>20 DEF Refreshed, Refused
  <2>2. QED BY <1>1, <1>9, <2>1
<1>21. ASSUME NEW r \in Calls, Replied(r) PROVE BoardInv'
  <2> DEFINE q == request[r]
             cut == [board EXCEPT ![q.id] = NoCard]
             back == [q.kept EXCEPT ![q.id] = q.data[q.id]]
  <2>1. Done(r) /\ UNCHANGED <<server, selected, demo>>
    BY <1>21 DEF Replied
  <2>2. cut \in Boards /\ RealCards(cut)
    <3>1. NoCard.of \in Projects => NoCard.ver <= server[NoCard.of][q.id].ver
      <4>1. NoCard.of \in Projects => server[NoCard.of][q.id].ver \in Nat
        BY <1>1 DEF BoardTypeOK
      <4>2. QED BY <4>1, CardValues
    <3>2. QED BY <1>1, <3>1, OneCardReal
  <2>3. back \in Boards /\ RealCards(back)
    <3>1. /\ q.data[q.id] \in Card \cup {NoCard}
          /\ q.data[q.id].of \in Projects =>
                q.data[q.id].ver <= server[q.data[q.id].of][q.id].ver
      BY <1>1 DEF Boards, RealCards
    <3>2. QED BY <1>1, <3>1, OneCardReal
  <2>4. Replaced(q.data) \in Boards /\ RealCards(Replaced(q.data))
    BY <1>1, OverIsReal DEF Replaced
  <2>5. board' \in {cut, back, Replaced(q.data)}
    BY <1>21 DEF Replied
  <2> HIDE DEF cut, back
  <2>6. board' \in Boards /\ RealCards(board')
    BY <2>2, <2>3, <2>4, <2>5
  <2>7. QED BY <1>1, <1>9, <2>1, <2>6
<1>22. CASE UNCHANGED boardVars
  BY <1>1, <1>22, BoardMoved DEF boardVars
<1>23. QED
  BY <1>3, <1>5, <1>6, <1>10, <1>13, <1>14, <1>15, <1>16, <1>17, <1>18, <1>19, <1>20, <1>21,
     <1>22 DEF BoardNext

LEMMA BoardIsReal == BoardInv => CardsAreReal
BY DEF BoardInv, RealCards, CardsAreReal

-----------------------------------------------------------------------------
(* The graph: a live lease has a holder.                                    *)

GraphInv ==
  /\ GraphTypeOK
  /\ \A t \in GraphTickets: rows[t].live => rows[t].holder \in Workers

LEMMA GraphValues ==
  /\ NewRow \in RowRecord /\ ~NewRow.live /\ NoCards \in GraphCards
  /\ NoRefresh \in RefreshRecord
<1>1. 0 \in 0..MaxTicket
  BY GraphAssumption
<1>2. NewRow \in RowRecord /\ ~NewRow.live
  BY DEF NewRow, RowRecord, RowStatuses, Holders
<1>3. NoCards \in GraphCards
  BY <1>1 DEF NoCards, GraphCards, Holders
<1>4. [t \in GraphTickets |-> NoWorker] \in [GraphTickets -> Holders]
  BY DEF Holders
<1>5. NoRefresh \in RefreshRecord
  BY <1>3, <1>4 DEF NoRefresh, RefreshRecord
<1>6. QED BY <1>2, <1>3, <1>5

LEMMA GraphStart == GraphInit \/ GraphAside => GraphInv
<1> SUFFICES ASSUME GraphInit PROVE GraphInv
  BY DEF GraphAside
<1>1. needs \in [GraphTickets -> SUBSET GraphTickets]
  BY DEF GraphInit
<1>2. QED BY <1>1, GraphValues DEF GraphInit, GraphInv, GraphTypeOK, Tables

\* A ticket's note names a ticket.
LEMMA NoteIsTicket ==
  ASSUME NEW t \in GraphTickets, NEW free, NEW leased \in SUBSET GraphTickets
  PROVE  ConflictNote(t, free, leased) \in 0..MaxTicket
<1> DEFINE near == {u \in leased: Overlap(t, u)}
<1>1. CASE InConflict(t, free, leased)
  <2>1. near # {} /\ near \subseteq Nat
    <3>1. near # {}
      BY <1>1 DEF InConflict
    <3>2. GraphTickets \subseteq Nat
      BY GraphAssumption DEF GraphTickets
    <3>3. QED BY <3>1, <3>2
  <2>2. PICK u \in near: \A v \in near: u <= v
    BY <2>1, LeastNumber
  <2>3. (CHOOSE u1 \in near: \A v \in near: u1 <= v) \in GraphTickets
    BY <2>2
  <2>4. QED BY <1>1, <2>3, GraphAssumption DEF ConflictNote, GraphTickets
<1>2. CASE ~InConflict(t, free, leased)
  BY <1>2, GraphAssumption DEF ConflictNote
<1>3. QED BY <1>1, <1>2

\* A row changes.
LEMMA RowTurned ==
  ASSUME GraphInv, NEW t \in GraphTickets, NEW e \in RowRecord, e.live => e.holder \in Workers,
         rows' = [rows EXCEPT ![t] = e], UNCHANGED <<needs, graphCards, refresh>>
  PROVE  GraphInv'
BY DEF GraphInv, GraphTypeOK, Tables

\* The page and its refresh change.
LEMMA PageTurned ==
  ASSUME GraphInv, UNCHANGED <<rows, needs>>, graphCards' \in GraphCards,
         refresh' \in RefreshRecord
  PROVE  GraphInv'
BY DEF GraphInv, GraphTypeOK

LEMMA GraphStep == GraphInv /\ [GraphNext]_graphVars => GraphInv'
<1> SUFFICES ASSUME GraphInv, [GraphNext]_graphVars PROVE GraphInv'
  OBVIOUS
<1>1. /\ \A t \in GraphTickets: /\ rows[t] \in RowRecord /\ rows[t].holder \in Holders
                                /\ rows[t].live => rows[t].holder \in Workers
      /\ rows \in Tables /\ graphCards \in GraphCards /\ refresh \in RefreshRecord
      /\ refresh.list \in GraphCards /\ refresh.graph \in [GraphTickets -> Holders]
  BY DEF GraphInv, GraphTypeOK, Tables, RowRecord, RefreshRecord
\* The leases.
<1>2. ASSUME NEW t \in GraphTickets, NEW h \in Holders, NEW l \in BOOLEAN, l => h \in Workers,
             rows' = [rows EXCEPT ![t].holder = h, ![t].live = l],
             UNCHANGED <<needs, graphCards, refresh>>
      PROVE  GraphInv'
  <2> DEFINE e == [rows[t] EXCEPT !.holder = h, !.live = l]
  <2>1. e \in RowRecord /\ e.live = l /\ e.holder = h
    BY <1>1, <1>2 DEF RowRecord
  <2>2. rows' = [rows EXCEPT ![t] = e]
    BY <1>1, <1>2 DEF Tables
  <2> HIDE DEF e
  <2>3. QED BY <1>2, <2>1, <2>2, RowTurned
<1>3. ASSUME NEW t \in GraphTickets, NEW w \in Workers, Claim(w, t) PROVE GraphInv'
  <2>1. w \in Holders
    BY DEF Holders
  <2>2. QED BY <1>2, <1>3, <2>1 DEF Claim
<1>4. ASSUME NEW t \in GraphTickets, Release(t) PROVE GraphInv'
  <2>1. NoWorker \in Holders
    BY DEF Holders
  <2>2. QED BY <1>2, <1>4, <2>1 DEF Release
<1>5. ASSUME NEW t \in GraphTickets, Expire(t) PROVE GraphInv'
  <2> DEFINE e == [rows[t] EXCEPT !.live = FALSE]
  <2>1. e \in RowRecord /\ ~e.live
    BY <1>1 DEF RowRecord
  <2>2. rows' = [rows EXCEPT ![t] = e] /\ UNCHANGED <<needs, graphCards, refresh>>
    BY <1>1, <1>5 DEF Expire, Tables
  <2> HIDE DEF e
  <2>3. QED BY <2>1, <2>2, RowTurned
<1>6. ASSUME NEW t \in GraphTickets, NEW s \in RowStatuses, Advance(t, s) PROVE GraphInv'
  <2> DEFINE e == [rows[t] EXCEPT !.status = s]
  <2>1. e \in RowRecord /\ e.live = rows[t].live /\ e.holder = rows[t].holder
    BY <1>1 DEF RowRecord
  <2>2. rows' = [rows EXCEPT ![t] = e] /\ UNCHANGED <<needs, graphCards, refresh>>
    BY <1>1, <1>6 DEF Advance, Tables
  <2> HIDE DEF e
  <2>3. QED BY <1>1, <2>1, <2>2, RowTurned
\* The cards of the rows as they are.
<1>7. \A t \in GraphTickets: CardOfRow(t) \in [worker: Holders, note: 0..MaxTicket]
  BY <1>1, GraphAssumption DEF CardOfRow
<1>8. ASSUME NEW t \in GraphTickets, TicketReplied(t) PROVE GraphInv'
  BY <1>1, <1>7, <1>8, PageTurned DEF TicketReplied, GraphCards
\* The refresh.
<1>9. CASE StartRefresh
  <2>1. [NoRefresh EXCEPT !.at = "list"] \in RefreshRecord
    BY GraphValues DEF RefreshRecord
  <2>2. QED BY <1>1, <1>9, <2>1, PageTurned DEF StartRefresh, ReadingAt
<1>10. CASE ListAnswered
  <2> DEFINE l == [t \in GraphTickets |-> CardOfRow(t)]
  <2>1. l \in GraphCards
    BY <1>7 DEF GraphCards
  <2> HIDE DEF l
  <2>2. [refresh EXCEPT !.at = "graph", !.list = l] \in RefreshRecord
    BY <1>1, <2>1 DEF RefreshRecord
  <2>3. QED BY <1>1, <1>10, <2>2, PageTurned DEF ListAnswered, ReadingAt, l
<1>11. CASE ReadTickets
  <2> DEFINE g == [t \in GraphTickets |-> rows[t].holder]
  <2>1. g \in [GraphTickets -> Holders] /\ Unblocked \subseteq GraphTickets
    BY <1>1 DEF Unblocked
  <2> HIDE DEF g
  <2>2. [refresh EXCEPT !.at = "leases", !.free = Unblocked, !.graph = g] \in RefreshRecord
    BY <1>1, <2>1 DEF RefreshRecord
  <2>3. QED BY <1>1, <1>11, <2>2, PageTurned DEF ReadTickets, ReadingAt, g
<1>12. CASE ReadLeases
  <2> DEFINE l == MergedGraph(refresh.list, refresh.graph, refresh.free, Leased)
  <2>1. Leased \in SUBSET GraphTickets
    BY DEF Leased
  <2>2. l \in GraphCards
    <3>1. \A t \in GraphTickets: ConflictNote(t, refresh.free, Leased) \in 0..MaxTicket
      BY <2>1, NoteIsTicket
    <3>2. \A t \in GraphTickets: refresh.graph[t] \in Holders /\ refresh.list[t].worker \in Holders
      BY <1>1 DEF GraphCards
    <3>3. QED BY <3>1, <3>2 DEF MergedGraph, GraphCards
  <2> HIDE DEF l
  <2>3. [NoRefresh EXCEPT !.at = "answered", !.list = l] \in RefreshRecord
    BY <2>2, GraphValues DEF RefreshRecord
  <2>4. QED BY <1>1, <1>12, <2>3, PageTurned DEF ReadLeases, ReadingAt, l
<1>13. CASE Shown
  BY <1>1, <1>13, GraphValues, PageTurned DEF Shown
<1>14. CASE ListFails
  BY <1>1, <1>14, GraphValues, PageTurned DEF ListFails, ReadingAt
<1>15. CASE GraphFails
  BY <1>1, <1>15, GraphValues, PageTurned DEF GraphFails
<1>16. CASE UNCHANGED graphVars
  BY <1>16 DEF graphVars, GraphInv, GraphTypeOK
<1>17. QED
  BY <1>3, <1>4, <1>5, <1>6, <1>8, <1>9, <1>10, <1>11, <1>12, <1>13, <1>14, <1>15, <1>16
     DEF GraphNext

\* A ticket is no conflict of its own, and a leased one is its holder's to claim.
LEMMA GraphIsReal == GraphInv => GraphTellsClaims
<1> SUFFICES ASSUME GraphInv, NEW t \in GraphTickets
             PROVE  (t \in Unblocked /\ ~InConflict(t, Unblocked, Leased))
                      = (\E w \in Workers: Claimable(w, t))
  BY DEF GraphTellsClaims
<1>1. ASSUME t \in Unblocked, ~InConflict(t, Unblocked, Leased)
      PROVE  \E w \in Workers: Claimable(w, t)
  <2>1. /\ rows[t].status = "ready" /\ \A d \in needs[t]: rows[d].status = "merged"
        /\ \A u \in GraphTickets: rows[u].live => ~Overlap(t, u)
    BY <1>1 DEF Unblocked, InConflict, Leased
  <2>2. PICK w \in Workers: rows[t].live => rows[t].holder = w
    BY GraphAssumption DEF GraphInv
  <2>3. QED BY <2>1, <2>2 DEF Claimable
<1>2. ASSUME NEW w \in Workers, Claimable(w, t)
      PROVE  t \in Unblocked /\ ~InConflict(t, Unblocked, Leased)
  BY <1>2 DEF Claimable, Unblocked, InConflict, Leased
<1>3. QED BY <1>1, <1>2

-----------------------------------------------------------------------------
(* The chat: messages are numbered without a gap, so that the next id is    *)
(* no message's yet, and what an answer carries stays as it was written.    *)

Counted(n) == n \in 0..MaxMsg /\ Written = 1..n

ChatInv ==
  /\ ChatTypeOK /\ AnswersAreWritten
  /\ \E n \in Nat: Counted(n)

LEMMA TalkRecords ==
  /\ NoTalk \in TalkRecord /\ NoTalk.data = {}
  /\ \A k \in {"load", "refresh", "send"}, p \in Projects, n \in 0..Welcome:
        Asked(k, p, n) \in TalkRecord /\ Asked(k, p, n).data = {}
<1> DEFINE any == CHOOSE p \in Projects: TRUE
<1>1. any \in Projects
  BY DefaultProjectAssumption
<1>2. 0 \in 0..Welcome
  BY NobodyAssumption DEF Welcome
<1>3. NoTalk = [kind |-> "none", project |-> any, after |-> 0, at |-> "sent", data |-> {}]
  BY DEF NoTalk
<1> HIDE DEF any
<1>4. NoTalk \in TalkRecord /\ NoTalk.data = {}
  BY <1>1, <1>2, <1>3 DEF TalkRecord
<1>5. ASSUME NEW k \in {"load", "refresh", "send"}, NEW p \in Projects, NEW n \in 0..Welcome
      PROVE  Asked(k, p, n) \in TalkRecord /\ Asked(k, p, n).data = {}
  BY <1>4 DEF Asked, TalkRecord
<1>6. QED BY <1>4, <1>5

LEMMA ChatStart == ChatInit \/ ChatAside => ChatInv
<1>1. /\ owner = [m \in MsgIds |-> Nobody] /\ current \in Projects
      /\ chat \in [shown: SUBSET MsgIds, last: 0..Welcome] /\ chat.shown = {}
      /\ sending = FALSE /\ talk \in [Calls -> TalkRecord] /\ \A c \in Calls: talk[c].data = {}
      => ChatInv
  <2> SUFFICES ASSUME owner = [m \in MsgIds |-> Nobody], current \in Projects,
                      chat \in [shown: SUBSET MsgIds, last: 0..Welcome], chat.shown = {},
                      sending = FALSE, talk \in [Calls -> TalkRecord],
                      \A c \in Calls: talk[c].data = {}
               PROVE  ChatInv
    OBVIOUS
  <2>1. Written = {}
    BY DEF Written
  <2>2. 0 \in Nat /\ Counted(0)
    BY <2>1, NobodyAssumption DEF Counted
  <2>3. ChatTypeOK
    BY DEF ChatTypeOK
  <2>4. AnswersAreWritten
    BY DEF AnswersAreWritten
  <2>5. QED BY <2>2, <2>3, <2>4 DEF ChatInv
<1>2. 0 \in 0..Welcome /\ Welcome \in 0..Welcome
  BY NobodyAssumption DEF Welcome
<1>3. /\ [shown |-> {}, last |-> 0] \in [shown: SUBSET MsgIds, last: 0..Welcome]
      /\ [shown |-> {}, last |-> Welcome] \in [shown: SUBSET MsgIds, last: 0..Welcome]
  BY <1>2
<1>4. ASSUME ChatInit PROVE ChatInv
  <2>1. PICK first \in Calls:
          talk = [c \in Calls |-> IF c = first THEN Asked("load", current, 0) ELSE NoTalk]
    BY <1>4 DEF ChatInit
  <2>2. current \in Projects
    BY <1>4 DEF ChatInit
  <2>3. talk \in [Calls -> TalkRecord] /\ \A c \in Calls: talk[c].data = {}
    BY <1>2, <2>1, <2>2, TalkRecords
  <2>4. QED BY <1>1, <1>3, <1>4, <2>3 DEF ChatInit
<1>5. ASSUME ChatAside PROVE ChatInv
  <2>1. talk \in [Calls -> TalkRecord] /\ \A c \in Calls: talk[c].data = {}
    BY <1>5, TalkRecords DEF ChatAside
  <2>2. QED BY <1>1, <1>3, <1>5, <2>1, DefaultProjectAssumption DEF ChatAside
<1>6. QED BY <1>4, <1>5

\* A message gets an id that no message has.
LEMMA MessageWritten ==
  ASSUME ChatInv, NEW p \in Projects, Writes(p)
  PROVE  /\ owner' \in [MsgIds -> Projects \cup {Nobody}]
         /\ NextId \in MsgIds /\ NextId \notin Written /\ owner'[NextId] = p
         /\ \A m \in MsgIds: m # NextId => owner'[m] = owner[m]
         /\ Written' = Written \cup {NextId}
         /\ \E n \in Nat: Counted(n)'
<1>1. PICK n \in Nat: n \in 0..MaxMsg /\ Written = 1..n
  BY DEF ChatInv, Counted
<1>2. Cardinality(1..n) = n
  BY FS_Interval
<1>3. NextId = n + 1
  BY <1>1, <1>2 DEF NextId
<1>4. /\ owner' \in [MsgIds -> Projects \cup {Nobody}]
      /\ NextId \in MsgIds /\ owner'[NextId] = p
      /\ \A m \in MsgIds: m # NextId => owner'[m] = owner[m]
  BY DEF Writes, ChatInv, ChatTypeOK
<1>5. NextId \notin Written
  BY <1>1, <1>3
<1>6. Written' = Written \cup {NextId}
  BY <1>4, NobodyAssumption DEF Written
<1>7. Written' = 1..(n + 1) /\ n + 1 \in 0..MaxMsg
  BY <1>1, <1>3, <1>4, <1>6, NobodyAssumption DEF MsgIds
<1>8. Counted(n + 1)' /\ n + 1 \in Nat
  BY <1>1, <1>7 DEF Counted
<1>9. QED BY <1>4, <1>5, <1>6, <1>8

\* What was written stays so.
LEMMA AnswersStay ==
  ASSUME ChatInv, NEW p \in Projects, Writes(p)
  PROVE  /\ \A c \in Calls: \A m \in talk[c].data: m \in Written /\ owner'[m] = talk[c].project
         /\ chat.shown \subseteq Written'
<1>1. \A c \in Calls: /\ talk[c].project \in Projects /\ talk[c].data \subseteq MsgIds
                      /\ \A m \in talk[c].data: owner[m] = talk[c].project
  BY DEF ChatInv, ChatTypeOK, TalkRecord, AnswersAreWritten
<1>2. \A c \in Calls: \A m \in talk[c].data: m \in Written
  BY <1>1, NobodyAssumption DEF Written
<1>3. chat.shown \subseteq Written
  BY DEF ChatInv, AnswersAreWritten
<1>4. QED BY <1>1, <1>2, <1>3, MessageWritten

\* A step that writes nothing: one call changes.
LEMMA NothingWritten ==
  ASSUME ChatInv, UNCHANGED owner, NEW c \in Calls, NEW q \in TalkRecord,
         talk' = [talk EXCEPT ![c] = q], \A m \in q.data: owner[m] = q.project,
         current' \in Projects, sending' \in BOOLEAN,
         chat' \in [shown: SUBSET MsgIds, last: 0..Welcome], chat'.shown \subseteq Written
  PROVE  ChatInv'
<1>1. talk' \in [Calls -> TalkRecord] /\ talk'[c] = q
      /\ \A d \in Calls: d # c => talk'[d] = talk[d]
  BY DEF ChatInv, ChatTypeOK
<1>2. ChatTypeOK'
  BY <1>1 DEF ChatInv, ChatTypeOK
<1>3. Written' = Written
  BY DEF Written
<1>4. \A d \in Calls: \A m \in talk'[d].data: owner'[m] = talk'[d].project
  BY <1>1 DEF ChatInv, AnswersAreWritten
<1>5. AnswersAreWritten'
  BY <1>3, <1>4 DEF AnswersAreWritten
<1>6. \E n \in Nat: Counted(n)'
  BY <1>3 DEF ChatInv, Counted
<1>7. QED BY <1>2, <1>5, <1>6 DEF ChatInv

LEMMA NewestIsOne ==
  ASSUME NEW s \in SUBSET MsgIds, s # {}
  PROVE  Newest(s) \in 0..Welcome
<1>1. s \subseteq 0..MaxMsg /\ MaxMsg \in Nat
  BY NobodyAssumption DEF MsgIds
<1>2. PICK m \in s: \A n \in s: n <= m
  BY <1>1, GreatestNumber
<1>3. Newest(s) \in s
  BY <1>2 DEF Newest
<1>4. Newest(s) \in 0..MaxMsg
  BY <1>1, <1>3
<1>5. QED BY <1>1, <1>4 DEF Welcome

LEMMA ChatStep == ChatInv /\ [ChatNext]_chatVars => ChatInv'
<1> SUFFICES ASSUME ChatInv, [ChatNext]_chatVars PROVE ChatInv'
  OBVIOUS
<1>1. /\ current \in Projects /\ sending \in BOOLEAN /\ chat.shown \subseteq Written
      /\ chat \in [shown: SUBSET MsgIds, last: 0..Welcome]
      /\ chat.shown \in SUBSET MsgIds /\ chat.last \in 0..Welcome
      /\ \A c \in Calls: /\ talk[c] \in TalkRecord /\ talk[c].data \in SUBSET MsgIds
                         /\ talk[c].project \in Projects
                         /\ talk[c].data \subseteq Written
                         /\ \A m \in talk[c].data: owner[m] = talk[c].project
  <2>1. /\ current \in Projects /\ sending \in BOOLEAN /\ chat.shown \subseteq Written
        /\ chat \in [shown: SUBSET MsgIds, last: 0..Welcome]
        /\ \A c \in Calls: talk[c] \in TalkRecord
        /\ \A c \in Calls: \A m \in talk[c].data: owner[m] = talk[c].project
    BY DEF ChatInv, ChatTypeOK, AnswersAreWritten
  <2>2. \A c \in Calls: talk[c].data \in SUBSET MsgIds /\ talk[c].project \in Projects
    BY <2>1 DEF TalkRecord
  <2>3. \A c \in Calls: talk[c].data \subseteq Written
    BY <2>1, <2>2, NobodyAssumption DEF Written
  <2>4. QED BY <2>1, <2>2, <2>3
<1>2. ASSUME NEW p \in Projects, OthersWrite(p) PROVE ChatInv'
  <2>1. Writes(p) /\ UNCHANGED <<current, chat, sending, talk>>
    BY <1>2 DEF OthersWrite
  <2>2. owner' \in [MsgIds -> Projects \cup {Nobody}] /\ \E n \in Nat: Counted(n)'
    BY <2>1, MessageWritten
  <2>3. ChatTypeOK'
    BY <2>1, <2>2 DEF ChatInv, ChatTypeOK
  <2>4. AnswersAreWritten'
    BY <2>1, AnswersStay DEF AnswersAreWritten
  <2>5. QED BY <2>2, <2>3, <2>4 DEF ChatInv
<1>3. ASSUME NEW c \in Calls, ServeList(c) PROVE ChatInv'
  <2> DEFINE d == Messages(talk[c].project, talk[c].after)
             q == [talk[c] EXCEPT !.at = "answered", !.data = d]
  <2>1. d \in SUBSET MsgIds /\ \A m \in d: owner[m] = talk[c].project
    BY DEF Messages, Written
  <2> HIDE DEF d
  <2>2. q \in TalkRecord /\ q.data = d /\ q.project = talk[c].project
    BY <1>1, <2>1 DEF TalkRecord
  <2>3. talk' = [talk EXCEPT ![c] = q]
    BY <1>3 DEF ServeList, ChatInv, ChatTypeOK, d
  <2> HIDE DEF q
  <2>4. UNCHANGED <<owner, current, chat, sending>>
    BY <1>3 DEF ServeList
  <2>5. QED BY <1>1, <2>1, <2>2, <2>3, <2>4, NothingWritten
<1>4. ASSUME NEW c \in Calls, RefuseTalk(c) PROVE ChatInv'
  <2> DEFINE q == [talk[c] EXCEPT !.at = "failed", !.data = {}]
  <2>1. q \in TalkRecord /\ q.data = {}
    BY <1>1 DEF TalkRecord
  <2>2. talk' = [talk EXCEPT ![c] = q] /\ UNCHANGED <<owner, current, chat, sending>>
    BY <1>4 DEF RefuseTalk, ChatInv, ChatTypeOK
  <2> HIDE DEF q
  <2>3. QED BY <1>1, <2>1, <2>2, NothingWritten
<1>5. ASSUME NEW c \in Calls, ServeTurn(c) PROVE ChatInv'
  <2> DEFINE p == talk[c].project
             at == IF talk[c].at = "sent" THEN "asked" ELSE "answered"
             q == [talk[c] EXCEPT !.data = talk[c].data \cup {NextId}, !.at = at]
  <2>1. Writes(p) /\ UNCHANGED <<current, chat, sending>> /\ p \in Projects
    BY <1>1, <1>5 DEF ServeTurn
  <2>2. /\ owner' \in [MsgIds -> Projects \cup {Nobody}] /\ \E n \in Nat: Counted(n)'
        /\ NextId \in MsgIds /\ owner'[NextId] = p
    BY <2>1, MessageWritten
  <2>3. /\ q \in TalkRecord /\ q.data = talk[c].data \cup {NextId} /\ q.project = p
    BY <1>1, <2>2 DEF TalkRecord
  <2>4. talk' = [talk EXCEPT ![c] = q]
    BY <1>1, <1>5 DEF ServeTurn, ChatInv, ChatTypeOK, TalkRecord
  <2> HIDE DEF q
  <2>5. /\ talk' \in [Calls -> TalkRecord] /\ talk'[c] = q
        /\ \A d \in Calls: d # c => talk'[d] = talk[d]
    BY <2>3, <2>4 DEF ChatInv, ChatTypeOK
  <2>6. ChatTypeOK'
    BY <2>1, <2>2, <2>5 DEF ChatInv, ChatTypeOK
  <2>7. /\ \A d \in Calls: \A m \in talk[d].data: owner'[m] = talk[d].project
        /\ chat.shown \subseteq Written'
    BY <2>1, AnswersStay
  <2>8. \A d \in Calls: \A m \in talk'[d].data: owner'[m] = talk'[d].project
    BY <2>2, <2>3, <2>5, <2>7
  <2>9. AnswersAreWritten'
    BY <2>1, <2>7, <2>8 DEF AnswersAreWritten
  <2>10. QED BY <2>2, <2>6, <2>9 DEF ChatInv
\* A call that is made.
<1>6. ASSUME NEW c \in Calls, NEW k \in {"load", "refresh", "send"}, NEW p \in Projects,
             NEW n \in 0..Welcome, StartTalk(c, Asked(k, p, n)),
             UNCHANGED <<owner, chat>>, current' \in Projects, sending' \in BOOLEAN
      PROVE  ChatInv'
  <2> DEFINE q == Asked(k, p, n)
  <2>1. q \in TalkRecord /\ q.data = {} /\ talk' = [talk EXCEPT ![c] = q]
    BY <1>6, TalkRecords DEF StartTalk
  <2> HIDE DEF q
  <2>2. QED BY <1>1, <1>6, <2>1, NothingWritten
<1>7. ASSUME NEW c \in Calls,
             PollChat(c) \/ SubmitMessage(c) \/ \E p \in Projects: Switch(p, c)
      PROVE  ChatInv'
  <2>1. 0 \in 0..Welcome
    BY NobodyAssumption DEF Welcome
  <2>2. CASE PollChat(c)
    BY <1>1, <1>6, <2>2 DEF PollChat
  <2>3. CASE SubmitMessage(c)
    BY <1>1, <1>6, <2>1, <2>3 DEF SubmitMessage
  <2>4. CASE \E p \in Projects: Switch(p, c)
    BY <1>1, <1>6, <2>1, <2>4 DEF Switch
  <2>5. QED BY <1>7, <2>2, <2>3, <2>4
\* What the page shows of an answer.
<1>8. ASSUME NEW c \in Calls, TalkDone(c), UNCHANGED <<owner, current>>, sending' \in BOOLEAN,
             chat' \in [shown: SUBSET MsgIds, last: 0..Welcome], chat'.shown \subseteq Written
      PROVE  ChatInv'
  <2>1. NoTalk \in TalkRecord /\ \A m \in NoTalk.data: owner[m] = NoTalk.project
    BY TalkRecords
  <2>2. talk' = [talk EXCEPT ![c] = NoTalk]
    BY <1>8 DEF TalkDone
  <2>3. QED BY <1>1, <1>8, <2>1, <2>2, NothingWritten
<1>9. ASSUME NEW c \in Calls, ChatRefreshed(c) \/ TurnEnds(c) PROVE ChatInv'
  <2>1. /\ TalkDone(c) /\ UNCHANGED <<owner, current>> /\ chat' = Appended(talk[c].data)
        /\ sending' \in BOOLEAN
    BY <1>1, <1>9 DEF ChatRefreshed, TurnEnds
  <2>2. CASE talk[c].data = {}
    BY <1>1, <1>8, <2>1, <2>2 DEF Appended
  <2>3. CASE talk[c].data # {}
    <3>1. Newest(talk[c].data) \in 0..Welcome
      BY <1>1, <2>3, NewestIsOne
    <3>2. QED BY <1>1, <1>8, <2>1, <2>3, <3>1 DEF Appended
  <2>4. QED BY <2>2, <2>3
<1>10. ASSUME NEW c \in Calls, ChatLoaded(c) PROVE ChatInv'
  <2>1. /\ TalkDone(c) /\ UNCHANGED <<owner, current>> /\ sending' \in BOOLEAN
        /\ \/ chat' = [shown |-> {}, last |-> Welcome]
           \/ chat' = [shown |-> {}, last |-> 0]
           \/ /\ talk[c].data # {}
              /\ chat' = [shown |-> talk[c].data, last |-> Newest(talk[c].data)]
    BY <1>1, <1>10 DEF ChatLoaded
  <2>2. 0 \in 0..Welcome /\ Welcome \in 0..Welcome
    BY NobodyAssumption DEF Welcome
  <2>3. talk[c].data # {} => Newest(talk[c].data) \in 0..Welcome
    BY <1>1, NewestIsOne
  <2>4. chat' \in [shown: SUBSET MsgIds, last: 0..Welcome] /\ chat'.shown \subseteq Written
    BY <1>1, <2>1, <2>2, <2>3
  <2>5. QED BY <1>8, <2>1, <2>4
<1>11. CASE UNCHANGED chatVars
  BY <1>11 DEF chatVars, ChatInv, ChatTypeOK, AnswersAreWritten, Counted, Written
<1>12. QED BY <1>2, <1>3, <1>4, <1>5, <1>7, <1>9, <1>10, <1>11 DEF ChatNext

-----------------------------------------------------------------------------
(* The composer: a preview that is shown, or on its way to the page, is    *)
(* saved, and a row that was saved is at most confirmed or discarded.      *)

Saved == {"preview_ready", "confirmed", "discarded"}

Previewed(q) == q.kind = "decompose" /\ q.server = "done"

SavedInv ==
  /\ composer.step = "review" => Status(composer.origin, composer.req) \in Saved
  /\ \A c \in Calls: Previewed(pending[c]) => StatusOf(c) \in Saved

\* What the types say of a call.
LEMMA CallTypes ==
  ASSUME ComposerInv
  PROVE  /\ ComposerTypeOK /\ composer \in ComposerRecord /\ composer.origin \in Projects
         /\ composer.step = "review" => composer.req \in ReqIds
         /\ \A c \in Calls: /\ pending[c] \in PendingRecord /\ pending[c].project \in Projects
                            /\ Numbered(pending[c])
<1>1. ComposerTypeOK /\ NumbersAreReal
  BY DEF ComposerInv, ComposerBase
<1>2. composer \in ComposerRecord /\ composer.origin \in Projects
  BY <1>1 DEF ComposerTypeOK, ComposerRecord
<1>3. \A c \in Calls: pending[c] \in PendingRecord /\ pending[c].project \in Projects
  BY <1>1 DEF ComposerTypeOK, PendingRecord
<1>4. QED BY <1>1, <1>2, <1>3 DEF NumbersAreReal

LEMMA SavedStart == ComposerInit \/ ComposerAside => SavedInv
<1> SUFFICES ASSUME ComposerInit PROVE SavedInv
  BY DEF ComposerAside
<1>1. composer.step = "compose" /\ \A c \in Calls: pending[c].kind = "none"
  BY ComposerRecords DEF ComposerInit
<1>2. QED BY <1>1 DEF SavedInv, Previewed

\* The server never takes a saved row back.
LEMMA RowsStaySaved ==
  ASSUME ComposerInv, [ComposerNext]_composerVars
  PROVE  \A p \in Projects, i \in ReqIds: Status(p, i) \in Saved => Status(p, i)' \in Saved
<1> USE CallTypes
<1>1. ASSUME NEW p \in Projects, NEW i \in ReqIds, NEW s \in Statuses, Marked(p, i, s),
             s \in Saved \/ row[p][i].status \notin Saved
      PROVE  \A o \in Projects, j \in ReqIds: Status(o, j) \in Saved => Status(o, j)' \in Saved
  <2>1. /\ row'[p][i].status = s
        /\ \A o \in Projects, j \in ReqIds: (o # p \/ j # i) => row'[o][j] = row[o][j]
    BY <1>1, StatusWritten
  <2>2. QED BY <1>1, <2>1 DEF Status
<1>2. ASSUME NEW c \in Calls, NEW i \in ReqIds, BeginDecompose(c, i)
      PROVE  \A o \in Projects, j \in ReqIds: Status(o, j) \in Saved => Status(o, j)' \in Saved
  <2>1. /\ Marked(pending[c].project, i, "decomposing") /\ "decomposing" \in Statuses
        /\ row[pending[c].project][i].status \notin Saved
    BY <1>2 DEF BeginDecompose, Marked, Statuses, Status, Saved
  <2>2. QED BY <1>1, <2>1
<1>3. ASSUME NEW c \in Calls, EndDecompose(c) \/ ServeDiscard(c)
      PROVE  \A o \in Projects, j \in ReqIds: Status(o, j) \in Saved => Status(o, j)' \in Saved
  <2>1. pending[c].req \in ReqIds
    BY <1>3 DEF EndDecompose, ServeDiscard, Numbered
  <2>2. \/ UNCHANGED row
        \/ Marked(pending[c].project, pending[c].req, "preview_ready")
        \/ Marked(pending[c].project, pending[c].req, "discarded")
    BY <1>3 DEF EndDecompose, ServeDiscard, Marked
  <2>3. {"preview_ready", "discarded"} \subseteq Statuses /\ {"preview_ready", "discarded"} \subseteq Saved
    BY DEF Statuses, Saved
  <2>4. CASE UNCHANGED row
    BY <2>4 DEF Status
  <2>5. QED BY <1>1, <2>1, <2>2, <2>3, <2>4
<1>4. ASSUME NEW c \in Calls, EndConfirm(c)
      PROVE  \A o \in Projects, j \in ReqIds: Status(o, j) \in Saved => Status(o, j)' \in Saved
  <2> DEFINE p == pending[c].project
             i == pending[c].req
             r == [status |-> "confirmed", made |-> row[p][i].made + 1]
  <2>1. i \in ReqIds /\ p \in Projects /\ r.status \in Saved
    BY <1>4 DEF EndConfirm, Numbered, Saved
  <2>2. row' = [row EXCEPT ![p][i] = r]
    BY <1>4, <2>1 DEF EndConfirm, ComposerTypeOK
  <2> HIDE DEF r, p, i
  <2>3. \A o \in Projects, j \in ReqIds: row'[o][j] = row[o][j] \/ row'[o][j] = r
    BY <2>1, <2>2 DEF ComposerTypeOK
  <2>4. QED BY <2>1, <2>3 DEF Status
<1>5. ASSUME NEW c \in Calls, HalfConfirm(c)
      PROVE  \A o \in Projects, j \in ReqIds: Status(o, j) \in Saved => Status(o, j)' \in Saved
  <2> DEFINE p == pending[c].project
             i == pending[c].req
             r == [row[p][i] EXCEPT !.made = row[p][i].made + 1]
  <2>1. i \in ReqIds /\ p \in Projects
    BY <1>5 DEF HalfConfirm, Numbered
  <2>2. row[p][i] \in ReqRow
    BY <2>1 DEF ComposerTypeOK, ReqRow
  <2>3. r.status = row[p][i].status
    BY <2>2 DEF ReqRow
  <2>4. row' = [row EXCEPT ![p][i] = r]
    BY <1>5, <2>1 DEF HalfConfirm, ComposerTypeOK
  <2> HIDE DEF r, p, i
  <2>5. \A o \in Projects, j \in ReqIds: row'[o][j] = row[o][j] \/ (o = p /\ j = i /\ row'[o][j] = r)
    BY <2>1, <2>4 DEF ComposerTypeOK
  <2>6. QED BY <2>3, <2>5 DEF Status
<1>6. CASE UNCHANGED row
  BY <1>6 DEF Status
<1>7. QED
  BY <1>2, <1>3, <1>4, <1>5, <1>6
     DEF ComposerNext, composerVars, Choose, Target, OpenComposer, Back, CloseComposer, BeginConfirm,
         Decompose, Approve, Discard, Decomposed, Confirmed, Failed

LEMMA SavedStep == ComposerInv /\ SavedInv /\ [ComposerNext]_composerVars => SavedInv'
<1> SUFFICES ASSUME ComposerInv, SavedInv, [ComposerNext]_composerVars PROVE SavedInv'
  OBVIOUS
<1> USE CallTypes
<1>1. \A p \in Projects, i \in ReqIds: Status(p, i) \in Saved => Status(p, i)' \in Saved
  BY RowsStaySaved
\* Nothing comes to be shown or answered that was not so before.
<1>2. ASSUME composer'.step = "review" =>
               /\ composer.step = "review" /\ composer'.origin = composer.origin
               /\ composer'.req = composer.req,
             \A d \in Calls: Previewed(pending'[d]) =>
               /\ Previewed(pending[d]) /\ pending'[d].project = pending[d].project
               /\ pending'[d].req = pending[d].req
      PROVE  SavedInv'
  <2>1. ASSUME composer'.step = "review" PROVE Status(composer.origin, composer.req)' \in Saved
    BY <1>1, <1>2, <2>1 DEF SavedInv, Status
  <2>2. ASSUME NEW d \in Calls, Previewed(pending'[d]) PROVE StatusOf(d)' \in Saved
    <3>1. /\ Previewed(pending[d]) /\ pending'[d].project = pending[d].project
          /\ pending'[d].req = pending[d].req
      BY <1>2, <2>2
    <3>2. pending[d].req \in ReqIds
      BY <3>1 DEF Previewed, Numbered
    <3>3. Status(pending[d].project, pending[d].req) \in Saved
      BY <3>1 DEF SavedInv, StatusOf, Status
    <3>4. QED BY <1>1, <3>1, <3>2, <3>3 DEF StatusOf, Status
  <2>3. QED BY <2>1, <2>2 DEF SavedInv
\* One call changes.
<1>3. ASSUME NEW c \in Calls,
             composer'.step = "review" =>
               /\ composer.step = "review" /\ composer'.origin = composer.origin
               /\ composer'.req = composer.req,
             \A d \in Calls \ {c}: pending'[d] = pending[d],
             ~Previewed(pending'[c])
      PROVE  SavedInv'
  BY <1>2, <1>3
<1>4. NewComposer(chosen).step = "compose" /\ NoComposer.step = "compose" /\ NoPending.kind = "none"
  BY ComposerRecords DEF ComposerTypeOK
<1>5. ASSUME \/ \E p \in Projects: Choose(p) \/ Target(p)
             \/ OpenComposer \/ Back \/ UNCHANGED composerVars
      PROVE  SavedInv'
  BY <1>2, <1>4, <1>5 DEF Choose, Target, OpenComposer, Back, composerVars, ComposerRecord
<1>6. CASE CloseComposer
  <2>1. \A d \in Calls: /\ pending'[d].kind = pending[d].kind /\ pending'[d].server = pending[d].server
                        /\ pending'[d].project = pending[d].project /\ pending'[d].req = pending[d].req
    <3> TAKE d \in Calls
    <3>1. pending'[d] = [pending[d] EXCEPT !.mine = FALSE]
      BY <1>6 DEF CloseComposer, Abandoned
    <3>2. QED BY <3>1 DEF PendingRecord
  <2>2. QED BY <1>2, <1>4, <1>6, <2>1 DEF CloseComposer, Previewed
<1>7. ASSUME NEW c \in Calls, NEW i \in ReqIds, BeginDecompose(c, i) PROVE SavedInv'
  <2>1. pending' = [pending EXCEPT ![c].server = "working", ![c].req = i] /\ UNCHANGED composer
    BY <1>7 DEF BeginDecompose
  <2>2. /\ pending'[c].server = "working"
        /\ \A d \in Calls \ {c}: pending'[d] = pending[d]
    BY <2>1 DEF ComposerTypeOK, PendingRecord
  <2>3. QED BY <1>3, <2>1, <2>2 DEF Previewed
<1>8. ASSUME NEW c \in Calls, EndDecompose(c) PROVE SavedInv'
  <2>1. /\ UNCHANGED composer /\ pending[c].req \in ReqIds
        /\ \/ ServerIs(c, "refused")
           \/ ServerIs(c, "done") /\ Marked(pending[c].project, pending[c].req, "preview_ready")
    BY <1>8 DEF EndDecompose, Marked, Numbered
  <2>2. CASE ServerIs(c, "refused")
    BY <1>3, <1>4, <2>1, <2>2, MovesOn DEF Previewed
  <2>3. CASE ServerIs(c, "done") /\ Marked(pending[c].project, pending[c].req, "preview_ready")
    <3>1. /\ \A d \in Calls \ {c}: pending'[d] = pending[d]
          /\ \/ pending'[c] = NoPending
             \/ /\ pending'[c].project = pending[c].project
                /\ pending'[c].req = pending[c].req
      BY <2>3, MovesOn
    <3>2. "preview_ready" \in Statuses /\ "preview_ready" \in Saved
      BY DEF Statuses, Saved
    <3>3. row'[pending[c].project][pending[c].req].status \in Saved
      BY <2>1, <2>3, <3>2, StatusWritten
    <3>4. Previewed(pending'[c]) => StatusOf(c)' \in Saved
      BY <1>4, <3>1, <3>3 DEF Previewed, StatusOf
    <3>5. ASSUME NEW d \in Calls, d # c, Previewed(pending'[d]) PROVE StatusOf(d)' \in Saved
      <4>1. pending'[d] = pending[d]
        BY <3>1, <3>5
      <4>2. Status(pending[d].project, pending[d].req) \in Saved /\ pending[d].req \in ReqIds
        BY <3>5, <4>1 DEF SavedInv, StatusOf, Status, Previewed, Numbered
      <4>3. QED BY <1>1, <4>1, <4>2 DEF StatusOf, Status
    <3>6. composer'.step = "review" => Status(composer.origin, composer.req)' \in Saved
      BY <1>1, <2>1 DEF SavedInv, Status
    <3>7. QED BY <3>4, <3>5, <3>6 DEF SavedInv
  <2>4. QED BY <2>1, <2>2, <2>3
<1>9. ASSUME NEW c \in Calls, BeginConfirm(c) \/ EndConfirm(c) \/ HalfConfirm(c) \/ ServeDiscard(c)
      PROVE  SavedInv'
  <2>1. pending[c].kind \in {"confirm", "discard"} /\ UNCHANGED composer
    BY <1>9 DEF BeginConfirm, EndConfirm, HalfConfirm, ServeDiscard
  <2>2. PICK state \in {"working", "done", "refused"}: ServerIs(c, state)
    BY <1>9 DEF BeginConfirm, EndConfirm, HalfConfirm, ServeDiscard
  <2>3. /\ \A d \in Calls \ {c}: pending'[d] = pending[d]
        /\ pending'[c] = NoPending \/ pending'[c].kind = pending[c].kind
    BY <2>2, MovesOn
  <2>4. QED BY <1>3, <1>4, <2>1, <2>3 DEF Previewed
<1>10. ASSUME NEW c \in Calls, Decompose(c) \/ Approve(c) \/ Discard(c) PROVE SavedInv'
  <2>1. PICK kind, p, i, awaited: Request(c, kind, p, i, awaited)
    BY <1>10 DEF Decompose, Approve, Discard
  <2>2. pending'[c].server = "sent" /\ \A d \in Calls \ {c}: pending'[d] = pending[d]
    BY <2>1, Requested
  <2>3. composer'.step = "review" =>
          /\ composer.step = "review" /\ composer'.origin = composer.origin
          /\ composer'.req = composer.req
    BY <1>4, <1>10 DEF Decompose, Approve, Discard, ComposerRecord
  <2>4. QED BY <1>3, <2>2, <2>3 DEF Previewed
<1>11. ASSUME NEW c \in Calls, Decomposed(c) PROVE SavedInv'
  <2>1. /\ Previewed(pending[c]) /\ PendingOver(c) /\ UNCHANGED row
        /\ \/ UNCHANGED composer
           \/ composer' = [composer EXCEPT !.step = "review", !.req = pending[c].req,
                                           !.origin = pending[c].project]
    BY <1>11 DEF Decomposed, Previewed
  <2>2. /\ \A d \in Calls \ {c}: pending'[d] = pending[d]
        /\ pending'[c] = NoPending
    BY <2>1, WaitsOver DEF Previewed
  <2>3. CASE UNCHANGED composer
    BY <1>3, <1>4, <2>2, <2>3 DEF Previewed
  <2>4. CASE composer' = [composer EXCEPT !.step = "review", !.req = pending[c].req,
                                          !.origin = pending[c].project]
    <3>1. composer'.req = pending[c].req /\ composer'.origin = pending[c].project
      BY <2>4 DEF ComposerRecord
    <3>2. Status(composer.origin, composer.req)' \in Saved
      BY <2>1, <3>1 DEF SavedInv, StatusOf, Status
    <3>3. \A d \in Calls: Previewed(pending'[d]) => StatusOf(d)' \in Saved
      BY <1>4, <2>1, <2>2 DEF SavedInv, StatusOf, Previewed
    <3>4. QED BY <3>2, <3>3 DEF SavedInv
  <2>5. QED BY <2>1, <2>3, <2>4
<1>12. ASSUME NEW c \in Calls, Confirmed(c) \/ Failed(c) PROVE SavedInv'
  <2>1. PendingOver(c)
    BY <1>12 DEF Confirmed, Failed
  <2>2. /\ \A d \in Calls \ {c}: pending'[d] = pending[d]
        /\ ~Previewed(pending'[c])
    BY <1>4, <2>1, WaitsOver DEF Previewed
  <2>3. composer'.step = "review" =>
          /\ composer.step = "review" /\ composer'.origin = composer.origin
          /\ composer'.req = composer.req
    <3>1. CASE Failed(c)
      <4>1. \/ UNCHANGED composer \/ composer' = [composer EXCEPT !.step = "compose"]
            \/ composer' = [composer EXCEPT !.confirming = FALSE]
        BY <3>1 DEF Failed
      <4>2. QED BY <4>1 DEF ComposerRecord
    <3>2. CASE Confirmed(c)
      <4> DEFINE k == IF pending[c].mine
                      THEN [composer EXCEPT !.step = "created", !.confirming = FALSE]
                      ELSE composer
      <4>1. k = composer \/ (k.step = "created" /\ k \in ComposerRecord)
        BY DEF ComposerRecord, Steps
      <4>2. composer' = Followed(k, pending[c].project)
        BY <3>2 DEF Confirmed
      <4> HIDE DEF k
      <4>3. k \in ComposerRecord
        BY <4>1
      <4>4. composer'.step = k.step /\ composer'.origin = k.origin /\ composer'.req = k.req
        BY <4>2, <4>3 DEF Followed, ComposerRecord
      <4>5. QED BY <4>1, <4>4
    <3>3. QED BY <1>12, <3>1, <3>2
  <2>4. QED BY <1>3, <2>2, <2>3
<1>13. QED
  BY <1>5, <1>6, <1>7, <1>8, <1>9, <1>10, <1>11, <1>12 DEF ComposerNext

LEMMA PreviewsSaved == ComposerInv /\ SavedInv => PreviewIsSaved
<1> SUFFICES ASSUME ComposerInv, SavedInv, composer.step = "review"
             PROVE  composer.req \in ReqIds /\ Status(composer.origin, composer.req) \in Saved
  BY DEF PreviewIsSaved, Saved
<1>1. QED BY CallTypes DEF SavedInv

-----------------------------------------------------------------------------
(* The projects: while no two calls that change the list crossed, the page *)
(* is behind the server by what the one call under way has done so far.    *)

Changing(q) == q.kind \in {"create", "delete", "seed"}

Behind(q, held, real) ==
  /\ q.at \in {"sent", "refused"} => held = real
  /\ q.at = "again" => real = held \cup {DemoProject}
  /\ q.at = "answered" /\ q.kind = "create" => real = held \cup {q.project}
  /\ q.at = "answered" /\ q.kind = "delete" => real = held \ {q.project}
  /\ q.at = "answered" /\ q.kind = "seed" => q.list = real /\ DemoProject \in real

SeedsAsk(q) ==
  /\ q.at = "again" => q.kind = "seed"
  /\ q.kind = "seed" => q.project = DemoProject

OneChanges ==
  /\ selectedId \in projects
  /\ \A c, d \in Calls: Changing(order[c]) /\ Changing(order[d]) => c = d
  /\ \A c \in Calls: Changing(order[c]) => Behind(order[c], projects, existing)
  /\ (\A c \in Calls: ~Changing(order[c])) => projects = existing

ListInv ==
  /\ DefaultProject \in existing
  /\ \A c \in Calls: SeedsAsk(order[c])
  /\ ~stray => OneChanges

LEMMA ListStart == ProjectsInit \/ ProjectsAside => ListInv
<1> SUFFICES ASSUME ProjectsInit PROVE ListInv
  BY DEF ProjectsAside
<1>1. \A c \in Calls: order[c].kind = "none" /\ order[c].at = "sent"
  BY DEF ProjectsInit, NoOrder
<1>2. QED BY <1>1 DEF ProjectsInit, ListInv, OneChanges, Changing, SeedsAsk

LEMMA ListIsServers == ListInv => ListAgrees
<1> SUFFICES ASSUME ListInv, ~stray, \A c \in Calls: order[c] = NoOrder
             PROVE  selectedId \in projects /\ projects = existing
  BY DEF ListAgrees
<1>1. \A c \in Calls: ~Changing(order[c])
  BY DEF NoOrder, Changing
<1>2. QED BY <1>1 DEF ListInv, OneChanges

\* A step that leaves the lists and the calls alone.
LEMMA ListKept ==
  ASSUME ListInv, UNCHANGED <<existing, projects, order, stray>>,
         selectedId' = selectedId \/ selectedId' \in projects
  PROVE  ListInv'
BY DEF ListInv, OneChanges

\* A call that does not change the list, or is over with nothing to tell.
LEMMA OtherOrder ==
  ASSUME ListInv, NEW c \in Calls, NEW q, SeedsAsk(q), ~Changing(order[c]), ~Changing(q),
         order' = [order EXCEPT ![c] = q], order \in [Calls -> OrderRecord],
         UNCHANGED <<existing, projects, selectedId>>, ~stray' => ~stray
  PROVE  ListInv'
<1>1. order'[c] = q /\ \A d \in Calls: d # c => order'[d] = order[d]
  OBVIOUS
<1>2. \A d \in Calls: Changing(order'[d]) => Changing(order[d]) /\ order'[d] = order[d]
  BY <1>1
<1>3. \A d \in Calls: Changing(order[d]) => Changing(order'[d])
  BY <1>1
<1>5. ASSUME ~stray' PROVE OneChanges'
  <2>1. OneChanges
    BY <1>5 DEF ListInv
  <2>2. \A d, e \in Calls: Changing(order'[d]) /\ Changing(order'[e]) => d = e
    BY <1>2, <2>1 DEF OneChanges
  <2>3. \A d \in Calls: Changing(order'[d]) => Behind(order'[d], projects', existing')
    BY <1>2, <2>1 DEF OneChanges
  <2>4. (\A d \in Calls: ~Changing(order'[d])) => projects' = existing'
    BY <1>3, <2>1 DEF OneChanges
  <2>5. selectedId' \in projects'
    BY <2>1 DEF OneChanges
  <2>6. QED BY <2>2, <2>3, <2>4, <2>5 DEF OneChanges
<1>6. \A d \in Calls: SeedsAsk(order'[d])
  BY <1>1 DEF ListInv
<1>7. QED BY <1>5, <1>6 DEF ListInv

\* The one call that changes the list goes on, or is made.
LEMMA ChangeGoesOn ==
  ASSUME ListInv, NEW c \in Calls, NEW q, SeedsAsk(q), Changing(q),
         ~stray' => Behind(q, projects', existing'),
         order' = [order EXCEPT ![c] = q], order \in [Calls -> OrderRecord],
         UNCHANGED <<projects, selectedId>>, DefaultProject \in existing',
         ~stray' => ~stray /\ \A d \in Calls: d # c => ~Changing(order[d])
  PROVE  ListInv'
<1>1. order'[c] = q /\ \A d \in Calls: d # c => order'[d] = order[d]
  OBVIOUS
<1>2. ASSUME ~stray' PROVE OneChanges'
  <2>1. OneChanges /\ \A d \in Calls: Changing(order'[d]) => d = c
    BY <1>1, <1>2 DEF ListInv
  <2>2. QED BY <1>1, <1>2, <2>1 DEF OneChanges
<1>3. \A d \in Calls: SeedsAsk(order'[d])
  BY <1>1 DEF ListInv
<1>4. QED BY <1>2, <1>3 DEF ListInv

\* The one call that changes the list is over, and the page has the server's.
LEMMA ChangeIsOver ==
  ASSUME ListInv, NEW c \in Calls, Changing(order[c]), OrderDone(c), UNCHANGED existing,
         order \in [Calls -> OrderRecord],
         ~stray => projects' = existing /\ selectedId' \in projects'
  PROVE  ListInv'
<1>1. /\ order'[c] = NoOrder /\ UNCHANGED stray
      /\ \A d \in Calls: d # c => order'[d] = order[d]
  BY DEF OrderDone
<1>2. ~Changing(NoOrder) /\ SeedsAsk(NoOrder)
  BY DEF NoOrder, Changing, SeedsAsk
<1>3. ASSUME ~stray' PROVE OneChanges'
  <2>1. \A d \in Calls: Changing(order[d]) => d = c
    BY <1>1, <1>3 DEF ListInv, OneChanges
  <2>2. \A d \in Calls: ~Changing(order'[d])
    BY <1>1, <1>2, <2>1
  <2>3. projects' = existing' /\ selectedId' \in projects'
    BY <1>1, <1>3
  <2>4. QED BY <2>2, <2>3 DEF OneChanges
<1>4. \A d \in Calls: SeedsAsk(order'[d])
  BY <1>1, <1>2 DEF ListInv
<1>5. QED BY <1>3, <1>4 DEF ListInv

LEMMA ListStep == ProjectsInv /\ ListInv /\ [ProjectsNext]_projectsVars => ListInv'
<1> SUFFICES ASSUME ProjectsInv, ListInv, [ProjectsNext]_projectsVars PROVE ListInv'
  OBVIOUS
<1> USE DemoProjectAssumption
<1>1. order \in [Calls -> OrderRecord] /\ \A c \in Calls: order[c] \in OrderRecord
  BY DEF ProjectsInv, ProjectsTypeOK
<1>2. /\ \A c \in Calls: SeedsAsk(order[c])
      /\ ~stray => OneChanges
      /\ DefaultProject \in existing
  BY DEF ListInv
<1>3. ASSUME \/ \E p \in ProjectIds: SelectProject(p)
             \/ OpenSettings \/ OpenAdd \/ ClosePanels \/ AskDelete
             \/ UNCHANGED projectsVars
      PROVE  ListInv'
  BY <1>3, ListKept
     DEF SelectProject, OpenSettings, OpenAdd, ClosePanels, AskDelete, OnlySwitcher, projectsVars
<1>4. ASSUME NEW c \in Calls, ServeOrder(c) PROVE ListInv'
  <2> DEFINE q == [order[c] EXCEPT !.at = IF order[c].kind = "seed" THEN "again" ELSE "answered"]
  <2>1. /\ order' = [order EXCEPT ![c] = q] /\ order[c].at = "sent"
        /\ UNCHANGED <<projects, selectedId, stray>>
    BY <1>4 DEF ServeOrder
  <2>2. /\ q.kind = order[c].kind /\ q.project = order[c].project /\ q.list = order[c].list
        /\ q.at = IF order[c].kind = "seed" THEN "again" ELSE "answered"
    BY <1>1 DEF OrderRecord
  <2> HIDE DEF q
  <2>3. SeedsAsk(q)
    BY <1>2, <2>2 DEF SeedsAsk
  <2>4. CASE ~Changing(order[c])
    <3>1. order[c].kind \notin {"create", "delete", "seed"} /\ ~Changing(q)
      BY <2>2, <2>4 DEF Changing
    <3>2. UNCHANGED existing
      BY <1>4, <3>1 DEF ServeOrder
    <3>3. QED BY <1>1, <2>1, <2>3, <2>4, <3>1, <3>2, OtherOrder
  <2>5. CASE Changing(order[c])
    <3>1. /\ order[c].kind \in {"create", "seed"} => existing' = existing \cup {order[c].project}
          /\ order[c].kind = "delete" =>
               existing' = existing \ {order[c].project} /\ order[c].project # DefaultProject
      BY <1>4 DEF ServeOrder
    <3>2. order[c].kind \in {"create", "delete", "seed"} /\ Changing(q)
      BY <2>2, <2>5 DEF Changing
    <3>3. DefaultProject \in existing'
      BY <1>2, <3>1, <3>2
    <3>4. ASSUME ~stray' PROVE projects = existing /\ \A d \in Calls: d # c => ~Changing(order[d])
      BY <1>2, <2>1, <2>5, <3>4 DEF OneChanges, Behind
    <3>5. ASSUME ~stray' PROVE Behind(q, projects', existing')
      <4>1. projects' = existing
        BY <2>1, <3>4, <3>5
      <4>2. CASE order[c].kind = "seed"
        <5>1. q.kind = "seed" /\ q.at = "again" /\ existing' = existing \cup {DemoProject}
          BY <1>2, <2>2, <3>1, <4>2 DEF SeedsAsk
        <5>2. QED BY <4>1, <5>1 DEF Behind
      <4>3. CASE order[c].kind = "create"
        <5>1. q.kind = "create" /\ q.at = "answered" /\ existing' = existing \cup {q.project}
          BY <2>2, <3>1, <4>3
        <5>2. QED BY <4>1, <5>1 DEF Behind
      <4>4. CASE order[c].kind = "delete"
        <5>1. q.kind = "delete" /\ q.at = "answered" /\ existing' = existing \ {q.project}
          BY <2>2, <3>1, <4>4
        <5>2. QED BY <4>1, <5>1 DEF Behind
      <4>5. QED BY <3>2, <4>2, <4>3, <4>4
    <3>6. QED BY <1>1, <2>1, <2>3, <3>2, <3>3, <3>4, <3>5, ChangeGoesOn
  <2>6. QED BY <2>4, <2>5
<1>5. ASSUME NEW c \in Calls, ServeListing(c) PROVE ListInv'
  <2> DEFINE q == [order[c] EXCEPT !.at = "answered", !.list = existing]
  <2>1. /\ order' = [order EXCEPT ![c] = q] /\ order[c].at = "again"
        /\ UNCHANGED <<existing, projects, selectedId, stray>>
    BY <1>5 DEF ServeListing
  <2>2. order[c].kind = "seed"
    BY <1>2, <2>1 DEF SeedsAsk
  <2>3. q.kind = "seed" /\ q.at = "answered" /\ q.list = existing /\ q.project = order[c].project
    BY <1>1, <2>2 DEF OrderRecord
  <2> HIDE DEF q
  <2>4. SeedsAsk(q) /\ Changing(q) /\ Changing(order[c])
    BY <1>2, <2>2, <2>3 DEF SeedsAsk, Changing
  <2>5. ASSUME ~stray' PROVE DemoProject \in existing /\ \A d \in Calls: d # c => ~Changing(order[d])
    BY <1>2, <2>1, <2>4, <2>5 DEF OneChanges, Behind
  <2>6. ~stray' => Behind(q, projects', existing')
    BY <2>1, <2>3, <2>5 DEF Behind
  <2>7. QED BY <1>1, <1>2, <2>1, <2>4, <2>5, <2>6, ChangeGoesOn
<1>6. ASSUME NEW c \in Calls, RefuseOrder(c) PROVE ListInv'
  <2> DEFINE q == [order[c] EXCEPT !.at = "refused", !.list = {}]
  <2>1. /\ order' = [order EXCEPT ![c] = q]
        /\ UNCHANGED <<existing, projects, selectedId>>
        /\ ~stray' => ~stray /\ order[c].at = "sent"
    BY <1>6 DEF RefuseOrder
  <2>2. q.kind = order[c].kind /\ q.at = "refused" /\ q.project = order[c].project
    BY <1>1 DEF OrderRecord
  <2> HIDE DEF q
  <2>3. SeedsAsk(q) /\ (Changing(q) <=> Changing(order[c]))
    BY <1>2, <2>2 DEF SeedsAsk, Changing
  <2>4. CASE ~Changing(order[c])
    BY <1>1, <2>1, <2>3, <2>4, OtherOrder
  <2>5. CASE Changing(order[c])
    <3>1. ASSUME ~stray' PROVE projects = existing /\ \A d \in Calls: d # c => ~Changing(order[d])
      BY <1>2, <2>1, <2>5, <3>1 DEF OneChanges, Behind
    <3>2. ~stray' => Behind(q, projects', existing')
      BY <2>1, <2>2, <3>1 DEF Behind
    <3>3. QED BY <1>1, <1>2, <2>1, <2>3, <2>5, <3>1, <3>2, ChangeGoesOn
  <2>6. QED BY <2>4, <2>5
\* A call that is made: a second one is a stray.
<1>7. ASSUME NEW c \in Calls, NEW kind \in {"create", "save", "delete", "seed"}, NEW p, NEW meant,
             Order(c, kind, p, meant), kind = "seed" => p = DemoProject
      PROVE  ListInv'
  <2> DEFINE q == [NoOrder EXCEPT !.kind = kind, !.project = p, !.meant = meant]
  <2>1. /\ order' = [order EXCEPT ![c] = q] /\ order[c] = NoOrder
        /\ UNCHANGED <<existing, projects, selectedId>>
        /\ ~stray' => ~stray /\ \A d \in Calls: order[d].kind \in {"none", "save"}
    BY <1>7 DEF Order
  <2>2. q.kind = kind /\ q.at = "sent" /\ q.project = p /\ NoOrder.kind = "none"
    BY DEF NoOrder
  <2> HIDE DEF q
  <2>3. SeedsAsk(q) /\ ~Changing(order[c])
    BY <1>7, <2>1, <2>2 DEF SeedsAsk, Changing
  <2>4. CASE kind = "save"
    BY <1>1, <2>1, <2>2, <2>3, <2>4, OtherOrder DEF Changing
  <2>5. CASE kind # "save"
    <3>1. Changing(q)
      BY <1>7, <2>2, <2>5 DEF Changing
    <3>2. ASSUME ~stray' PROVE projects = existing /\ \A d \in Calls: ~Changing(order[d])
      <4>1. \A d \in Calls: ~Changing(order[d])
        BY <2>1, <3>2 DEF Changing
      <4>2. QED BY <1>2, <2>1, <3>2, <4>1 DEF OneChanges
    <3>3. ~stray' => Behind(q, projects', existing')
      BY <2>1, <2>2, <3>2 DEF Behind
    <3>4. QED BY <1>1, <1>2, <2>1, <2>3, <3>1, <3>2, <3>3, ChangeGoesOn
  <2>6. QED BY <2>4, <2>5
<1>8. ASSUME NEW c \in Calls,
             \/ \E p \in ProjectIds: CreateProject(c, p)
             \/ SaveProject(c) \/ DeleteProject(c) \/ SeedDemo(c)
      PROVE  ListInv'
  BY <1>7, <1>8 DEF CreateProject, SaveProject, DeleteProject, SeedDemo
<1>9. ASSUME NEW c \in Calls, ~Changing(order[c]), OrderDone(c),
             UNCHANGED <<existing, projects, selectedId>>
      PROVE  ListInv'
  <2>1. SeedsAsk(NoOrder) /\ ~Changing(NoOrder)
    BY DEF NoOrder, SeedsAsk, Changing
  <2>2. QED BY <1>1, <1>9, <2>1, OtherOrder DEF OrderDone
<1>10. ASSUME NEW c \in Calls, Created(c) PROVE ListInv'
  <2>1. /\ order[c].kind = "create" /\ order[c].at = "answered" /\ OrderDone(c)
        /\ projects' = projects \cup {order[c].project} /\ selectedId' = order[c].project
        /\ UNCHANGED existing
    BY <1>10 DEF Created, Answered
  <2>2. Changing(order[c])
    BY <2>1 DEF Changing
  <2>3. ~stray => existing = projects \cup {order[c].project}
    BY <1>2, <2>1, <2>2 DEF OneChanges, Behind
  <2>4. QED BY <1>1, <2>1, <2>2, <2>3, ChangeIsOver
<1>11. ASSUME NEW c \in Calls, ProjectSaved(c) PROVE ListInv'
  BY <1>9, <1>11 DEF ProjectSaved, Answered, Changing
<1>12. ASSUME NEW c \in Calls, Deleted(c) PROVE ListInv'
  <2>1. /\ order[c].kind = "delete" /\ order[c].at = "answered" /\ OrderDone(c)
        /\ projects' = projects \ {order[c].project} /\ UNCHANGED existing
        /\ selectedId = order[c].project =>
             selectedId' \in (IF projects' = {} THEN {DefaultProject} ELSE projects')
        /\ selectedId # order[c].project => selectedId' = selectedId
    BY <1>12 DEF Deleted, Answered
  <2>2. Changing(order[c])
    BY <2>1 DEF Changing
  <2>3. ASSUME ~stray PROVE projects' = existing /\ selectedId \in projects
    BY <1>2, <2>1, <2>2, <2>3 DEF OneChanges, Behind
  <2>4. ASSUME ~stray PROVE selectedId' \in projects'
    <3>1. projects' # {}
      BY <1>2, <2>3, <2>4
    <3>2. QED BY <2>1, <2>3, <2>4, <3>1
  <2>5. QED BY <1>1, <2>1, <2>2, <2>3, <2>4, ChangeIsOver
<1>13. ASSUME NEW c \in Calls, Seeded(c) PROVE ListInv'
  <2>1. /\ order[c].kind = "seed" /\ order[c].at = "answered" /\ OrderDone(c)
        /\ projects' = order[c].list /\ selectedId' = DemoProject /\ UNCHANGED existing
    BY <1>13 DEF Seeded, Answered
  <2>2. Changing(order[c])
    BY <2>1 DEF Changing
  <2>3. ~stray => order[c].list = existing /\ DemoProject \in existing
    BY <1>2, <2>1, <2>2 DEF OneChanges, Behind
  <2>4. QED BY <1>1, <2>1, <2>2, <2>3, ChangeIsOver
<1>14. ASSUME NEW c \in Calls, OrderFailed(c) PROVE ListInv'
  <2>1. /\ order[c].at = "refused" /\ OrderDone(c)
        /\ UNCHANGED <<existing, projects, selectedId>>
    BY <1>14 DEF OrderFailed
  <2>2. CASE ~Changing(order[c])
    BY <1>9, <2>1, <2>2
  <2>3. CASE Changing(order[c])
    <3>1. ~stray => projects = existing /\ selectedId \in projects
      BY <1>2, <2>1, <2>3 DEF OneChanges, Behind
    <3>2. QED BY <1>1, <2>1, <2>3, <3>1, ChangeIsOver
  <2>4. QED BY <2>2, <2>3
<1>15. QED
  BY <1>3, <1>4, <1>5, <1>6, <1>8, <1>10, <1>11, <1>12, <1>13, <1>14 DEF ProjectsNext

-----------------------------------------------------------------------------
(* The templates: an answer on its way holds what was stored before it, and *)
(* until it arrives the select holds what was saved since.                 *)

KeptTemplates == {"stored", "lost", "over"}

OfferInv ==
  /\ TemplatesTypeOK
  /\ listing.at = "sent" => overtaken = {}
  /\ listing.at \in {"answered", "failed"} =>
       \A t \in Mine \ overtaken: filing[t] \in KeptTemplates => t \in listing.ids
  /\ listing.at # "over" => \A t \in onOffer.ids: t \in Mine /\ filing[t] = "over"
  /\ SavedIsOffered /\ SelectedIsOffered

FilingStates == {"none", "sent", "stored", "lost", "refused", "over"}
ListingRecord == [at: {"sent", "answered", "failed", "over"}, ids: SUBSET Templates]
OfferRecord == [ids: SUBSET Templates, demo: BOOLEAN]

LEMMA OfferStart == TemplatesInit \/ TemplatesAside => OfferInv
<1> SUFFICES ASSUME TemplatesInit PROVE OfferInv
  BY DEF TemplatesAside
<1>1. TemplatesTypeOK
  BY DEF TemplatesInit, TemplatesTypeOK
<1>2. QED BY <1>1 DEF TemplatesInit, OfferInv, SavedIsOffered, SelectedIsOffered, KeptTemplates

LEMMA OfferStep == OfferInv /\ [TemplatesNext]_templatesVars => OfferInv'
<1> SUFFICES ASSUME OfferInv, [TemplatesNext]_templatesVars PROVE OfferInv'
  OBVIOUS
<1> USE BuiltInAssumption
<1>1. /\ filing \in [Mine -> FilingStates] /\ listing \in ListingRecord
      /\ onOffer \in OfferRecord /\ onOffer.ids \subseteq Templates
      /\ listing.ids \subseteq Templates /\ overtaken \subseteq Mine
      /\ selectedTemplate \in Templates \cup {NoTemplate}
  BY DEF OfferInv, TemplatesTypeOK, FilingStates, ListingRecord, OfferRecord
<1>2. prompted \in BOOLEAN /\ saving \in BOOLEAN
  BY DEF OfferInv, TemplatesTypeOK
<1>3. /\ listing.at = "sent" => overtaken = {}
      /\ listing.at \in {"answered", "failed"} =>
           \A t \in Mine \ overtaken: filing[t] \in KeptTemplates => t \in listing.ids
      /\ listing.at # "over" => \A t \in onOffer.ids: t \in Mine /\ filing[t] = "over"
      /\ \A t \in Mine \ overtaken: filing[t] = "over" => t \in onOffer.ids
      /\ selectedTemplate \notin {NoTemplate} \cup overtaken => selectedTemplate \in onOffer.ids
  BY DEF OfferInv, SavedIsOffered, SelectedIsOffered
\* Only the form changes.
<1>4. ASSUME UNCHANGED <<filing, listing, onOffer, overtaken>>,
             prompted' \in BOOLEAN, saving' \in BOOLEAN,
             selectedTemplate' \in {selectedTemplate, NoTemplate} \cup onOffer.ids
      PROVE  OfferInv'
  <2>1. TemplatesTypeOK'
    BY <1>1, <1>4 DEF OfferInv, TemplatesTypeOK
  <2>2. SelectedIsOffered'
    BY <1>3, <1>4 DEF SelectedIsOffered
  <2>3. QED BY <1>4, <2>1, <2>2 DEF OfferInv, SavedIsOffered
<1>5. ASSUME TypePrompt \/ NoneChosen \/ ToggleSave \/ UNCHANGED templatesVars PROVE OfferInv'
  BY <1>2, <1>4, <1>5 DEF TypePrompt, NoneChosen, ToggleSave, templatesVars
<1>6. ASSUME NEW t \in Templates, Apply(t) PROVE OfferInv'
  BY <1>2, <1>4, <1>6 DEF Apply
<1>7. CASE ServeTemplates
  <2>1. /\ listing.at = "sent" /\ overtaken = {}
        /\ UNCHANGED <<filing, onOffer, prompted, selectedTemplate, saving>>
        /\ \/ listing' = [at |-> "answered", ids |-> StoredTemplates] /\ overtaken' = {}
           \/ /\ listing' = [at |-> "failed", ids |-> {}]
              /\ overtaken' = StoredTemplates \ {BuiltIn}
    BY <1>3, <1>7 DEF ServeTemplates
  <2>2. /\ StoredTemplates \subseteq Templates
        /\ \A t \in Mine: filing[t] \in KeptTemplates => t \in StoredTemplates
    BY DEF StoredTemplates, Templates, KeptTemplates
  <2>3. StoredTemplates \ {BuiltIn} \subseteq Mine
    BY DEF StoredTemplates
  <2>4. listing' \in ListingRecord /\ overtaken' \subseteq Mine /\ listing'.at \in {"answered", "failed"}
    BY <2>1, <2>2, <2>3 DEF ListingRecord
  <2>5. TemplatesTypeOK'
    BY <2>1, <2>4 DEF OfferInv, TemplatesTypeOK, ListingRecord
  <2>6. \A t \in Mine \ overtaken': filing[t] \in KeptTemplates => t \in listing'.ids
    BY <2>1, <2>2
  <2>7. SavedIsOffered' /\ SelectedIsOffered'
    BY <1>3, <2>1 DEF SavedIsOffered, SelectedIsOffered
  <2>8. QED BY <1>3, <2>1, <2>4, <2>5, <2>6, <2>7 DEF OfferInv
\* One save goes on, not to be told to the page.
<1>8. ASSUME NEW t \in Mine, NEW s \in FilingStates \ {"over"}, filing[t] # "over",
             filing' = [filing EXCEPT ![t] = s],
             UNCHANGED <<listing, onOffer, prompted, selectedTemplate, saving>>,
             overtaken' \in SUBSET Mine, overtaken \subseteq overtaken',
             listing.at = "sent" => overtaken' = {},
             (listing.at \in {"answered", "failed"} /\ s \in KeptTemplates /\ t \notin overtaken')
               => filing[t] \in KeptTemplates
      PROVE  OfferInv'
  <2>1. /\ filing' \in [Mine -> FilingStates] /\ filing'[t] = s
        /\ \A u \in Mine: u # t => filing'[u] = filing[u]
    BY <1>1, <1>8
  <2>2. TemplatesTypeOK'
    BY <1>8, <2>1 DEF OfferInv, TemplatesTypeOK, FilingStates
  <2>3. \A u \in Mine: filing'[u] = "over" <=> filing[u] = "over"
    BY <1>8, <2>1
  <2>4. listing'.at \in {"answered", "failed"} =>
          \A u \in Mine \ overtaken': filing'[u] \in KeptTemplates => u \in listing'.ids
    BY <1>3, <1>8, <2>1
  <2>5. listing'.at # "over" => \A u \in onOffer'.ids: u \in Mine /\ filing'[u] = "over"
    BY <1>3, <1>8, <2>3
  <2>6. SavedIsOffered' /\ SelectedIsOffered'
    BY <1>3, <1>8, <2>3 DEF SavedIsOffered, SelectedIsOffered
  <2>7. QED BY <1>8, <2>2, <2>4, <2>5, <2>6 DEF OfferInv
<1>9. ASSUME NEW t \in Mine, StoreTemplate(t) PROVE OfferInv'
  <2>1. PICK s \in {"stored", "refused"}: filing' = [filing EXCEPT ![t] = s]
    BY <1>9 DEF StoreTemplate
  <2>2. filing[t] = "sent" /\ filing'[t] = s /\ s \in FilingStates \ {"over"}
    BY <1>1, <1>9, <2>1 DEF StoreTemplate, FilingStates
  <2>3. /\ overtaken' = IF listing.at \in {"answered", "failed"} /\ s = "stored"
                        THEN overtaken \cup {t} ELSE overtaken
        /\ UNCHANGED <<listing, onOffer, prompted, selectedTemplate, saving>>
    BY <1>9, <2>2 DEF StoreTemplate
  <2>4. /\ overtaken' \in SUBSET Mine /\ overtaken \subseteq overtaken'
        /\ listing.at = "sent" => overtaken' = {}
        /\ (listing.at \in {"answered", "failed"} /\ s \in KeptTemplates /\ t \notin overtaken')
             => filing[t] \in KeptTemplates
    BY <1>1, <1>3, <2>1, <2>3 DEF KeptTemplates
  <2>5. QED BY <1>8, <2>1, <2>2, <2>3, <2>4
<1>10. ASSUME NEW t \in Mine, LoseTemplate(t) \/ SaveTemplate(t) PROVE OfferInv'
  <2>1. PICK s \in {"lost", "sent"}: /\ filing' = [filing EXCEPT ![t] = s]
                                     /\ filing[t] = IF s = "lost" THEN "stored" ELSE "none"
    BY <1>10 DEF LoseTemplate, SaveTemplate
  <2>2. UNCHANGED <<listing, onOffer, prompted, selectedTemplate, saving, overtaken>>
    BY <1>10 DEF LoseTemplate, SaveTemplate
  <2>3. /\ s \in FilingStates \ {"over"} /\ filing[t] # "over"
        /\ s \in KeptTemplates => filing[t] \in KeptTemplates
    BY <2>1 DEF FilingStates, KeptTemplates
  <2>4. QED BY <1>1, <1>3, <1>8, <2>1, <2>2, <2>3
<1>11. ASSUME NEW t \in Mine, TemplateSaved(t) PROVE OfferInv'
  <2>1. /\ filing[t] = "stored" /\ filing' = [filing EXCEPT ![t] = "over"]
        /\ onOffer' = [onOffer EXCEPT !.ids = onOffer.ids \cup {t}]
        /\ selectedTemplate' = t /\ saving' = FALSE /\ UNCHANGED <<listing, prompted, overtaken>>
    BY <1>11 DEF TemplateSaved
  <2>2. /\ filing' \in [Mine -> FilingStates] /\ filing'[t] = "over"
        /\ \A u \in Mine: u # t => filing'[u] = filing[u]
    BY <1>1, <2>1 DEF FilingStates
  <2>3. onOffer' \in OfferRecord /\ onOffer'.ids = onOffer.ids \cup {t} /\ t \in Templates
    BY <1>1, <2>1 DEF OfferRecord, Templates
  <2>4. TemplatesTypeOK'
    BY <2>1, <2>2, <2>3 DEF OfferInv, TemplatesTypeOK, FilingStates, OfferRecord
  <2>5. listing'.at \in {"answered", "failed"} =>
          \A u \in Mine \ overtaken': filing'[u] \in KeptTemplates => u \in listing'.ids
    BY <1>3, <2>1, <2>2 DEF KeptTemplates
  <2>6. listing'.at # "over" => \A u \in onOffer'.ids: u \in Mine /\ filing'[u] = "over"
    BY <1>3, <2>1, <2>2, <2>3
  <2>7. SavedIsOffered' /\ SelectedIsOffered'
    BY <1>3, <2>1, <2>2, <2>3 DEF SavedIsOffered, SelectedIsOffered
  <2>8. QED BY <1>3, <2>1, <2>4, <2>5, <2>6, <2>7 DEF OfferInv
<1>12. CASE TemplatesLoaded
  <2>1. /\ listing.at \in {"answered", "failed"}
        /\ onOffer' = [ids |-> listing.ids, demo |-> (listing.at = "failed")]
        /\ listing' = [at |-> "over", ids |-> {}]
        /\ UNCHANGED <<filing, prompted, selectedTemplate, saving, overtaken>>
    BY <1>12 DEF TemplatesLoaded
  <2>2. /\ onOffer' \in OfferRecord /\ onOffer'.ids = listing.ids
        /\ listing' \in ListingRecord /\ listing'.at = "over"
    BY <1>1, <2>1 DEF OfferRecord, ListingRecord
  <2>3. TemplatesTypeOK'
    BY <2>1, <2>2 DEF OfferInv, TemplatesTypeOK, OfferRecord, ListingRecord
  <2>4. \A t \in Mine \ overtaken: filing[t] = "over" => t \in listing.ids
    BY <1>3, <2>1 DEF KeptTemplates
  <2>5. selectedTemplate \notin {NoTemplate} \cup overtaken => selectedTemplate \in listing.ids
    BY <1>3, <2>1, <2>4
  <2>6. SavedIsOffered' /\ SelectedIsOffered'
    BY <2>1, <2>2, <2>4, <2>5 DEF SavedIsOffered, SelectedIsOffered
  <2>7. QED BY <2>2, <2>3, <2>6 DEF OfferInv
<1>13. QED
  BY <1>5, <1>6, <1>7, <1>9, <1>10, <1>11, <1>12 DEF TemplatesNext

-----------------------------------------------------------------------------
(* Signing in: while no run was cancelled with its code gone, a code is    *)
(* spent by the run that listens, and no run listens under a failure.      *)

NoneDropped ==
  /\ \A r \in Runs: run[r] # "cancelled"
  /\ code = "spent" => \E r \in Runs: run[r] = "taken"
  /\ ssoError = "callback" => \A r \in Runs: run[r] \notin Live

SignInv ==
  /\ SsoTypeOK
  /\ questions <= flips + 1
  /\ dropped = "no" => NoneDropped

LEMMA SignStart == SsoInit \/ SsoAside => SignInv
<1> SUFFICES ASSUME NEW w \in BOOLEAN, Visit(w), session = FALSE PROVE SignInv
  BY DEF SsoInit, SsoAside
<1> USE FlipsAssumption
<1>1. code \in {"none", "fresh"}
  BY DEF Visit
<1>2. SsoTypeOK
  <2>1. 0 \in 0..MaxFlips /\ 1 \in 0..(MaxFlips + 1)
    OBVIOUS
  <2>2. run \in [Runs -> RunStates] /\ questions = 1 /\ flips = 0
    BY DEF Visit, RunStates
  <2> HIDE FlipsAssumption
  <2>3. QED BY <1>1, <2>1, <2>2 DEF Visit, SsoTypeOK
<1>3. QED BY <1>1, <1>2 DEF Visit, SignInv, NoneDropped, Live

LEMMA ErrorsAreTrue == SignInv => ErrorIsTrue
<1> SUFFICES ASSUME SignInv, ssoError = "callback", dropped = "no", code = "spent" PROVE FALSE
  BY DEF ErrorIsTrue
<1>1. "taken" \in Live
  BY DEF Live
<1>2. QED BY <1>1 DEF SignInv, NoneDropped

\* The effect runs again.
LEMMA RerunIsTrue ==
  ASSUME SsoInv, SignInv, Rerun, UNCHANGED <<code, login, session>>,
         demoBoard' \in BOOLEAN, configured' \in BOOLEAN,
         flips' \in 0..MaxFlips, questions' \in 0..(MaxFlips + 1), questions' <= flips' + 1
  PROVE  SignInv'
<1>1. run' \in [Runs -> RunStates]
  BY RerunKeeps DEF SsoInv
<1>2. ssoError' \in {"none", ssoError} /\ ssoBusy' \in BOOLEAN
  BY DEF Rerun, SignInv, SsoTypeOK
<1>3. CASE \E r \in Runs: run[r] \in Live
  <2> DEFINE s == CHOOSE r \in Runs: run[r] \in Live
  <2>1. run[s] \in Live
    BY <1>3
  <2>2. dropped' = Ahead(run[s])
    BY <1>3 DEF Rerun
  <2> HIDE DEF s
  <2>3. dropped' \in {"sent", "reading"}
    BY <2>1, <2>2 DEF Ahead, Live
  <2>4. SsoTypeOK'
    BY <1>1, <1>2, <2>3 DEF SignInv, SsoTypeOK
  <2>5. QED BY <2>3, <2>4 DEF SignInv
<1>4. CASE \A r \in Runs: run[r] \notin Live
  <2>1. UNCHANGED dropped
    BY <1>4 DEF Rerun
  <2>2. SsoTypeOK'
    BY <1>1, <1>2, <2>1 DEF SignInv, SsoTypeOK
  <2>3. ASSUME dropped = "no" PROVE NoneDropped'
    <3>1. /\ \A r \in Runs: run[r] # "cancelled" /\ run[r] \notin Live
          /\ code # "spent"
      BY <1>4, <2>3 DEF SignInv, NoneDropped, Live
    <3>2. \A r \in Runs: RunsDropped(run)[r] = run[r]
      BY <3>1 DEF RunsDropped, Live
    <3>3. CASE configured' /\ ~demoBoard' /\ code # "none"
      <4>1. PICK r \in Runs: run' = [RunsDropped(run) EXCEPT ![r] = "sent"] /\ ssoError' = "none"
        BY <3>3 DEF Rerun
      <4>2. \A q \in Runs: run'[q] \in {run[q], "sent"}
        BY <3>2, <4>1 DEF RunsDropped
      <4>3. QED BY <3>1, <4>1, <4>2 DEF NoneDropped
    <3>4. CASE ~(configured' /\ ~demoBoard' /\ code # "none")
      <4>1. run' = RunsDropped(run)
        BY <3>4 DEF Rerun
      <4>2. QED BY <3>1, <3>2, <4>1 DEF NoneDropped
    <3>5. QED BY <3>3, <3>4
  <2>4. QED BY <2>1, <2>2, <2>3 DEF SignInv
<1>5. QED BY <1>3, <1>4

LEMMA SignStep == SsoInv /\ SignInv /\ [SsoNext]_ssoVars => SignInv'
<1> SUFFICES ASSUME SsoInv, SignInv, [SsoNext]_ssoVars PROVE SignInv'
  OBVIOUS
<1> USE FlipsAssumption
<1>1. /\ questions \in 0..(MaxFlips + 1) /\ flips \in 0..MaxFlips /\ questions <= flips + 1
      /\ run \in [Runs -> RunStates] /\ code \in {"none", "fresh", "spent"}
  BY DEF SignInv, SsoTypeOK
<1>2. demoBoard \in BOOLEAN /\ configured \in BOOLEAN /\ session \in BOOLEAN /\ ssoBusy \in BOOLEAN
  BY DEF SignInv, SsoTypeOK
<1>3. CASE BoardFlips
  <2>1. /\ flips < MaxFlips /\ flips' = flips + 1
        /\ questions' = IF demoBoard THEN questions + 1 ELSE questions
    BY <1>3 DEF BoardFlips
  <2>2. flips' \in 0..MaxFlips /\ questions' \in 0..(MaxFlips + 1) /\ questions' <= flips' + 1
    <3>1. questions' \in {questions, questions + 1}
      BY <2>1
    <3>2. QED BY <1>1, <2>1, <3>1
  <2>3. demoBoard' \in BOOLEAN /\ configured' \in BOOLEAN
    BY <1>2, <1>3, Zenon DEF BoardFlips
  <2>4. QED BY <1>3, <2>2, <2>3, RerunIsTrue DEF BoardFlips
<1>4. CASE ProviderKnown
  <2>1. /\ questions' = questions - 1 /\ questions > 0 /\ configured' \in BOOLEAN
        /\ UNCHANGED <<demoBoard, code, login, session, flips>>
    BY <1>4 DEF ProviderKnown
  <2>2. flips' \in 0..MaxFlips /\ questions' \in 0..(MaxFlips + 1) /\ questions' <= flips' + 1
    BY <1>1, <2>1
  <2>3. demoBoard' \in BOOLEAN
    BY <1>2, <2>1
  <2>4. CASE configured' # configured
    BY <1>4, <2>1, <2>2, <2>3, <2>4, RerunIsTrue DEF ProviderKnown
  <2>5. CASE configured' = configured
    <3>1. UNCHANGED <<run, dropped, ssoBusy, ssoError>>
      BY <1>4, <2>5 DEF ProviderKnown
    <3>2. SsoTypeOK'
      BY <2>1, <2>2, <3>1 DEF SignInv, SsoTypeOK
    <3>3. QED BY <2>1, <2>2, <3>1, <3>2 DEF SignInv, NoneDropped
  <2>6. QED BY <2>4, <2>5
\* A run goes on.
<1>5. ASSUME NEW r \in Runs, NEW s \in RunStates, run' = [run EXCEPT ![r] = s],
             code' \in {"none", "fresh", "spent"}, session' \in BOOLEAN, ssoBusy' \in BOOLEAN,
             ssoError' \in {"none", "callback", "login"}, dropped = "no" => NoneDropped',
             UNCHANGED <<demoBoard, questions, configured, login, flips, dropped>>
      PROVE  SignInv'
  <2>1. run' \in [Runs -> RunStates]
    BY <1>1, <1>5
  <2>2. SsoTypeOK'
    BY <1>5, <2>1 DEF SignInv, SsoTypeOK
  <2>3. QED BY <1>5, <2>2 DEF SignInv
<1>6. ASSUME NEW r \in Runs, TakeCode(r) PROVE SignInv'
  <2>1. /\ run[r] \in {"sent", "cancelled"}
        /\ UNCHANGED <<demoBoard, questions, configured, login, ssoBusy, ssoError, flips, dropped>>
    BY <1>6 DEF TakeCode
  <2>2. PICK s \in {"taken", "refused", "over"}:
          /\ run' = [run EXCEPT ![r] = s]
          /\ s = "over" <=> run[r] = "cancelled"
          /\ \/ UNCHANGED <<code, session>>
             \/ code' = "spent" /\ session' = TRUE /\ (s = "taken" \/ s = "over")
    BY <1>6 DEF TakeCode, SsoInv
  <2>3. /\ s \in RunStates /\ code' \in {"none", "fresh", "spent"} /\ session' \in BOOLEAN
        /\ ssoBusy' \in BOOLEAN /\ ssoError' \in {"none", "callback", "login"}
    BY <1>1, <1>2, <2>1, <2>2 DEF RunStates, SignInv, SsoTypeOK
  <2>4. ASSUME dropped = "no" PROVE NoneDropped'
    <3>1. /\ run[r] = "sent" /\ s \in {"taken", "refused"} /\ run[r] \in Live
          /\ \A q \in Runs: run[q] # "cancelled"
          /\ code = "spent" => \E q \in Runs: run[q] = "taken"
          /\ ssoError # "callback"
      BY <2>1, <2>2, <2>4 DEF SignInv, NoneDropped, Live
    <3>2. run'[r] = s /\ \A q \in Runs: q # r => run'[q] = run[q]
      BY <1>1, <2>2
    <3>3. \A q \in Runs: run'[q] # "cancelled"
      BY <3>1, <3>2
    <3>4. code' = "spent" => \E q \in Runs: run'[q] = "taken"
      BY <2>2, <3>1, <3>2
    <3>5. QED BY <2>1, <3>1, <3>3, <3>4 DEF NoneDropped
  <2>5. QED BY <1>5, <2>1, <2>2, <2>3, <2>4
<1>7. ASSUME NEW r \in Runs, CodeTaken(r) PROVE SignInv'
  <2>1. /\ run[r] = "taken" /\ run' = [run EXCEPT ![r] = "reading"] /\ code' = "none"
        /\ UNCHANGED <<demoBoard, questions, configured, login, ssoBusy, ssoError, session, flips,
                       dropped>>
    BY <1>7 DEF CodeTaken
  <2>2. /\ "reading" \in RunStates /\ session' \in BOOLEAN /\ ssoBusy' \in BOOLEAN
        /\ ssoError' \in {"none", "callback", "login"} /\ run[r] \in Live
    BY <1>2, <2>1 DEF RunStates, SignInv, SsoTypeOK, Live
  <2>3. ASSUME dropped = "no" PROVE NoneDropped'
    <3>1. /\ \A q \in Runs: run'[q] # "cancelled"
          /\ ssoError # "callback"
      BY <1>1, <2>1, <2>2, <2>3 DEF SignInv, NoneDropped
    <3>2. QED BY <2>1, <3>1 DEF NoneDropped
  <2>4. QED BY <1>5, <2>1, <2>2, <2>3
<1>8. ASSUME NEW r \in Runs, RunOver(r) PROVE SignInv'
  <2>1. /\ run[r] \in {"reading", "refused"} /\ run' = [run EXCEPT ![r] = "over"]
        /\ ssoBusy' = FALSE /\ ssoError' = IF run[r] = "refused" THEN "callback" ELSE ssoError
        /\ UNCHANGED <<demoBoard, questions, configured, code, login, session, flips, dropped>>
    BY <1>8 DEF RunOver
  <2>2. /\ "over" \in RunStates /\ session' \in BOOLEAN /\ run[r] \in Live
        /\ ssoError' \in {"none", "callback", "login"}
    BY <1>2, <2>1 DEF RunStates, SignInv, SsoTypeOK, Live
  <2>3. /\ run'[r] = "over" /\ "over" \notin Live
        /\ \A q \in Runs: q # r => run'[q] = run[q] /\ run[q] \notin Live
    BY <1>1, <2>1, <2>2 DEF SsoInv, Live
  <2>4. ASSUME dropped = "no" PROVE NoneDropped'
    <3>1. /\ \A q \in Runs: run[q] # "cancelled"
          /\ code = "spent" => \E q \in Runs: run[q] = "taken"
      BY <2>4 DEF SignInv, NoneDropped
    <3>2. \A q \in Runs: run'[q] # "cancelled" /\ run'[q] \notin Live
      BY <2>3, <3>1
    <3>3. code # "spent"
      BY <2>1, <2>3, <3>1 DEF Live
    <3>4. QED BY <2>1, <3>2, <3>3 DEF NoneDropped
  <2>5. QED BY <1>1, <1>5, <2>1, <2>2, <2>4
<1>9. ASSUME PressSignIn \/ ServeLogin \/ LoginFailed PROVE SignInv'
  <2>1. /\ UNCHANGED <<demoBoard, questions, configured, code, run, session, flips, dropped>>
        /\ login' \in {"none", "sent", "answered", "failed"}
        /\ ssoError' \in {ssoError, "none", "login"} /\ ssoBusy' \in {ssoBusy, TRUE, FALSE}
    BY <1>9 DEF PressSignIn, ServeLogin, LoginFailed
  <2>2. ssoBusy' \in BOOLEAN /\ ssoError' \in {"none", "callback", "login"}
    BY <1>2, <2>1 DEF SignInv, SsoTypeOK
  <2>3. SsoTypeOK'
    BY <2>1, <2>2 DEF SignInv, SsoTypeOK
  <2>4. QED BY <2>1, <2>3 DEF SignInv, NoneDropped
<1>10. CASE ComesBack
  <2>1. /\ code' \in {"none", "fresh"} /\ demoBoard' = FALSE /\ questions' = 1
        /\ configured' = FALSE /\ run' = [r \in Runs |-> "none"] /\ login' = "none"
        /\ ssoBusy' = FALSE /\ ssoError' = "none" /\ flips' = 0 /\ dropped' = "no"
        /\ UNCHANGED session
    BY <1>10 DEF ComesBack
  <2>2. SsoTypeOK'
    <3>1. 0 \in 0..MaxFlips /\ 1 \in 0..(MaxFlips + 1)
      OBVIOUS
    <3>2. run' \in [Runs -> RunStates]
      BY <2>1 DEF RunStates
    <3> HIDE FlipsAssumption
    <3>3. QED BY <1>2, <2>1, <3>1, <3>2 DEF SsoTypeOK
  <2>3. QED BY <2>1, <2>2 DEF SignInv, NoneDropped
<1>11. CASE UNCHANGED ssoVars
  BY <1>11 DEF ssoVars, SignInv, SsoTypeOK, NoneDropped
<1>12. QED
  BY <1>3, <1>4, <1>6, <1>7, <1>8, <1>9, <1>10, <1>11 DEF SsoNext

-----------------------------------------------------------------------------
(* What the types of the other parts say beyond the invariants above.      *)

AuthRest == flag \in Reasons \cup {"none"} /\ mode \in Modes /\ modes \in 0..MaxModes

LEMMA AuthRestStart == AuthInit \/ AuthAside => AuthRest
<1>1. 0 \in 0..MaxModes
  BY NoCallAssumption
<1>2. QED BY <1>1 DEF AuthInit, AuthAside, AuthRest, Modes

LEMMA AuthRestStep == AuthRest /\ [AuthNext]_authVars => AuthRest'
<1> SUFFICES ASSUME AuthRest, [AuthNext]_authVars PROVE AuthRest'
  OBVIOUS
<1>1. ASSUME NEW m \in Modes, ServerChanges(m) PROVE AuthRest'
  <2>1. modes \in 0..MaxModes /\ modes < MaxModes /\ modes' = modes + 1
    BY <1>1 DEF ServerChanges, AuthRest
  <2>2. modes' \in 0..MaxModes
    BY <2>1, NoCallAssumption
  <2>3. QED BY <1>1, <2>2 DEF ServerChanges, AuthRest
<1>2. ASSUME NEW c \in Calls, Challenged(c) PROVE AuthRest'
  <2>1. ReasonGiven \in Reasons
    BY DEF ReasonGiven, Reasons
  <2>2. QED BY <1>2, <2>1 DEF Challenged, AuthRest
<1>3. ASSUME NEW c \in Calls, SignedIn(c) PROVE AuthRest'
  <2>1. "open" \in Modes
    BY DEF Modes
  <2>2. QED BY <1>3, <2>1 DEF SignedIn, AuthRest
<1>4. ASSUME NEW c \in Calls, NEW k, SendCall(c, k) \/ Succeeds(c) \/ Fails(c) \/ SignIn(c)
      PROVE  AuthRest'
  <2>1. UNCHANGED <<mode, modes>> /\ flag' \in {flag, "none"}
    BY <1>4 DEF SendCall, Succeeds, Fails, SignIn
  <2>2. QED BY <2>1 DEF AuthRest
<1>5. ASSUME NEW t, EnterToken(t) \/ Dismiss \/ Reset PROVE AuthRest'
  <2>1. UNCHANGED <<mode, modes>> /\ flag' \in {flag, "none"}
    BY <1>5 DEF EnterToken, Dismiss, Reset
  <2>2. QED BY <2>1 DEF AuthRest
<1>6. CASE UNCHANGED authVars
  BY <1>6 DEF authVars, AuthRest
<1>7. QED BY <1>1, <1>2, <1>3, <1>4, <1>5, <1>6 DEF AuthNext

SettingsRest == busy \in BOOLEAN /\ tainted \in BOOLEAN

LEMMA SettingsRestStart == SettingsInit \/ SettingsAside => SettingsRest
BY DEF SettingsInit, SettingsAside, SettingsRest

LEMMA SettingsRestStep == SettingsRest /\ [SettingsNext]_settingsVars => SettingsRest'
<1> SUFFICES ASSUME SettingsRest, [SettingsNext]_settingsVars PROVE SettingsRest'
  OBVIOUS
<1>1. busy' \in BOOLEAN
  <2>1. ASSUME NEW c \in Calls, SaveAnswered(c) \/ SaveRejected(c) PROVE busy' \in {busy, FALSE}
    BY <2>1 DEF SaveAnswered, SaveRejected, Released
  <2>2. ASSUME NEW c, NEW g, NEW v, SubmitSetting(c, g, v) PROVE busy' \in {busy, TRUE}
    BY <2>2 DEF SubmitSetting
  <2>3. busy' \in {busy, TRUE, FALSE}
    BY <2>1, <2>2
       DEF SettingsNext, settingsVars, OtherAdmin, TypeSetting, ServeSave, ServeAgain, RefuseSave,
           ForbidSave, LoseSaved, Change, Save, Refresh
  <2>4. QED BY <2>3 DEF SettingsRest
<1>2. tainted' \in BOOLEAN
  <2>1. ASSUME NEW c \in Calls, SaveAnswered(c) \/ SaveRejected(c) PROVE tainted' \in BOOLEAN
    <3>1. CASE SaveAnswered(c)
      <4>1. tainted' = ~save[c].clean
        BY <3>1 DEF SaveAnswered
      <4>2. QED BY <4>1, Zenon
    <3>2. CASE SaveRejected(c)
      <4>1. tainted' = (tainted \/ save[c].at = "lost" \/ ~save[c].clean
                          \/ group \subseteq Optimistic \ TakenBack)
        BY <3>2 DEF SaveRejected
      <4>2. QED BY <4>1, Zenon
    <3>3. QED BY <2>1, <3>1, <3>2
  <2>2. \/ tainted' \in {tainted, TRUE}
        \/ \E c \in Calls: SaveAnswered(c) \/ SaveRejected(c)
    BY DEF SettingsNext, settingsVars, OtherAdmin, TypeSetting, ServeSave, ServeAgain, RefuseSave,
           ForbidSave, LoseSaved, Change, Save, Refresh, SubmitSetting
  <2>3. QED BY <2>1, <2>2 DEF SettingsRest
<1>3. QED BY <1>1, <1>2 DEF SettingsRest

Layouts == {"balanced", "rail", "hidden", "away"}
FormRest == layout \in Layouts /\ removed \subseteq Files /\ gone \subseteq Files

LEMMA FormRestStart == FormInit \/ FormAside => FormRest
BY DEF FormInit, FormAside, FormRest, Layouts

LEMMA FormRestStep == UploadInv /\ FilesInv /\ FormRest /\ [FormNext]_formVars => FormRest'
<1> SUFFICES ASSUME UploadInv, FilesInv, FormRest, [FormNext]_formVars PROVE FormRest'
  OBVIOUS
<1>1. /\ form \in FormRecord /\ form.pending \subseteq Files
      /\ \A c \in Calls: upload[c] \in UploadRecord /\ upload[c].file \in Files \cup {NoFile}
  BY DEF UploadInv, FormRecord, UploadRecord
<1>2. post.files \subseteq Files
  BY DEF FilesInv, PlacesInv, PostRecord
<1>3. /\ \A c \in Calls: upload[c].at # "sent" => upload[c].file # NoFile
      /\ layout \in Layouts /\ removed \subseteq Files /\ gone \subseteq Files
  BY DEF FilesInv, BatchesInv, FormRest
<1>4. layout' \in Layouts
  <2>1. CASE Fold
    BY <1>3, <2>1 DEF Fold, Layouts
  <2>2. CASE LeaveBoard \/ BackToBoard
    BY <2>2 DEF LeaveBoard, BackToBoard, Layouts
  <2>3. CASE UNCHANGED layout
    BY <1>3, <2>3
  <2>4. QED
    BY <2>1, <2>2, <2>3
       DEF FormNext, formVars, CreateMessage, RefuseMessage, MessageOver, Type, Submit, RemoveFile,
           ShowOther, StoreFile, RefuseFile, FileStored, UploadFailed, Attach, OnlyForm
<1>5. removed' \subseteq Files
  <2>1. ASSUME NEW g \in Files, RemoveFile(g) PROVE removed' \subseteq Files
    BY <1>3, <2>1 DEF RemoveFile
  <2>2. CASE UNCHANGED removed
    BY <1>3, <2>2
  <2>3. QED
    BY <2>1, <2>2
       DEF FormNext, formVars, CreateMessage, RefuseMessage, MessageOver, Type, Submit, Fold,
           LeaveBoard, BackToBoard, ShowOther, StoreFile, RefuseFile, FileStored, UploadFailed,
           Attach
<1>6. gone' \subseteq Files
  <2>1. ASSUME NEW c \in Calls, RefuseFile(c) \/ FileStored(c) PROVE gone' \subseteq Files
    <3>1. gone' \in {gone, gone \cup {upload[c].file}} /\ upload[c].file # NoFile
      BY <2>1 DEF RefuseFile, FileStored
    <3>2. QED BY <1>1, <1>3, <3>1
  <2>2. CASE RefuseMessage \/ LeaveBoard
    <3>1. gone' \in {gone \cup post.files, gone \cup form.pending}
      BY <2>2 DEF RefuseMessage, LeaveBoard
    <3>2. QED BY <1>1, <1>2, <1>3, <3>1
  <2>3. CASE UNCHANGED gone
    BY <1>3, <2>3
  <2>4. QED
    BY <2>1, <2>2, <2>3
       DEF FormNext, formVars, CreateMessage, MessageOver, Type, Submit, Fold, RemoveFile,
           BackToBoard, ShowOther, StoreFile, UploadFailed, Attach, OnlyForm
<1>7. QED BY <1>4, <1>5, <1>6 DEF FormRest

WorkerRest ==
  /\ workerStatus \in Pools /\ toggling \in BOOLEAN
  /\ refused \in BOOLEAN /\ others \in 0..MaxOthers

LEMMA WorkerRestStart == WorkerInit \/ WorkerAside => WorkerRest
<1>1. 0 \in 0..MaxOthers
  BY StoppedAssumption
<1>2. QED BY <1>1 DEF WorkerInit, WorkerAside, WorkerRest, Pools

LEMMA WorkerRestStep == WorkerInv /\ WorkerRest /\ [WorkerNext]_workerVars => WorkerRest'
<1> SUFFICES ASSUME WorkerInv, WorkerRest, [WorkerNext]_workerVars PROVE WorkerRest'
  OBVIOUS
<1>1. \A c \in Calls: errand[c].pool \in Pools
  BY DEF WorkerInv, ErrandRecord
<1>2. ASSUME NEW pool \in Pools, OtherTab(pool) PROVE WorkerRest'
  <2>1. others \in 0..MaxOthers /\ others < MaxOthers /\ others' = others + 1
    BY <1>2 DEF OtherTab, WorkerRest
  <2>2. others' \in 0..MaxOthers
    BY <2>1, StoppedAssumption
  <2>3. QED BY <1>2, <2>2 DEF OtherTab, WorkerRest
<1>3. ASSUME NEW p \in Projects, ShowProject(p) PROVE WorkerRest'
  <2>1. UNCHANGED <<workerStatus, toggling, others>> /\ refused' \in {refused, FALSE}
    BY <1>3 DEF ShowProject, Follow
  <2>2. QED BY <2>1 DEF WorkerRest
<1>4. ASSUME NEW c \in Calls, ServeErrand(c) \/ RefuseErrand(c) \/ PollStatus(c) \/ Toggle(c)
      PROVE  WorkerRest'
  <2>1. UNCHANGED <<workerStatus, refused, others>> /\ toggling' \in {toggling, TRUE}
    BY <1>4 DEF ServeErrand, RefuseErrand, PollStatus, Toggle
  <2>2. QED BY <2>1 DEF WorkerRest
<1>5. ASSUME NEW c \in Calls, StatusArrives(c) PROVE WorkerRest'
  <2>1. /\ workerStatus' \in {workerStatus, errand[c].pool} /\ UNCHANGED others
        /\ refused' \in {refused, FALSE}
        /\ toggling' = (toggling /\ errand[c].kind # "toggle")
    BY <1>5 DEF StatusArrives, Follow
  <2>2. toggling' \in BOOLEAN
    BY <2>1, Zenon
  <2>3. QED BY <1>1, <2>1, <2>2 DEF WorkerRest
<1>6. ASSUME NEW c \in Calls, ErrandFails(c) PROVE WorkerRest'
  <2>1. /\ UNCHANGED <<workerStatus, others>>
        /\ toggling' = (toggling /\ errand[c].kind # "toggle")
        /\ refused' = (refused \/ (errand[c].kind = "rebind" /\ errand[c].active))
    BY <1>6 DEF ErrandFails
  <2>2. toggling' \in BOOLEAN /\ refused' \in BOOLEAN
    BY <2>1, Zenon
  <2>3. QED BY <2>1, <2>2 DEF WorkerRest
<1>7. CASE UNCHANGED workerVars
  BY <1>7 DEF workerVars, WorkerRest
<1>8. QED BY <1>2, <1>3, <1>4, <1>5, <1>6, <1>7 DEF WorkerNext

EvalsRest ==
  /\ picked \in Targets /\ runs \subseteq EvalRun /\ starting \in BOOLEAN
  /\ inquiry \in [Calls -> InquiryRecord]

LEMMA InquiryValues ==
  /\ AnyTarget \in Targets /\ NoInquiry \in InquiryRecord
  /\ \A kind \in {"load", "start", "sets"}, t \in Targets: Inquiry(kind, t) \in InquiryRecord
<1>1. AnyTarget \in Targets
  BY OfferedAssumption DEF AnyTarget
<1>2. NoInquiry \in InquiryRecord
  BY <1>1 DEF NoInquiry, InquiryRecord
<1>3. QED BY <1>1, <1>2 DEF Inquiry, InquiryRecord

LEMMA EvalsRestStart == EvalsInit \/ EvalsAside => EvalsRest
<1>1. ASSUME EvalsInit PROVE EvalsRest
  <2>1. PICK c, d \in Calls:
          inquiry = [[e \in Calls |-> NoInquiry]
                       EXCEPT ![c] = Inquiry("sets", picked), ![d] = Inquiry("load", picked)]
    BY <1>1 DEF EvalsInit
  <2>2. Inquiry("sets", picked) \in InquiryRecord /\ Inquiry("load", picked) \in InquiryRecord
    BY <1>1, InquiryValues DEF EvalsInit
  <2>3. inquiry \in [Calls -> InquiryRecord]
    BY <2>1, <2>2, InquiryValues
  <2>4. QED BY <1>1, <2>3 DEF EvalsInit, EvalsRest
<1>2. ASSUME EvalsAside PROVE EvalsRest
  BY <1>2, InquiryValues DEF EvalsAside, EvalsRest
<1>3. QED BY <1>1, <1>2

LEMMA EvalsRestStep == EvalsInv /\ EvalsRest /\ [EvalsNext]_evalsVars => EvalsRest'
<1> SUFFICES ASSUME EvalsInv, EvalsRest, [EvalsNext]_evalsVars PROVE EvalsRest'
  OBVIOUS
<1>1. \A c \in Calls: /\ inquiry[c] \in InquiryRecord /\ inquiry[c].of \in Targets
                      /\ inquiry[c].runs \subseteq EvalRun
  BY DEF EvalsRest, InquiryRecord
<1>2. \A i \in RunIds: /\ evals[i] \in EvalRow /\ evals[i].of \in Targets
                       /\ evals[i].status \in RunStatuses
  BY DEF EvalsInv, EvalRow
\* A call changes, and what the panel shows.
<1>3. ASSUME NEW c \in Calls, NEW q \in InquiryRecord, inquiry' = [inquiry EXCEPT ![c] = q],
             picked' \in Targets, runs' \subseteq EvalRun, starting' \in BOOLEAN
      PROVE  EvalsRest'
  BY <1>3 DEF EvalsRest
<1>4. starting \in BOOLEAN /\ picked \in Targets /\ runs \subseteq EvalRun
  BY DEF EvalsRest
<1>5. ASSUME \/ \E i \in RunIds: Complete(i) \/ Fail(i)
             \/ Restart \/ UNCHANGED evalsVars
      PROVE  EvalsRest'
  BY <1>5 DEF Complete, Fail, Restart, evalsVars, EvalsRest
<1>6. ASSUME NEW c \in Calls, StartRun(c) PROVE EvalsRest'
  <2>1. PICK i \in Unstarted:
          inquiry' = [inquiry EXCEPT ![c].at = "answered", ![c].runs =
                        {[id |-> i, of |-> inquiry[c].of, status |-> "running"]}]
    BY <1>6 DEF StartRun
  <2> DEFINE new == {[id |-> i, of |-> inquiry[c].of, status |-> "running"]}
             q == [inquiry[c] EXCEPT !.at = "answered", !.runs = new]
  <2>2. new \in SUBSET EvalRun
    BY <1>1 DEF EvalRun, RunStatuses, Unstarted
  <2>3. inquiry' = [inquiry EXCEPT ![c] = q]
    BY <2>1 DEF EvalsRest
  <2> HIDE DEF new
  <2>4. q \in InquiryRecord
    BY <1>1, <2>2 DEF InquiryRecord
  <2> HIDE DEF q
  <2>5. UNCHANGED <<picked, runs, starting>>
    BY <1>6 DEF StartRun
  <2>6. QED BY <1>3, <1>4, <2>3, <2>4, <2>5
<1>7. ASSUME NEW c \in Calls, ListRuns(c) \/ RefuseInquiry(c) PROVE EvalsRest'
  <2>1. RunsOf(inquiry[c].of) \in SUBSET EvalRun
    BY <1>2 DEF RunsOf, RunsShown, EvalRun, RunStatuses, Unstarted
  <2>2. PICK at \in {"answered", "refused"}, rs \in SUBSET EvalRun:
          inquiry' = [inquiry EXCEPT ![c].at = at, ![c].runs = rs]
    <3>1. CASE ListRuns(c)
      BY <2>1, <3>1 DEF ListRuns
    <3>2. CASE RefuseInquiry(c)
      BY <3>2 DEF RefuseInquiry
    <3>3. QED BY <1>7, <3>1, <3>2
  <2> DEFINE q == [inquiry[c] EXCEPT !.at = at, !.runs = rs]
  <2>3. q \in InquiryRecord
    BY <1>1 DEF InquiryRecord
  <2>4. inquiry' = [inquiry EXCEPT ![c] = q]
    BY <2>2 DEF EvalsRest
  <2> HIDE DEF q
  <2>5. UNCHANGED <<picked, runs, starting>>
    BY <1>7 DEF ListRuns, RefuseInquiry
  <2>6. QED BY <1>3, <1>4, <2>3, <2>4, <2>5
<1>8. ASSUME NEW c \in Calls, NEW t \in Targets, Pick(t, c) PROVE EvalsRest'
  <2>1. Inquiry("load", t) \in InquiryRecord
    BY InquiryValues
  <2>2. QED BY <1>3, <1>4, <1>8, <2>1 DEF Pick
<1>9. ASSUME NEW c \in Calls, PollRuns(c) PROVE EvalsRest'
  <2>1. Inquiry("load", picked) \in InquiryRecord
    BY <1>4, InquiryValues
  <2>2. QED BY <1>3, <1>4, <1>9, <2>1 DEF PollRuns
<1>10. ASSUME NEW c \in Calls, StartEval(c) PROVE EvalsRest'
  <2>1. Inquiry("start", picked) \in InquiryRecord
    BY <1>4, InquiryValues
  <2>2. QED BY <1>3, <1>4, <1>10, <2>1 DEF StartEval
<1>11. ASSUME NEW c \in Calls, RunsLoaded(c) \/ EvalRefused(c) PROVE EvalsRest'
  <2>1. /\ inquiry' = [inquiry EXCEPT ![c] = NoInquiry] /\ picked' = picked
        /\ runs' \in {runs, inquiry[c].runs} /\ starting' \in {starting, FALSE}
    BY <1>11 DEF RunsLoaded, EvalRefused, InquiryOver
  <2>2. QED BY <1>1, <1>3, <1>4, <2>1, InquiryValues
<1>12. ASSUME NEW c \in Calls, EvalStarted(c) PROVE EvalsRest'
  <2>1. /\ inquiry' = [inquiry EXCEPT ![c] = Inquiry("load", inquiry[c].of)]
        /\ runs' \subseteq inquiry[c].runs \cup runs /\ starting' = FALSE /\ picked' = picked
    BY <1>12 DEF EvalStarted
  <2>2. Inquiry("load", inquiry[c].of) \in InquiryRecord
    BY <1>1, InquiryValues
  <2>3. QED BY <1>1, <1>3, <1>4, <2>1, <2>2
<1>13. ASSUME NEW c \in Calls, SetsLoaded(c) PROVE EvalsRest'
  <2>1. /\ picked' \in {picked, AnyTarget} /\ UNCHANGED <<runs, starting>>
        /\ \/ inquiry' = [inquiry EXCEPT ![c] = NoInquiry]
           \/ inquiry' = [inquiry EXCEPT ![c] = Inquiry("load", AnyTarget)]
    BY <1>13 DEF SetsLoaded, InquiryOver
  <2>2. Inquiry("load", AnyTarget) \in InquiryRecord
    BY InquiryValues
  <2>3. QED BY <1>3, <1>4, <2>1, <2>2, InquiryValues
<1>14. QED
  BY <1>5, <1>6, <1>7, <1>8, <1>9, <1>10, <1>11, <1>12, <1>13 DEF EvalsNext

-----------------------------------------------------------------------------
(* The rest of the page shell's and the review's types.                     *)

ShellRest ==
  /\ currentPage \in Pages /\ overlays \subseteq Panels
  /\ made \in [Forms -> 0..MaxMade]
  /\ setup \in [needed: BOOLEAN, seeding: BOOLEAN]
  /\ escaped \subseteq Forms /\ lost \subseteq Forms

LEMMA ShellRestStart == ShellInit \/ ShellAside => ShellRest
<1> SUFFICES ASSUME ShellInit PROVE ShellRest
  BY DEF ShellAside
<1>1. 0 \in 0..MaxMade
  BY FormsAssumption
<1>2. made \in [Forms -> 0..MaxMade]
  BY <1>1 DEF ShellInit
<1>3. "home" \in Pages /\ [needed |-> FALSE, seeding |-> FALSE] \in [needed: BOOLEAN, seeding: BOOLEAN]
  BY DEF Pages
<1>4. QED BY <1>2, <1>3 DEF ShellInit, ShellRest

LEMMA ShellRestStep == ShellInv /\ ShellRest /\ [ShellNext]_shellVars => ShellRest'
<1> SUFFICES ASSUME ShellInv, ShellRest, [ShellNext]_shellVars PROVE ShellRest'
  OBVIOUS
<1>1. /\ \A c \in Calls: /\ making[c].form \in 0..MaxForm
                         /\ making[c].at # "sent" => making[c].form # 0
      /\ newTicket.open => newTicket.no \in Forms
  BY DEF ShellInv, MakeRecord
<1>2. \A n \in 0..MaxForm: n # 0 => n \in Forms
  BY FormsAssumption DEF Forms
<1>3. /\ currentPage \in Pages /\ overlays \subseteq Panels /\ made \in [Forms -> 0..MaxMade]
      /\ setup \in [needed: BOOLEAN, seeding: BOOLEAN]
      /\ escaped \subseteq Forms /\ lost \subseteq Forms
  BY DEF ShellRest
\* Pages, panels and the guide.
<1>4. ASSUME Unmade, currentPage' \in Pages, overlays' \subseteq Panels,
             setup' \in [needed: BOOLEAN, seeding: BOOLEAN]
      PROVE  ShellRest'
  BY <1>3, <1>4 DEF Unmade, ShellRest
<1>5. ASSUME NEW next \in Pages, Navigate(next) PROVE ShellRest'
  BY <1>3, <1>4, <1>5 DEF Navigate
<1>6. ASSUME OpenTicketPanel \/ OpenRequirement \/ OpenNewRequirement PROVE ShellRest'
  <2>1. /\ currentPage' \in {currentPage, "home"} /\ setup' = setup /\ Unmade
        /\ overlays' \subseteq overlays \cup Panels
    BY <1>6 DEF OpenTicketPanel, OpenRequirement, OpenNewRequirement, Panels
  <2>2. currentPage' \in Pages /\ overlays' \subseteq Panels
    BY <1>3, <2>1 DEF Pages
  <2>3. QED BY <1>3, <1>4, <2>1, <2>2
<1>7. ASSUME NEW pane \in Panels, CloseOverlay(pane) PROVE ShellRest'
  BY <1>3, <1>4, <1>7 DEF CloseOverlay
<1>8. ASSUME SetupChanges \/ OpenGuide \/ CloseGuide PROVE ShellRest'
  <2>1. /\ UNCHANGED <<currentPage, overlays>> /\ Unmade
        /\ setup' = [setup EXCEPT !.needed = ~@] \/ setup' = setup
    BY <1>8 DEF SetupChanges, OpenGuide, CloseGuide
  <2>2. setup' \in [needed: BOOLEAN, seeding: BOOLEAN]
    BY <1>3, <2>1
  <2>3. QED BY <1>3, <1>4, <2>1, <2>2
<1>9. ASSUME GuideToModels \/ GuideToRequirement \/ DismissGuide PROVE ShellRest'
  <2>1. /\ setup' = setup /\ Unmade /\ currentPage' \in {currentPage, "models"}
        /\ overlays' \subseteq overlays \cup Panels
    BY <1>9 DEF GuideToModels, GuideToRequirement, DismissGuide, Panels
  <2>2. currentPage' \in Pages /\ overlays' \subseteq Panels
    BY <1>3, <2>1 DEF Pages
  <2>3. QED BY <1>3, <1>4, <2>1, <2>2
<1>10. ASSUME SeedFromGuide \/ GuideSeeded PROVE ShellRest'
  <2>1. /\ currentPage' = currentPage /\ Unmade /\ overlays' \subseteq overlays \cup Panels
        /\ setup' = [setup EXCEPT !.seeding = TRUE] \/ setup' = [setup EXCEPT !.seeding = FALSE]
    BY <1>10 DEF SeedFromGuide, GuideSeeded, Panels
  <2>2. setup' \in [needed: BOOLEAN, seeding: BOOLEAN] /\ overlays' \subseteq Panels
    BY <1>3, <2>1
  <2>3. QED BY <1>3, <1>4, <2>1, <2>2
\* The form.
<1>11. ASSUME OpenForm \/ FillForm \/ CancelForm \/ UNCHANGED shellVars PROVE ShellRest'
  BY <1>11 DEF OpenForm, FillForm, CancelForm, shellVars, ShellRest
<1>12. CASE Escape
  <2>1. overlays' \subseteq overlays /\ UNCHANGED <<currentPage, made, setup, lost>>
        /\ \/ escaped' = escaped
           \/ newTicket.open /\ escaped' = escaped \cup {newTicket.no}
    BY <1>12 DEF Escape
  <2>2. escaped' \subseteq Forms
    BY <1>1, <1>3, <2>1
  <2>3. QED BY <1>3, <2>1, <2>2 DEF ShellRest
<1>13. ASSUME NEW c \in Calls, SubmitForm(c) \/ TicketMade(c) \/ TicketFailed(c) PROVE ShellRest'
  BY <1>13 DEF SubmitForm, TicketMade, TicketFailed, ShellRest
<1>14. ASSUME NEW c \in Calls, MakeTicket(c) PROVE ShellRest'
  <2>1. making[c].form \in Forms
    BY <1>1, <1>2, <1>14 DEF MakeTicket
  <2>2. /\ made' = [made EXCEPT ![making[c].form] = made[making[c].form] + 1]
        /\ made[making[c].form] < MaxMade
        /\ UNCHANGED <<currentPage, overlays, setup, escaped, lost>>
    BY <1>14 DEF MakeTicket
  <2>3. made[making[c].form] \in 0..MaxMade
    BY <1>3, <2>1
  <2>4. made[making[c].form] + 1 \in 0..MaxMade
    BY <2>2, <2>3, FormsAssumption
  <2>5. made' \in [Forms -> 0..MaxMade]
    BY <1>3, <2>2, <2>4
  <2>6. QED BY <2>2, <2>5 DEF ShellRest
<1>15. ASSUME NEW c \in Calls, RefuseTicket(c) PROVE ShellRest'
  <2>1. /\ lost' = lost \/ (making[c].form # 0 /\ lost' = lost \cup {making[c].form})
        /\ UNCHANGED <<currentPage, overlays, made, setup, escaped>>
    BY <1>15 DEF RefuseTicket
  <2>2. lost' \subseteq Forms
    BY <1>1, <1>2, <1>3, <2>1
  <2>3. QED BY <2>1, <2>2 DEF ShellRest
<1>16. QED
  BY <1>5, <1>6, <1>7, <1>8, <1>9, <1>10, <1>11, <1>12, <1>13, <1>14, <1>15 DEF ShellNext

\* A card is on the board twice at most: what an approval that was carried out
\* appends is there only if a poll found it before.
ReviewRest ==
  /\ stage \in {"closed", "compose", "decomposing", "review", "created"}
  /\ listed \in [Previews -> [ReviewCards -> 0..2]]
  /\ approval.at = "stored" => \A c \in ReviewCards: listed[approval.of][c] \in 0..1
  /\ polled \in [at: {"idle", "sent", "answered"}, found: [Previews -> [ReviewCards -> BOOLEAN]]]

LEMMA ReviewRestStart == ReviewInit \/ ReviewAside => ReviewRest
<1> SUFFICES ASSUME ReviewInit PROVE ReviewRest
  BY DEF ReviewAside
<1>1. listed \in [Previews -> [ReviewCards -> 0..2]]
  BY DEF ReviewInit
<1>2. polled \in [at: {"idle", "sent", "answered"}, found: [Previews -> [ReviewCards -> BOOLEAN]]]
  BY ReviewValues DEF ReviewInit
<1>3. stage = "closed" /\ approval.at = "none"
  BY ReviewValues DEF ReviewInit
<1>4. QED BY <1>1, <1>2, <1>3 DEF ReviewRest

LEMMA ReviewRestStep == ReviewInv /\ ReviewRest /\ [ReviewNext]_reviewVars => ReviewRest'
<1> SUFFICES ASSUME ReviewInv, ReviewRest, [ReviewNext]_reviewVars PROVE ReviewRest'
  OBVIOUS
<1>1. /\ approval \in ApprovalRecord /\ (approval.at # "none" => approval.of \in Previews)
      /\ tickets \in [Previews -> [ReviewCards -> Outcomes]] /\ ListedIsMade
  BY DEF ReviewInv
<1>2. /\ stage \in {"closed", "compose", "decomposing", "review", "created"}
      /\ listed \in [Previews -> [ReviewCards -> 0..2]]
      /\ approval.at = "stored" => \A c \in ReviewCards: listed[approval.of][c] \in 0..1
      /\ polled \in [at: {"idle", "sent", "answered"}, found: [Previews -> [ReviewCards -> BOOLEAN]]]
  BY DEF ReviewRest
\* What the board lists stays.
<1>3. ASSUME UNCHANGED <<approval, listed, polled>>,
             stage' \in {"closed", "compose", "decomposing", "review", "created"}
      PROVE  ReviewRest'
  BY <1>2, <1>3 DEF ReviewRest
<1>4. ASSUME UNCHANGED <<listed, polled>>,
             stage' \in {"closed", "compose", "decomposing", "review", "created"},
             approval'.at = "stored" => approval.at = "stored" /\ approval'.of = approval.of
      PROVE  ReviewRest'
  BY <1>2, <1>4 DEF ReviewRest
<1>5. ASSUME OpenReview \/ AskPreview \/ PreviewArrives \/ PreviewFails \/ BackToEdit \/ UNCHANGED reviewVars
      PROVE  ReviewRest'
  <2>1. /\ UNCHANGED <<approval, listed, polled>>
        /\ stage' \in {stage, "closed", "compose", "decomposing", "review", "created"}
    BY <1>5 DEF OpenReview, AskPreview, PreviewArrives, PreviewFails, BackToEdit, reviewVars
  <2>2. QED BY <1>2, <1>3, <2>1
<1>6. ASSUME NEW c \in ReviewCards, ToggleCard(c) \/ EditCard(c) PROVE ReviewRest'
  <2>1. UNCHANGED <<stage, approval, listed, polled>>
    BY <1>6 DEF ToggleCard, EditCard, ChangeCard
  <2>2. QED BY <1>2, <1>3, <2>1
<1>7. CASE ApproveCards
  <2>1. UNCHANGED <<stage, listed, polled>> /\ approval'.at = "sent"
    BY <1>7 DEF ApproveCards
  <2>2. QED BY <1>2, <1>4, <2>1
<1>8. CASE ApprovalFails
  <2>1. UNCHANGED <<stage, listed, polled>> /\ approval'.at = "none"
    BY <1>8, ReviewValues DEF ApprovalFails
  <2>2. QED BY <1>2, <1>4, <2>1
<1>9. CASE CloseReview
  <2>1. /\ UNCHANGED <<listed, polled>> /\ stage' = "closed"
        /\ approval' = approval \/ approval' = [approval EXCEPT !.mine = FALSE]
    BY <1>9 DEF CloseReview
  <2>2. approval'.at = approval.at /\ approval'.of = approval.of
    BY <1>1, <2>1 DEF ApprovalRecord
  <2>3. QED BY <1>4, <2>1, <2>2
<1>10. CASE CreateTickets
  <2>1. /\ UNCHANGED <<stage, listed, polled>> /\ approval.at = "sent"
        /\ \/ tickets[approval.of] = NothingMade /\ approval'.of = approval.of
           \/ approval'.at = "refused"
    BY <1>1, <1>10 DEF CreateTickets, ApprovalRecord
  <2>2. CASE approval'.at = "refused"
    BY <1>2, <1>4, <2>1, <2>2
  <2>3. CASE tickets[approval.of] = NothingMade /\ approval'.of = approval.of
    <3>1. approval.of \in Previews
      BY <1>1, <2>1
    <3>2. \A c \in ReviewCards: ~(listed[approval.of][c] > 0)
      BY <1>1, <2>3, <3>1, ReviewValues DEF ListedIsMade
    <3>3. \A c \in ReviewCards: listed[approval.of][c] \in 0..2
      BY <1>2, <3>1
    <3>4. \A c \in ReviewCards: listed[approval.of][c] \in 0..1
      BY <3>2, <3>3
    <3>5. QED BY <1>2, <2>1, <2>3, <3>4 DEF ReviewRest
  <2>4. QED BY <2>1, <2>2, <2>3
<1>11. CASE Approved
  <2> DEFINE of == approval.of
             more == [c \in ReviewCards |-> IF approval.load[c] = "out" THEN listed[of][c] ELSE listed[of][c] + 1]
  <2>1. /\ listed' = [listed EXCEPT ![of] = more] /\ polled' = polled
        /\ approval.at = "stored" /\ approval' = NoApproval /\ stage' \in {stage, "created"}
    BY <1>11 DEF Approved
  <2>2. \A c \in ReviewCards: more[c] \in 0..2
    <3>1. ASSUME NEW c \in ReviewCards PROVE more[c] \in 0..2
      <4>1. listed[of][c] \in 0..1
        BY <1>2, <2>1
      <4>2. listed[of][c] \in 0..2 /\ listed[of][c] + 1 \in 0..2
        BY <4>1
      <4>3. QED BY <4>2
    <3>2. QED BY <3>1
  <2>3. more \in [ReviewCards -> 0..2]
    BY <2>2
  <2> HIDE DEF more
  <2>4. listed' \in [Previews -> [ReviewCards -> 0..2]]
    BY <1>2, <2>1, <2>3
  <2>5. QED BY <1>2, <2>1, <2>4, ReviewValues DEF ReviewRest
\* The poll.
<1>12. ASSUME SendPoll \/ ServePoll PROVE ReviewRest'
  <2>1. UNCHANGED <<stage, approval, listed>>
    BY <1>12 DEF SendPoll, ServePoll
  <2>2. polled' \in [at: {"idle", "sent", "answered"}, found: [Previews -> [ReviewCards -> BOOLEAN]]]
    <3>1. CASE SendPoll
      BY <1>2, <3>1 DEF SendPoll
    <3>2. CASE ServePoll
      <4>1. [n \in Previews |-> [c \in ReviewCards |-> tickets[n][c] # "out"]]
              \in [Previews -> [ReviewCards -> BOOLEAN]]
        OBVIOUS
      <4>2. PICK q \in [Previews -> [ReviewCards -> BOOLEAN]], at \in {"idle", "answered"}:
              polled' = [at |-> at, found |-> q]
        BY <3>2, <4>1, ReviewValues DEF ServePoll
      <4>3. QED BY <4>2
    <3>3. QED BY <1>12, <3>1, <3>2
  <2>3. QED BY <1>2, <2>1, <2>2 DEF ReviewRest
<1>13. CASE ReviewPolled
  <2> DEFINE found == [n \in Previews |-> [c \in ReviewCards |-> IF polled.found[n][c] THEN 1 ELSE 0]]
  <2>1. listed' = found /\ UNCHANGED <<stage, approval>> /\ polled' = [at |-> "idle", found |-> NoneFound]
    BY <1>13 DEF ReviewPolled
  <2>2. \A n \in Previews, c \in ReviewCards: found[n][c] \in 0..1
    OBVIOUS
  <2>3. found \in [Previews -> [ReviewCards -> 0..2]]
    OBVIOUS
  <2> HIDE DEF found
  <2>4. approval'.at = "stored" => \A c \in ReviewCards: listed'[approval'.of][c] \in 0..1
    BY <1>1, <2>1, <2>2
  <2>5. QED BY <1>2, <2>1, <2>3, <2>4, ReviewValues DEF ReviewRest
<1>14. QED
  BY <1>5, <1>6, <1>7, <1>8, <1>9, <1>10, <1>11, <1>12, <1>13 DEF ReviewNext

-----------------------------------------------------------------------------
(* Everything together.                                                     *)

PartNames ==
  {"auth", "detail", "composer", "settings", "chat", "form", "worker", "projects", "activity",
   "inbox", "views", "evals", "shell", "target", "templates", "review", "sso", "board", "graph"}

ShownInv ==
  /\ ActivityInv /\ BoardInv /\ GraphInv /\ ChatInv
  /\ SavedInv /\ ListInv /\ OfferInv /\ SignInv

RestInv ==
  /\ part \in PartNames
  /\ AuthRest /\ SettingsRest /\ FormRest /\ WorkerRest /\ EvalsRest /\ ShellRest /\ ReviewRest

LEMMA ShownSteps ==
  [PartsNext]_partsVars =>
    /\ [ActivityNext]_activityVars /\ [BoardNext]_boardVars /\ [GraphNext]_graphVars
    /\ [ChatNext]_chatVars /\ [ComposerNext]_composerVars /\ [ProjectsNext]_projectsVars
    /\ [TemplatesNext]_templatesVars /\ [SsoNext]_ssoVars
BY DEF PartsNext, Only, partsVars

LEMMA RestSteps ==
  [PartsNext]_partsVars =>
    /\ part' = part
    /\ [AuthNext]_authVars /\ [SettingsNext]_settingsVars /\ [FormNext]_formVars
    /\ [WorkerNext]_workerVars /\ [EvalsNext]_evalsVars /\ [ShellNext]_shellVars
    /\ [ReviewNext]_reviewVars
BY DEF PartsNext, Only, partsVars

LEMMA ShownInits ==
  PartsInit => /\ ActivityInit \/ ActivityAside
               /\ BoardInit \/ BoardAside
               /\ GraphInit \/ GraphAside
               /\ ChatInit \/ ChatAside
               /\ ComposerInit \/ ComposerAside
               /\ ProjectsInit \/ ProjectsAside
               /\ TemplatesInit \/ TemplatesAside
               /\ SsoInit \/ SsoAside
BY DEF PartsInit

LEMMA RestInits ==
  PartsInit => /\ part \in PartNames
               /\ AuthInit \/ AuthAside
               /\ SettingsInit \/ SettingsAside
               /\ FormInit \/ FormAside
               /\ WorkerInit \/ WorkerAside
               /\ EvalsInit \/ EvalsAside
               /\ ShellInit \/ ShellAside
               /\ ReviewInit \/ ReviewAside
BY DEF PartsInit, PartNames

LEMMA ShownAlways == PartsSpec => []ShownInv
<1>1. PartsInit => ShownInv
  BY ShownInits, ActivityStart, BoardStart, GraphStart, ChatStart, SavedStart, ListStart,
     OfferStart, SignStart DEF ShownInv
<1>2. LateInv /\ OwnInv /\ BusyInv /\ ShownInv /\ [PartsNext]_partsVars => ShownInv'
  <2> SUFFICES ASSUME LateInv, OwnInv, BusyInv, ShownInv, [PartsNext]_partsVars PROVE ShownInv'
    OBVIOUS
  <2>1. ComposerInv /\ ProjectsInv /\ SsoInv
    BY DEF LateInv, OwnInv, BusyInv
  <2>2. /\ [ActivityNext]_activityVars /\ [BoardNext]_boardVars /\ [GraphNext]_graphVars
        /\ [ChatNext]_chatVars /\ [ComposerNext]_composerVars /\ [ProjectsNext]_projectsVars
        /\ [TemplatesNext]_templatesVars /\ [SsoNext]_ssoVars
    BY ShownSteps
  <2>3. ActivityInv' /\ BoardInv' /\ GraphInv' /\ ChatInv'
    BY <2>2, ActivityStep, BoardStep, GraphStep, ChatStep DEF ShownInv
  <2>4. SavedInv' /\ ListInv' /\ OfferInv' /\ SignInv'
    BY <2>1, <2>2, SavedStep, ListStep, OfferStep, SignStep DEF ShownInv
  <2>5. QED BY <2>3, <2>4 DEF ShownInv
<1>3. QED BY <1>1, <1>2, LateAlways, OwnAlways, BusyAlways, PTL DEF PartsSpec

LEMMA RestAlways == PartsSpec => []RestInv
<1>1. PartsInit => RestInv
  BY RestInits, AuthRestStart, SettingsRestStart, FormRestStart, WorkerRestStart, EvalsRestStart,
     ShellRestStart, ReviewRestStart DEF RestInv
<1>2. LateInv /\ BusyInv /\ OnceInv /\ RestInv /\ [PartsNext]_partsVars => RestInv'
  <2> SUFFICES ASSUME LateInv, BusyInv, OnceInv, RestInv, [PartsNext]_partsVars PROVE RestInv'
    OBVIOUS
  <2>1. EvalsInv /\ UploadInv /\ FilesInv /\ WorkerInv /\ ShellInv /\ ReviewInv
    BY DEF LateInv, BusyInv, OnceInv
  <2>2. /\ part' = part
        /\ [AuthNext]_authVars /\ [SettingsNext]_settingsVars /\ [FormNext]_formVars
        /\ [WorkerNext]_workerVars /\ [EvalsNext]_evalsVars /\ [ShellNext]_shellVars
        /\ [ReviewNext]_reviewVars
    BY RestSteps
  <2>3. AuthRest' /\ SettingsRest' /\ FormRest' /\ WorkerRest'
    BY <2>1, <2>2, AuthRestStep, SettingsRestStep, FormRestStep, WorkerRestStep DEF RestInv
  <2>4. EvalsRest' /\ ShellRest' /\ ReviewRest'
    BY <2>1, <2>2, EvalsRestStep, ShellRestStep, ReviewRestStep DEF RestInv
  <2>5. QED BY <2>2, <2>3, <2>4 DEF RestInv
<1>3. QED BY <1>1, <1>2, LateAlways, BusyAlways, OnceAlways, PTL DEF PartsSpec

\* What the page shows is so, or was, whatever answers come late, out of order or
\* not at all: the cards of the board are tickets as the server had them, the
\* preview under review is saved, no message is shown that was not written, the
\* events come in their order and once, a setting and the list of projects are
\* the server's when the calls are over, a template that was saved is on offer,
\* a sign-in that is said to have failed did fail, and the graph calls ready what
\* a worker may claim (see the parts of ShownIsReal for what is excepted).
THEOREM ShownAsIs == PartsSpec => []ShownIsReal
<1>1. LateInv /\ ShownInv => ShownIsReal
  <2> SUFFICES ASSUME LateInv, ShownInv PROVE ShownIsReal
    OBVIOUS
  <2>1. CardsAreReal /\ GraphTellsClaims
    BY BoardIsReal, GraphIsReal DEF ShownInv
  <2>2. PreviewIsSaved /\ SettingsAgree
    BY PreviewsSaved DEF LateInv, ShownInv, SettingsInv
  <2>3. AnswersAreWritten /\ SavedIsOffered /\ SelectedIsOffered
    BY DEF ShownInv, ChatInv, OfferInv
  <2>4. StreamInOrder
    BY DEF ShownInv, ActivityInv, Rising, StreamInOrder
  <2>5. ListAgrees /\ ErrorIsTrue
    BY ListIsServers, ErrorsAreTrue DEF ShownInv
  <2>6. QED BY <2>1, <2>2, <2>3, <2>4, <2>5 DEF ShownIsReal
<1>2. QED BY <1>1, LateAlways, ShownAlways, PTL

\* Every part of the page keeps its types, whichever of them is looked at.
THEOREM PageTypeCorrect == PartsSpec => []PageTypeOK
<1>1. LateInv /\ OwnInv /\ BusyInv /\ OnceInv /\ ShownInv /\ RestInv => PageTypeOK
  <2> SUFFICES ASSUME LateInv, OwnInv, BusyInv, OnceInv, ShownInv, RestInv PROVE PageTypeOK
    OBVIOUS
  <2>1. AuthTypeOK
    BY DEF BusyInv, AuthInv, AuthTokens, RestInv, AuthRest, AuthTypeOK
  <2>2. DetailTypeOK /\ ProjectsTypeOK /\ InboxTypeOK /\ WebFormTypeOK
    BY DEF OwnInv, DetailInv, ProjectsInv, InboxInv, AimInv
  <2>3. ComposerTypeOK /\ ViewsTypeOK
    BY DEF LateInv, ComposerInv, ComposerBase, ViewsInv
  <2>4. SettingsTypeOK
    BY DEF LateInv, SettingsInv, RestInv, SettingsRest, SettingsTypeOK
  <2>5. ChatTypeOK /\ ActivityTypeOK /\ TemplatesTypeOK /\ SsoTypeOK /\ BoardTypeOK /\ GraphTypeOK
    BY DEF ShownInv, ChatInv, ActivityInv, OfferInv, SignInv, BoardInv, GraphInv
  <2>6. FormTypeOK
    BY DEF BusyInv, UploadInv, OnceInv, FilesInv, BatchesInv, PlacesInv, RestInv, FormRest,
           FormRecord, PostRecord, Layouts, FormTypeOK
  <2>7. WorkerTypeOK
    BY DEF OnceInv, WorkerInv, RestInv, WorkerRest, WorkerTypeOK
  <2>8. EvalsTypeOK
    BY DEF LateInv, EvalsInv, EvalRow, RestInv, EvalsRest, EvalsTypeOK
  <2>9. ShellTypeOK
    BY DEF OnceInv, ShellInv, TicketFormRecord, GuideRecord, RestInv, ShellRest, ShellTypeOK
  <2>10. ReviewTypeOK
    BY DEF OnceInv, ReviewInv, ApprovalRecord, RestInv, ReviewRest, ReviewTypeOK
  <2>11. part \in PartNames
    BY DEF RestInv
  <2>12. QED
    BY <2>1, <2>2, <2>3, <2>4, <2>5, <2>6, <2>7, <2>8, <2>9, <2>10, <2>11 DEF PartNames, PageTypeOK
<1>2. QED BY <1>1, LateAlways, OwnAlways, BusyAlways, OnceAlways, ShownAlways, RestAlways, PTL
=============================================================================
