-------------------------- MODULE WorkerPoolProofs --------------------------
(***************************************************************************)
(* Proofs about WorkerPool: its types, for any number of threads, workers  *)
(* and tickets; and, for the default pool of one worker thread without     *)
(* requests that run a ticket behind its back, that no run goes without    *)
(* the work it depends on and that live leases never overlap.              *)
(***************************************************************************)
EXTENDS WorkerPool, TLAPS

Busy == {"claimed", "model", "tests", "ending"}

\* A thread with something to do has a ticket.
BusyHasTicket == \A w \in Threads : threads[w].pc \in Busy => threads[w].ticket \in Tickets

TypeInv == TypeOK /\ BusyHasTicket

\* What a step does to one thread and to one row, for the type of the whole.
LEMMA ThreadSet ==
  ASSUME TypeOK, NEW w \in Threads, NEW th \in Thread,
         threads' = [threads EXCEPT ![w] = th], th.pc \in Busy => th.ticket \in Tickets,
         BusyHasTicket
  PROVE  threads' \in [Threads -> Thread] /\ BusyHasTicket'
BY DEF TypeOK, BusyHasTicket

LEMMA RowSet ==
  ASSUME TypeOK, NEW t \in Tickets, NEW row \in Row, tickets' = [tickets EXCEPT ![t] = row]
  PROVE  tickets' \in [Tickets -> Row]
BY DEF TypeOK

LEMMA OffIsThread == Off \in Thread /\ NewRow \in Row
BY PoolAssumption DEF Off, Thread, NewRow, Row

LEMMA HomeType ==
  ASSUME TypeInv, NEW w \in Threads, Home(w)
  PROVE  threads' \in [Threads -> Thread] /\ BusyHasTicket'
<1> DEFINE th == IF WorkerOf[w] = NoWorker THEN Off
                 ELSE [Off EXCEPT !.pc = "idle", !.leaving = threads[w].leaving]
<1>1. th \in Thread /\ th.pc \notin Busy
  BY PoolAssumption DEF Off, Thread, NewRow, Row, Busy, TypeInv, TypeOK
<1>2. threads' = [threads EXCEPT ![w] = th]
  BY DEF Home
<1> HIDE DEF th
<1>3. QED BY <1>1, <1>2, ThreadSet DEF TypeInv

LEMMA EndType ==
  ASSUME TypeInv, NEW w \in Threads, End(w), threads[w].ticket \in Tickets
  PROVE  threads' \in [Threads -> Thread] /\ BusyHasTicket' /\ registered' \subseteq Tickets
<1>1. threads[w] \in Thread /\ NewRow \in Row
  BY OffIsThread DEF TypeInv, TypeOK
<1> DEFINE th == [threads[w] EXCEPT !.pc = "ending", !.tree = FALSE, !.snap = NewRow]
<1>2. th \in Thread /\ th.ticket \in Tickets
  BY <1>1 DEF Thread
<1>3. threads' = [threads EXCEPT ![w] = th]
  BY <1>1 DEF End, TypeInv, TypeOK, Thread
<1> HIDE DEF th
<1>4. QED BY <1>2, <1>3, ThreadSet DEF TypeInv, TypeOK, End

LEMMA InitType == Init => TypeInv
BY OffIsThread, PoolAssumption DEF Init, TypeInv, TypeOK, BusyHasTicket, Busy, Off

-----------------------------------------------------------------------------
(* One lemma per group of actions.                                         *)

LEMMA MishapType ==
  ASSUME TypeOK, NEW kind, Mishap(kind)
  PROVE  mishaps' \in 0 .. MaxMishaps
BY PoolAssumption DEF TypeOK, Mishap

LEMMA ComeAndGoType ==
  ASSUME TypeInv, NEW w \in Threads,
         Start(w) \/ Leave(w) \/ FindDirty(w) \/ \E t \in Tickets : Execute(w, t)
  PROVE  TypeInv'
<1>1. threads[w] \in Thread
  BY DEF TypeInv, TypeOK
<1>2. CASE Start(w)
  <2> DEFINE th == [threads[w] EXCEPT !.pc = "idle"]
  <2>1. th \in Thread /\ th.pc \notin Busy
    BY <1>1 DEF Thread, Busy
  <2>2. threads' = [threads EXCEPT ![w] = th]
    BY <1>1, <1>2 DEF Start, Goto, TypeInv, TypeOK, Thread
  <2> HIDE DEF th
  <2>3. QED BY <1>2, <2>1, <2>2, ThreadSet DEF Start, TypeInv, TypeOK
<1>3. CASE Leave(w)
  <2>1. Off.pc \notin Busy
    BY DEF Off, Busy
  <2>2. QED BY <1>3, <2>1, OffIsThread, ThreadSet DEF Leave, TypeInv, TypeOK
<1>4. CASE FindDirty(w)
  BY <1>4, HomeType, MishapType DEF FindDirty, TypeInv, TypeOK
<1>5. ASSUME NEW t \in Tickets, Execute(w, t) PROVE TypeInv'
  <2> DEFINE th == [threads[w] EXCEPT !.pc = "claimed", !.ticket = t]
  <2>1. th \in Thread /\ th.ticket \in Tickets
    BY <1>1 DEF Thread
  <2>2. threads' = [threads EXCEPT ![w] = th]
    BY <1>1, <1>5 DEF Execute, TypeInv, TypeOK, Thread
  <2> HIDE DEF th
  <2>3. QED BY <1>5, <2>1, <2>2, ThreadSet, MishapType DEF Execute, TypeInv, TypeOK
<1>6. QED BY <1>2, <1>3, <1>4, <1>5

LEMMA StopOrCrashType ==
  ASSUME TypeInv, Stop \/ Crash
  PROVE  TypeInv'
<1>1. CASE Stop
  <2>1. threads' \in [Threads -> Thread] /\ BusyHasTicket'
    BY ZenonT(40), <1>1 DEF Stop, TypeInv, TypeOK, BusyHasTicket, Busy, Thread
  <2>2. QED BY <1>1, <2>1, MishapType DEF Stop, TypeInv, TypeOK
<1>2. CASE Crash
  <2>1. threads' \in [Threads -> Thread] /\ BusyHasTicket'
    BY <1>2, OffIsThread DEF Crash, BusyHasTicket, Busy, Off
  <2>2. QED BY <1>2, <2>1, MishapType DEF Crash, TypeInv, TypeOK
<1>3. QED BY <1>1, <1>2

LEMMA RecoverType ==
  ASSUME TypeInv, NEW w \in Threads, Recover(w)
  PROVE  TypeInv'
<1>1. tickets' \in [Tickets -> Row]
  BY DEF Recover, TypeInv, TypeOK, Row
<1>2. ASSUME NEW v \in Threads
      PROVE  threads'[v] \in Thread /\ threads'[v].ticket = threads[v].ticket
             /\ (threads'[v].pc \in Busy => threads[v].pc \in Busy)
  <2>1. threads[v] \in Thread
    BY DEF TypeInv, TypeOK
  <2>2. \/ threads'[v] = [threads[v] EXCEPT !.pc = "recovered"]
        \/ threads'[v] = [threads[v] EXCEPT !.tree = FALSE]
        \/ threads'[v] = threads[v]
    BY DEF Recover
  <2>3. QED BY <2>1, <2>2 DEF Thread, Busy
<1>3. threads' \in [Threads -> Thread]
  BY <1>2 DEF Recover
<1>4. BusyHasTicket'
  BY <1>2 DEF BusyHasTicket, TypeInv
<1>5. QED BY <1>1, <1>3, <1>4 DEF Recover, TypeInv, TypeOK

LEMMA ClaimType ==
  ASSUME TypeInv, NEW w \in Threads, Claim(w)
  PROVE  TypeInv'
<1>1. threads[w] \in Thread
  BY DEF TypeInv, TypeOK
<1>2. ASSUME NEW t \in Tickets, Take(w, t)
      PROVE  threads' \in [Threads -> Thread] /\ BusyHasTicket'
  <2> DEFINE th == [threads[w] EXCEPT !.pc = "claimed", !.ticket = t]
  <2>1. th \in Thread /\ th.ticket \in Tickets
    BY <1>1 DEF Thread
  <2>2. threads' = [threads EXCEPT ![w] = th]
    BY <1>1, <1>2 DEF Take, TypeInv, TypeOK, Thread
  <2> HIDE DEF th
  <2>3. QED BY <2>1, <2>2, ThreadSet DEF TypeInv
<1>3. ASSUME NEW t \in Tickets,
             tickets' = [tickets EXCEPT ![t].holder = WorkerOf[w], ![t].ttl = LeaseTtl]
      PROVE  tickets' \in [Tickets -> Row]
  <2> DEFINE row == [tickets[t] EXCEPT !.holder = WorkerOf[w], !.ttl = LeaseTtl]
  <2>1. tickets[t] \in Row
    BY DEF TypeInv, TypeOK
  <2>2. row \in Row /\ tickets' = [tickets EXCEPT ![t] = row]
    BY <1>3, <2>1, PoolAssumption DEF Row, TypeInv, TypeOK
  <2> HIDE DEF row
  <2>3. QED BY <2>2, RowSet DEF TypeInv
<1>4. \A S : Oldest(S) \subseteq S
  BY DEF Oldest
<1>5. QED
  BY <1>2, <1>3, <1>4, HomeType DEF Claim, TypeInv, TypeOK

LEMMA BeginType ==
  ASSUME TypeInv, NEW w \in Threads, Begin(w)
  PROVE  TypeInv'
<1> DEFINE t == threads[w].ticket
<1>1. threads[w] \in Thread /\ t \in Tickets /\ tickets[t] \in Row
  BY DEF TypeInv, TypeOK, BusyHasTicket, Begin, Busy
<1>2. CASE tickets[t].status \in {"ready", "in_progress"}
  <2> DEFINE th == [threads[w] EXCEPT !.pc = "model", !.tree = TRUE]
             row == [tickets[t] EXCEPT !.status = "in_progress"]
  <2>1. th \in Thread /\ th.ticket \in Tickets /\ row \in Row
    BY <1>1 DEF Thread, Row
  <2>2. /\ threads' = [threads EXCEPT ![w] = th]
        /\ tickets' = [tickets EXCEPT ![t] = row]
        /\ registered' = registered \cup {t} /\ UNCHANGED mishaps
    BY <1>1, <1>2 DEF Begin, TypeInv, TypeOK, Thread, Row
  <2> HIDE DEF th, row
  <2>3. threads' \in [Threads -> Thread] /\ BusyHasTicket'
    BY <2>1, <2>2, ThreadSet DEF TypeInv
  <2>4. tickets' \in [Tickets -> Row]
    BY <1>1, <2>1, <2>2, RowSet DEF TypeInv
  <2>5. QED BY <1>1, <2>2, <2>3, <2>4 DEF TypeInv, TypeOK
<1>3. CASE tickets[t].status \notin {"ready", "in_progress"}
  BY <1>1, <1>3, EndType DEF Begin, TypeInv, TypeOK
<1>4. QED BY <1>2, <1>3

LEMMA TestsType ==
  ASSUME TypeInv, NEW w \in Threads, BeginTests(w) \/ Retry(w) \/ Conclude(w)
  PROVE  TypeInv'
<1> DEFINE t == threads[w].ticket
<1>1. threads[w] \in Thread /\ t \in Tickets /\ tickets[t] \in Row
  BY DEF TypeInv, TypeOK, BusyHasTicket, BeginTests, Retry, Conclude, Busy
<1>2. CASE BeginTests(w)
  <2> DEFINE row == [tickets[t] EXCEPT !.status = "testing"]
             th == [threads[w] EXCEPT !.pc = "tests", !.snap = row]
  <2>1. row \in Row
    BY <1>1 DEF Row
  <2>2. th \in Thread /\ th.ticket \in Tickets
    BY <1>1, <2>1 DEF Thread
  <2>3. /\ threads' = [threads EXCEPT ![w] = th]
        /\ tickets' = [tickets EXCEPT ![t] = row]
        /\ UNCHANGED <<registered, mishaps>>
    BY <1>1, <1>2 DEF BeginTests, TypeInv, TypeOK, Thread, Row
  <2> HIDE DEF th, row
  <2>4. threads' \in [Threads -> Thread] /\ BusyHasTicket'
    BY <2>2, <2>3, ThreadSet DEF TypeInv
  <2>5. tickets' \in [Tickets -> Row]
    BY <1>1, <2>1, <2>3, RowSet DEF TypeInv
  <2>6. QED BY <2>3, <2>4, <2>5 DEF TypeInv, TypeOK
<1>3. ASSUME NEW s \in {"in_progress", "parked"}, Save(w, s)
      PROVE  tickets' \in [Tickets -> Row]
  <2> DEFINE row == [threads[w].snap EXCEPT !.status = s]
  <2>1. row \in Row
    BY <1>1 DEF Thread, Row
  <2>2. tickets' = [tickets EXCEPT ![t] = row]
    BY <1>3 DEF Save
  <2> HIDE DEF row
  <2>3. QED BY <1>1, <2>1, <2>2, RowSet DEF TypeInv
<1>4. CASE Retry(w)
  <2> DEFINE th == [threads[w] EXCEPT !.pc = "model", !.snap = NewRow]
  <2>1. th \in Thread /\ th.ticket \in Tickets
    BY <1>1, OffIsThread DEF Thread
  <2>2. threads' = [threads EXCEPT ![w] = th]
    BY <1>1, <1>4 DEF Retry, TypeInv, TypeOK, Thread
  <2> HIDE DEF th
  <2>3. QED BY <1>3, <1>4, <2>1, <2>2, ThreadSet DEF Retry, TypeInv, TypeOK
<1>5. CASE Conclude(w)
  BY <1>1, <1>3, <1>5, EndType DEF Conclude, TypeInv, TypeOK
<1>6. QED BY <1>2, <1>4, <1>5

LEMMA EndingType ==
  ASSUME TypeInv, NEW w \in Threads, Raise(w) \/ Release(w)
  PROVE  TypeInv'
<1> DEFINE t == threads[w].ticket
<1>1. threads[w] \in Thread /\ t \in Tickets /\ tickets[t] \in Row
  BY DEF TypeInv, TypeOK, BusyHasTicket, Raise, Release, Running, Busy
<1>2. CASE Raise(w)
  BY <1>1, <1>2, EndType, MishapType DEF Raise, TypeInv, TypeOK
<1>3. CASE Release(w)
  <2> DEFINE row == [tickets[t] EXCEPT !.holder = NoWorker, !.ttl = 0]
  <2>1. row \in Row
    BY <1>1 DEF Row
  <2>2. tickets' = [tickets EXCEPT ![t] = row] \/ UNCHANGED tickets
    BY <1>1, <1>3 DEF Release, TypeInv, TypeOK, Row
  <2> HIDE DEF row
  <2>3. tickets' \in [Tickets -> Row]
    BY <1>1, <2>1, <2>2, RowSet DEF TypeInv, TypeOK
  <2>4. QED BY <1>3, <2>3, HomeType DEF Release, TypeInv, TypeOK
<1>4. QED BY <1>2, <1>3

LEMMA OwnerType ==
  ASSUME TypeInv, NEW t \in Tickets, Accept(t) \/ Merge(t) \/ Requeue(t)
  PROVE  TypeInv'
<1>1. ASSUME NEW source, NEW status \in {"done", "merged", "ready"}, SetStatus(t, source, status)
      PROVE  tickets' \in [Tickets -> Row] /\ UNCHANGED <<threads, registered>>
  <2> DEFINE row == [tickets[t] EXCEPT !.status = status]
  <2>1. row \in Row /\ tickets' = [tickets EXCEPT ![t] = row]
    BY <1>1 DEF SetStatus, TypeInv, TypeOK, Row
  <2> HIDE DEF row
  <2>2. QED BY <1>1, <2>1, RowSet DEF SetStatus, TypeInv
<1>2. mishaps' \in 0 .. MaxMishaps
  BY MishapType DEF Accept, Merge, Requeue, TypeInv, TypeOK
<1>3. QED
  BY <1>1, <1>2 DEF Accept, Merge, Requeue, TypeInv, TypeOK, BusyHasTicket

LEMMA AgedIsRow ==
  ASSUME NEW row \in Row
  PROVE  /\ Aged(row) \in Row
         /\ Aged(row).status = row.status /\ Aged(row).holder = row.holder
         /\ row.ttl = 0 => Aged(row).ttl = 0
BY DEF Aged, Row

LEMMA TickType ==
  ASSUME TypeInv, Tick
  PROVE  TypeInv'
<1>1. tickets' \in [Tickets -> Row]
  BY AgedIsRow DEF Tick, TypeInv, TypeOK
<1>2. \A w \in Threads : Aged(threads[w].snap) \in Row
  BY AgedIsRow DEF TypeInv, TypeOK, Thread
<1>3. threads' \in [Threads -> Thread] /\ BusyHasTicket'
  BY <1>2 DEF Tick, TypeInv, TypeOK, BusyHasTicket, Thread
<1>4. QED BY <1>1, <1>3 DEF Tick, TypeInv, TypeOK

LEMMA NextType == TypeInv /\ [Next]_vars => TypeInv'
<1> SUFFICES ASSUME TypeInv, [Next]_vars PROVE TypeInv'
  OBVIOUS
<1>1. CASE UNCHANGED vars
  BY <1>1 DEF vars, TypeInv, TypeOK, BusyHasTicket
<1>2. ASSUME NEW w \in Threads, ThreadStep(w) PROVE TypeInv'
  BY <1>2, RecoverType, ClaimType, BeginType, TestsType, EndingType DEF ThreadStep
<1>3. QED
  BY <1>1, <1>2, ComeAndGoType, OwnerType, StopOrCrashType, TickType DEF Next

\* Type correctness of the pool.
THEOREM TypeCorrect == Spec => []TypeOK
<1>1. Spec => []TypeInv
  BY InitType, NextType, PTL DEF Spec
<1>2. QED BY <1>1, PTL DEF TypeInv
-----------------------------------------------------------------------------
(* The default pool: one worker thread, and no request runs a ticket behind *)
(* its back.  With two threads neither property below holds.                *)

OneThread ==
  /\ \A v, w \in Threads : v = w
  /\ "execute" \notin Mishaps

Begun(t) == tickets[t].status \in {"in_progress", "testing"}

MetFor(t) == \A d \in DependsOn[t] : tickets[d].status = "merged"

\* A ticket keeps the merged dependencies it was claimed with, for nothing
\* takes a merged ticket back; and the row a run remembers is the row in the
\* table, so that saving it gives nobody's lease back.
OwnsRow(w) ==
  LET t == threads[w].ticket IN
  /\ threads[w].pc = "claimed" => tickets[t].status \in {"ready", "in_progress"} /\ MetFor(t)
  /\ threads[w].pc = "model" => tickets[t].status = "in_progress"
  /\ threads[w].pc = "tests" => tickets[t].status = "testing" /\ threads[w].snap = tickets[t]

ThreadOwnsRow == \A w \in Threads : OwnsRow(w)

BegunAreMet == \A t \in Tickets : Begun(t) => MetFor(t)

PoolInv == TypeInv /\ ThreadOwnsRow /\ BegunAreMet /\ LiveLeasesDisjoint

LEMMA SingleInit == Init => PoolInv
BY InitType, PoolAssumption
DEF Init, PoolInv, ThreadOwnsRow, OwnsRow, BegunAreMet, Begun, LiveLeasesDisjoint, LeaseActive, NewRow, Off

\* Leases that are only given back or run out stay disjoint.
LeasesShrink == \A t \in Tickets : LeaseActive(t)' => LeaseActive(t)

LEMMA ShrinkKeepsDisjoint == LiveLeasesDisjoint /\ LeasesShrink => LiveLeasesDisjoint'
BY DEF LiveLeasesDisjoint, LeasesShrink

MergedStays == \A t \in Tickets : tickets[t].status = "merged" => tickets'[t].status = "merged"

LEMMA MetStays ==
  ASSUME MergedStays, NEW t \in Tickets, MetFor(t)
  PROVE  MetFor(t)'
BY PoolAssumption DEF MergedStays, MetFor

\* A step of the only thread: its row of threads says what every thread does.
LEMMA Alone ==
  ASSUME OneThread, NEW w \in Threads, OwnsRow(w)'
  PROVE  ThreadOwnsRow'
BY DEF OneThread, ThreadOwnsRow

LEMMA HomeAt ==
  ASSUME TypeInv, NEW w \in Threads, Home(w)
  PROVE  threads'[w].pc \in {"idle", "off"}
<1>1. Off.pc = "off" /\ [Off EXCEPT !.pc = "idle", !.leaving = threads[w].leaving].pc = "idle"
  BY DEF Off
<1>2. QED BY <1>1 DEF Home, TypeInv, TypeOK

LEMMA ComeAndGoSingle ==
  ASSUME OneThread, PoolInv, NEW w \in Threads,
         Start(w) \/ Leave(w) \/ FindDirty(w) \/ \E t \in Tickets : Execute(w, t)
  PROVE  PoolInv'
<1>1. TypeInv'
  BY ComeAndGoType DEF PoolInv
<1>2. ~ \E t \in Tickets : Execute(w, t)
  BY DEF Execute, Mishap, OneThread
<1>3. UNCHANGED tickets /\ threads'[w].pc \in {"idle", "off"}
  BY <1>2, HomeAt DEF Start, Leave, FindDirty, Goto, Off, PoolInv, TypeInv, TypeOK, Thread
<1>4. ThreadOwnsRow'
  BY <1>3, Alone DEF OwnsRow
<1>5. QED
  BY <1>1, <1>3, <1>4 DEF PoolInv, BegunAreMet, Begun, MetFor, LiveLeasesDisjoint, LeaseActive

LEMMA StopOrCrashSingle ==
  ASSUME OneThread, PoolInv, Stop \/ Crash
  PROVE  PoolInv'
<1>1. TypeInv'
  BY StopOrCrashType DEF PoolInv
<1>2. UNCHANGED tickets
  BY DEF Stop, Crash
<1>3. \A w \in Threads :
        \/ threads'[w].pc = "off"
        \/ /\ threads'[w].pc = threads[w].pc /\ threads'[w].ticket = threads[w].ticket
           /\ threads'[w].snap = threads[w].snap
  BY DEF Stop, Crash, Off, PoolInv, TypeInv, TypeOK, Thread
<1>4. ThreadOwnsRow'
  BY <1>2, <1>3 DEF PoolInv, ThreadOwnsRow, OwnsRow, MetFor
<1>5. QED
  BY <1>1, <1>2, <1>4 DEF PoolInv, BegunAreMet, Begun, MetFor, LiveLeasesDisjoint, LeaseActive

\* Recovery finds the thread at home: nothing runs, and an orphan in testing
\* was begun as one in progress was.
LEMMA RecoverSingle ==
  ASSUME OneThread, PoolInv, NEW w \in Threads, Recover(w)
  PROVE  PoolInv'
<1>1. TypeInv'
  BY RecoverType DEF PoolInv
<1>2. \A t \in Tickets : \/ tickets'[t] = tickets[t]
                         \/ /\ tickets[t].status = "testing"
                            /\ tickets'[t].status = "in_progress"
                            /\ tickets'[t].ttl = tickets[t].ttl
  BY DEF Recover, PoolInv, TypeInv, TypeOK, Row
<1>3. threads'[w].pc = "recovered"
  BY DEF Recover, PoolInv, TypeInv, TypeOK, Thread
<1>4. ThreadOwnsRow'
  BY <1>3, Alone DEF OwnsRow
<1>5. MergedStays /\ LeasesShrink
  BY <1>2 DEF MergedStays, LeasesShrink, LeaseActive
<1>6. BegunAreMet'
  BY <1>2, <1>5, MetStays DEF PoolInv, BegunAreMet, Begun
<1>7. QED BY <1>1, <1>4, <1>5, <1>6, ShrinkKeepsDisjoint DEF PoolInv

LEMMA ClaimSingle ==
  ASSUME OneThread, PoolInv, NEW w \in Threads, Claim(w)
  PROVE  PoolInv'
<1>1. TypeInv'
  BY ClaimType DEF PoolInv
<1>2. \A u \in Tickets : tickets'[u].status = tickets[u].status
  <2>1. ASSUME NEW t \in Tickets, NEW u \in Tickets,
               tickets' = [tickets EXCEPT ![t].holder = WorkerOf[w], ![t].ttl = LeaseTtl]
        PROVE  tickets'[u].status = tickets[u].status
    BY <2>1 DEF PoolInv, TypeInv, TypeOK, Row
  <2>2. QED BY <2>1 DEF Claim, Oldest
<1>3. MergedStays /\ BegunAreMet'
  BY <1>2, MetStays DEF MergedStays, PoolInv, BegunAreMet, Begun
<1>4. ThreadOwnsRow'
  <2>1. CASE threads'[w].pc \in {"off", "idle"}
    BY <2>1, Alone DEF OwnsRow
  <2>2. ASSUME NEW t \in Tickets, Claimable(w, t) \/ tickets[t].status = "in_progress", Take(w, t)
        PROVE  ThreadOwnsRow'
    <3>1. threads'[w].pc = "claimed" /\ threads'[w].ticket = t
      BY <2>2 DEF Take, PoolInv, TypeInv, TypeOK, Thread
    <3>2. tickets[t].status \in {"ready", "in_progress"} /\ MetFor(t)
      BY <2>2 DEF Claimable, MetFor, PoolInv, BegunAreMet, Begun
    <3>3. MetFor(t)'
      BY <1>3, <3>2, MetStays
    <3>4. QED BY <1>2, <3>1, <3>2, <3>3, Alone DEF OwnsRow
  <2>3. Home(w) => threads'[w].pc \in {"off", "idle"}
    BY HomeAt DEF PoolInv
  <2>4. QED BY <2>1, <2>2, <2>3 DEF Claim, Oldest
<1>5. LiveLeasesDisjoint'
  <2>1. ASSUME NEW t \in Tickets, Claimable(w, t),
               tickets' = [tickets EXCEPT ![t].holder = WorkerOf[w], ![t].ttl = LeaseTtl]
        PROVE  LiveLeasesDisjoint'
    <3>1. \A u \in Tickets \ {t} : tickets'[u] = tickets[u]
      BY <2>1 DEF PoolInv, TypeInv, TypeOK
    <3>2. \A u \in Tickets \ {t} : LeaseActive(u) => Files[u] \cap Files[t] = {}
      BY <2>1 DEF Claimable
    <3>3. QED BY <3>1, <3>2 DEF LiveLeasesDisjoint, LeaseActive, PoolInv
  <2>2. CASE UNCHANGED tickets
    BY <2>2 DEF LiveLeasesDisjoint, LeaseActive, PoolInv
  <2>3. QED BY <2>1, <2>2 DEF Claim, Oldest
<1>6. QED BY <1>1, <1>3, <1>4, <1>5 DEF PoolInv

LEMMA BeginSingle ==
  ASSUME OneThread, PoolInv, NEW w \in Threads, Begin(w)
  PROVE  PoolInv'
<1> DEFINE t == threads[w].ticket
<1>1. TypeInv'
  BY BeginType DEF PoolInv
<1>2. t \in Tickets /\ tickets[t].status \in {"ready", "in_progress"} /\ MetFor(t)
  BY DEF Begin, PoolInv, TypeInv, BusyHasTicket, Busy, ThreadOwnsRow, OwnsRow
<1>3. /\ tickets' = [tickets EXCEPT ![t].status = "in_progress"]
      /\ threads'[w].pc = "model" /\ threads'[w].ticket = t
  BY <1>2 DEF Begin, PoolInv, TypeInv, TypeOK, Thread
<1>4. /\ tickets'[t].status = "in_progress" /\ tickets'[t].ttl = tickets[t].ttl
      /\ \A u \in Tickets \ {t} : tickets'[u] = tickets[u]
  BY <1>2, <1>3 DEF PoolInv, TypeInv, TypeOK, Row
<1>5. MergedStays /\ LeasesShrink
  BY <1>2, <1>4 DEF MergedStays, LeasesShrink, LeaseActive
<1>6. BegunAreMet'
  BY <1>2, <1>4, <1>5, MetStays DEF PoolInv, BegunAreMet, Begun
<1>7. ThreadOwnsRow'
  BY <1>3, <1>4, Alone DEF OwnsRow
<1>8. QED BY <1>1, <1>5, <1>6, <1>7, ShrinkKeepsDisjoint DEF PoolInv

LEMMA TestsSingle ==
  ASSUME OneThread, PoolInv, NEW w \in Threads, BeginTests(w) \/ Retry(w) \/ Conclude(w)
  PROVE  PoolInv'
<1> DEFINE t == threads[w].ticket
<1>1. TypeInv'
  BY TestsType DEF PoolInv
<1>2. /\ threads[w] \in Thread /\ t \in Tickets /\ tickets[t] \in Row
      /\ tickets[t].status \in {"in_progress", "testing"} /\ MetFor(t)
  BY DEF BeginTests, Retry, Conclude, PoolInv, TypeInv, TypeOK, BusyHasTicket, Busy,
         ThreadOwnsRow, OwnsRow, BegunAreMet, Begun
<1>3. PICK s \in {"in_progress", "testing", "parked"} :
        tickets' = [tickets EXCEPT ![t] = [tickets[t] EXCEPT !.status = s]]
  BY <1>2 DEF BeginTests, Retry, Conclude, Save, PoolInv, TypeInv, TypeOK, ThreadOwnsRow, OwnsRow
<1>4. /\ tickets'[t] = [tickets[t] EXCEPT !.status = s]
      /\ \A u \in Tickets \ {t} : tickets'[u] = tickets[u]
  BY <1>2, <1>3 DEF PoolInv, TypeInv, TypeOK
<1>5. tickets'[t].status = s /\ tickets'[t].ttl = tickets[t].ttl
  BY <1>2, <1>4 DEF Row
<1>6. MergedStays /\ LeasesShrink
  BY <1>2, <1>4, <1>5 DEF MergedStays, LeasesShrink, LeaseActive
<1>7. BegunAreMet'
  BY <1>2, <1>4, <1>5, <1>6, MetStays DEF PoolInv, BegunAreMet, Begun
<1>8. ThreadOwnsRow'
  <2>1. CASE BeginTests(w)
    <3>1. /\ threads'[w].pc = "tests" /\ threads'[w].ticket = t
          /\ threads'[w].snap = [tickets[t] EXCEPT !.status = "testing"]
      BY <1>2, <2>1 DEF BeginTests, PoolInv, TypeInv, TypeOK, Thread
    <3>2. tickets'[t] = [tickets[t] EXCEPT !.status = "testing"]
      BY <1>2, <2>1 DEF BeginTests, PoolInv, TypeInv, TypeOK
    <3>3. tickets'[t].status = "testing"
      BY <1>2, <3>2 DEF Row
    <3>4. QED BY <3>1, <3>2, <3>3, Alone DEF OwnsRow
  <2>2. CASE Retry(w)
    <3>1. threads'[w].pc = "model" /\ threads'[w].ticket = t
      BY <1>2, <2>2 DEF Retry, PoolInv, TypeInv, TypeOK, Thread
    <3>2. threads[w].snap = tickets[t]
      BY <2>2 DEF Retry, PoolInv, ThreadOwnsRow, OwnsRow
    <3>3. tickets'[t].status = "in_progress"
      BY <1>2, <2>2, <3>2 DEF Retry, Save, PoolInv, TypeInv, TypeOK, Row
    <3>4. QED BY <3>1, <3>3, Alone DEF OwnsRow
  <2>3. CASE Conclude(w)
    <3>1. threads'[w].pc = "ending"
      BY <1>2, <2>3 DEF Conclude, End, PoolInv, TypeInv, TypeOK, Thread
    <3>2. QED BY <3>1, Alone DEF OwnsRow
  <2>4. QED BY <2>1, <2>2, <2>3
<1>9. QED BY <1>1, <1>6, <1>7, <1>8, ShrinkKeepsDisjoint DEF PoolInv

LEMMA EndingSingle ==
  ASSUME OneThread, PoolInv, NEW w \in Threads, Raise(w) \/ Release(w)
  PROVE  PoolInv'
<1>1. TypeInv'
  BY EndingType DEF PoolInv
<1>2. \A u \in Tickets : /\ tickets'[u].status = tickets[u].status
                         /\ tickets'[u].ttl \in {0, tickets[u].ttl}
  BY DEF Raise, Release, PoolInv, TypeInv, TypeOK, Row
<1>3. threads'[w].pc \in {"ending", "idle", "off"}
  BY HomeAt DEF Raise, Release, End, PoolInv, TypeInv, TypeOK, Thread
<1>4. MergedStays /\ LeasesShrink
  BY <1>2 DEF MergedStays, LeasesShrink, LeaseActive
<1>5. BegunAreMet'
  BY <1>2, <1>4, MetStays DEF PoolInv, BegunAreMet, Begun
<1>6. ThreadOwnsRow'
  BY <1>3, Alone DEF OwnsRow
<1>7. QED BY <1>1, <1>4, <1>5, <1>6, ShrinkKeepsDisjoint DEF PoolInv

\* The Product Owner moves only tickets that nobody runs.
LEMMA OwnerSingle ==
  ASSUME PoolInv, NEW t \in Tickets, Accept(t) \/ Merge(t) \/ Requeue(t)
  PROVE  PoolInv'
<1>1. TypeInv'
  BY OwnerType DEF PoolInv
<1>2. /\ tickets[t].status \in {"parked", "done"}
      /\ tickets'[t].status \in {"done", "merged", "ready"} /\ tickets'[t].ttl = tickets[t].ttl
      /\ \A u \in Tickets \ {t} : tickets'[u] = tickets[u]
      /\ UNCHANGED threads
  BY DEF Accept, Merge, Requeue, SetStatus, PoolInv, TypeInv, TypeOK, Row
<1>3. MergedStays /\ LeasesShrink
  BY <1>2 DEF MergedStays, LeasesShrink, LeaseActive
<1>4. BegunAreMet'
  BY <1>2, <1>3, MetStays DEF PoolInv, BegunAreMet, Begun
<1>5. ThreadOwnsRow'
  <2> SUFFICES ASSUME NEW w \in Threads, threads[w].pc \in {"claimed", "model", "tests"}
               PROVE  /\ threads[w].pc = "claimed" => MetFor(threads[w].ticket)'
                      /\ threads[w].ticket # t
    BY <1>2 DEF ThreadOwnsRow, OwnsRow, PoolInv, TypeInv, BusyHasTicket, Busy
  <2>1. threads[w].ticket \in Tickets
    BY DEF PoolInv, TypeInv, BusyHasTicket, Busy
  <2>2. QED BY <1>2, <1>3, <2>1, MetStays DEF PoolInv, ThreadOwnsRow, OwnsRow
<1>6. QED BY <1>1, <1>3, <1>4, <1>5, ShrinkKeepsDisjoint DEF PoolInv

LEMMA TickSingle ==
  ASSUME PoolInv, Tick
  PROVE  PoolInv'
<1>1. TypeInv'
  BY TickType DEF PoolInv
<1>2. \A t \in Tickets : tickets[t] \in Row /\ tickets'[t] = Aged(tickets[t])
  BY DEF Tick, PoolInv, TypeInv, TypeOK
<1>3. MergedStays /\ \A t \in Tickets : tickets'[t].status = tickets[t].status
  BY <1>2, AgedIsRow DEF MergedStays
<1>4. LeasesShrink
  BY <1>2, AgedIsRow DEF LeasesShrink, LeaseActive, Row
<1>5. BegunAreMet'
  BY <1>3, MetStays DEF PoolInv, BegunAreMet, Begun
<1>6. \A w \in Threads : /\ threads'[w].pc = threads[w].pc /\ threads'[w].ticket = threads[w].ticket
                         /\ threads'[w].snap = Aged(threads[w].snap)
  BY DEF Tick, PoolInv, TypeInv, TypeOK, Thread
<1>7. ThreadOwnsRow'
  <2> SUFFICES ASSUME NEW w \in Threads, threads[w].pc \in {"claimed", "model", "tests"}
               PROVE  /\ threads[w].pc = "claimed" => MetFor(threads[w].ticket)'
                      /\ threads[w].pc = "tests" => threads'[w].snap = tickets'[threads[w].ticket]
    BY <1>3, <1>6 DEF ThreadOwnsRow, OwnsRow, PoolInv, TypeInv, BusyHasTicket, Busy
  <2>1. threads[w].ticket \in Tickets
    BY DEF PoolInv, TypeInv, BusyHasTicket, Busy
  <2>2. QED BY <1>2, <1>3, <1>6, <2>1, MetStays DEF PoolInv, ThreadOwnsRow, OwnsRow
<1>8. QED BY <1>1, <1>4, <1>5, <1>7, ShrinkKeepsDisjoint DEF PoolInv

LEMMA SingleNext == OneThread /\ PoolInv /\ [Next]_vars => PoolInv'
<1> SUFFICES ASSUME OneThread, PoolInv, [Next]_vars PROVE PoolInv'
  OBVIOUS
<1>1. CASE UNCHANGED vars
  BY <1>1 DEF vars, PoolInv, TypeInv, TypeOK, BusyHasTicket, ThreadOwnsRow, OwnsRow, BegunAreMet,
              Begun, MetFor, LiveLeasesDisjoint, LeaseActive
<1>2. ASSUME NEW w \in Threads, ThreadStep(w) PROVE PoolInv'
  BY <1>2, RecoverSingle, ClaimSingle, BeginSingle, TestsSingle, EndingSingle DEF ThreadStep
<1>3. QED
  BY <1>1, <1>2, ComeAndGoSingle, OwnerSingle, StopOrCrashSingle, TickSingle DEF Next

LEMMA Single == ASSUME OneThread PROVE Spec => []PoolInv
<1>1. PoolInv /\ [Next]_vars => PoolInv'
  BY SingleNext
<1>2. QED BY <1>1, SingleInit, PTL DEF Spec

\* The pool of one worker never runs a ticket whose dependencies are not
\* merged, although a ticket it finds in progress is run without asking.
THEOREM SingleMeetsDependencies == ASSUME OneThread PROVE Spec => []DependenciesMet
<1>1. PoolInv => DependenciesMet
  BY DEF PoolInv, TypeInv, BusyHasTicket, Busy, ThreadOwnsRow, OwnsRow, BegunAreMet, Begun, MetFor,
         DependenciesMet, Running
<1>2. QED BY <1>1, Single, PTL

\* Its live leases never overlap, crashes and leaked leases included.
THEOREM SingleLeasesDisjoint == ASSUME OneThread PROVE Spec => []LiveLeasesDisjoint
<1>1. PoolInv => LiveLeasesDisjoint
  BY DEF PoolInv
<1>2. QED BY <1>1, Single, PTL
=============================================================================
