------------------------- MODULE HealthMarkersProofs -------------------------
(***************************************************************************)
(* For any number of connections and failed file operations: the flags     *)
(* never contradict each other between two evaluations, and a marker file  *)
(* whose flag is clear comes from a remove inside a write, or from a       *)
(* failed operation on it, and from nothing else.                          *)
(***************************************************************************)
EXTENDS HealthMarkers, FiniteSetTheorems, TLAPS

Ops == [op : {"write", "remove"}, m : Markers]

Work == [stamp : BOOLEAN, todo : Seq(Ops), swapped : BOOLEAN]

ListOK(ops) ==
  /\ ops \in Seq(Ops) /\ Len(ops) <= 3
  /\ \A i, j \in 1..Len(ops) : i # j => ops[i].m # ops[j].m

\* What is true of the work a thread has taken on: operations on different
\* markers, writes by the ticker only, a swap done only for the first of them.
WorkOK(t, w) ==
  /\ w \in Work /\ ListOK(w.todo)
  /\ w.swapped => ~w.stamp /\ w.todo # <<>>
  /\ t # "ticker" => \A i \in 1..Len(w.todo) : w.todo[i].op = "remove"

WorkInv ==
  /\ thread \in [Threads -> Work]
  /\ \A t \in Threads : WorkOK(t, thread[t])

\* The variables other than thread.
StateInv ==
  /\ activeConn \in Conns \cup {NoConn} /\ conn \in [Conns -> {"off", "on"}]
  /\ held \in Levels /\ clock \in [Clocks -> {"fresh", "ticked", "late"}]
  /\ markerSet \subseteq Markers /\ files \subseteq Markers /\ raced \cup leftover \subseteq files
  /\ ticker \in [pc : {"wait", "stalled", "catchup", "idle", "off"}, held : Levels]
  /\ pumpDone \in BOOLEAN /\ fails \in 0..MaxFails

TypeInv == WorkInv /\ StateInv

USE DEF history

OpsLists ==
  {<<>>, RemoveAll, <<Remove("stalled")>>, <<Remove("idle")>>, <<Remove("catchup")>>}

TickerLists ==
  OpsLists \cup {StalledOps, <<Write("catchup")>>, <<Write("idle")>>}

-----------------------------------------------------------------------------
(* Lists of operations *)

\* What a thread may be given to do is work it may have.
LEMMA RemovalsAreWork ==
  ASSUME NEW ops \in OpsLists
  PROVE  ListOK(ops) /\ \A i \in 1..Len(ops) : ops[i].op = "remove"
<1>1. CASE ops = <<>>
  BY <1>1 DEF ListOK
<1>2. CASE ops = RemoveAll
  BY <1>2 DEF ListOK, RemoveAll, Remove, Ops, Markers
<1>3. CASE \E m \in Markers : ops = <<Remove(m)>>
  BY <1>3 DEF ListOK, Remove, Ops
<1> QED
  BY <1>1, <1>2, <1>3 DEF OpsLists, Markers

\* So is what only the ticker is given.
LEMMA ListsAreWork ==
  ASSUME NEW ops \in TickerLists
  PROVE  ListOK(ops)
<1>1. CASE ops = StalledOps
  BY <1>1 DEF ListOK, StalledOps, Remove, Write, Ops, Markers
<1>2. CASE \E m \in Markers : ops = <<Write(m)>>
  BY <1>2 DEF ListOK, Write, Ops
<1> QED
  BY <1>1, <1>2, RemovalsAreWork DEF TickerLists, Markers

\* Taking the first operation off the list leaves such a list.
LEMMA TailIsWork ==
  ASSUME NEW ops \in Seq(Ops), ops # <<>>, Len(ops) <= 3,
         \A i, j \in 1..Len(ops) : i # j => ops[i].m # ops[j].m
  PROVE  /\ Head(ops) \in Ops /\ Head(ops) = ops[1]
         /\ Tail(ops) \in Seq(Ops) /\ Len(Tail(ops)) = Len(ops) - 1
         /\ \A i \in 1..Len(Tail(ops)) : Tail(ops)[i] = ops[i + 1]
         /\ \A i, j \in 1..Len(Tail(ops)) : i # j => Tail(ops)[i].m # Tail(ops)[j].m
         /\ \A i \in 1..Len(Tail(ops)) : Tail(ops)[i].m # Head(ops).m
  OBVIOUS

-----------------------------------------------------------------------------
(* Steps of a thread *)

\* A thread that is given other work of the kind it may have.
LEMMA WorkStep ==
  ASSUME WorkInv, NEW u \in Threads, NEW w, WorkOK(u, w),
         thread' = [thread EXCEPT ![u] = w]
  PROVE  WorkInv'
<1>1. w \in Work
  BY DEF WorkOK
<1>2. thread' \in [Threads -> Work]
  BY <1>1 DEF WorkInv
<1>3. ASSUME NEW t \in Threads PROVE WorkOK(t, thread'[t])
  <2>1. CASE t = u
    BY <2>1 DEF WorkInv
  <2>2. CASE t # u
    BY <2>2 DEF WorkInv
  <2> QED BY <2>1, <2>2
<1> QED
  BY <1>2, <1>3 DEF WorkInv

\* A free thread begins a list of operations.
LEMMA BeginStep ==
  ASSUME WorkInv, NEW u \in Threads, Free(u), NEW ops \in TickerLists,
         u # "ticker" => ops \in OpsLists, NEW b \in BOOLEAN,
         thread' = [thread EXCEPT ![u].stamp = b, ![u].todo = ops]
  PROVE  WorkInv'
<1> DEFINE w == [thread[u] EXCEPT !.stamp = b, !.todo = ops]
<1>1. ListOK(ops)
  BY ListsAreWork
<1>2. u # "ticker" => \A i \in 1..Len(ops) : ops[i].op = "remove"
  BY RemovalsAreWork
<1>3. thread[u] \in Work /\ ~thread[u].stamp /\ ~thread[u].swapped
  <2>1. thread[u] = Idle
    BY DEF Free
  <2>2. ~Idle.stamp /\ ~Idle.swapped
    BY DEF Idle
  <2> QED
    BY <2>1, <2>2 DEF WorkInv
<1>4. WorkOK(u, w)
  BY <1>1, <1>2, <1>3 DEF WorkOK, ListOK, Work
<1>5. thread' = [thread EXCEPT ![u] = w]
  BY DEF WorkInv
<1> QED
  BY <1>4, <1>5, WorkStep

\* The same, the stamp left alone.
LEMMA DoesStep ==
  ASSUME WorkInv, NEW u \in Threads, Free(u), NEW ops \in TickerLists,
         u # "ticker" => ops \in OpsLists, Does(u, ops)
  PROVE  WorkInv'
<1> DEFINE w == [thread[u] EXCEPT !.todo = ops]
<1>1. ListOK(ops)
  BY ListsAreWork
<1>2. u # "ticker" => \A i \in 1..Len(ops) : ops[i].op = "remove"
  BY RemovalsAreWork
<1>3. thread[u] \in Work /\ ~thread[u].stamp /\ ~thread[u].swapped
  <2>1. thread[u] = Idle
    BY DEF Free
  <2>2. ~Idle.stamp /\ ~Idle.swapped
    BY DEF Idle
  <2> QED
    BY <2>1, <2>2 DEF WorkInv
<1>4. WorkOK(u, w)
  BY <1>1, <1>2, <1>3 DEF WorkOK, ListOK, Work
<1> QED
  BY <1>4, WorkStep DEF Does

\* The first operation of a list is done with.
LEMMA DoneStep ==
  ASSUME WorkInv, NEW u \in Threads, Doing(u), thread' = Done(u)
  PROVE  WorkInv'
<1> DEFINE ops == thread[u].todo
           w == [thread[u] EXCEPT !.todo = Tail(@), !.swapped = FALSE]
<1>1. /\ thread[u] \in Work /\ ListOK(ops) /\ ops # <<>> /\ ~thread[u].stamp
      /\ u # "ticker" => \A i \in 1..Len(ops) : ops[i].op = "remove"
  BY DEF WorkInv, WorkOK, Doing
<1>2. /\ ListOK(Tail(ops)) /\ Len(Tail(ops)) = Len(ops) - 1
      /\ \A i \in 1..Len(Tail(ops)) : Tail(ops)[i] = ops[i + 1]
  BY <1>1, TailIsWork DEF ListOK
<1>3. u # "ticker" => \A i \in 1..Len(Tail(ops)) : Tail(ops)[i].op = "remove"
  BY <1>1, <1>2 DEF ListOK
<1>4. w \in Work /\ w.todo = Tail(ops) /\ ~w.swapped
  BY <1>1, <1>2 DEF ListOK, Work
<1>5. WorkOK(u, w)
  <2> HIDE DEF w
  <2> QED BY <1>2, <1>3, <1>4 DEF WorkOK
<1>6. thread' = [thread EXCEPT ![u] = w]
  BY DEF Done, WorkInv
<1> QED
  BY <1>5, <1>6, WorkStep

\* Its flag is swapped.
LEMMA SwappedStep ==
  ASSUME WorkInv, NEW u \in Threads, Doing(u),
         thread' = [thread EXCEPT ![u].swapped = TRUE]
  PROVE  WorkInv'
<1> DEFINE w == [thread[u] EXCEPT !.swapped = TRUE]
<1>1. WorkOK(u, w)
  BY DEF WorkInv, WorkOK, Work, Doing
<1> QED
  BY <1>1, WorkStep

\* Its clocks are stamped.
LEMMA StampStep ==
  ASSUME WorkInv, NEW u \in Threads,
         thread' = [thread EXCEPT ![u].stamp = FALSE]
  PROVE  WorkInv'
<1> DEFINE w == [thread[u] EXCEPT !.stamp = FALSE]
<1>1. WorkOK(u, w)
  BY DEF WorkInv, WorkOK, Work
<1> QED
  BY <1>1, WorkStep

-----------------------------------------------------------------------------
(* Types *)

\* A daemon starts with no operation under way.
LEMMA TypeInit == Init => TypeInv
<1> SUFFICES ASSUME Init PROVE TypeInv
  OBVIOUS
<1>1. WorkInv
  <2>1. Idle \in Work /\ ListOK(Idle.todo) /\ Len(Idle.todo) = 0 /\ ~Idle.swapped
    BY DEF Work, ListOK, Idle
  <2>2. \A t \in Threads : thread[t] = Idle /\ WorkOK(t, Idle)
    BY <2>1 DEF Init, WorkOK
  <2> QED
    BY <2>1, <2>2 DEF Init, WorkInv
<1>2. StateInv
  <2>1. clock \in [Clocks -> {"fresh", "ticked", "late"}]
    BY DEF Init
  <2>2. conn \in [Conns -> {"off", "on"}]
    BY DEF Init
  <2>3. ticker \in [pc : {"wait", "stalled", "catchup", "idle", "off"}, held : Levels]
    BY DEF Init, Levels
  <2>4. held \in Levels /\ fails \in 0..MaxFails
    BY MarkersAssumption DEF Init, Levels
  <2> QED
    BY <2>1, <2>2, <2>3, <2>4 DEF Init, StateInv
<1> QED
  BY <1>1, <1>2 DEF TypeInv

\* Every step keeps the types and the form of the work.
LEMMA TypeStep == TypeInv /\ [Next]_vars => TypeInv'
<1> SUFFICES ASSUME TypeInv, [Next]_vars PROVE TypeInv'
  OBVIOUS
<1> USE DEF TypeInv
<1>a. Conns \subseteq Threads /\ "ticker" \in Threads /\ "pump" \in Threads
      /\ "ticker" \notin Conns
  BY ConnsAssumption DEF Threads
<1>1. CASE Tick
  <2>1. WorkInv'
    BY <1>1, <1>a, DoesStep DEF Tick, At, TickerLists, OpsLists, WorkInv, WorkOK
  <2>2. StateInv'
    BY <1>1 DEF Tick, StateInv
  <2> QED BY <2>1, <2>2
<1>2. CASE CheckStalled
  <2>1. WorkInv'
    BY <1>2, <1>a, DoesStep DEF CheckStalled, At, TickerLists, OpsLists
  <2>2. StateInv'
    BY <1>2 DEF CheckStalled, StateInv, Levels
  <2> QED BY <2>1, <2>2
<1>3. CASE CheckCatchup
  <2>1. WorkInv'
    BY <1>3, <1>a, DoesStep DEF CheckCatchup, At, TickerLists, OpsLists
  <2>2. StateInv'
    BY <1>3 DEF CheckCatchup, StateInv, Levels
  <2> QED BY <2>1, <2>2
<1>4. CASE CheckIdle
  <2>1. WorkInv'
    BY <1>4, <1>a, DoesStep DEF CheckIdle, At, TickerLists, OpsLists
  <2>2. StateInv'
    BY <1>4 DEF CheckIdle, StateInv, Levels
  <2> QED BY <2>1, <2>2
<1>5. CASE TickerEnds
  <2>1. WorkInv'
    BY <1>5, <1>a, DoesStep DEF TickerEnds, At, TickerLists, OpsLists
  <2>2. StateInv'
    BY <1>5 DEF TickerEnds, StateInv
  <2> QED BY <2>1, <2>2
<1>6. CASE PumpAppends
  <2>1. WorkInv'
    BY <1>6, <1>a, DoesStep DEF PumpAppends, TickerLists, OpsLists
  <2>2. StateInv'
    BY <1>6 DEF PumpAppends, StateInv, Levels, Clocks
  <2> QED BY <2>1, <2>2
<1>7. CASE PumpEnds
  BY <1>7 DEF PumpEnds, StateInv, WorkInv, WorkOK
<1>8. ASSUME NEW t \in Threads, Stamp(t) PROVE TypeInv'
  <2>1. WorkInv'
    BY <1>8, StampStep DEF Stamp
  <2>2. StateInv'
    BY <1>8 DEF Stamp, StateInv
  <2> QED BY <2>1, <2>2
<1>9. ASSUME NEW t \in Threads, Swap(t) PROVE TypeInv'
  <2>1. WorkInv'
    BY <1>9, DoneStep, SwappedStep DEF Swap
  <2>2. Head(thread[t].todo) \in Ops
    BY <1>9, TailIsWork DEF Swap, Doing, WorkInv, WorkOK, ListOK
  <2>3. StateInv'
    BY <1>9, <2>2 DEF Swap, StateInv, Ops
  <2> QED BY <2>1, <2>3
<1>10. ASSUME NEW t \in Threads, FileOp(t) PROVE TypeInv'
  <2>1. WorkInv'
    BY <1>10, DoneStep DEF FileOp
  <2>2. Head(thread[t].todo) \in Ops
    BY <1>10, TailIsWork DEF FileOp, Doing, WorkInv, WorkOK, ListOK
  <2>3. fails < MaxFails => fails + 1 \in 0..MaxFails
    BY MarkersAssumption DEF StateInv
  <2>4. StateInv'
    BY <1>10, <2>2, <2>3 DEF FileOp, FileWritten, WriteFails, FileRemoved, RemoveFails,
       Fails, StateInv, Ops, AfterFailure, AfterRemove
  <2> QED BY <2>1, <2>4
<1>11. ASSUME NEW c \in Conns, Attach(c) PROVE TypeInv'
  <2>1. WorkInv'
    BY <1>11, <1>a, BeginStep DEF Attach, TickerLists, OpsLists
  <2>2. StateInv'
    BY <1>11 DEF Attach, StateInv
  <2> QED BY <2>1, <2>2
<1>12. ASSUME NEW c \in Conns, Ack(c) PROVE TypeInv'
  <2>1. WorkInv'
    BY <1>12, <1>a, DoesStep DEF Ack, TickerLists, OpsLists
  <2>2. StateInv'
    BY <1>12 DEF Ack, StateInv, Levels, Clocks
  <2> QED BY <2>1, <2>2
<1>13. ASSUME NEW c \in Conns, Detach(c) PROVE TypeInv'
  BY <1>13 DEF Detach, StateInv, WorkInv, WorkOK
<1>14. ASSUME NEW k \in Clocks, Elapse(k) PROVE TypeInv'
  BY <1>14 DEF Elapse, StateInv, WorkInv, WorkOK
<1>15. CASE UNCHANGED vars
  BY <1>15 DEF vars, StateInv, WorkInv, WorkOK
<1> QED
  BY <1>1, <1>2, <1>3, <1>4, <1>5, <1>6, <1>7, <1>8, <1>9, <1>10, <1>11, <1>12,
     <1>13, <1>14, <1>15 DEF Next, Ticker, Works

\* They hold of every state.
LEMMA TypeAlways == Spec => []TypeInv
  BY TypeInit, TypeStep, PTL DEF Spec

\* Type correctness, for every number of connections.
THEOREM TypeCorrect == Spec => []TypeOK
<1>1. TypeInv => TypeOK
  <2> SUFFICES ASSUME TypeInv PROVE TypeOK
    OBVIOUS
  <2>1. \A t \in Threads : thread[t].stamp \in BOOLEAN /\ Len(thread[t].todo) <= 3
    BY DEF TypeInv, WorkInv, WorkOK, Work, ListOK
  <2> QED
    BY <2>1 DEF TypeInv, StateInv, TypeOK
<1> QED
  BY <1>1, TypeAlways, PTL

-----------------------------------------------------------------------------
(* Leftover files *)

\* The file of m is on record as overtaken or left behind, or a thread in T will
\* still do something about it.
Accounted(m, T) == m \in raced \cup leftover \/ \E t \in T : Touches(t, m)

Writing(m) == Touches("ticker", m) /\ Head(thread["ticker"].todo).op = "write"

\* The second part is what a write that fails falls back on: it clears the
\* flag of a file that was left there before.
GhostInv ==
  /\ \A m \in files \ markerSet : Accounted(m, Threads)
  /\ \A m \in files : Writing(m) => Accounted(m, Threads \ {"ticker"})

\* Steps that neither do nor finish half an operation.
LEMMA GhostFrame ==
  ASSUME GhostInv, NEW u \in Threads, ~thread[u].swapped, ~thread'[u].swapped,
         \A t \in Threads \ {u} : thread'[t] = thread[t],
         UNCHANGED <<markerSet, files, raced, leftover>>
  PROVE  GhostInv'
<1>1. \A t \in Threads, m \in Markers \cup files : Touches(t, m)' = Touches(t, m)
  BY DEF Touches, Doing
<1>2. \A m \in files : Writing(m)' <=> Writing(m)
  <2>1. "ticker" \in Threads
    BY DEF Threads
  <2>2. CASE u = "ticker"
    BY <2>2 DEF Writing, Touches
  <2>3. CASE u # "ticker"
    BY <2>1, <2>3 DEF Writing, Touches, Doing
  <2> QED BY <2>2, <2>3
<1> QED
  BY <1>1, <1>2 DEF GhostInv, Accounted

\* The same for a thread that is free.
LEMMA GhostBegins ==
  ASSUME TypeInv, GhostInv, NEW u \in Threads, Free(u), NEW ops, Does(u, ops),
         UNCHANGED <<markerSet, files, raced, leftover>>
  PROVE  GhostInv'
<1>1. ~thread[u].swapped
  <2>1. ~Idle.swapped
    BY DEF Idle
  <2> QED BY <2>1 DEF Free
<1>2. ~thread'[u].swapped /\ \A t \in Threads \ {u} : thread'[t] = thread[t]
  BY <1>1 DEF Does, TypeInv, WorkInv, Work
<1> QED
  BY <1>1, <1>2, GhostFrame

\* And for steps that give no thread anything to do.
LEMMA GhostSame ==
  ASSUME GhostInv, UNCHANGED <<markerSet, files, raced, leftover, thread>>
  PROVE  GhostInv'
  BY DEF GhostInv, Accounted, Writing, Touches, Doing

\* The first half of an operation.  A flag newly set over a file makes that
\* file one the write may fall back on; it was accounted for before.
LEMMA GhostSwap ==
  ASSUME TypeInv, GhostInv, NEW u \in Threads, Swap(u)
  PROVE  GhostInv'
<1> DEFINE o == Head(thread[u].todo)
           already == (o.m \in markerSet) = (o.op = "write")
<1>1. /\ o \in Ops /\ ~thread[u].swapped /\ Doing(u)
      /\ u # "ticker" => o.op = "remove"
      /\ files' = files /\ UNCHANGED <<raced, leftover>>
  BY TailIsWork DEF Swap, Doing, TypeInv, WorkInv, WorkOK, ListOK
<1>2. \A t \in Threads \ {u} : thread'[t] = thread[t]
  BY DEF Swap, Done, TypeInv, WorkInv
<1>3. \A t \in Threads : thread[t] \in Work
  BY DEF TypeInv, WorkInv
<1>4. \A m \in files : ~Touches(u, m)
  BY <1>1 DEF Touches
<1>5. CASE already
  <2>1. markerSet' = markerSet /\ UNCHANGED <<files, raced, leftover>>
    BY <1>1, <1>5 DEF Swap, Ops
  <2>2. ~thread'[u].swapped
    BY <1>3, <1>5 DEF Swap, Done, TypeInv, WorkInv, Work
  <2> QED
    BY <1>1, <1>2, <2>1, <2>2, GhostFrame
<1>6. CASE ~already
  <2>1. thread' = [thread EXCEPT ![u].swapped = TRUE]
    BY <1>6 DEF Swap
  <2>2. thread'[u].swapped /\ ~thread'[u].stamp /\ thread'[u].todo = thread[u].todo
    BY <1>1, <1>3, <2>1 DEF TypeInv, WorkInv, Work, Doing
  <2>3. \A m \in files, t \in Threads \ {u} : Touches(t, m)' <=> Touches(t, m)
    BY <1>2 DEF Touches, Doing
  <2>4. \A m \in files : Accounted(m, Threads) => Accounted(m, Threads \ {u})'
    BY <1>1, <1>4, <2>3 DEF Accounted
  <2>5. \A m \in files : m = o.m => Touches(u, m)'
    BY <1>1, <2>2 DEF Touches, Doing
  <2>6. CASE o.op = "write"
    <3>1. u = "ticker" /\ o.m \notin markerSet /\ markerSet' = markerSet \cup {o.m}
      BY <1>1, <1>6, <2>6 DEF Swap
    <3>2. \A m \in files : Writing(m)' => m = o.m
      BY <2>2, <3>1 DEF Writing, Touches, Doing
    <3>3. \A m \in files' \ markerSet' : Accounted(m, Threads)'
      BY <1>1, <2>4, <3>1 DEF GhostInv, Accounted
    <3>4. \A m \in files' : Writing(m)' => Accounted(m, Threads \ {"ticker"})'
      BY <1>1, <2>4, <3>1, <3>2 DEF GhostInv
    <3> QED
      BY <3>3, <3>4 DEF GhostInv
  <2>7. CASE o.op = "remove"
    <3>1. markerSet' = markerSet \ {o.m}
      BY <2>7 DEF Swap
    <3>2. \A m \in files' \ markerSet' : Accounted(m, Threads)'
      <4> SUFFICES ASSUME NEW m \in files', m \notin markerSet' PROVE Accounted(m, Threads)'
        OBVIOUS
      <4>1. CASE m = o.m
        BY <1>1, <2>5, <4>1 DEF Accounted
      <4>2. CASE m # o.m
        BY <1>1, <2>4, <3>1, <4>2 DEF GhostInv, Accounted
      <4> QED BY <4>1, <4>2
    <3>3. \A m \in files : Writing(m)' => Writing(m) /\ u # "ticker"
      <4>1. CASE u = "ticker"
        BY <2>2, <2>7, <4>1 DEF Writing
      <4>2. CASE u # "ticker"
        BY <1>2, <4>2 DEF Writing, Touches, Doing, Threads
      <4> QED BY <4>1, <4>2
    <3>4. \A m \in files' : Writing(m)' => Accounted(m, Threads \ {"ticker"})'
      BY <1>1, <1>4, <2>3, <3>3 DEF GhostInv, Accounted
    <3> QED
      BY <3>2, <3>4 DEF GhostInv
  <2> QED
    BY <1>1, <2>6, <2>7 DEF Ops
<1> QED
  BY <1>5, <1>6

\* The second half.
LEMMA GhostFileOp ==
  ASSUME TypeInv, GhostInv, NEW u \in Threads, FileOp(u)
  PROVE  GhostInv'
<1> DEFINE o == Head(thread[u].todo)
<1>1. /\ o \in Ops /\ thread[u].swapped /\ Doing(u)
      /\ u # "ticker" => o.op = "remove"
  BY TailIsWork DEF FileOp, Doing, TypeInv, WorkInv, WorkOK, ListOK
<1>2. /\ \A t \in Threads \ {u} : thread'[t] = thread[t]
      /\ ~thread'[u].swapped
  BY DEF FileOp, Done, TypeInv, WorkInv, Work
<1>3. \A m \in Markers, t \in Threads \ {u} : Touches(t, m)' <=> Touches(t, m)
  BY <1>2 DEF Touches, Doing
<1>4. \A m \in Markers : Touches(u, m) => m = o.m
  BY DEF Touches
<1>5. \A m \in Markers : Writing(m)' => Writing(m) /\ u # "ticker"
  BY <1>2 DEF Writing, Touches, Doing, Threads
<1>6. files \subseteq Markers /\ files' \subseteq Markers
  BY <1>1 DEF FileOp, FileWritten, WriteFails, FileRemoved, RemoveFails, TypeInv, StateInv,
     Ops, AfterRemove
<1>7. \A m \in Markers \ {o.m}, T \in SUBSET Threads :
         Accounted(m, T) /\ (m \in raced \cup leftover => m \in (raced \cup leftover)') => Accounted(m, T)'
  BY <1>3, <1>4 DEF Accounted
<1>8. CASE o.op = "write" /\ FileWritten(o.m)
  <2>1. /\ o.m \notin markerSet => o.m \in raced'
        /\ \A m \in Markers \ {o.m} : m \in raced \cup leftover => m \in (raced \cup leftover)'
        /\ files' = files \cup {o.m} /\ markerSet' = markerSet
    BY <1>8 DEF FileWritten
  <2>2. u = "ticker"
    BY <1>1, <1>8 DEF Ops
  <2>3. \A m \in files' \ markerSet' : Accounted(m, Threads)'
    <3> SUFFICES ASSUME NEW m \in files', m \notin markerSet' PROVE Accounted(m, Threads)'
      OBVIOUS
    <3>1. CASE m = o.m
      BY <2>1, <3>1 DEF Accounted
    <3>2. CASE m # o.m
      BY <1>6, <1>7, <2>1, <3>2 DEF GhostInv
    <3> QED BY <3>1, <3>2
  <2> QED
    BY <1>5, <1>6, <2>2, <2>3 DEF GhostInv
<1>9. CASE o.op = "write" /\ WriteFails(o.m)
  <2>1. u = "ticker"
    BY <1>1, <1>9 DEF Ops
  <2>2. /\ markerSet' = markerSet \ {o.m} /\ raced' = raced /\ leftover \subseteq leftover'
        /\ files' = files \/ (files' = files \cup {o.m} /\ o.m \in leftover')
    BY <1>9 DEF WriteFails, AfterFailure
  <2>3. \A m \in files' \ markerSet' : Accounted(m, Threads)'
    <3> SUFFICES ASSUME NEW m \in files', m \notin markerSet' PROVE Accounted(m, Threads)'
      OBVIOUS
    <3>1. CASE m = o.m /\ files' = files
      <4>1. Writing(m)
        BY <1>1, <1>9, <2>1, <3>1 DEF Writing, Touches
      <4>2. Accounted(m, Threads \ {"ticker"})
        BY <3>1, <4>1 DEF GhostInv
      <4> QED
        BY <1>3, <1>6, <2>1, <2>2, <4>2 DEF Accounted
    <3>2. CASE m = o.m /\ o.m \in leftover'
      BY <3>2 DEF Accounted
    <3>3. CASE m # o.m
      BY <1>6, <1>7, <2>2, <3>3 DEF GhostInv
    <3> QED BY <2>2, <3>1, <3>2, <3>3
  <2> QED
    BY <1>5, <1>6, <2>1, <2>3 DEF GhostInv
<1>10. CASE FileRemoved(o.m)
  <2>1. \A m \in files' : /\ m \in files /\ m # o.m
                          /\ m \in raced \cup leftover => m \in (raced \cup leftover)'
    BY <1>10 DEF FileRemoved, AfterRemove
  <2>2. markerSet' = markerSet
    BY <1>10 DEF FileRemoved
  <2>3. \A m \in files' \ markerSet' : Accounted(m, Threads)'
    BY <1>6, <1>7, <2>1, <2>2 DEF GhostInv
  <2>4. \A m \in files' : Writing(m)' => Accounted(m, Threads \ {"ticker"})'
    BY <1>5, <1>6, <1>7, <2>1 DEF GhostInv
  <2> QED
    BY <2>3, <2>4 DEF GhostInv
<1>11. CASE RemoveFails(o.m)
  <2>1. /\ files' = files /\ markerSet' = markerSet /\ o.m \in leftover'
        /\ raced \cup leftover \subseteq (raced \cup leftover)'
    BY <1>11 DEF RemoveFails
  <2>2. \A m \in files, T \in SUBSET Threads : Accounted(m, T) => Accounted(m, T)'
    BY <1>6, <1>7, <2>1 DEF Accounted
  <2>3. \A m \in files' : Writing(m)' => Accounted(m, Threads \ {"ticker"})'
    BY <1>5, <1>6, <2>1, <2>2 DEF GhostInv
  <2> QED
    BY <2>1, <2>2, <2>3 DEF GhostInv
<1> QED
  BY <1>8, <1>9, <1>10, <1>11 DEF FileOp

\* Only the two halves of an operation bear on the leftover files.
LEMMA GhostStep == TypeInv /\ GhostInv /\ [Next]_vars => GhostInv'
<1> SUFFICES ASSUME TypeInv, GhostInv, [Next]_vars PROVE GhostInv'
  OBVIOUS
<1>a. Conns \subseteq Threads /\ "ticker" \in Threads /\ "pump" \in Threads
  BY DEF Threads
<1>1. CASE Ticker
  <2>1. UNCHANGED <<markerSet, files, raced, leftover>> /\ Free("ticker")
    BY <1>1 DEF Ticker, Tick, CheckStalled, CheckCatchup, CheckIdle, TickerEnds, At
  <2>2. UNCHANGED thread \/ \E ops : Does("ticker", ops)
    BY <1>1 DEF Ticker, Tick, CheckStalled, CheckCatchup, CheckIdle, TickerEnds
  <2> QED
    BY <1>a, <2>1, <2>2, GhostBegins, GhostSame
<1>2. CASE PumpAppends
  BY <1>2, <1>a, GhostBegins DEF PumpAppends
<1>3. CASE PumpEnds
  BY <1>3, GhostSame DEF PumpEnds
<1>4. ASSUME NEW t \in Threads, Stamp(t) PROVE GhostInv'
  <2>1. ~thread[t].swapped
    BY <1>4 DEF Stamp, TypeInv, WorkInv, WorkOK
  <2>2. ~thread'[t].swapped /\ \A s \in Threads \ {t} : thread'[s] = thread[s]
    BY <1>4, <2>1 DEF Stamp, TypeInv, WorkInv, Work
  <2> QED
    BY <1>4, <2>1, <2>2, GhostFrame DEF Stamp
<1>5. ASSUME NEW t \in Threads, Swap(t) PROVE GhostInv'
  BY <1>5, GhostSwap
<1>6. ASSUME NEW t \in Threads, FileOp(t) PROVE GhostInv'
  BY <1>6, GhostFileOp
<1>7. ASSUME NEW c \in Conns, Attach(c) PROVE GhostInv'
  <2>1. ~thread[c].swapped
    <3>1. ~Idle.swapped
      BY DEF Idle
    <3> QED BY <1>7, <3>1 DEF Attach, Free
  <2>2. ~thread'[c].swapped /\ \A s \in Threads \ {c} : thread'[s] = thread[s]
    BY <1>7, <1>a, <2>1 DEF Attach, TypeInv, WorkInv, Work
  <2> QED
    BY <1>7, <1>a, <2>1, <2>2, GhostFrame DEF Attach
<1>8. ASSUME NEW c \in Conns, Ack(c) PROVE GhostInv'
  BY <1>8, <1>a, GhostBegins DEF Ack
<1>9. ASSUME NEW c \in Conns, Detach(c) PROVE GhostInv'
  BY <1>9, GhostSame DEF Detach
<1>10. ASSUME NEW k \in Clocks, Elapse(k) PROVE GhostInv'
  BY <1>10, GhostSame DEF Elapse
<1>11. CASE UNCHANGED vars
  BY <1>11, GhostSame DEF vars
<1> QED
  BY <1>1, <1>2, <1>3, <1>4, <1>5, <1>6, <1>7, <1>8, <1>9, <1>10, <1>11 DEF Next, Works

\* A marker file whose flag is clear, and which nobody is about to remove, was
\* left there by a remove that fell between the halves of a write, or by a failed
\* operation on that file, however many attach and however often operations fail.
THEOREM GhostsHaveCause == Spec => []GhostHasCause
<1>1. Init => GhostInv
  BY DEF Init, GhostInv
<1>2. GhostInv => GhostHasCause
  BY DEF GhostInv, Accounted, GhostHasCause
<1> QED
  BY <1>1, <1>2, GhostStep, TypeAlways, PTL DEF Spec

-----------------------------------------------------------------------------
(* One marker at a time *)

Elems(ops) == {ops[i] : i \in 1..Len(ops)}

ToDo == Elems(thread["ticker"].todo)

\* The flag of m will be set when the ticker is done with what it has begun,
\* unless somebody else clears it.
Pending(m) == (m \in markerSet \/ Write(m) \in ToDo) /\ Remove(m) \notin ToDo

AtMostOne == \A m, n \in Markers : Pending(m) /\ Pending(n) => m = n

\* A remove of the ticker of which the first half is done.
Removed ==
  thread["ticker"].swapped /\ Head(thread["ticker"].todo).op = "remove"
    => Head(thread["ticker"].todo).m \notin markerSet

\* Between the check for catchup and the one for idle both flags may be set;
\* what saves the end of the evaluation is that stalled is not, then.
OneInv ==
  /\ ticker.pc \in {"wait", "stalled", "catchup"} => AtMostOne
  /\ ticker.pc \in {"catchup", "idle"} => ~Pending("stalled")
  /\ Removed

\* The elements of a list and of its tail.
LEMMA ElemsOfTail ==
  ASSUME NEW ops, ListOK(ops), ops # <<>>
  PROVE  /\ Head(ops) \in Ops
         /\ Elems(ops) = Elems(Tail(ops)) \cup {Head(ops)}
         /\ \A o \in Elems(Tail(ops)) : o.m # Head(ops).m
<1>1. /\ ops \in Seq(Ops) /\ Len(ops) \in Nat /\ Len(ops) > 0
      /\ Head(ops) \in Ops /\ Head(ops) = ops[1]
      /\ Len(Tail(ops)) = Len(ops) - 1
      /\ \A i \in 1..Len(Tail(ops)) : Tail(ops)[i] = ops[i + 1]
      /\ \A i \in 1..Len(Tail(ops)) : Tail(ops)[i].m # Head(ops).m
  BY TailIsWork DEF ListOK
<1>2. ASSUME NEW o \in Elems(ops) PROVE o \in Elems(Tail(ops)) \cup {Head(ops)}
  <2>1. PICK i \in 1..Len(ops) : o = ops[i]
    BY <1>2 DEF Elems
  <2>2. CASE i = 1
    BY <1>1, <2>1, <2>2
  <2>3. CASE i # 1
    <3>1. i - 1 \in 1..Len(Tail(ops)) /\ (i - 1) + 1 = i
      BY <1>1, <2>1, <2>3
    <3>2. Tail(ops)[i - 1] = o
      BY <1>1, <2>1, <3>1
    <3> QED BY <3>1, <3>2 DEF Elems
  <2> QED BY <2>2, <2>3
<1>3. ASSUME NEW o \in Elems(Tail(ops)) PROVE o \in Elems(ops) /\ o.m # Head(ops).m
  <2>1. PICK i \in 1..Len(Tail(ops)) : o = Tail(ops)[i]
    BY <1>3 DEF Elems
  <2>2. i + 1 \in 1..Len(ops)
    BY <1>1, <2>1
  <2> QED BY <1>1, <2>1, <2>2 DEF Elems
<1>4. Head(ops) \in Elems(ops)
  BY <1>1 DEF Elems
<1> QED
  BY <1>1, <1>2, <1>3, <1>4

\* Two different operations of the ticker are about different markers.
LEMMA DistinctMarkers ==
  ASSUME NEW ops, ListOK(ops), NEW o \in Elems(ops), NEW p \in Elems(ops), o.m = p.m
  PROVE  o = p
  BY DEF ListOK, Elems

\* The work of a thread, its stamp, its half operations: no marker is set that
\* was not pending, and a removed one is not set again.
LEMMA WorksShrink ==
  ASSUME TypeInv, OneInv, NEW u \in Threads, Works(u)
  PROVE  /\ \A m \in Markers : Pending(m)' => Pending(m)
         /\ Removed' /\ ticker' = ticker
<1> DEFINE ops == thread["ticker"].todo
           o == Head(thread[u].todo)
<1>1. "ticker" \in Threads
  BY DEF Threads
<1>2. ListOK(ops) /\ thread \in [Threads -> Work]
  BY <1>1 DEF TypeInv, WorkInv, WorkOK
<1>3. ticker' = ticker
  BY DEF Works, Stamp, Swap, FileOp
<1>4. CASE Stamp(u)
  <2>1. thread'["ticker"].todo = ops /\ thread'["ticker"].swapped = thread["ticker"].swapped
    BY <1>1, <1>2, <1>4 DEF Stamp, Work
  <2> QED
    BY <1>3, <1>4, <2>1 DEF Stamp, Pending, ToDo, Removed, OneInv
<1>5. CASE u # "ticker" /\ (Swap(u) \/ FileOp(u))
  <2>1. thread'["ticker"] = thread["ticker"]
    BY <1>1, <1>2, <1>5 DEF Swap, FileOp, Done
  <2>2. o.op = "remove"
    BY <1>5, TailIsWork DEF Swap, FileOp, Doing, TypeInv, WorkInv, WorkOK, ListOK
  <2>3. markerSet' \subseteq markerSet
    BY <1>5, <2>2 DEF Swap, FileOp, FileRemoved, RemoveFails
  <2> QED
    BY <1>3, <2>1, <2>3 DEF Pending, ToDo, Removed, OneInv
<1>6. CASE u = "ticker" /\ (Swap(u) \/ FileOp(u))
  <2>1. /\ ops # <<>> /\ o \in Ops /\ o = Head(ops)
        /\ Elems(ops) = Elems(Tail(ops)) \cup {o}
        /\ \A p \in Elems(Tail(ops)) : p.m # o.m
    BY <1>2, <1>6, ElemsOfTail DEF Swap, FileOp, Doing
  <2>2. o = Write(o.m) \/ o = Remove(o.m)
    BY <2>1 DEF Ops, Write, Remove
  <2>3. \A m : Write(m).m = m /\ Remove(m).m = m /\ Write(m).op = "write"
               /\ Remove(m).op = "remove" /\ Write(m) # Remove(m)
    BY DEF Write, Remove
  <2>4. \/ thread'["ticker"].todo = ops /\ thread'["ticker"].swapped /\ Swap(u)
           /\ ~((o.m \in markerSet) = (o.op = "write"))
        \/ thread'["ticker"].todo = Tail(ops) /\ ~thread'["ticker"].swapped
    <3> DEFINE already == (o.m \in markerSet) = (o.op = "write")
    <3>1. CASE Swap(u) /\ ~already
      <4>1. thread' = [thread EXCEPT !["ticker"].swapped = TRUE]
        BY <1>6, <3>1 DEF Swap
      <4> QED BY <1>1, <1>2, <3>1, <4>1 DEF Work
    <3>2. CASE FileOp(u) \/ (Swap(u) /\ already)
      <4>1. thread' = Done("ticker")
        BY <1>6, <3>2 DEF Swap, FileOp
      <4> QED BY <1>1, <1>2, <4>1 DEF Work, Done
    <3> QED BY <1>6, <3>1, <3>2
  <2>5. CASE o.op = "write"
    <3>1. o = Write(o.m) /\ Write(o.m) \in Elems(ops) /\ Remove(o.m) \notin Elems(ops)
      BY <1>2, <2>1, <2>2, <2>3, <2>5, DistinctMarkers
    <3>2. markerSet' \subseteq markerSet \cup {o.m}
      BY <1>6, <2>5 DEF Swap, FileOp, FileWritten, WriteFails, AfterFailure
    <3>3. ASSUME NEW m \in Markers, Pending(m)' PROVE Pending(m)
      <4>1. CASE m = o.m
        BY <3>1, <4>1 DEF Pending, ToDo
      <4>2. CASE m # o.m
        <5>1. Write(m) # o /\ Remove(m) # o
          BY <2>3, <4>2
        <5>2. (Write(m) \in ToDo' <=> Write(m) \in ToDo)
              /\ (Remove(m) \in ToDo' <=> Remove(m) \in ToDo)
          BY <2>1, <2>4, <5>1 DEF ToDo
        <5> QED BY <3>2, <3>3, <4>2, <5>2 DEF Pending
      <4> QED BY <4>1, <4>2
    <3>4. Removed'
      BY <2>1, <2>4, <2>5 DEF Removed
    <3> QED BY <1>3, <3>3, <3>4
  <2>6. CASE o.op = "remove"
    <3>1. o = Remove(o.m) /\ Write(o.m) \notin Elems(ops)
      BY <1>2, <2>1, <2>2, <2>3, <2>6, DistinctMarkers
    <3>2. markerSet' \subseteq markerSet /\ o.m \notin markerSet'
      BY <1>6, <2>6 DEF Swap, FileOp, FileRemoved, RemoveFails, Removed, OneInv
    <3>3. ASSUME NEW m \in Markers, Pending(m)' PROVE Pending(m)
      <4>1. CASE m = o.m
        BY <2>1, <2>4, <3>1, <3>2, <3>3, <4>1 DEF Pending, ToDo
      <4>2. CASE m # o.m
        <5>1. Write(m) # o /\ Remove(m) # o
          BY <2>3, <4>2
        <5>2. (Write(m) \in ToDo' <=> Write(m) \in ToDo)
              /\ (Remove(m) \in ToDo' <=> Remove(m) \in ToDo)
          BY <2>1, <2>4, <5>1 DEF ToDo
        <5> QED BY <3>2, <3>3, <5>2 DEF Pending
      <4> QED BY <4>1, <4>2
    <3>4. Removed'
      BY <2>1, <2>4, <3>2 DEF Removed
    <3> QED BY <1>3, <3>3, <3>4
  <2> QED
    BY <2>1, <2>5, <2>6 DEF Ops
<1> QED
  BY <1>4, <1>5, <1>6 DEF Works

\* Steps that shrink what is pending and leave the ticker where it stands.
LEMMA OneShrinks ==
  ASSUME OneInv, \A m \in Markers : Pending(m)' => Pending(m), Removed', ticker' = ticker
  PROVE  OneInv'
<1>1. "stalled" \in Markers
  BY DEF Markers
<1> QED
  BY <1>1 DEF OneInv, AtMostOne

\* Steps that neither the flags nor the work of the ticker take part in.
LEMMA OneSame ==
  ASSUME OneInv, markerSet' = markerSet, thread'["ticker"] = thread["ticker"],
         ticker' = ticker
  PROVE  OneInv'
<1>1. (\A m \in Markers : Pending(m)' => Pending(m)) /\ Removed'
  BY DEF Pending, ToDo, Removed, OneInv
<1> QED
  BY <1>1, OneShrinks

\* A free ticker has nothing to do; what it begins is what it has to do.
LEMMA TickerBegins ==
  ASSUME TypeInv, Free("ticker"), NEW ops, Does("ticker", ops), markerSet' = markerSet
  PROVE  /\ \A m \in Markers : Pending(m) <=> m \in markerSet
         /\ \A m \in Markers : Pending(m)' <=>
              (m \in markerSet \/ Write(m) \in Elems(ops)) /\ Remove(m) \notin Elems(ops)
         /\ Removed'
<1>1. "ticker" \in Threads
  BY DEF Threads
<1>2. thread["ticker"].todo = <<>> /\ ~thread["ticker"].swapped
  BY DEF Free, Idle
<1>3. thread'["ticker"].todo = ops /\ ~thread'["ticker"].swapped
  BY <1>1, <1>2 DEF Does, TypeInv, WorkInv, Work
<1>4. ToDo = {}
  BY <1>2 DEF ToDo, Elems
<1>5. ToDo' = Elems(ops)
  BY <1>3 DEF ToDo
<1> QED
  BY <1>3, <1>4, <1>5 DEF Pending, Removed

\* What the lists of the ticker hold.
LEMMA ListElems ==
  /\ Elems(<<>>) = {}
  /\ \A o : Elems(<<o>>) = {o}
  /\ \A o, p, q : Elems(<<o, p, q>>) = {o, p, q}
<1>1. Elems(<<>>) = {}
  BY DEF Elems
<1>2. \A o : Elems(<<o>>) = {o}
  BY DEF Elems
<1>3. ASSUME NEW o, NEW p, NEW q PROVE Elems(<<o, p, q>>) = {o, p, q}
  <2>1. Len(<<o, p, q>>) = 3 /\ 1..3 = {1, 2, 3}
    OBVIOUS
  <2>2. <<o, p, q>>[1] = o /\ <<o, p, q>>[2] = p /\ <<o, p, q>>[3] = q
    OBVIOUS
  <2> QED
    BY <2>1, <2>2 DEF Elems
<1> QED
  BY <1>1, <1>2, <1>3

\* The evaluation, check by check.
LEMMA OneTicker ==
  ASSUME TypeInv, OneInv, Ticker
  PROVE  OneInv'
<1>1. Free("ticker") /\ markerSet' = markerSet /\ markerSet \subseteq Markers
  BY DEF Ticker, Tick, CheckStalled, CheckCatchup, CheckIdle, TickerEnds, At,
         TypeInv, StateInv
<1>2. ticker \in [pc : {"wait", "stalled", "catchup", "idle", "off"}, held : Levels]
  BY DEF TypeInv, StateInv
<1>3. \A m, n \in Markers : m # n => Write(m) # Write(n) /\ Remove(m) # Remove(n)
  BY DEF Write, Remove
<1>4. \A m, n \in Markers : Write(m) # Remove(n)
  BY DEF Write, Remove
<1>5. Markers = {"catchup", "stalled", "idle"}
  BY DEF Markers
<1>6. \A m \in Markers : Remove(m) \in Elems(RemoveAll)
  BY <1>5, ListElems DEF RemoveAll
<1>7. CASE Tick
  <2>1. CASE activeConn = NoConn
    <3>1. Does("ticker", RemoveAll) /\ ticker' = ticker
      BY <1>7, <2>1 DEF Tick
    <3>2. Removed' /\ \A m \in Markers : ~Pending(m)'
      BY <1>1, <1>6, <3>1, TickerBegins
    <3> QED BY <3>1, <3>2, OneShrinks
  <2>2. CASE activeConn # NoConn
    <3>1. thread' = thread /\ ticker' = [ticker EXCEPT !.pc = "stalled"] /\ ticker.pc = "wait"
      BY <1>7, <2>2 DEF Tick, At
    <3>2. ticker'.pc = "stalled"
      BY <1>2, <3>1
    <3>3. (\A m \in Markers : Pending(m)' <=> Pending(m)) /\ Removed'
      BY <1>1, <3>1 DEF Pending, ToDo, Removed, OneInv
    <3> QED BY <3>1, <3>2, <3>3 DEF OneInv, AtMostOne
  <2> QED BY <2>1, <2>2
<1>8. CASE CheckStalled
  <2>1. CASE Does("ticker", StalledOps) /\ ticker' = [pc |-> "wait", held |-> 0]
    <3>1. Elems(StalledOps) = {Write("stalled"), Remove("catchup"), Remove("idle")}
      BY ListElems DEF StalledOps
    <3>2. Removed' /\ \A m \in Markers : Pending(m)' => m = "stalled"
      BY <1>1, <1>5, <2>1, <3>1, TickerBegins
    <3>3. ticker'.pc = "wait"
      BY <2>1
    <3> QED BY <3>2, <3>3 DEF OneInv, AtMostOne
  <2>2. CASE Does("ticker", <<Remove("stalled")>>) /\ ticker' = [pc |-> "catchup", held |-> held]
    <3>1. Elems(<<Remove("stalled")>>) = {Remove("stalled")}
      BY ListElems
    <3>2. /\ Removed' /\ ~Pending("stalled")'
          /\ \A m \in Markers : Pending(m)' => Pending(m)
      BY <1>1, <1>4, <1>5, <2>2, <3>1, TickerBegins
    <3>3. ticker.pc = "stalled" /\ ticker'.pc = "catchup"
      BY <1>8, <2>2 DEF CheckStalled, At
    <3> QED BY <3>2, <3>3 DEF OneInv, AtMostOne
  <2> QED BY <1>8, <2>1, <2>2 DEF CheckStalled
<1>9. CASE CheckCatchup
  <2>1. ticker.pc = "catchup" /\ ticker'.pc = "idle"
    BY <1>9 DEF CheckCatchup, At
  <2>2. PICK ops \in {<<>>, <<Remove("catchup")>>, <<Write("catchup")>>} : Does("ticker", ops)
    BY <1>9 DEF CheckCatchup
  <2>3. Write("stalled") \notin Elems(ops)
    BY <1>3, <1>4, <1>5, <2>2, ListElems
  <2>4. Removed' /\ (Pending("stalled")' => Pending("stalled"))
    BY <1>1, <1>5, <2>2, <2>3, TickerBegins
  <2> QED BY <2>1, <2>4 DEF OneInv
<1>10. CASE CheckIdle
  <2>1. ticker.pc = "idle" /\ ticker'.pc = "wait"
    BY <1>10 DEF CheckIdle, At
  <2>2. PICK ops \in {<<Write("idle")>>, <<Remove("idle")>>} :
          Does("ticker", ops) /\ ("catchup" \in markerSet => ops = <<Remove("idle")>>)
    BY <1>10 DEF CheckIdle
  <2>3. "stalled" \notin markerSet
    BY <1>1, <1>5, <2>1, <2>2, TickerBegins DEF OneInv
  <2>4. CASE ops = <<Remove("idle")>>
    <3>1. Elems(ops) = {Remove("idle")}
      BY <2>4, ListElems
    <3>2. Removed' /\ \A m \in Markers : Pending(m)' => m = "catchup"
      BY <1>1, <1>4, <1>5, <2>2, <2>3, <3>1, TickerBegins
    <3> QED BY <2>1, <3>2 DEF OneInv, AtMostOne
  <2>5. CASE ops = <<Write("idle")>> /\ "catchup" \notin markerSet
    <3>1. Elems(ops) = {Write("idle")}
      BY <2>5, ListElems
    <3>2. Removed' /\ \A m \in Markers : Pending(m)' => m = "idle"
      BY <1>1, <1>3, <1>5, <2>2, <2>3, <2>5, <3>1, TickerBegins
    <3> QED BY <2>1, <3>2 DEF OneInv, AtMostOne
  <2> QED BY <2>2, <2>4, <2>5
<1>11. CASE TickerEnds
  <2>1. Does("ticker", RemoveAll) /\ ticker'.pc = "off"
    BY <1>2, <1>11 DEF TickerEnds
  <2>2. Removed'
    BY <1>1, <2>1, TickerBegins
  <2> QED BY <2>1, <2>2 DEF OneInv
<1> QED
  BY <1>7, <1>8, <1>9, <1>10, <1>11 DEF Ticker

\* Every step keeps the flags from contradicting each other.
LEMMA OneStep == TypeInv /\ OneInv /\ [Next]_vars => OneInv'
<1> SUFFICES ASSUME TypeInv, OneInv, [Next]_vars PROVE OneInv'
  OBVIOUS
<1>a. "ticker" \notin Conns /\ thread \in [Threads -> Work] /\ "ticker" \in Threads
  BY ConnsAssumption DEF TypeInv, WorkInv, Threads
<1>1. CASE Ticker
  BY <1>1, OneTicker
<1>2. ASSUME NEW t \in Threads, Works(t) PROVE OneInv'
  BY <1>2, WorksShrink, OneShrinks
<1>3. CASE PumpAppends
  BY <1>3, <1>a, OneSame DEF PumpAppends, Does
<1>4. CASE PumpEnds
  BY <1>4, OneSame DEF PumpEnds
<1>5. ASSUME NEW c \in Conns, Attach(c) \/ Ack(c) \/ Detach(c) PROVE OneInv'
  <2>1. thread'["ticker"] = thread["ticker"]
    BY <1>5, <1>a DEF Attach, Ack, Detach, Does
  <2> QED BY <1>5, <2>1, OneSame DEF Attach, Ack, Detach
<1>6. ASSUME NEW k \in Clocks, Elapse(k) PROVE OneInv'
  BY <1>6, OneSame DEF Elapse
<1>7. CASE UNCHANGED vars
  BY <1>7, OneSame DEF vars
<1> QED
  BY <1>1, <1>2, <1>3, <1>4, <1>5, <1>6, <1>7 DEF Next

\* Between two evaluations a session is stalled, or in catchup, or idle, never
\* two of them, whatever attaches, ACKs and failed writes fall in between.
THEOREM MarkersExclude == Spec => []OneMarkerAtATime
<1>1. Init => OneInv
  <2> SUFFICES ASSUME Init PROVE OneInv
    OBVIOUS
  <2>1. "ticker" \in Threads /\ ~Idle.swapped /\ Idle.todo = <<>>
    BY DEF Threads, Idle
  <2>2. thread["ticker"] = Idle
    BY <2>1 DEF Init
  <2>3. Removed /\ ToDo = {} /\ markerSet = {} /\ ticker.pc = "wait"
    BY <2>1, <2>2 DEF Removed, ToDo, Elems, Init
  <2> QED BY <2>3 DEF OneInv, AtMostOne, Pending
<1>2. TypeInv /\ OneInv => OneMarkerAtATime
  <2> SUFFICES ASSUME TypeInv, OneInv, At("wait") PROVE Cardinality(markerSet) <= 1
    BY DEF OneMarkerAtATime
  <2>1. thread["ticker"].todo = <<>>
    BY DEF At, Free, Idle
  <2>2. \A m \in markerSet : m \in Markers /\ Pending(m)
    BY <2>1 DEF Pending, ToDo, Elems, TypeInv, StateInv
  <2>3. \A m, n \in markerSet : m = n
    BY <2>2 DEF OneInv, AtMostOne, At
  <2>4. CASE markerSet = {}
    BY <2>4, FS_EmptySet
  <2>5. CASE markerSet # {}
    <3>1. PICK m : markerSet = {m}
      BY <2>3, <2>5
    <3> QED BY <3>1, FS_Singleton
  <2> QED BY <2>4, <2>5
<1> QED
  BY <1>1, <1>2, OneStep, TypeAlways, PTL DEF Spec

=============================================================================
